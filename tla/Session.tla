------------------------------ MODULE Session ------------------------------
(***************************************************************************)
(* Per-process BlazingMQ session and queue-handle cache of pg_blazingmq.   *)
(*                                                                         *)
(* A process (a Postgres backend or a subscriber worker) starts one        *)
(* bmqa::Session on first use and keeps, for every queue URI it has        *)
(* touched, one READ|WRITE handle together with the subscription           *)
(* expression it believes the handle carries (g_queues).  The broker keeps *)
(* its own table of open handles (handles); the module follows both, since *)
(* every decision of get_queue is taken from the local copy.               *)
(***************************************************************************)
CONSTANTS
  Proc,        \* processes of one server that load the extension
  Uri,         \* values of blazingmq.broker_uri
  DefaultUri,  \* the value a new process starts with
  Queue,       \* queue URIs
  Expr,        \* non-empty subscription expressions
  BadExpr,     \* those addOrUpdateSubscription rejects
  NoExpr,      \* the empty expression
  None         \* absence of a session, of a handle

ASSUME SessionAssumption ==
  /\ DefaultUri \in Uri
  /\ BadExpr \subseteq Expr
  /\ NoExpr \notin Expr
  /\ None \notin Uri \cup Expr \cup {NoExpr}

VARIABLES
  g_broker_uri, \* the GUC, per process
  g_session,    \* broker URI the process's session was started against
  g_queues,     \* handle cache: the expression remembered for each queue
  handles,      \* broker: the filter in force on each open handle
  pc,           \* where the process is in the current SQL call
  arg,          \* queue_uri and subscription_expr of that call
  doubt         \* ghost: expressions of opens and reconfigures that timed out
                \* since the last one that succeeded

cacheVars   == <<g_queues, handles, doubt>>
sessionVars == <<g_broker_uri, g_session, g_queues, handles, pc, arg, doubt>>

Filter  == Expr \cup {NoExpr}
NoArg   == [uri |-> None, subscriptionExpr |-> NoExpr]
Args    == [uri : Queue \cup {None}, subscriptionExpr : Filter]

\* Steps of a call up to the point where get_queue() has returned.
EntryPc == {"idle", "get_session", "get_queue", "ready"}

SessionTypes(Labels) ==
  /\ g_broker_uri \in [Proc -> Uri]
  /\ g_session \in [Proc -> Uri \cup {None}]
  /\ g_queues \in [Proc -> [Queue -> Filter \cup {None}]]
  /\ handles \in [Proc -> [Queue -> Filter \cup {None}]]
  /\ arg \in [Proc -> Args]
  /\ doubt \in [Proc -> [Queue -> SUBSET Filter]]
  /\ pc \in [Proc -> Labels]
  /\ \A p \in Proc : pc[p] \in EntryPc \ {"idle"} => arg[p].uri \in Queue

\* The type invariant of the handle cache, the broker's handle table and the
\* calls that use them.
SessionTypeOK == SessionTypes(EntryPc)

SessionInit ==
  /\ g_broker_uri = [p \in Proc |-> DefaultUri]
  /\ g_session = [p \in Proc |-> None]
  /\ g_queues = [p \in Proc |-> [q \in Queue |-> None]]
  /\ handles = [p \in Proc |-> [q \in Queue |-> None]]
  /\ pc = [p \in Proc |-> "idle"]
  /\ arg = [p \in Proc |-> NoArg]
  /\ doubt = [p \in Proc |-> [q \in Queue |-> {}]]

Goto(p, from, to) == pc[p] = from /\ pc' = [pc EXCEPT ![p] = to]

\* The SQL call is over, by return or ereport(ERROR); what was cached stays.
EndCall(p, from) == Goto(p, from, "idle") /\ arg' = [arg EXCEPT ![p] = NoArg]

(***************************************************************************)
(* The user's SET blazingmq.broker_uri.                                    *)
(***************************************************************************)
SetBrokerUri(p, u) ==
  /\ pc[p] = "idle"
  /\ g_broker_uri' = [g_broker_uri EXCEPT ![p] = u]
  /\ UNCHANGED <<g_session, g_queues, handles, pc, arg, doubt>>

\* Mutant: the call's arguments are not taken over.
EnterWithoutArgs(p, q, e) ==
  /\ Goto(p, "idle", "get_session")
  /\ UNCHANGED <<g_broker_uri, g_session, g_queues, handles, arg, doubt>>

\* An entry point reaches get_session(); bmq_publish_row passes NoExpr.
Enter(p, q, e) ==
  /\ Goto(p, "idle", "get_session")
  /\ arg' = [arg EXCEPT ![p] = [uri |-> q, subscriptionExpr |-> e]]
  /\ UNCHANGED <<g_broker_uri, g_session, g_queues, handles, doubt>>

(***************************************************************************)
(* get_session()                                                           *)
(***************************************************************************)
ReuseSession(p) ==
  /\ g_session[p] # None
  /\ Goto(p, "get_session", "get_queue")
  /\ UNCHANGED <<g_broker_uri, g_session, g_queues, handles, arg, doubt>>

StartSession(p) ==
  /\ g_session[p] = None
  /\ g_session' = [g_session EXCEPT ![p] = g_broker_uri[p]]
  /\ Goto(p, "get_session", "get_queue")
  /\ UNCHANGED <<g_broker_uri, g_queues, handles, arg, doubt>>

\* session->start() returned non-zero: nothing is kept, the call fails.
StartFails(p) ==
  /\ g_session[p] = None
  /\ EndCall(p, "get_session")
  /\ UNCHANGED <<g_broker_uri, g_session, g_queues, handles, doubt>>

GetSession(p) == ReuseSession(p) \/ StartSession(p) \/ StartFails(p)

(***************************************************************************)
(* get_queue()                                                             *)
(***************************************************************************)
Cached(p) == g_queues[p][arg[p].uri]

\* Mutant: any cached handle will do, whatever filter it carries.
HandleFitsAnyFilter(p) == Cached(p) # None

\* The cached handle is used as it is.
HandleFits(p) ==
  /\ Cached(p) # None
  /\ arg[p].subscriptionExpr \in {NoExpr, Cached(p)}

MustReconfigure(p) == Cached(p) # None /\ ~HandleFits(p)

ReuseHandle(p) ==
  /\ HandleFits(p)
  /\ Goto(p, "get_queue", "ready")
  /\ UNCHANGED <<g_broker_uri, g_session, arg, cacheVars>>

\* Mutant: the new expression is not remembered after the reconfigure.
ReconfigureForgets(p) ==
  LET q == arg[p].uri
      e == arg[p].subscriptionExpr
  IN /\ MustReconfigure(p)
     /\ e \notin BadExpr
     /\ handles' = [handles EXCEPT ![p][q] = e]
     /\ doubt' = [doubt EXCEPT ![p][q] = {}]
     /\ Goto(p, "get_queue", "ready")
     /\ UNCHANGED <<g_broker_uri, g_session, g_queues, arg>>

\* configureQueueSync() succeeded: the broker and then the cache change.
Reconfigure(p) ==
  LET q == arg[p].uri
      e == arg[p].subscriptionExpr
  IN /\ MustReconfigure(p)
     /\ e \notin BadExpr
     /\ handles' = [handles EXCEPT ![p][q] = e]
     /\ g_queues' = [g_queues EXCEPT ![p][q] = e]
     /\ doubt' = [doubt EXCEPT ![p][q] = {}]
     /\ Goto(p, "get_queue", "ready")
     /\ UNCHANGED <<g_broker_uri, g_session, arg>>

\* A request for the handle of q with expression e that did not succeed.  After
\* a refusal the broker's side is as it was; a timeout says nothing about it.
Refused  == UNCHANGED <<handles, doubt>>
TimedOut(p, q, e) ==
  /\ handles' \in {handles, [handles EXCEPT ![p][q] = e]}
  /\ doubt' = [doubt EXCEPT ![p][q] = @ \cup {e}]

\* configureQueueSync() reported anything but e_SUCCESS.
ReconfigureFails(p) ==
  LET q == arg[p].uri
      e == arg[p].subscriptionExpr
  IN /\ MustReconfigure(p)
     /\ e \notin BadExpr
     /\ Refused \/ TimedOut(p, q, e)
     /\ EndCall(p, "get_queue")
     /\ UNCHANGED <<g_broker_uri, g_session, g_queues>>

\* build_queue_options() throws before the broker is asked.
BadSubscription(p) ==
  /\ ~HandleFits(p)
  /\ arg[p].subscriptionExpr \in BadExpr
  /\ EndCall(p, "get_queue")
  /\ UNCHANGED <<g_broker_uri, g_session, cacheVars>>

\* openQueueSync() succeeded.  The broker refuses (ALREADY_OPENED) a URI this
\* session already has open.
OpenQueue(p) ==
  LET q == arg[p].uri
      e == arg[p].subscriptionExpr
  IN /\ Cached(p) = None
     /\ e \notin BadExpr
     /\ handles[p][q] = None
     /\ handles' = [handles EXCEPT ![p][q] = e]
     /\ g_queues' = [g_queues EXCEPT ![p][q] = e]
     /\ doubt' = [doubt EXCEPT ![p][q] = {}]
     /\ Goto(p, "get_queue", "ready")
     /\ UNCHANGED <<g_broker_uri, g_session, arg>>

\* openQueueSync() reported anything but e_SUCCESS.  Nothing is cached, and an
\* open that timed out may have left the session a handle it knows nothing of,
\* which has the broker refuse every later open of that URI.
OpenFails(p) ==
  LET q == arg[p].uri
      e == arg[p].subscriptionExpr
  IN /\ Cached(p) = None
     /\ e \notin BadExpr
     /\ Refused \/ (handles[p][q] = None /\ TimedOut(p, q, e))
     /\ EndCall(p, "get_queue")
     /\ UNCHANGED <<g_broker_uri, g_session, g_queues>>

GetQueue(p) ==
  /\ pc[p] = "get_queue"
  /\ \/ ReuseHandle(p)
     \/ Reconfigure(p)
     \/ ReconfigureFails(p)
     \/ BadSubscription(p)
     \/ OpenQueue(p)
     \/ OpenFails(p)

\* The call goes on with the handle; this module only lets it end.
Done(p) ==
  /\ EndCall(p, "ready")
  /\ UNCHANGED <<g_broker_uri, g_session, cacheVars>>

\* Mutant: the hook stops the session and leaves the handle cache allocated.
ExitKeepsCache(p) ==
  /\ g_session' = [g_session EXCEPT ![p] = None]
  /\ handles' = [handles EXCEPT ![p] = [q \in Queue |-> None]]
  /\ doubt' = [doubt EXCEPT ![p] = [q \in Queue |-> {}]]
  /\ g_broker_uri' = [g_broker_uri EXCEPT ![p] = DefaultUri]
  /\ pc' = [pc EXCEPT ![p] = "idle"]
  /\ arg' = [arg EXCEPT ![p] = NoArg]
  /\ UNCHANGED g_queues

(***************************************************************************)
(* pg_blazingmq_exit_hook(): the cache is deleted, the session stopped.    *)
(* A process that is killed loses the same state and its connection, on    *)
(* which the broker closes its handles.  Another process takes the slot.   *)
(***************************************************************************)
Exit(p) ==
  /\ g_queues' = [g_queues EXCEPT ![p] = [q \in Queue |-> None]]
  /\ g_session' = [g_session EXCEPT ![p] = None]
  /\ handles' = [handles EXCEPT ![p] = [q \in Queue |-> None]]
  /\ doubt' = [doubt EXCEPT ![p] = [q \in Queue |-> {}]]
  /\ g_broker_uri' = [g_broker_uri EXCEPT ![p] = DefaultUri]
  /\ pc' = [pc EXCEPT ![p] = "idle"]
  /\ arg' = [arg EXCEPT ![p] = NoArg]

SessionNext ==
  \E p \in Proc :
    \/ \E u \in Uri : SetBrokerUri(p, u)
    \/ \E q \in Queue, e \in Filter : Enter(p, q, e)
    \/ GetSession(p)
    \/ GetQueue(p)
    \/ Done(p)
    \/ Exit(p)

SessionSpec == SessionInit /\ [][SessionNext]_sessionVars

-----------------------------------------------------------------------------
(***************************************************************************)
(* Properties                                                              *)
(***************************************************************************)

\* The cache is right about the broker but for timeouts: a cached handle is open,
\* and whatever is open, filter or handle, is what the cache remembers or was
\* asked for by a request that timed out since the last success.  So only a
\* timed-out open makes get_queue open a URI twice in a session.
CacheMatchesBroker ==
  \A p \in Proc, q \in Queue :
    /\ g_queues[p][q] # None => handles[p][q] # None
    /\ handles[p][q] \in {g_queues[p][q]} \cup doubt[p][q]

\* When get_queue has returned to a call that asked for an expression, the broker
\* filters by that expression or, since get_queue trusts its cache also after a
\* timeout, by one whose reconfigure timed out since the last success.  (That a
\* second expression on a cached handle is no error is against the comment on
\* QueueEntry; get_queue reconfigures.)
FilterInForce ==
  \A p \in Proc :
    LET q == arg[p].uri
        e == arg[p].subscriptionExpr
    IN  pc[p] = "ready" /\ e # NoExpr => handles[p][q] \in {e} \cup doubt[p][q]

\* A process without a session holds no handle, neither in its cache nor at the
\* broker: the exit hook and a failed start leave nothing behind.
NoHandleWithoutSession ==
  \A p \in Proc, q \in Queue :
    g_session[p] = None => g_queues[p][q] = None /\ handles[p][q] = None

\* What a call between get_session and its end relies on: its session is
\* started, and once get_queue has returned the cache entry fits the request.
EntryInvariant ==
  \A p \in Proc :
    /\ pc[p] \in {"get_queue", "ready"} => g_session[p] # None
    /\ pc[p] = "ready" => HandleFits(p)

\* The inductive invariant behind the three properties above.
SessionIInv ==
  /\ CacheMatchesBroker
  /\ NoHandleWithoutSession
  /\ EntryInvariant
=============================================================================
