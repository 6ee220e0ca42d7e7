----------------------------- MODULE Subscriber -----------------------------
(***************************************************************************)
(* Push consumption: bmq_subscribe() hands a pinned shared-memory segment  *)
(* to a background worker and waits, bounded, for its ready flag; the      *)
(* worker runs the callback of every message in a transaction of its own   *)
(* and confirms after the commit; bmq_unsubscribe() signals it.            *)
(*                                                                         *)
(* A worker process and its PID are one element of Worker, free again once *)
(* the process is gone.  A segment is pinned and never unpinned, so each   *)
(* one serves one subscription and names it.                               *)
(***************************************************************************)
EXTENDS Broker

CONSTANTS
  Backend,  \* the processes that serve SQL sessions
  Worker,   \* the background worker slots
  Seg,      \* the dynamic shared memory segments the server can create
  Faults    \* what may go wrong: "crash", "startup", "callback", "commit", "confirm"

ASSUME SubscriberAssumption ==
  /\ Proc = Backend \cup Worker
  /\ Backend \cap Worker = {}
  /\ None \notin Proc \cup Seg \cup Msg \cup Args

VARIABLES
  config,    \* what bmq_subscribe wrote into each segment
  pinned,    \* segments that outlive their attachments
  attached,  \* processes that have each segment mapped
  ready,     \* the ready flag of each segment
  segOf,     \* the segment a caller or a worker was started with
  visible,   \* workers with a row in pg_stat_activity
  shutdown,  \* workers with ShutdownRequestPending
  target,    \* the worker a bmq_unsubscribe call has checked
  workIter,  \* messages of the worker's current event still to come
  current,   \* the message whose transaction the worker is in
  applied,   \* ghost: messages whose callback this worker process committed
  effects,   \* ghost: messages whose callback was ever committed
  promised   \* ghost: subscriptions reported ready to their caller

handoffVars == <<config, pinned, attached, ready, segOf, promised>>
signalVars  == <<visible, shutdown, target>>
workVars    == <<workIter, current, applied, effects>>
subVars     == <<handoffVars, signalVars, workVars>>
subAll      == <<sessionVars, brokerVars, subVars>>

CallerPc == {"wait_start", "wait_ready", "last_look", "warning", "kill"}
WorkerPc == {"registered", "attach", "connect", "loop", "dispatch", "commit", "confirm"}

\* The type invariant of callers, workers and the segments between them.
SubTypeOK ==
  /\ SessionTypes(EntryPc \cup CallerPc \cup WorkerPc)
  /\ BrokerTypes
  /\ config \in [Seg -> Args \cup {None}]
  /\ pinned \subseteq Seg
  /\ attached \in [Seg -> SUBSET Proc]
  /\ ready \in [Seg -> BOOLEAN]
  /\ segOf \in [Proc -> Seg \cup {None}]
  /\ visible \subseteq Worker
  /\ shutdown \subseteq Worker
  /\ target \in [Backend -> Worker \cup {None}]
  /\ workIter \in [Worker -> SUBSET Msg]
  /\ current \in [Worker -> Msg \cup {None}]
  /\ applied \in [Worker -> SUBSET Msg]
  /\ effects \subseteq Msg
  /\ promised \subseteq Seg

SubInit ==
  /\ SessionInit
  /\ BrokerInit
  /\ config = [s \in Seg |-> None]
  /\ pinned = {} /\ promised = {}
  /\ attached = [s \in Seg |-> {}]
  /\ ready = [s \in Seg |-> FALSE]
  /\ segOf = [p \in Proc |-> None]
  /\ visible = {} /\ shutdown = {}
  /\ target = [p \in Backend |-> None]
  /\ workIter = [w \in Worker |-> {}]
  /\ current = [w \in Worker |-> None]
  /\ applied = [w \in Worker |-> {}]
  /\ effects = {}

HandleVars == <<g_broker_uri, g_session, cacheVars>>

\* A segment is there while somebody has it mapped or it is pinned.
Exists(s) == s \in pinned \/ attached[s] # {}

\* The worker process of subscription s, from registration to its end.
ServedBy(s, w) == segOf[w] = s
Served(s)      == \E w \in Worker : ServedBy(s, w)

Detach(p) ==
  attached' = [s \in Seg |-> IF s = segOf[p] THEN attached[s] \ {p} ELSE attached[s]]

(***************************************************************************)
(* bmq_subscribe()                                                         *)
(***************************************************************************)
\* Mutant: the segment is not pinned.
SubscribeUnpinned(p, q, e, s, w) ==
  LET cfg == [uri |-> q, subscriptionExpr |-> e]
  IN /\ pc[p] = "idle" /\ pc[w] = "idle" /\ config[s] = None
     /\ config' = [config EXCEPT ![s] = cfg]
     /\ attached' = [attached EXCEPT ![s] = {p}]
     /\ segOf' = [segOf EXCEPT ![p] = s, ![w] = s]
     /\ pc' = [pc EXCEPT ![p] = "wait_start", ![w] = "registered"]
     /\ UNCHANGED <<HandleVars, arg, brokerVars, pinned, ready, promised, signalVars, workVars>>

\* The segment is created, filled and pinned, and the worker registered.
Subscribe(p, q, e, s, w) ==
  LET cfg == [uri |-> q, subscriptionExpr |-> e]
  IN /\ pc[p] = "idle" /\ pc[w] = "idle" /\ config[s] = None
     /\ config' = [config EXCEPT ![s] = cfg]
     /\ attached' = [attached EXCEPT ![s] = {p}]
     /\ pinned' = pinned \cup {s}
     /\ segOf' = [segOf EXCEPT ![p] = s, ![w] = s]
     /\ pc' = [pc EXCEPT ![p] = "wait_start", ![w] = "registered"]
     /\ UNCHANGED <<HandleVars, arg, brokerVars, ready, promised, signalVars, workVars>>

\* RegisterDynamicBackgroundWorker() found no free slot: ERROR.  The detach
\* leaves the pinned segment behind.
RegisterFails(p, q, e, s) ==
  /\ pc[p] = "idle" /\ config[s] = None
  /\ \A w \in Worker : pc[w] # "idle"
  /\ config' = [config EXCEPT ![s] = [uri |-> q, subscriptionExpr |-> e]]
  /\ pinned' = pinned \cup {s}
  /\ UNCHANGED <<sessionVars, brokerVars, attached, ready, segOf, promised, signalVars, workVars>>

\* The call is over; the caller's mapping goes with it.
LeaveSubscribe(p) ==
  /\ Detach(p)
  /\ segOf' = [segOf EXCEPT ![p] = None]
  /\ UNCHANGED <<HandleVars, arg, brokerVars, config, pinned, ready, signalVars, workVars>>

CallerWaits(p) == UNCHANGED <<HandleVars, arg, brokerVars, subVars>>

\* WaitForBackgroundWorkerStartup() returned BGWH_STARTED.
SeeStarted(p) ==
  /\ Goto(p, "wait_start", "wait_ready")
  /\ \E w \in Worker : ServedBy(segOf[p], w) /\ pc[w] # "registered"
  /\ CallerWaits(p)

\* It returned BGWH_STOPPED: the worker is gone already, ERROR.
SeeStopped(p) ==
  /\ Goto(p, "wait_start", "idle")
  /\ ~Served(segOf[p])
  /\ LeaveSubscribe(p)
  /\ UNCHANGED promised

\* The wait is cancelled; the worker is not.
WaitInterrupted(p) ==
  /\ Goto(p, "wait_start", "idle")
  /\ LeaveSubscribe(p)
  /\ UNCHANGED promised

\* The poll loop ends, by the flag or after ready_timeout_ms.
SeeReady(p) ==
  /\ Goto(p, "wait_ready", "last_look")
  /\ ready[segOf[p]]
  /\ CallerWaits(p)

\* Mutant: the wait for the flag is not bounded.
ReadyNoTimeout(p) == FALSE /\ UNCHANGED subAll

ReadyTimeout(p) ==
  /\ Goto(p, "wait_ready", "last_look")
  /\ ~ready[segOf[p]]
  /\ CallerWaits(p)

\* The flag is read once more: return the PID, after a WARNING if it is unset.
ReturnReady(p) ==
  /\ Goto(p, "last_look", "idle")
  /\ ready[segOf[p]]
  /\ LeaveSubscribe(p)
  /\ promised' = promised \cup {segOf[p]}

Warn(p) ==
  /\ Goto(p, "last_look", "warning")
  /\ ~ready[segOf[p]]
  /\ CallerWaits(p)

ReturnWarned(p) ==
  /\ Goto(p, "warning", "idle")
  /\ LeaveSubscribe(p)
  /\ UNCHANGED promised

SubscribeStep(p) ==
  \/ SeeStarted(p) \/ SeeStopped(p)
  \/ SeeReady(p) \/ ReadyTimeout(p) \/ Warn(p) \/ ReturnReady(p) \/ ReturnWarned(p)

(***************************************************************************)
(* bmq_unsubscribe(): look the PID up, then signal it.                     *)
(***************************************************************************)
CheckPid(p, w) ==
  /\ w \in visible
  /\ Goto(p, "idle", "kill")
  /\ target' = [target EXCEPT ![p] = w]
  /\ UNCHANGED <<HandleVars, arg, brokerVars, handoffVars, visible, shutdown, workVars>>

\* kill() reaches the process that has the PID now, if any.
Kill(p) ==
  /\ Goto(p, "kill", "idle")
  /\ target' = [target EXCEPT ![p] = None]
  /\ shutdown' = IF pc[target[p]] \in {"idle", "registered"}
                   THEN shutdown ELSE shutdown \cup {target[p]}
  /\ UNCHANGED <<HandleVars, arg, brokerVars, handoffVars, visible, workVars>>

(***************************************************************************)
(* bmq_subscriber_main()                                                   *)
(***************************************************************************)
\* proc_exit(), with the exit hook, or the death of the process.
WorkerEnds(w) ==
  /\ Exit(w)
  /\ Disconnect(w)
  /\ Detach(w)
  /\ segOf' = [segOf EXCEPT ![w] = None]
  /\ visible' = visible \ {w}
  /\ shutdown' = shutdown \ {w}
  /\ workIter' = [workIter EXCEPT ![w] = {}]
  /\ current' = [current EXCEPT ![w] = None]
  /\ applied' = [applied EXCEPT ![w] = {}]
  /\ UNCHANGED <<config, pinned, ready, promised, target, effects>>

\* The postmaster starts the process.
Fork(w) ==
  /\ Goto(w, "registered", "attach")
  /\ UNCHANGED <<HandleVars, arg, brokerVars, subVars>>

\* dsm_attach() and the copy of the configuration.
Attach(w) ==
  /\ Goto(w, "attach", "connect")
  /\ Exists(segOf[w])
  /\ attached' = [attached EXCEPT ![segOf[w]] = @ \cup {w}]
  /\ arg' = [arg EXCEPT ![w] = config[segOf[w]]]
  /\ UNCHANGED <<HandleVars, brokerVars, config, pinned, ready, segOf, promised>>
  /\ UNCHANGED <<signalVars, workVars>>

\* Mutant: readiness is reported before the queue is open.
ConnectReady(w) ==
  /\ Goto(w, "connect", "get_session")
  /\ visible' = visible \cup {w}
  /\ ready' = [ready EXCEPT ![segOf[w]] = TRUE]
  /\ UNCHANGED <<HandleVars, arg, brokerVars, config, pinned, attached, segOf, promised>>
  /\ UNCHANGED <<shutdown, target, workVars>>

\* BackgroundWorkerInitializeConnectionByOid().
Connect(w) ==
  /\ Goto(w, "connect", "get_session")
  /\ visible' = visible \cup {w}
  /\ UNCHANGED <<HandleVars, arg, brokerVars, handoffVars, shutdown, target, workVars>>

\* get_session() and get_queue() succeed; a failure is StartupFails.
Open(w) ==
  /\ SessionStep(w)
  /\ pc[w] # "idle" /\ pc'[w] # "idle"
  /\ UNCHANGED subVars

\* The fork, attaching or connecting failed, or get_session() or get_queue()
\* threw; BGW_NEVER_RESTART leaves it at that.
StartupFails(w) ==
  /\ "startup" \in Faults
  /\ pc[w] \in {"registered", "attach", "connect", "get_session", "get_queue"}
  /\ WorkerEnds(w)

ReportReady(w) ==
  /\ Goto(w, "ready", "loop")
  /\ ready' = [ready EXCEPT ![segOf[w]] = TRUE]
  /\ Detach(w)
  /\ UNCHANGED <<HandleVars, arg, brokerVars, config, pinned, segOf, promised>>
  /\ UNCHANGED <<signalVars, workVars>>

\* nextEvent() returned a PUSH event.
Receive(w, E) ==
  /\ w \notin shutdown
  /\ E # {} /\ E \subseteq inbox[w]
  /\ Goto(w, "loop", "dispatch")
  /\ inbox' = [inbox EXCEPT ![w] = @ \ E]
  /\ workIter' = [workIter EXCEPT ![w] = E]
  /\ UNCHANGED <<posted, outbox, stored, held, confirming, confirmed, early>>
  /\ UNCHANGED <<HandleVars, arg, handoffVars, signalVars, current, applied, effects>>

\* Mutant: m is confirmed when its callback starts.
CallbackConfirming(w, m) ==
  /\ m \in workIter[w]
  /\ Goto(w, "dispatch", "commit")
  /\ workIter' = [workIter EXCEPT ![w] = @ \ {m}]
  /\ current' = [current EXCEPT ![w] = m]
  /\ confirming' = [confirming EXCEPT ![w] = @ \cup {m}]
  /\ UNCHANGED <<posted, outbox, stored, held, inbox, confirmed, early>>
  /\ UNCHANGED <<HandleVars, arg, handoffVars, signalVars, applied, effects>>

\* The callback of m ran and returned.
Callback(w, m) ==
  /\ m \in workIter[w]
  /\ Goto(w, "dispatch", "commit")
  /\ workIter' = [workIter EXCEPT ![w] = @ \ {m}]
  /\ current' = [current EXCEPT ![w] = m]
  /\ UNCHANGED <<HandleVars, arg, brokerVars, handoffVars, signalVars, applied, effects>>

\* "if (ShutdownRequestPending) break" after each message: the rest of the event
\* goes with the iterator.
NextMessage(w, from, rest) ==
  IF w \in shutdown
    THEN Goto(w, from, "loop") /\ workIter' = [workIter EXCEPT ![w] = {}]
    ELSE Goto(w, from, "dispatch") /\ workIter' = [workIter EXCEPT ![w] = rest]

\* The callback of m raised an error: rolled back, m left unconfirmed.
CallbackFails(w, m) ==
  /\ "callback" \in Faults
  /\ m \in workIter[w]
  /\ NextMessage(w, "dispatch", workIter[w] \ {m})
  /\ UNCHANGED <<HandleVars, arg, brokerVars, handoffVars, signalVars>>
  /\ UNCHANGED <<current, applied, effects>>

Commit(w) ==
  /\ Goto(w, "commit", "confirm")
  /\ applied' = [applied EXCEPT ![w] = @ \cup {current[w]}]
  /\ effects' = effects \cup {current[w]}
  /\ UNCHANGED <<HandleVars, arg, brokerVars, handoffVars, signalVars, workIter, current>>

\* An error raised by the commit itself is outside PG_TRY and ends the process.
CommitFails(w) ==
  /\ "commit" \in Faults
  /\ pc[w] = "commit"
  /\ WorkerEnds(w)

\* Mutant: a message whose confirm failed is dispatched once more.
ConfirmRetries(w) ==
  /\ \/ /\ confirming' = [confirming EXCEPT ![w] = @ \cup {current[w]}]
        /\ NextMessage(w, "confirm", workIter[w])
     \/ /\ NextMessage(w, "confirm", workIter[w] \cup {current[w]})
        /\ UNCHANGED confirming
  /\ current' = [current EXCEPT ![w] = None]
  /\ UNCHANGED <<posted, outbox, stored, held, inbox, confirmed, early>>
  /\ UNCHANGED <<HandleVars, arg, handoffVars, signalVars, applied, effects>>

\* confirmMessage(), whose result is ignored.
ConfirmCurrent(w) ==
  /\ NextMessage(w, "confirm", workIter[w])
  /\ \/ confirming' = [confirming EXCEPT ![w] = @ \cup {current[w]}]
     \/ "confirm" \in Faults /\ UNCHANGED confirming
  /\ current' = [current EXCEPT ![w] = None]
  /\ UNCHANGED <<posted, outbox, stored, held, inbox, confirmed, early>>
  /\ UNCHANGED <<HandleVars, arg, handoffVars, signalVars, applied, effects>>

EndOfEvent(w) ==
  /\ workIter[w] = {}
  /\ Goto(w, "dispatch", "loop")
  /\ UNCHANGED <<HandleVars, arg, brokerVars, subVars>>

\* Mutant: only the end of an event makes the worker look at the flag.
StopWhenDrained(w) == pc[w] = "loop" /\ w \in shutdown /\ held[w] = {} /\ WorkerEnds(w)

Stop(w) == pc[w] = "loop" /\ w \in shutdown /\ WorkerEnds(w)

WorkerStep(w) ==
  \/ Fork(w) \/ Attach(w) \/ Connect(w) \/ Open(w) \/ ReportReady(w)
  \/ \E E \in SUBSET inbox[w] : Receive(w, E)
  \/ \E m \in workIter[w] : Callback(w, m) \/ CallbackFails(w, m)
  \/ Commit(w) \/ ConfirmCurrent(w) \/ EndOfEvent(w) \/ Stop(w)

Crash(w) ==
  /\ "crash" \in Faults
  /\ pc[w] # "idle"
  /\ WorkerEnds(w)

(***************************************************************************)
(* The whole: backends publish, subscribe and unsubscribe.                 *)
(***************************************************************************)
SubscriberExit(p) ==
  /\ Exit(p)
  /\ Disconnect(p)
  /\ Detach(p)
  /\ segOf' = [segOf EXCEPT ![p] = None]
  /\ target' = [target EXCEPT ![p] = None]
  /\ UNCHANGED <<config, pinned, ready, promised, visible, shutdown, workVars>>

BackendCall(p) ==
  \/ /\ \E q \in Queue : Enter(p, q, NoExpr)
     /\ UNCHANGED <<brokerVars, subVars>>
  \/ \E q \in Queue, e \in Filter, s \in Seg :
       RegisterFails(p, q, e, s) \/ \E w \in Worker : Subscribe(p, q, e, s, w)
  \/ \E w \in Worker : CheckPid(p, w)

SubNext ==
  \/ \E p \in Backend :
       \/ BackendCall(p)
       \/ SessionStep(p) /\ UNCHANGED subVars
       \/ PublishRow(p) /\ UNCHANGED subVars
       \/ SubscribeStep(p)
       \/ WaitInterrupted(p)
       \/ Kill(p)
       \/ "crash" \in Faults /\ SubscriberExit(p)
  \/ \E w \in Worker : WorkerStep(w) \/ StartupFails(w) \/ CommitFails(w) \/ Crash(w)
  \/ BrokerStep /\ UNCHANGED subVars

SubSpec == SubInit /\ [][SubNext]_subAll

\* What the code's scheduling provides: a caller of bmq_subscribe gets on without
\* being cancelled, a worker process runs, the broker delivers.
SubFairness ==
  /\ \A p \in Backend :
       /\ WF_subAll(SubscribeStep(p))
       /\ WF_subAll(Kill(p))
       /\ WF_subAll(pc[p] # "idle" /\ (SessionStep(p) \/ PublishRow(p)) /\ UNCHANGED subVars)
  /\ \A w \in Worker : WF_subAll(WorkerStep(w) \/ StartupFails(w))
  /\ WF_subAll(BrokerStep /\ UNCHANGED subVars)

SubFairSpec == SubSpec /\ SubFairness

-----------------------------------------------------------------------------
(***************************************************************************)
(* Properties                                                              *)
(***************************************************************************)

\* The segment is there when the worker comes to attach it, even if the caller
\* was cancelled or died in between, and both sides have it mapped whenever they
\* read or write the ready flag.
SegmentMapped ==
  /\ \A w \in Worker :
       /\ pc[w] \in {"registered", "attach"} => Exists(segOf[w])
       /\ pc[w] \in {"connect", "get_session", "get_queue", "ready"} => w \in attached[segOf[w]]
  /\ \A p \in Backend :
       pc[p] \in CallerPc \ {"kill"} => p \in attached[segOf[p]]

\* If bmq_subscribe returned without a WARNING, the worker it started has its
\* queue open with the requested filter for as long as it lives, so a message
\* published next finds it.
ReadyMeansOpen ==
  \A s \in promised, w \in Worker :
    ServedBy(s, w) => handles[w][config[s].uri] = config[s].subscriptionExpr

\* At least once: a message is confirmed only after its callback's transaction has
\* committed, in the process that confirms it.
EffectBeforeConfirm ==
  /\ confirmed \subseteq effects
  /\ \A w \in Worker : confirming[w] \subseteq applied[w]

\* A worker runs the callback of a message it has committed no second time, so a
\* duplicate needs the process to end between commit and confirm.
OncePerProcess ==
  \A w \in Worker :
    /\ applied[w] \cap (inbox[w] \cup workIter[w]) = {}
    /\ pc[w] = "commit" => current[w] \notin applied[w]

\* What a worker works on is its own: pending events, the iterator, the current
\* message and its confirms are held for it by the broker and do not overlap.
WorkAccounted ==
  \A w \in Worker :
    LET cur == IF current[w] = None THEN {} ELSE {current[w]}
    IN  /\ inbox[w] \cup workIter[w] \cup cur \cup confirming[w] \subseteq held[w]
        /\ inbox[w] \cap (workIter[w] \cup cur \cup confirming[w]) = {}
        /\ workIter[w] \cap (cur \cup confirming[w]) = {}
        /\ cur \cap confirming[w] = {}

\* bmq_subscribe returns to its caller whatever becomes of the worker.
SubscribeReturns ==
  \A p \in Backend : pc[p] \in CallerPc \ {"kill"} ~> pc[p] = "idle"

\* A worker signalled by bmq_unsubscribe ends, even with messages it could not
\* deal with.
UnsubscribeStops ==
  \A w \in Worker : w \in shutdown ~> w \notin shutdown

\* Messages the worker holds and has dropped.
LeftUnconfirmed(w) == held[w] \ (inbox[w] \cup workIter[w] \cup {current[w]} \cup confirming[w])

\* pg_blazingmq--0.5.sql: a message whose callback failed is left unconfirmed and
\* "BlazingMQ will redeliver it".
FailedIsRedelivered ==
  \A w \in Worker, m \in Msg : m \in LeftUnconfirmed(w) ~> m \notin LeftUnconfirmed(w)

(***************************************************************************)
(* What makes the safety properties above inductive.                       *)
(***************************************************************************)

\* A worker that has its segment mapped, and one that serves its queue.
OpeningPc == {"connect", "get_session", "get_queue", "ready"}
ServingPc == {"loop", "dispatch", "commit", "confirm"}

\* A segment is filled and pinned before anybody has it, nobody is promised one
\* that is not ready, and a caller has its own mapped for as long as it waits.
CallerInvariant ==
  /\ \A s \in Seg :
       /\ config[s] # None => config[s].uri \in Queue /\ s \in pinned
       /\ config[s] = None => ~ready[s]
  /\ promised \subseteq {s \in Seg : ready[s]}
  /\ \A p \in Proc : segOf[p] # None => config[segOf[p]] # None
  /\ \A p \in Backend :
       /\ pc[p] \in CallerPc \ {"kill"} => segOf[p] # None /\ p \in attached[segOf[p]]
       /\ pc[p] = "kill" => target[p] # None

\* The worker of a segment is the only one, opens the queue the segment names on a
\* fresh session, and sets the flag no sooner than it serves that queue.
WorkerOk(w) ==
  /\ pc[w] = "idle" <=> segOf[w] = None
  /\ \A v \in Worker \ {w} : segOf[w] # None => segOf[v] # segOf[w]
  /\ segOf[w] # None /\ ready[segOf[w]] => pc[w] \in ServingPc
  /\ pc[w] \in OpeningPc => w \in attached[segOf[w]]
  /\ pc[w] \in OpeningPc \cup ServingPc => arg[w] = config[segOf[w]]
  /\ pc[w] \notin {"get_queue", "ready"} \cup ServingPc => g_session[w] = None
  /\ pc[w] = "get_queue" => \A q \in Queue : g_queues[w][q] = None
  /\ pc[w] \in {"ready"} \cup ServingPc => handles[w][arg[w].uri] = arg[w].subscriptionExpr

WorkerInvariant == \A w \in Worker : WorkerOk(w)

\* A worker has a current message between callback and confirm only; what it has
\* committed took effect, is held for it or confirmed, and nothing else is
\* confirmed.
CommitInvariant ==
  \A w \in Worker :
    /\ pc[w] \in {"commit", "confirm"} <=> current[w] # None
    /\ pc[w] = "confirm" => current[w] \in applied[w]
    /\ confirming[w] \subseteq applied[w]
    /\ applied[w] \subseteq effects \cap (held[w] \cup confirmed)

\* The inductive invariant of push consumption.  In this module no backend pulls,
\* so every confirm is a worker's.
SubIInv ==
  /\ SessionIInv
  /\ OnePlace
  /\ CallerInvariant
  /\ WorkerInvariant
  /\ WorkAccounted
  /\ OncePerProcess
  /\ CommitInvariant
  /\ EffectBeforeConfirm
  /\ \A p \in Backend : confirming[p] = {}
=============================================================================
