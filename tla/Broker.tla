------------------------------- MODULE Broker -------------------------------
(***************************************************************************)
(* The BlazingMQ broker and client SDK as pg_blazingmq relies on them: a   *)
(* priority-mode queue hands each stored message to one open handle whose  *)
(* filter it passes, at most Window unconfirmed ones per handle, and takes *)
(* back what a closed session had not confirmed.  Posts and confirms are   *)
(* asynchronous: the SDK accepts them, the broker sees them later, and     *)
(* what is still under way when the session ends is lost.                  *)
(*                                                                         *)
(* Order is left out: a queue is a set, and an event is any set of pushed  *)
(* messages.                                                               *)
(***************************************************************************)
EXTENDS Session, Naturals, FiniteSets

CONSTANTS
  Msg,       \* messages, each published at most once
  MsgQueue,  \* the queue each message is published to
  Matches,   \* the subscription expressions each message's properties satisfy
  Window,    \* k_DEFAULT_MAX_UNCONFIRMED_MESSAGES, per handle
  Capacity   \* messages a queue's domain stores before it refuses more

ASSUME BrokerAssumption ==
  /\ IsFiniteSet(Msg)
  /\ MsgQueue \in [Msg -> Queue]
  /\ Matches \in [Msg -> SUBSET Expr]
  /\ Window \in Nat \ {0}
  /\ Capacity \in Nat \ {0}

VARIABLES
  posted,     \* messages whose post() was accepted by an SDK
  outbox,     \* of those, the ones still on their way to the broker
  stored,     \* messages at the broker that no session holds
  held,       \* messages delivered to a session and not confirmed
  inbox,      \* of those, the ones nextEvent() has not returned yet
  confirming, \* of those, the ones whose confirm is on its way
  confirmed,  \* messages the broker is done with
  early       \* messages that were there when the handle got its filter

brokerVars == <<posted, outbox, stored, held, inbox, confirming, confirmed, early>>

BrokerTypes ==
  /\ posted \subseteq Msg
  /\ stored \subseteq Msg
  /\ confirmed \subseteq Msg
  /\ outbox \in [Proc -> SUBSET Msg]
  /\ held \in [Proc -> SUBSET Msg]
  /\ inbox \in [Proc -> SUBSET Msg]
  /\ confirming \in [Proc -> SUBSET Msg]
  /\ early \in [Proc -> SUBSET Msg]

NoMsgs == [p \in Proc |-> {}]

BrokerInit ==
  /\ posted = {} /\ stored = {} /\ confirmed = {}
  /\ outbox = NoMsgs /\ held = NoMsgs /\ inbox = NoMsgs
  /\ confirming = NoMsgs /\ early = NoMsgs

OfQueue(S, q) == {m \in S : MsgQueue[m] = q}
AllHeld       == UNION {held[p] : p \in Proc}
Passes(m, f)  == f = NoExpr \/ f \in Matches[m]

(***************************************************************************)
(* Posts reach the broker, which drops them silently at capacity: handles  *)
(* are opened without ACKs, and nobody would read one.                     *)
(***************************************************************************)
Backlog(q) == OfQueue(stored \cup AllHeld, q)

BrokerAccept(p, m) ==
  /\ m \in outbox[p]
  /\ Cardinality(Backlog(MsgQueue[m])) < Capacity
  /\ outbox' = [outbox EXCEPT ![p] = @ \ {m}]
  /\ stored' = stored \cup {m}
  /\ UNCHANGED <<posted, held, inbox, confirming, confirmed, early>>

BrokerReject(p, m) ==
  /\ m \in outbox[p]
  /\ Cardinality(Backlog(MsgQueue[m])) >= Capacity
  /\ outbox' = [outbox EXCEPT ![p] = @ \ {m}]
  /\ UNCHANGED <<posted, stored, held, inbox, confirming, confirmed, early>>

\* A message that arrived before the filter was set is delivered regardless of
\* it: filtering is not retroactive.
Deliverable(p, m) ==
  LET f == handles[p][MsgQueue[m]]
  IN  f # None /\ (Passes(m, f) \/ m \in early[p])

HasRoom(p, q) == Cardinality(OfQueue(held[p], q)) < Window

Push(p, m) ==
  /\ m \in stored
  /\ Deliverable(p, m)
  /\ HasRoom(p, MsgQueue[m])
  /\ stored' = stored \ {m}
  /\ held' = [held EXCEPT ![p] = @ \cup {m}]
  /\ inbox' = [inbox EXCEPT ![p] = @ \cup {m}]
  /\ UNCHANGED <<posted, outbox, confirming, confirmed, early>>

ConfirmArrives(p, m) ==
  /\ m \in confirming[p]
  /\ confirming' = [confirming EXCEPT ![p] = @ \ {m}]
  /\ held' = [held EXCEPT ![p] = @ \ {m}]
  /\ confirmed' = confirmed \cup {m}
  /\ UNCHANGED <<posted, outbox, stored, inbox, early>>

BrokerStep ==
  /\ \E p \in Proc, m \in Msg :
       \/ BrokerAccept(p, m)
       \/ BrokerReject(p, m)
       \/ Push(p, m)
       \/ ConfirmArrives(p, m)
  /\ UNCHANGED sessionVars

(***************************************************************************)
(* The steps of Session, as the broker sees them.                          *)
(***************************************************************************)
\* A new filter on a handle finds these messages already there.
NoteEarly(p) ==
  early' = [early EXCEPT ![p] = @ \cup
              {m \in stored \cup held[p] : handles'[p][MsgQueue[m]] # handles[p][MsgQueue[m]]}]

SessionStep(p) ==
  /\ \/ \E u \in Uri : SetBrokerUri(p, u)
     \/ GetSession(p)
     \/ GetQueue(p)
  /\ NoteEarly(p)
  /\ UNCHANGED <<posted, outbox, stored, held, inbox, confirming, confirmed>>

\* The session is gone: its unconfirmed messages are delivered again, its posts
\* and confirms under way are lost.
Disconnect(p) ==
  /\ stored' = stored \cup held[p]
  /\ held' = [held EXCEPT ![p] = {}]
  /\ outbox' = [outbox EXCEPT ![p] = {}]
  /\ inbox' = [inbox EXCEPT ![p] = {}]
  /\ confirming' = [confirming EXCEPT ![p] = {}]
  /\ early' = [early EXCEPT ![p] = {}]
  /\ UNCHANGED <<posted, confirmed>>

(***************************************************************************)
(* bmq_publish_row() from packMessage() on.  The row was mapped before     *)
(* get_session(); its result is the message m.                             *)
(***************************************************************************)
Post(p, m) ==
  /\ arg[p].subscriptionExpr = NoExpr
  /\ MsgQueue[m] = arg[p].uri
  /\ m \notin posted
  /\ posted' = posted \cup {m}
  /\ outbox' = [outbox EXCEPT ![p] = @ \cup {m}]
  /\ EndCall(p, "ready")
  /\ UNCHANGED <<g_broker_uri, g_session, cacheVars>>
  /\ UNCHANGED <<stored, held, inbox, confirming, confirmed, early>>

\* packMessage() or post() failed: ERROR, nothing was sent.
PostFails(p) ==
  /\ arg[p].subscriptionExpr = NoExpr
  /\ EndCall(p, "ready")
  /\ UNCHANGED <<g_broker_uri, g_session, cacheVars, brokerVars>>

PublishRow(p) == PostFails(p) \/ \E m \in Msg : Post(p, m)

-----------------------------------------------------------------------------
\* Every message is in one place: on its way, stored, with one session, or done.
OnePlace ==
  /\ stored \cap confirmed = {} /\ stored \cup confirmed \subseteq posted
  /\ \A p \in Proc :
       /\ held[p] \cap (stored \cup confirmed) = {}
       /\ outbox[p] \cap (stored \cup confirmed) = {}
       /\ \A r \in Proc :
            /\ outbox[p] \cap held[r] = {}
            /\ p # r => held[p] \cap held[r] = {} /\ outbox[p] \cap outbox[r] = {}
       /\ held[p] \cup outbox[p] \subseteq posted
=============================================================================
