------------------------------- MODULE System -------------------------------
(***************************************************************************)
(* Backends that publish, pull and subscribe, and workers, over one        *)
(* broker; shown to implement AtLeastOnce.                                 *)
(***************************************************************************)
EXTENDS PullConsume, Subscriber

vars == <<sessionVars, brokerVars, pullVars, subVars>>

SysInit == PullInit /\ SubInit

\* One call of a backend at a time, of any of the four functions.
SysBackend(p) ==
  \/ Call(p) /\ UNCHANGED subVars
  \/ SessionStep(p) /\ UNCHANGED <<pullVars, subVars>>
  \/ PublishRow(p) /\ UNCHANGED <<pullVars, subVars>>
  \/ Consume(p) /\ UNCHANGED subVars
  \/ (BackendCall(p) \/ SubscribeStep(p) \/ WaitInterrupted(p) \/ Kill(p)) /\ UNCHANGED pullVars
  \/ BackendExit(p) /\ SubscriberExit(p)

SysWorker(w) ==
  /\ WorkerStep(w) \/ StartupFails(w) \/ CommitFails(w) \/ Crash(w)
  /\ UNCHANGED pullVars

SysNext ==
  \/ \E p \in Backend : SysBackend(p)
  \/ \E w \in Worker : SysWorker(w)
  \/ BrokerStep /\ UNCHANGED <<pullVars, subVars>>

SysSpec == SysInit /\ [][SysNext]_vars

\* What a process has used: put into a result set, or committed.
UsedBy(p) == taken[p] \cup (IF p \in Worker THEN applied[p] ELSE {})

StageOf(m) ==
  CASE m \notin posted -> "unsent"
    [] \E p \in Proc : m \in outbox[p] -> "sent"
    [] m \in stored -> "queued"
    [] \E p \in Proc : m \in held[p] /\ m \notin UsedBy(p) -> "leased"
    [] \E p \in Proc : m \in held[p] /\ m \in UsedBy(p) -> "used"
    [] m \in confirmed -> "done"
    [] OTHER -> "lost"

OwnerOf(m) ==
  IF \E p \in Proc : m \in outbox[p] \cup held[p]
    THEN CHOOSE p \in Proc : m \in outbox[p] \cup held[p]
    ELSE None

ALO == INSTANCE AtLeastOnce WITH
         stage <- [m \in Msg |-> StageOf(m)],
         owner <- [m \in Msg |-> OwnerOf(m)]

\* The extension and the broker together implement AtLeastOnce: a message is
\* finished only by a process that put it into a result set or committed its
\* callback during its current lease, and no failure loses one that was stored.
ImplementsAtLeastOnce == ALO!Spec
=============================================================================
