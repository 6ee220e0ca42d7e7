---------------------------- MODULE PullConsume ----------------------------
(***************************************************************************)
(* bmq_consume(): the receive loop of a backend, its confirms one by one   *)
(* or batched, and every way out of it, next to bmq_publish_row() calls of *)
(* the same and of other backends.                                         *)
(***************************************************************************)
EXTENDS Broker

CONSTANTS
  MaxMessages, \* bound on the max_messages argument
  MaxEvent,    \* bound on the messages of one PUSH event
  Threshold    \* kBatchConfirmFlushThreshold

ASSUME PullAssumption ==
  /\ MaxMessages \in Nat \ {0}
  /\ MaxEvent \in Nat \ {0}
  /\ Threshold \in Nat \ {0}

VARIABLES
  max_messages,
  batch_confirm,
  received,
  msgIter,        \* messages of the current event still to come
  tupstore,       \* messages whose payload is in the result set
  confirmBuilder, \* messages in the confirm batch
  taken,          \* ghost: messages this session put into a result set
  warned          \* ghost: an SDK call of this session failed with a WARNING

loopVars == <<max_messages, batch_confirm, received, msgIter, tupstore, confirmBuilder>>
pullVars == <<loopVars, taken, warned>>
pullAll  == <<sessionVars, brokerVars, pullVars>>

LoopPc == {"poll", "iterate", "flush"}

\* The type invariant of a backend's bmq_consume call and all it stands on.
PullTypeOK ==
  /\ SessionTypes(EntryPc \cup LoopPc)
  /\ BrokerTypes
  /\ max_messages \in [Proc -> Nat]
  /\ batch_confirm \in [Proc -> BOOLEAN]
  /\ received \in [Proc -> Nat]
  /\ msgIter \in [Proc -> SUBSET Msg]
  /\ tupstore \in [Proc -> SUBSET Msg]
  /\ confirmBuilder \in [Proc -> SUBSET Msg]
  /\ taken \in [Proc -> SUBSET Msg]
  /\ warned \in [Proc -> BOOLEAN]

PullInit ==
  /\ SessionInit
  /\ BrokerInit
  /\ max_messages = [p \in Proc |-> 0]
  /\ batch_confirm = [p \in Proc |-> FALSE]
  /\ received = [p \in Proc |-> 0]
  /\ msgIter = NoMsgs /\ tupstore = NoMsgs /\ confirmBuilder = NoMsgs
  /\ taken = NoMsgs
  /\ warned = [p \in Proc |-> FALSE]

\* Mutant: the confirm batch outlives the call.
DropLocalsKeepsBatch(p) ==
  /\ max_messages' = [max_messages EXCEPT ![p] = 0]
  /\ batch_confirm' = [batch_confirm EXCEPT ![p] = FALSE]
  /\ received' = [received EXCEPT ![p] = 0]
  /\ msgIter' = [msgIter EXCEPT ![p] = {}]
  /\ tupstore' = [tupstore EXCEPT ![p] = {}]
  /\ UNCHANGED confirmBuilder

\* The call's locals go out of scope.
DropLocals(p) ==
  /\ max_messages' = [max_messages EXCEPT ![p] = 0]
  /\ batch_confirm' = [batch_confirm EXCEPT ![p] = FALSE]
  /\ received' = [received EXCEPT ![p] = 0]
  /\ msgIter' = [msgIter EXCEPT ![p] = {}]
  /\ tupstore' = [tupstore EXCEPT ![p] = {}]
  /\ confirmBuilder' = [confirmBuilder EXCEPT ![p] = {}]

Handle == <<g_broker_uri, g_session, cacheVars>>

(***************************************************************************)
(* The receive loop.  max_messages and batch_confirm are arguments that    *)
(* nothing reads before the loop, so they are chosen here.                 *)
(***************************************************************************)
StartLoop(p, n, b) ==
  /\ Goto(p, "ready", "poll")
  /\ max_messages' = [max_messages EXCEPT ![p] = n]
  /\ batch_confirm' = [batch_confirm EXCEPT ![p] = b]
  /\ UNCHANGED <<received, msgIter, tupstore, confirmBuilder, taken, warned>>
  /\ UNCHANGED <<Handle, arg, brokerVars>>

\* nextEvent() returned a PUSH event, of whichever queues the session has open;
\* any other event only makes the loop go round.
NextEvent(p, E) ==
  /\ received[p] < max_messages[p]
  /\ E # {} /\ E \subseteq inbox[p] /\ Cardinality(E) <= MaxEvent
  /\ inbox' = [inbox EXCEPT ![p] = @ \ E]
  /\ msgIter' = [msgIter EXCEPT ![p] = E]
  /\ Goto(p, "poll", "iterate")
  /\ UNCHANGED <<max_messages, batch_confirm, received, tupstore, confirmBuilder, taken, warned>>
  /\ UNCHANGED <<posted, outbox, stored, held, confirming, confirmed, early>>
  /\ UNCHANGED <<Handle, arg>>

\* Mutant: there is no deadline.
LeaveLoopWhenFull(p) ==
  /\ received[p] >= max_messages[p]
  /\ Goto(p, "poll", "flush")
  /\ UNCHANGED <<Handle, arg, brokerVars, pullVars>>

\* max_messages have been received, or the deadline has passed.
LeaveLoop(p) ==
  /\ Goto(p, "poll", "flush")
  /\ UNCHANGED <<Handle, arg, brokerVars, pullVars>>

\* confirmMessages() on the batch S: the builder is reset on success only.
Flush(p, S) ==
  \/ /\ confirming' = [confirming EXCEPT ![p] = @ \cup S]
     /\ confirmBuilder' = [confirmBuilder EXCEPT ![p] = {}]
     /\ UNCHANGED warned
  \/ /\ confirmBuilder' = [confirmBuilder EXCEPT ![p] = S]
     /\ warned' = [warned EXCEPT ![p] = TRUE]
     /\ UNCHANGED confirming

ConfirmOne(p, m) ==
  /\ \/ /\ confirming' = [confirming EXCEPT ![p] = @ \cup {m}]
        /\ UNCHANGED warned
     \/ /\ warned' = [warned EXCEPT ![p] = TRUE]
        /\ UNCHANGED confirming
  /\ UNCHANGED confirmBuilder

\* Mutant: the batch is only ever flushed after the loop.
AddToBatchUnbounded(p, m) ==
  /\ confirmBuilder' = [confirmBuilder EXCEPT ![p] = @ \cup {m}]
  /\ UNCHANGED <<confirming, warned>>

\* addMessageConfirmation() succeeded.
AddToBatch(p, m) ==
  LET batch == confirmBuilder[p] \cup {m}
  IN  IF Cardinality(batch) >= Threshold
        THEN Flush(p, batch)
        ELSE /\ confirmBuilder' = [confirmBuilder EXCEPT ![p] = batch]
             /\ UNCHANGED <<confirming, warned>>

\* Mutant: the message that did not fit is not tried again.
AddAfterFlushForgets(p, m) ==
  /\ confirming' = [confirming EXCEPT ![p] = @ \cup confirmBuilder[p]]
  /\ confirmBuilder' = [confirmBuilder EXCEPT ![p] = {}]
  /\ UNCHANGED warned

\* addMessageConfirmation() failed: flush what is there and try m once more.
AddAfterFlush(p, m) ==
  \/ /\ confirming' = [confirming EXCEPT ![p] = @ \cup confirmBuilder[p]]
     /\ \/ /\ confirmBuilder' = [confirmBuilder EXCEPT ![p] = {m}]
           /\ UNCHANGED warned
        \/ /\ confirmBuilder' = [confirmBuilder EXCEPT ![p] = {}]
           /\ warned' = [warned EXCEPT ![p] = TRUE]
  \/ /\ confirmBuilder' \in {confirmBuilder, [confirmBuilder EXCEPT ![p] = @ \cup {m}]}
     /\ warned' = [warned EXCEPT ![p] = TRUE]
     /\ UNCHANGED confirming

\* The loop body: the payload goes into the result set, then m is confirmed.
Take(p, m) ==
  /\ pc[p] = "iterate"
  /\ m \in msgIter[p]
  /\ received[p] < max_messages[p]
  /\ msgIter' = [msgIter EXCEPT ![p] = @ \ {m}]
  /\ tupstore' = [tupstore EXCEPT ![p] = @ \cup {m}]
  /\ taken' = [taken EXCEPT ![p] = @ \cup {m}]
  /\ received' = [received EXCEPT ![p] = @ + 1]
  /\ \/ ~batch_confirm[p] /\ ConfirmOne(p, m)
     \/ batch_confirm[p] /\ AddToBatch(p, m)
     \/ batch_confirm[p] /\ AddAfterFlush(p, m)
  /\ UNCHANGED <<max_messages, batch_confirm>>
  /\ UNCHANGED <<posted, outbox, stored, held, inbox, confirmed, early>>
  /\ UNCHANGED <<Handle, pc, arg>>

\* Copying the payload or tuplestore_putvalues() raised an ERROR: the result set
\* and the batch are gone, the confirms already sent are not.
TakeFails(p) ==
  /\ msgIter[p] # {}
  /\ received[p] < max_messages[p]
  /\ EndCall(p, "iterate")
  /\ DropLocals(p)
  /\ UNCHANGED <<taken, warned, Handle, brokerVars>>

\* Mutant: what the caller did not ask for is confirmed with the rest.
LeaveEventConfirming(p) ==
  /\ msgIter[p] = {} \/ received[p] >= max_messages[p]
  /\ confirming' = [confirming EXCEPT ![p] = @ \cup msgIter[p]]
  /\ msgIter' = [msgIter EXCEPT ![p] = {}]
  /\ Goto(p, "iterate", "poll")
  /\ UNCHANGED <<max_messages, batch_confirm, received, tupstore, confirmBuilder, taken, warned>>
  /\ UNCHANGED <<posted, outbox, stored, held, inbox, confirmed, early>>
  /\ UNCHANGED <<Handle, arg>>

\* The iterator is exhausted, or the result set is full and the rest of the
\* event is dropped with the iterator.
LeaveEvent(p) ==
  /\ msgIter[p] = {} \/ received[p] >= max_messages[p]
  /\ msgIter' = [msgIter EXCEPT ![p] = {}]
  /\ Goto(p, "iterate", "poll")
  /\ UNCHANGED <<max_messages, batch_confirm, received, tupstore, confirmBuilder, taken, warned>>
  /\ UNCHANGED <<Handle, arg, brokerVars>>

\* The final flush, whose failure is only a WARNING, and the return.
Return(p) ==
  /\ \/ /\ confirming' = [confirming EXCEPT ![p] = @ \cup confirmBuilder[p]]
        /\ UNCHANGED warned
     \/ /\ confirmBuilder[p] # {}
        /\ warned' = [warned EXCEPT ![p] = TRUE]
        /\ UNCHANGED confirming
  /\ EndCall(p, "flush")
  /\ DropLocals(p)
  /\ UNCHANGED <<taken, Handle>>
  /\ UNCHANGED <<posted, outbox, stored, held, inbox, confirmed, early>>

Consume(p) ==
  \/ \E n \in 1..MaxMessages, b \in BOOLEAN : StartLoop(p, n, b)
  \/ \E E \in SUBSET inbox[p] : pc[p] = "poll" /\ NextEvent(p, E)
  \/ LeaveLoop(p)
  \/ \E m \in Msg : Take(p, m)
  \/ TakeFails(p)
  \/ LeaveEvent(p)
  \/ Return(p)

\* The backend ends, or dies, wherever it is.
BackendExit(p) ==
  /\ Exit(p)
  /\ Disconnect(p)
  /\ DropLocals(p)
  /\ taken' = [taken EXCEPT ![p] = {}]
  /\ warned' = [warned EXCEPT ![p] = FALSE]

\* A new bmq_publish_row or bmq_consume call.
Call(p) ==
  /\ \E q \in Queue, e \in Filter : Enter(p, q, e)
  /\ UNCHANGED <<brokerVars, pullVars>>

PullNext ==
  \/ \E p \in Proc :
       \/ Call(p)
       \/ SessionStep(p) /\ UNCHANGED pullVars
       \/ PublishRow(p) /\ UNCHANGED pullVars
       \/ Consume(p)
       \/ BackendExit(p)
  \/ BrokerStep /\ UNCHANGED pullVars

PullSpec == PullInit /\ [][PullNext]_pullAll

\* A backend runs until its call is over and the deadline passes, whatever the
\* broker does.
PullFairSpec ==
  PullSpec /\ \A p \in Proc : WF_pullAll(Consume(p) /\ pc[p] # "ready")

-----------------------------------------------------------------------------
(***************************************************************************)
(* Properties                                                              *)
(***************************************************************************)

\* Held by the session, but in no place the session will ever look at again:
\* only its end makes the broker deliver such a message again.
Stranded(p) == held[p] \ (inbox[p] \cup msgIter[p] \cup confirmBuilder[p] \cup confirming[p])

\* What a session works on is its own and in one of its hands: undelivered
\* event, iterator, confirm batch and pending confirm never overlap, and the
\* broker has given none of it to another session.
LeaseAccounted ==
  \A p \in Proc :
    /\ inbox[p] \cup msgIter[p] \cup confirmBuilder[p] \cup confirming[p] \subseteq held[p]
    /\ inbox[p] \cap (msgIter[p] \cup confirmBuilder[p] \cup confirming[p]) = {}
    /\ msgIter[p] \cap (confirmBuilder[p] \cup confirming[p]) = {}
    /\ confirmBuilder[p] \cap confirming[p] = {}

\* bmq_consume confirms nothing it has not put into a result set in the same
\* session, not even a message it pulled out of the SDK and dropped.
ConfirmOnlyTaken ==
  \A p \in Proc : confirmBuilder[p] \cup confirming[p] \subseteq taken[p]

\* While no SDK call fails, every row of the result set is confirmed already or
\* will be by the next flush; the result set has as many rows as were counted
\* and never more than asked for.
RowsAccounted ==
  \A p \in Proc :
    /\ ~warned[p] => tupstore[p] \subseteq confirmBuilder[p] \cup confirming[p] \cup confirmed
    /\ received[p] = Cardinality(tupstore[p])
    /\ received[p] <= max_messages[p]

\* Every row bmq_consume returns from the queue it was asked about passes the
\* expression it was given, or one whose reconfigure timed out since the last
\* that succeeded, unless the message was there before the filter.
RowsPassFilter ==
  \A p \in Proc :
    \A m \in OfQueue(tupstore[p], arg[p].uri) :
      \/ m \in early[p]
      \/ \E f \in {arg[p].subscriptionExpr} \cup doubt[p][MsgQueue[m]] : Passes(m, f)

\* The session waits for events, has confirmed what it could, and has none left.
Starved(p) ==
  /\ pc[p] = "poll" /\ received[p] < max_messages[p]
  /\ inbox[p] = {} /\ confirming[p] = {}
  /\ ~warned[p]

\* A waiting bmq_consume never closes the flow-control window on itself: the
\* batch is flushed early enough that the broker may always push another
\* message, as long as nothing was stranded.
WindowStaysOpen ==
  \A p \in Proc, q \in Queue :
    Starved(p) /\ Stranded(p) = {} => HasRoom(p, q)

\* A bmq_consume call comes to an end, by its deadline if by nothing else.
ConsumeReturns ==
  \A p \in Proc : pc[p] \in LoopPc ~> pc[p] = "idle"

(***************************************************************************)
(* What makes the properties above inductive.                              *)
(***************************************************************************)

\* A call has locals only inside the receive loop, and an event only while it
\* iterates; the loop runs on the handle get_queue returned.
LoopInvariant ==
  \A p \in Proc :
    /\ pc[p] \notin LoopPc =>
         tupstore[p] = {} /\ received[p] = 0 /\ confirmBuilder[p] = {}
    /\ pc[p] # "iterate" => msgIter[p] = {}
    /\ pc[p] \in LoopPc => arg[p].uri \in Queue /\ HandleFits(p)

\* What a session has taken never comes back to it: it is still held for the
\* session or done with, and no longer among what the session will be given.
TakenInvariant ==
  \A p \in Proc :
    /\ tupstore[p] \subseteq taken[p]
    /\ taken[p] \subseteq held[p] \cup confirmed
    /\ taken[p] \cap (inbox[p] \cup msgIter[p]) = {}

\* What a session was given passes the filter in force, or was there before it.
DeliveredInvariant ==
  \A p \in Proc :
    \A m \in held[p] \cup tupstore[p] :
      Passes(m, handles[p][MsgQueue[m]]) \/ m \in early[p]

\* The batch is below the threshold, or holds the one message that was added
\* after a flush made room for it.
BatchInvariant ==
  \A p \in Proc :
    ~warned[p] => \/ Cardinality(confirmBuilder[p]) < Threshold
                  \/ Cardinality(confirmBuilder[p]) <= 1

\* The inductive invariant of bmq_consume.
PullIInv ==
  /\ SessionIInv
  /\ OnePlace
  /\ LeaseAccounted
  /\ TakenInvariant
  /\ ConfirmOnlyTaken
  /\ LoopInvariant
  /\ RowsAccounted
  /\ BatchInvariant
  /\ DeliveredInvariant

\* pg_blazingmq.cpp, on kBatchConfirmFlushThreshold: pulls never stall on the
\* flow-control window "with nothing ever confirming to reopen it".
PullNeverStalls ==
  \A p \in Proc, q \in Queue : Starved(p) => HasRoom(p, q)

\* pg_blazingmq--0.5.sql: bmq_consume pulls "payloads from a queue", the one it
\* was called with.
RowsFromQueue ==
  \A p \in Proc : tupstore[p] \subseteq OfQueue(Msg, arg[p].uri)
=============================================================================
