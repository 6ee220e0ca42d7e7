----------------------------- MODULE PullProofs -----------------------------
(***************************************************************************)
(* Proofs about bmq_consume, for any number of backends, queues, messages  *)
(* and expressions, any window, threshold and argument.                    *)
(***************************************************************************)
EXTENDS PullConsume, SessionProofs, FiniteSetTheorems

PullLabels == EntryPc \cup LoopPc

\* The locals of the receive loop.
LoopTypes ==
  /\ max_messages \in [Proc -> Nat]
  /\ batch_confirm \in [Proc -> BOOLEAN]
  /\ received \in [Proc -> Nat]
  /\ msgIter \in [Proc -> SUBSET Msg]
  /\ tupstore \in [Proc -> SUBSET Msg]
  /\ confirmBuilder \in [Proc -> SUBSET Msg]
  /\ taken \in [Proc -> SUBSET Msg]
  /\ warned \in [Proc -> BOOLEAN]

\* The locals go out of scope.
LEMMA DropTyped ==
  ASSUME LoopTypes, NEW p \in Proc, DropLocals(p)
  PROVE  /\ max_messages' \in [Proc -> Nat]
         /\ batch_confirm' \in [Proc -> BOOLEAN]
         /\ received' \in [Proc -> Nat]
         /\ msgIter' \in [Proc -> SUBSET Msg]
         /\ tupstore' \in [Proc -> SUBSET Msg]
         /\ confirmBuilder' \in [Proc -> SUBSET Msg]
BY DEF LoopTypes, DropLocals

\* Every outcome of a confirm, alone or batched, adds to the pending confirms
\* and leaves a batch of messages.
LEMMA TakeTyped ==
  ASSUME BrokerTypes, LoopTypes, NEW p \in Proc, NEW m \in Msg, Take(p, m)
  PROVE  /\ confirming' \in [Proc -> SUBSET Msg]
         /\ confirmBuilder' \in [Proc -> SUBSET Msg]
         /\ warned' \in [Proc -> BOOLEAN]
<1> USE DEF BrokerTypes, LoopTypes
<1>1. \A S \in SUBSET Msg :
        /\ [confirming EXCEPT ![p] = @ \cup S] \in [Proc -> SUBSET Msg]
        /\ [confirmBuilder EXCEPT ![p] = S] \in [Proc -> SUBSET Msg]
        /\ [confirmBuilder EXCEPT ![p] = @ \cup S] \in [Proc -> SUBSET Msg]
        /\ confirmBuilder[p] \cup S \in SUBSET Msg
  OBVIOUS
<1>2. [warned EXCEPT ![p] = TRUE] \in [Proc -> BOOLEAN]
  OBVIOUS
<1>3. /\ confirmBuilder[p] \in SUBSET Msg
      /\ {m} \in SUBSET Msg
      /\ confirmBuilder[p] \cup {m} \in SUBSET Msg
      /\ {} \in SUBSET Msg
  OBVIOUS
<1> HIDE DEF BrokerTypes, LoopTypes
<1>4. /\ confirming \in [Proc -> SUBSET Msg]
      /\ confirmBuilder \in [Proc -> SUBSET Msg]
      /\ warned \in [Proc -> BOOLEAN]
  BY DEF BrokerTypes, LoopTypes
<1>5. /\ confirming' \in {confirming} \cup {[confirming EXCEPT ![p] = @ \cup S] : S \in SUBSET Msg}
      /\ confirmBuilder' \in {confirmBuilder} \cup
           {[confirmBuilder EXCEPT ![p] = S] : S \in SUBSET Msg} \cup
           {[confirmBuilder EXCEPT ![p] = @ \cup S] : S \in SUBSET Msg}
      /\ warned' \in {warned, [warned EXCEPT ![p] = TRUE]}
  <2>1. CASE ConfirmOne(p, m)
    BY <1>3, <2>1 DEF ConfirmOne
  <2>2. CASE AddToBatch(p, m)
    BY <1>3, <2>2 DEF AddToBatch, Flush
  <2>3. CASE AddAfterFlush(p, m)
    BY <1>3, <2>3 DEF AddAfterFlush
  <2> QED
    BY <2>1, <2>2, <2>3 DEF Take
<1>6. confirming' \in [Proc -> SUBSET Msg]
  <2>1. PICK S \in SUBSET Msg :
          confirming' = confirming \/ confirming' = [confirming EXCEPT ![p] = @ \cup S]
    BY <1>3, <1>5
  <2> QED
    BY <1>1, <1>4, <2>1
<1>7. confirmBuilder' \in [Proc -> SUBSET Msg]
  <2>1. PICK S \in SUBSET Msg :
          \/ confirmBuilder' = confirmBuilder
          \/ confirmBuilder' = [confirmBuilder EXCEPT ![p] = S]
          \/ confirmBuilder' = [confirmBuilder EXCEPT ![p] = @ \cup S]
    BY <1>3, <1>5
  <2> QED
    BY <1>1, <1>4, <2>1
<1> QED
  BY <1>2, <1>4, <1>5, <1>6, <1>7

\* The session and the call it is in, whatever happens in the receive loop.
LEMMA ConsumeSession ==
  ASSUME NEW L, EntryPc \cup LoopPc \subseteq L, SessionTypes(L), NEW p \in Proc, Consume(p)
  PROVE  /\ SessionTypes(L)'
         /\ SessionIInv => SessionIInv'
         /\ UNCHANGED Handle
         /\ pc[p] \in LoopPc \cup {"ready"} /\ pc'[p] \in LoopPc \cup {"idle"}
         /\ \A r \in Proc \ {p} : pc'[r] = pc[r] /\ arg'[r] = arg[r]
<1>t. SessionTypes(L) /\ EntryPc \subseteq L
  OBVIOUS
<1>1. ASSUME NEW l \in LoopPc, pc' = [pc EXCEPT ![p] = l], UNCHANGED <<Handle, arg>>
      PROVE  /\ SessionTypes(L)' /\ (SessionIInv => SessionIInv') /\ pc'[p] \in LoopPc
             /\ \A r \in Proc \ {p} : pc'[r] = pc[r] /\ arg'[r] = arg[r]
  <2>1. SessionTypes(L)'
    BY <1>t, <1>1 DEF SessionTypes, EntryPc, LoopPc, Handle, cacheVars
  <2>2. SessionIInv => SessionIInv'
    BY <1>t, <1>1, LabelStep DEF Handle, cacheVars, LoopPc
  <2> QED
    BY <1>t, <1>1, <2>1, <2>2 DEF SessionTypes
<1>2. ASSUME NEW l, EndCall(p, l), UNCHANGED Handle
      PROVE  /\ SessionTypes(L)' /\ (SessionIInv => SessionIInv') /\ pc'[p] = "idle"
             /\ \A r \in Proc \ {p} : pc'[r] = pc[r] /\ arg'[r] = arg[r]
  <2>1. CallEnds(p, l)
    BY <1>2 DEF CallEnds, Handle
  <2> QED
    BY <1>t, <1>2, <2>1, EndTyped, EndSafe DEF EndCall, Goto, SessionTypes
<1>3. CASE TakeFails(p) \/ Return(p)
  BY <1>2, <1>3 DEF TakeFails, Return, EndCall, Goto, LoopPc
<1>4. ASSUME ~(TakeFails(p) \/ Return(p))
      PROVE  /\ \E l \in LoopPc : pc' = [pc EXCEPT ![p] = l]
             /\ UNCHANGED <<Handle, arg>>
             /\ pc[p] \in LoopPc \cup {"ready"}
  BY <1>t, <1>4
  DEF Consume, StartLoop, NextEvent, LeaveLoop, Take, LeaveEvent, Goto, LoopPc, SessionTypes
<1> QED
  BY <1>1, <1>3, <1>4

\* The receive loop keeps its locals and the broker's tables well formed.
LEMMA ConsumeTyped ==
  ASSUME BrokerTypes, LoopTypes, NEW p \in Proc, Consume(p)
  PROVE  BrokerTypes' /\ LoopTypes'
<1>t. BrokerTypes /\ LoopTypes
  OBVIOUS
<1>u. ASSUME UNCHANGED brokerVars
      PROVE  BrokerTypes'
  BY <1>t, <1>u DEF brokerVars, BrokerTypes
<1>1. ASSUME NEW n \in 1..MaxMessages, NEW b \in BOOLEAN, StartLoop(p, n, b)
      PROVE  BrokerTypes' /\ LoopTypes'
  <2>1. n \in Nat
    BY PullAssumption
  <2> QED
    BY <1>t, <1>u, <1>1, <2>1 DEF StartLoop, LoopTypes
<1>2. ASSUME NEW E \in SUBSET inbox[p], NextEvent(p, E)
      PROVE  BrokerTypes' /\ LoopTypes'
  <2>1. BrokerTypes'
    BY <1>t, <1>2 DEF NextEvent, BrokerTypes
  <2>2. E \in SUBSET Msg
    BY <1>t DEF BrokerTypes
  <2> QED
    BY <1>t, <1>2, <2>1, <2>2 DEF NextEvent, LoopTypes
<1>3. CASE LeaveLoop(p)
  BY <1>t, <1>u, <1>3 DEF LeaveLoop, pullVars, loopVars, LoopTypes
<1>4. ASSUME NEW m \in Msg, Take(p, m)
      PROVE  BrokerTypes' /\ LoopTypes'
  <2>1. /\ confirming' \in [Proc -> SUBSET Msg]
        /\ confirmBuilder' \in [Proc -> SUBSET Msg]
        /\ warned' \in [Proc -> BOOLEAN]
    BY <1>t, <1>4, TakeTyped
  <2>2. /\ msgIter' \in [Proc -> SUBSET Msg]
        /\ tupstore' \in [Proc -> SUBSET Msg]
        /\ taken' \in [Proc -> SUBSET Msg]
        /\ received' \in [Proc -> Nat]
    BY <1>t, <1>4 DEF Take, LoopTypes
  <2> QED
    BY <1>t, <1>4, <2>1, <2>2 DEF Take, BrokerTypes, LoopTypes
<1>5. CASE TakeFails(p)
  BY <1>t, <1>u, <1>5, DropTyped DEF TakeFails, LoopTypes
<1>6. CASE LeaveEvent(p)
  BY <1>t, <1>u, <1>6 DEF LeaveEvent, LoopTypes
<1>7. CASE Return(p)
  <2>0. /\ warned' \in {warned, [warned EXCEPT ![p] = TRUE]}
        /\ confirming' \in {confirming, [confirming EXCEPT ![p] = @ \cup confirmBuilder[p]]}
    BY <1>7 DEF Return
  <2>1. warned' \in [Proc -> BOOLEAN] /\ confirming' \in [Proc -> SUBSET Msg]
    <3>1. warned \in [Proc -> BOOLEAN] /\ confirmBuilder \in [Proc -> SUBSET Msg]
      BY <1>t DEF LoopTypes
    <3>2. confirming \in [Proc -> SUBSET Msg]
      BY <1>t DEF BrokerTypes
    <3>3. warned' \in [Proc -> BOOLEAN]
      BY <2>0, <3>1
    <3>4. confirming' \in [Proc -> SUBSET Msg]
      BY <2>0, <3>1, <3>2
    <3> QED
      BY <3>3, <3>4
  <2>2. LoopTypes'
    BY <1>t, <1>7, <2>1, DropTyped DEF Return, LoopTypes
  <2>3. BrokerTypes'
    BY <1>t, <1>7, <2>1 DEF Return, BrokerTypes
  <2> QED
    BY <2>2, <2>3
<1> QED
  BY <1>1, <1>2, <1>3, <1>4, <1>5, <1>6, <1>7 DEF Consume

\* PullTypeOK is inductive: no outcome of an SDK call in the receive loop leaves
\* its locals, the session or the broker ill formed.
THEOREM PullTypeCorrect == PullSpec => []PullTypeOK
<1>0. PullTypeOK <=> SessionTypes(PullLabels) /\ BrokerTypes /\ LoopTypes
  BY DEF PullTypeOK, LoopTypes, PullLabels
<1>1. PullInit => PullTypeOK
  BY SessionAssumption
  DEF PullInit, SessionInit, BrokerInit, NoMsgs, PullTypeOK, SessionTypes, BrokerTypes,
      EntryPc, LoopPc, Args, NoArg, Filter
<1>2. PullTypeOK /\ [PullNext]_pullAll => PullTypeOK'
  <2> SUFFICES ASSUME PullTypeOK, [PullNext]_pullAll
               PROVE  PullTypeOK'
    OBVIOUS
  <2>t. SessionTypes(PullLabels) /\ BrokerTypes /\ LoopTypes
    BY <1>0
  <2>l. EntryPc \subseteq PullLabels
    BY DEF PullLabels
  <2>0. ASSUME SessionTypes(PullLabels)', BrokerTypes', LoopTypes'
        PROVE  PullTypeOK'
    BY <2>0 DEF PullTypeOK, LoopTypes, PullLabels
  <2>u. ASSUME UNCHANGED brokerVars
        PROVE  BrokerTypes'
    BY <2>t, <2>u DEF brokerVars, BrokerTypes
  <2>v. ASSUME UNCHANGED pullVars
        PROVE  LoopTypes'
    BY <2>t, <2>v DEF pullVars, loopVars, LoopTypes
  <2>w. ASSUME UNCHANGED sessionVars
        PROVE  SessionTypes(PullLabels)'
    BY <2>t, <2>w DEF sessionVars, SessionTypes
  <2>1. ASSUME NEW p \in Proc, Call(p)
        PROVE  PullTypeOK'
    BY <2>t, <2>l, <2>0, <2>u, <2>v, <2>1, OpTyped DEF Call, SessionOp
  <2>2. ASSUME NEW p \in Proc, SessionStep(p), UNCHANGED pullVars
        PROVE  PullTypeOK'
    <3>1. SessionTypes(PullLabels)'
      BY <2>t, <2>l, <2>2, OpTyped DEF SessionStep, SessionOp
    <3>2. BrokerTypes'
      BY <2>t, <2>2, SessionStepTyped
    <3> QED
      BY <2>0, <2>v, <2>2, <3>1, <3>2
  <2>3. ASSUME NEW p \in Proc, PublishRow(p), UNCHANGED pullVars
        PROVE  PullTypeOK'
    <3>1. SessionTypes(PullLabels)'
      BY <2>t, <2>l, <2>3, EndTyped DEF PublishRow, Post, PostFails, CallEnds
    <3>2. CASE PostFails(p)
      BY <2>0, <2>u, <2>v, <2>3, <3>1, <3>2 DEF PostFails
    <3>3. ASSUME NEW m \in Msg, Post(p, m)
          PROVE  PullTypeOK'
      BY <2>0, <2>t, <2>v, <2>3, <3>1, <3>3, PostTyped
    <3> QED
      BY <2>3, <3>2, <3>3 DEF PublishRow
  <2>4. ASSUME NEW p \in Proc, Consume(p)
        PROVE  PullTypeOK'
    <3>1. EntryPc \cup LoopPc \subseteq PullLabels
      BY DEF PullLabels
    <3> QED
      BY <2>t, <2>0, <2>4, <3>1, ConsumeSession, ConsumeTyped
  <2>5. ASSUME NEW p \in Proc, BackendExit(p)
        PROVE  PullTypeOK'
    <3>1. SessionTypes(PullLabels)'
      BY <2>t, <2>l, <2>5, OpTyped DEF BackendExit, SessionOp
    <3>2. BrokerTypes'
      BY <2>t, <2>5, DisconnectTyped DEF BackendExit
    <3>3. LoopTypes'
      BY <2>t, <2>5, DropTyped DEF BackendExit, LoopTypes
    <3> QED
      BY <2>0, <3>1, <3>2, <3>3
  <2>6. ASSUME BrokerStep, UNCHANGED pullVars
        PROVE  PullTypeOK'
    BY <2>0, <2>t, <2>v, <2>w, <2>6, BrokerStepTyped DEF BrokerStep
  <2>7. CASE UNCHANGED pullAll
    BY <2>0, <2>u, <2>v, <2>w, <2>7 DEF pullAll
  <2> QED
    BY <2>1, <2>2, <2>3, <2>4, <2>5, <2>6, <2>7 DEF PullNext
<1> QED
  BY <1>1, <1>2, PTL DEF PullSpec

(***************************************************************************)
(* Where the messages are                                                  *)
(***************************************************************************)
PlacesInv == OnePlace /\ LeaseAccounted /\ TakenInvariant /\ ConfirmOnlyTaken

\* The same for one process.
LeaseOk(p) ==
  /\ inbox[p] \cup msgIter[p] \cup confirmBuilder[p] \cup confirming[p] \subseteq held[p]
  /\ inbox[p] \cap (msgIter[p] \cup confirmBuilder[p] \cup confirming[p]) = {}
  /\ msgIter[p] \cap (confirmBuilder[p] \cup confirming[p]) = {}
  /\ confirmBuilder[p] \cap confirming[p] = {}

TakenOk(p) ==
  /\ tupstore[p] \subseteq taken[p]
  /\ taken[p] \subseteq held[p] \cup confirmed
  /\ taken[p] \cap (inbox[p] \cup msgIter[p]) = {}
  /\ confirmBuilder[p] \cup confirming[p] \subseteq taken[p]

PlacesOk(p) == LeaseOk(p) /\ TakenOk(p)

\* PlacesInv, process by process.
LEMMA PlacesIs == PlacesInv <=> OnePlace /\ \A p \in Proc : PlacesOk(p)
BY DEF PlacesInv, PlacesOk, LeaseOk, TakenOk, LeaseAccounted, TakenInvariant, ConfirmOnlyTaken

\* What the confirm part of the loop body does, over all its outcomes: m and the
\* batch end up pending or in the batch, never both, and all of them do unless
\* an SDK call failed.
LEMMA TakeEffect ==
  ASSUME BrokerTypes, LoopTypes, NEW p \in Proc, LeaseOk(p), NEW m \in Msg, Take(p, m)
  PROVE  /\ \A r \in Proc \ {p} : /\ confirming'[r] = confirming[r]
                                  /\ confirmBuilder'[r] = confirmBuilder[r]
                                  /\ warned'[r] = warned[r]
         /\ confirming'[p] \cup confirmBuilder'[p]
              \subseteq confirming[p] \cup confirmBuilder[p] \cup {m}
         /\ confirming'[p] \cap confirmBuilder'[p] = {}
         /\ ~warned'[p] =>
              /\ ~warned[p]
              /\ confirming[p] \cup confirmBuilder[p] \cup {m}
                   \subseteq confirming'[p] \cup confirmBuilder'[p]
<1>1. /\ m \notin confirmBuilder[p] /\ m \notin confirming[p]
      /\ confirming[p] \cap confirmBuilder[p] = {}
  BY DEF Take, LeaseOk
<1>2. /\ confirming \in [Proc -> SUBSET Msg]
      /\ confirmBuilder \in [Proc -> SUBSET Msg]
      /\ warned \in [Proc -> BOOLEAN]
  BY DEF BrokerTypes, LoopTypes
<1>3. CASE ConfirmOne(p, m)
  BY <1>1, <1>2, <1>3 DEF ConfirmOne
<1>4. CASE AddToBatch(p, m)
  <2>1. CASE Flush(p, confirmBuilder[p] \cup {m})
    BY <1>1, <1>2, <2>1 DEF Flush
  <2>2. CASE /\ confirmBuilder' = [confirmBuilder EXCEPT ![p] = confirmBuilder[p] \cup {m}]
             /\ UNCHANGED <<confirming, warned>>
    BY <1>1, <1>2, <2>2
  <2> QED
    BY <1>4, <2>1, <2>2 DEF AddToBatch
<1>5. CASE AddAfterFlush(p, m)
  <2>1. CASE /\ confirming' = [confirming EXCEPT ![p] = @ \cup confirmBuilder[p]]
             /\ confirmBuilder' = [confirmBuilder EXCEPT ![p] = {m}]
             /\ UNCHANGED warned
    BY <1>1, <1>2, <2>1
  <2>2. CASE /\ confirming' = [confirming EXCEPT ![p] = @ \cup confirmBuilder[p]]
             /\ confirmBuilder' = [confirmBuilder EXCEPT ![p] = {}]
             /\ warned' = [warned EXCEPT ![p] = TRUE]
    BY <1>1, <1>2, <2>2
  <2>3. CASE /\ confirmBuilder' = confirmBuilder
             /\ warned' = [warned EXCEPT ![p] = TRUE]
             /\ UNCHANGED confirming
    BY <1>1, <1>2, <2>3
  <2>4. CASE /\ confirmBuilder' = [confirmBuilder EXCEPT ![p] = @ \cup {m}]
             /\ warned' = [warned EXCEPT ![p] = TRUE]
             /\ UNCHANGED confirming
    BY <1>1, <1>2, <2>4
  <2> QED
    BY <1>5, <2>1, <2>2, <2>3, <2>4 DEF AddAfterFlush
<1> QED
  BY <1>3, <1>4, <1>5 DEF Take

\* The receive loop moves messages between the hands of its own session only, and
\* takes one message at a time, held for it and not taken before.
LEMMA ConsumePlaces ==
  ASSUME BrokerTypes, LoopTypes, NEW p \in Proc, PlacesOk(p), Consume(p)
  PROVE  /\ PlacesOk(p)'
         /\ UNCHANGED <<posted, outbox, stored, held, confirmed>>
         /\ \A r \in Proc \ {p} :
              /\ inbox'[r] = inbox[r] /\ confirming'[r] = confirming[r]
              /\ msgIter'[r] = msgIter[r] /\ confirmBuilder'[r] = confirmBuilder[r]
              /\ tupstore'[r] = tupstore[r] /\ taken'[r] = taken[r]
         /\ \/ taken' = taken
            \/ \E m \in held[p] \ taken[p] : taken' = [taken EXCEPT ![p] = @ \cup {m}]
<1>t. BrokerTypes /\ LoopTypes
  OBVIOUS
<1>i. LeaseOk(p) /\ TakenOk(p)
  BY DEF PlacesOk
<1> DEFINE Others == \A r \in Proc \ {p} :
              /\ inbox'[r] = inbox[r] /\ confirming'[r] = confirming[r]
              /\ msgIter'[r] = msgIter[r] /\ confirmBuilder'[r] = confirmBuilder[r]
              /\ tupstore'[r] = tupstore[r] /\ taken'[r] = taken[r]
           Goal == /\ PlacesOk(p)' /\ Others
                   /\ UNCHANGED <<posted, outbox, stored, held, confirmed>>
                   /\ \/ taken' = taken
                      \/ \E m \in held[p] \ taken[p] : taken' = [taken EXCEPT ![p] = @ \cup {m}]
<1>1. ASSUME NEW n \in 1..MaxMessages, NEW b \in BOOLEAN, StartLoop(p, n, b)
      PROVE  Goal
  BY <1>i, <1>1 DEF StartLoop, brokerVars, PlacesOk, LeaseOk, TakenOk
<1>2. ASSUME NEW E \in SUBSET inbox[p], NextEvent(p, E)
      PROVE  Goal
  <2>1. /\ inbox'[p] = inbox[p] \ E /\ msgIter'[p] = E /\ Others
        /\ UNCHANGED <<tupstore, confirmBuilder, taken, confirming, held, confirmed>>
    BY <1>t, <1>2 DEF NextEvent, BrokerTypes, LoopTypes
  <2>2. PlacesOk(p)'
    BY <1>i, <2>1 DEF PlacesOk, LeaseOk, TakenOk
  <2> QED
    BY <1>2, <2>1, <2>2 DEF NextEvent
<1>3. CASE LeaveLoop(p)
  BY <1>i, <1>3 DEF LeaveLoop, brokerVars, pullVars, loopVars, PlacesOk, LeaseOk, TakenOk
<1>4. ASSUME NEW m \in Msg, Take(p, m)
      PROVE  Goal
  <2>1. /\ UNCHANGED <<posted, outbox, stored, held, inbox, confirmed>>
        /\ m \in msgIter[p]
        /\ taken' = [taken EXCEPT ![p] = @ \cup {m}]
    BY <1>4 DEF Take
  <2>2. /\ \A r \in Proc \ {p} : /\ confirming'[r] = confirming[r]
                                 /\ confirmBuilder'[r] = confirmBuilder[r]
        /\ confirming'[p] \cup confirmBuilder'[p]
             \subseteq confirming[p] \cup confirmBuilder[p] \cup {m}
        /\ confirming'[p] \cap confirmBuilder'[p] = {}
    BY <1>t, <1>i, <1>4, TakeEffect
  <2>3. /\ msgIter'[p] = msgIter[p] \ {m} /\ tupstore'[p] = tupstore[p] \cup {m}
        /\ taken'[p] = taken[p] \cup {m}
        /\ \A r \in Proc \ {p} : /\ msgIter'[r] = msgIter[r] /\ tupstore'[r] = tupstore[r]
                                 /\ taken'[r] = taken[r]
    BY <1>t, <1>4 DEF Take, LoopTypes
  <2>4. m \in held[p] \ taken[p]
    BY <1>i, <2>1 DEF LeaseOk, TakenOk
  <2>5. LeaseOk(p)'
    BY <1>i, <2>1, <2>2, <2>3 DEF LeaseOk
  <2>6. TakenOk(p)'
    BY <1>i, <2>1, <2>2, <2>3, <2>4 DEF LeaseOk, TakenOk
  <2> QED
    BY <2>1, <2>2, <2>3, <2>4, <2>5, <2>6 DEF PlacesOk
<1>5. CASE TakeFails(p)
  <2>1. /\ UNCHANGED <<posted, outbox, stored, held, inbox, confirming, confirmed, taken>>
        /\ msgIter'[p] = {} /\ tupstore'[p] = {} /\ confirmBuilder'[p] = {} /\ Others
    BY <1>t, <1>5 DEF TakeFails, DropLocals, brokerVars, LoopTypes
  <2> QED
    BY <1>i, <2>1 DEF PlacesOk, LeaseOk, TakenOk
<1>6. CASE LeaveEvent(p)
  <2>1. /\ UNCHANGED <<posted, outbox, stored, held, inbox, confirming, confirmed, taken>>
        /\ UNCHANGED <<tupstore, confirmBuilder>> /\ msgIter'[p] = {} /\ Others
    BY <1>t, <1>6 DEF LeaveEvent, brokerVars, LoopTypes
  <2> QED
    BY <1>i, <2>1 DEF PlacesOk, LeaseOk, TakenOk
<1>7. CASE Return(p)
  <2>1. /\ UNCHANGED <<posted, outbox, stored, held, inbox, confirmed, taken>>
        /\ msgIter'[p] = {} /\ tupstore'[p] = {} /\ confirmBuilder'[p] = {} /\ Others
        /\ confirming'[p] \subseteq confirming[p] \cup confirmBuilder[p]
    BY <1>t, <1>7 DEF Return, DropLocals, BrokerTypes, LoopTypes
  <2> QED
    BY <1>i, <2>1 DEF PlacesOk, LeaseOk, TakenOk
<1> QED
  BY <1>1, <1>2, <1>3, <1>4, <1>5, <1>6, <1>7 DEF Consume

\* The broker gives a session nothing that it has taken before.
LEMMA BrokerPlaces ==
  ASSUME BrokerTypes, OnePlace, NEW p \in Proc, NEW m \in Msg,
         BrokerAccept(p, m) \/ BrokerReject(p, m) \/ Push(p, m) \/ ConfirmArrives(p, m),
         UNCHANGED pullVars, NEW r \in Proc, PlacesOk(r)
  PROVE  PlacesOk(r)'
<1>t. BrokerTypes
  OBVIOUS
<1>i. LeaseOk(r) /\ TakenOk(r)
  BY DEF PlacesOk
<1>u. UNCHANGED <<msgIter, tupstore, confirmBuilder, taken>>
  BY DEF pullVars, loopVars
<1>1. CASE r # p \/ BrokerAccept(p, m) \/ BrokerReject(p, m)
  <2>1. /\ inbox'[r] = inbox[r] /\ confirming'[r] = confirming[r] /\ held'[r] = held[r]
        /\ confirmed \subseteq confirmed'
    BY <1>t, <1>1 DEF BrokerAccept, BrokerReject, Push, ConfirmArrives, BrokerTypes
  <2> QED
    BY <1>i, <1>u, <2>1 DEF PlacesOk, LeaseOk, TakenOk
<1>2. CASE r = p /\ Push(p, m)
  <2>1. /\ held'[r] = held[r] \cup {m} /\ inbox'[r] = inbox[r] \cup {m}
        /\ confirming' = confirming /\ confirmed' = confirmed
        /\ m \notin held[r] /\ m \notin confirmed
    BY <1>t, <1>2 DEF Push, BrokerTypes, OnePlace
  <2> QED
    BY <1>i, <1>u, <2>1 DEF PlacesOk, LeaseOk, TakenOk
<1>3. CASE r = p /\ ConfirmArrives(p, m)
  <2>1. /\ held'[r] = held[r] \ {m} /\ inbox' = inbox /\ m \in confirming[r]
        /\ confirming'[r] = confirming[r] \ {m} /\ confirmed' = confirmed \cup {m}
    BY <1>t, <1>3 DEF ConfirmArrives, BrokerTypes
  <2> QED
    BY <1>i, <1>u, <2>1 DEF PlacesOk, LeaseOk, TakenOk
<1> QED
  BY <1>1, <1>2, <1>3

\* Nobody's hands are disturbed by what happens elsewhere.
LEMMA PlacesUndisturbed ==
  ASSUME NEW r \in Proc, PlacesOk(r), confirmed \subseteq confirmed',
         held'[r] = held[r], inbox'[r] = inbox[r], confirming'[r] = confirming[r],
         msgIter'[r] = msgIter[r], confirmBuilder'[r] = confirmBuilder[r],
         tupstore'[r] = tupstore[r], taken'[r] = taken[r]
  PROVE  PlacesOk(r)'
BY DEF PlacesOk, LeaseOk, TakenOk

\* The end of a backend empties its hands.
LEMMA ExitPlaces ==
  ASSUME BrokerTypes, LoopTypes, NEW p \in Proc, BackendExit(p), NEW r \in Proc, PlacesOk(r)
  PROVE  PlacesOk(r)'
<1>1. CASE r = p
  BY <1>1 DEF BackendExit, Disconnect, DropLocals, PlacesOk, LeaseOk, TakenOk, BrokerTypes, LoopTypes
<1>2. CASE r # p
  BY <1>2, PlacesUndisturbed DEF BackendExit, Disconnect, DropLocals, BrokerTypes, LoopTypes
<1> QED
  BY <1>1, <1>2

\* No step of a backend or the broker puts a message into two hands, and nothing
\* is confirmed that the session did not take.
LEMMA PlacesStep ==
  ASSUME BrokerTypes, LoopTypes, OnePlace, \A p \in Proc : PlacesOk(p), [PullNext]_pullAll
  PROVE  OnePlace' /\ \A p \in Proc : PlacesOk(p)'
<1>t. BrokerTypes /\ LoopTypes /\ OnePlace
  OBVIOUS
<1>c. ConfirmsHeld
  BY DEF PlacesOk, LeaseOk, ConfirmsHeld
<1>f. ASSUME UNCHANGED <<held, inbox, confirming, confirmed, pullVars>>
      PROVE  \A p \in Proc : PlacesOk(p)'
  BY <1>f, PlacesUndisturbed DEF pullVars, loopVars
<1>1. ASSUME NEW p \in Proc, Call(p)
      PROVE  OnePlace' /\ \A r \in Proc : PlacesOk(r)'
  BY <1>t, <1>f, <1>1, StillOnePlace DEF Call, brokerVars
<1>2. ASSUME NEW p \in Proc, SessionStep(p), UNCHANGED pullVars
      PROVE  OnePlace' /\ \A r \in Proc : PlacesOk(r)'
  BY <1>t, <1>f, <1>2, StillOnePlace DEF SessionStep
<1>3. ASSUME NEW p \in Proc, PublishRow(p), UNCHANGED pullVars
      PROVE  OnePlace' /\ \A r \in Proc : PlacesOk(r)'
  <2>1. UNCHANGED <<held, inbox, confirming, confirmed>>
    BY <1>3 DEF PublishRow, Post, PostFails, brokerVars
  <2>2. OnePlace'
    BY <1>t, <1>3, PostOnePlace, StillOnePlace DEF PublishRow, PostFails, brokerVars
  <2> QED
    BY <1>f, <1>3, <2>1, <2>2
<1>4. ASSUME NEW p \in Proc, Consume(p)
      PROVE  OnePlace' /\ \A r \in Proc : PlacesOk(r)'
  <2>1. /\ PlacesOk(p)'
        /\ UNCHANGED <<posted, outbox, stored, held, confirmed>>
        /\ \A r \in Proc \ {p} :
             /\ inbox'[r] = inbox[r] /\ confirming'[r] = confirming[r]
             /\ msgIter'[r] = msgIter[r] /\ confirmBuilder'[r] = confirmBuilder[r]
             /\ tupstore'[r] = tupstore[r] /\ taken'[r] = taken[r]
    BY <1>t, <1>4, ConsumePlaces
  <2>2. \A r \in Proc \ {p} : PlacesOk(r)'
    BY <2>1, PlacesUndisturbed
  <2> QED
    BY <1>t, <2>1, <2>2, StillOnePlace
<1>5. ASSUME NEW p \in Proc, BackendExit(p)
      PROVE  OnePlace' /\ \A r \in Proc : PlacesOk(r)'
  BY <1>t, <1>5, DisconnectOnePlace, ExitPlaces DEF BackendExit
<1>6. ASSUME BrokerStep, UNCHANGED pullVars
      PROVE  OnePlace' /\ \A r \in Proc : PlacesOk(r)'
  BY <1>t, <1>c, <1>6, BrokerStepOnePlace, BrokerPlaces DEF BrokerStep
<1>7. CASE UNCHANGED pullAll
  BY <1>t, <1>f, <1>7, StillOnePlace DEF pullAll, brokerVars
<1> QED
  BY <1>1, <1>2, <1>3, <1>4, <1>5, <1>6, <1>7 DEF PullNext

(***************************************************************************)
(* The handle the loop runs on, and the locals it starts and ends with     *)
(***************************************************************************)
\* LoopInvariant for one process.
LoopOk(p) ==
  /\ pc[p] \notin LoopPc => tupstore[p] = {} /\ received[p] = 0 /\ confirmBuilder[p] = {}
  /\ pc[p] # "iterate" => msgIter[p] = {}
  /\ pc[p] \in LoopPc => arg[p].uri \in Queue /\ HandleFits(p)

\* A step leaves the loops of the other processes alone.
LEMMA LoopFrame ==
  ASSUME LoopInvariant, NEW p \in Proc, LoopOk(p)',
         \A r \in Proc \ {p} :
           /\ pc'[r] = pc[r] /\ arg'[r] = arg[r] /\ g_queues'[r] = g_queues[r]
           /\ tupstore'[r] = tupstore[r] /\ received'[r] = received[r]
           /\ confirmBuilder'[r] = confirmBuilder[r] /\ msgIter'[r] = msgIter[r]
  PROVE  LoopInvariant'
BY DEF LoopInvariant, LoopOk, HandleFits, Cached

\* Inside the loop only pc and the locals change; outside it there are none.
LEMMA LoopStep ==
  ASSUME PullTypeOK, SessionIInv, LoopInvariant, LeaseAccounted, [PullNext]_pullAll
  PROVE  SessionIInv' /\ LoopInvariant'
<1>t. SessionTypes(PullLabels) /\ BrokerTypes /\ LoopTypes
  BY DEF PullTypeOK, LoopTypes, PullLabels
<1>i. SessionIInv /\ LoopInvariant /\ LeaseAccounted
  OBVIOUS
<1>v. ASSUME NEW p \in Proc, SessionOp(p), pc[p] \in EntryPc, UNCHANGED pullVars
      PROVE  SessionIInv' /\ LoopInvariant'
  <2>1. SessionIInv'
    BY <1>t, <1>i, <1>v, OpSafe
  <2>2. pc'[p] \in EntryPc
    BY <1>t, <1>v, OpFrame
  <2>3. LoopOk(p)'
    BY <1>i, <1>v, <2>2 DEF LoopOk, LoopInvariant, EntryPc, LoopPc, pullVars, loopVars
  <2>4. LoopInvariant'
    BY <1>t, <1>i, <1>v, <2>3, OpFrame, LoopFrame DEF pullVars, loopVars
  <2> QED
    BY <2>1, <2>4
<1>1. ASSUME NEW p \in Proc, Call(p)
      PROVE  SessionIInv' /\ LoopInvariant'
  BY <1>v, <1>1 DEF Call, SessionOp, Enter, Goto, EntryPc
<1>2. ASSUME NEW p \in Proc, SessionStep(p), UNCHANGED pullVars
      PROVE  SessionIInv' /\ LoopInvariant'
  <2>1. SessionOp(p)
    BY <1>2 DEF SessionStep, SessionOp
  <2>2. pc[p] \in EntryPc
    BY <1>2 DEF SessionStep, SetBrokerUri, GetSession, ReuseSession, StartSession,
                StartFails, GetQueue, EndCall, Goto, EntryPc
  <2> QED
    BY <1>v, <1>2, <2>1, <2>2
<1>3. ASSUME NEW p \in Proc, PublishRow(p), UNCHANGED pullVars
      PROVE  SessionIInv' /\ LoopInvariant'
  <2>1. CallEnds(p, "ready")
    BY <1>3 DEF PublishRow, Post, PostFails, CallEnds
  <2>2. SessionIInv'
    BY <1>t, <1>i, <2>1, EndSafe
  <2>3. pc[p] = "ready" /\ pc'[p] = "idle"
    BY <1>t, <2>1 DEF CallEnds, EndCall, Goto, SessionTypes
  <2>4. LoopOk(p)'
    BY <1>i, <1>3, <2>3 DEF LoopOk, LoopInvariant, LoopPc, pullVars, loopVars
  <2>5. LoopInvariant'
    BY <1>t, <1>i, <1>3, <2>1, <2>4, LoopFrame
    DEF pullVars, loopVars, CallEnds, EndCall, Goto, cacheVars, SessionTypes
  <2> QED
    BY <2>2, <2>5
<1>4. ASSUME NEW p \in Proc, Consume(p)
      PROVE  SessionIInv' /\ LoopInvariant'
  <2>m. ASSUME NEW l \in LoopPc, pc' = [pc EXCEPT ![p] = l], UNCHANGED <<Handle, arg>>,
               \A r \in Proc \ {p} :
                 /\ tupstore'[r] = tupstore[r] /\ received'[r] = received[r]
                 /\ confirmBuilder'[r] = confirmBuilder[r] /\ msgIter'[r] = msgIter[r],
               l # "iterate" => msgIter'[p] = {},
               pc[p] \in LoopPc \cup {"ready"}
        PROVE  SessionIInv' /\ LoopInvariant'
    <3>1. SessionIInv'
      BY <1>t, <1>i, <2>m, LabelStep DEF Handle, cacheVars, LoopPc
    <3>2. pc'[p] = l
      BY <1>t, <2>m DEF SessionTypes
    <3>3. arg[p].uri \in Queue /\ HandleFits(p)
      BY <1>t, <1>i, <2>m, ArgTyped DEF LoopInvariant, SessionIInv, EntryInvariant, EntryPc
    <3>4. HandleFits(p)'
      BY <2>m, <3>3 DEF HandleFits, Cached, Handle, cacheVars
    <3>5. LoopOk(p)'
      BY <2>m, <3>2, <3>3, <3>4 DEF LoopOk
    <3>6. LoopInvariant'
      BY <1>t, <1>i, <2>m, <3>5, LoopFrame DEF Handle, cacheVars, SessionTypes
    <3> QED
      BY <3>1, <3>6
  <2>e. ASSUME NEW l, EndCall(p, l), UNCHANGED Handle, DropLocals(p)
        PROVE  SessionIInv' /\ LoopInvariant'
    <3>1. CallEnds(p, l)
      BY <2>e DEF CallEnds, Handle
    <3>2. SessionIInv'
      BY <1>t, <1>i, <3>1, EndSafe
    <3>3. LoopOk(p)'
      BY <1>t, <2>e DEF LoopOk, EndCall, Goto, DropLocals, LoopPc, SessionTypes, LoopTypes
    <3>4. LoopInvariant'
      BY <1>t, <1>i, <2>e, <3>3, LoopFrame
      DEF EndCall, Goto, DropLocals, Handle, cacheVars, SessionTypes, LoopTypes
    <3> QED
      BY <3>2, <3>4
  <2>1. ASSUME NEW n \in 1..MaxMessages, NEW b \in BOOLEAN, StartLoop(p, n, b)
        PROVE  SessionIInv' /\ LoopInvariant'
    <3>1. msgIter[p] = {}
      BY <1>i, <2>1 DEF StartLoop, Goto, LoopInvariant
    <3> QED
      BY <2>m, <2>1, <3>1 DEF StartLoop, Goto, LoopPc
  <2>2. ASSUME NEW E \in SUBSET inbox[p], NextEvent(p, E)
        PROVE  SessionIInv' /\ LoopInvariant'
    BY <1>t, <2>m, <2>2 DEF NextEvent, Goto, LoopPc, LoopTypes
  <2>3. CASE LeaveLoop(p)
    <3>1. msgIter[p] = {}
      BY <1>i, <2>3 DEF LeaveLoop, Goto, LoopInvariant
    <3> QED
      BY <2>m, <2>3, <3>1 DEF LeaveLoop, Goto, LoopPc, pullVars, loopVars
  <2>4. ASSUME NEW m \in Msg, Take(p, m)
        PROVE  SessionIInv' /\ LoopInvariant'
    <3>1. /\ pc' = [pc EXCEPT ![p] = "iterate"] /\ pc[p] = "iterate"
          /\ UNCHANGED <<Handle, arg>>
      BY <1>t, <2>4 DEF Take, SessionTypes
    <3>2. \A r \in Proc \ {p} : confirmBuilder'[r] = confirmBuilder[r]
      BY <1>t, <1>i, <2>4, TakeEffect DEF LeaseAccounted, LeaseOk
    <3>3. \A r \in Proc \ {p} :
            tupstore'[r] = tupstore[r] /\ received'[r] = received[r] /\ msgIter'[r] = msgIter[r]
      BY <1>t, <2>4 DEF Take, LoopTypes
    <3> QED
      BY <2>m, <3>1, <3>2, <3>3 DEF LoopPc
  <2>5. CASE TakeFails(p)
    BY <2>e, <2>5 DEF TakeFails
  <2>6. CASE LeaveEvent(p)
    BY <1>t, <2>m, <2>6 DEF LeaveEvent, Goto, LoopPc, LoopTypes
  <2>7. CASE Return(p)
    BY <2>e, <2>7 DEF Return
  <2> QED
    BY <1>4, <2>1, <2>2, <2>3, <2>4, <2>5, <2>6, <2>7 DEF Consume
<1>5. ASSUME NEW p \in Proc, BackendExit(p)
      PROVE  SessionIInv' /\ LoopInvariant'
  <2>1. SessionOp(p)
    BY <1>5 DEF BackendExit, SessionOp
  <2>2. SessionIInv'
    BY <1>t, <1>i, <2>1, OpSafe
  <2>3. LoopOk(p)'
    BY <1>t, <1>5 DEF BackendExit, Exit, DropLocals, LoopOk, LoopPc, SessionTypes, LoopTypes
  <2>4. LoopInvariant'
    BY <1>t, <1>i, <1>5, <2>1, <2>3, OpFrame, LoopFrame DEF BackendExit, DropLocals, LoopTypes
  <2> QED
    BY <2>2, <2>4
<1>6. ASSUME UNCHANGED sessionVars, UNCHANGED pullVars
      PROVE  SessionIInv' /\ LoopInvariant'
  <2>1. SessionIInv'
    BY <1>i, <1>6 DEF sessionVars, SessionIInv, CacheMatchesBroker, NoHandleWithoutSession,
                      EntryInvariant, HandleFits, Cached
  <2>2. LoopInvariant'
    BY <1>i, <1>6 DEF sessionVars, pullVars, loopVars, LoopInvariant, HandleFits, Cached
  <2> QED
    BY <2>1, <2>2
<1> QED
  BY <1>1, <1>2, <1>3, <1>4, <1>5, <1>6 DEF PullNext, BrokerStep, pullAll

(***************************************************************************)
(* Rows and the batch                                                      *)
(***************************************************************************)
\* Sets of messages are finite.
LEMMA MsgsFinite ==
  ASSUME NEW S \in SUBSET Msg
  PROVE  IsFiniteSet(S) /\ Cardinality(S) \in Nat
BY BrokerAssumption, FS_Subset, FS_CardinalityType

\* RowsAccounted and BatchInvariant for one process.
RowsOk(p) ==
  /\ ~warned[p] => tupstore[p] \subseteq confirmBuilder[p] \cup confirming[p] \cup confirmed
  /\ received[p] = Cardinality(tupstore[p])
  /\ received[p] <= max_messages[p]

BatchOk(p) ==
  ~warned[p] => Cardinality(confirmBuilder[p]) < Threshold \/ Cardinality(confirmBuilder[p]) <= 1

\* A call without locals has no rows to account for.
LEMMA DroppedOk ==
  ASSUME LoopTypes, NEW p \in Proc, DropLocals(p)
  PROVE  RowsOk(p)' /\ BatchOk(p)'
<1>1. /\ tupstore'[p] = {} /\ confirmBuilder'[p] = {}
      /\ received'[p] = 0 /\ max_messages'[p] = 0
  BY DEF LoopTypes, DropLocals
<1>2. Cardinality({}) = 0
  BY FS_EmptySet
<1> QED
  BY <1>1, <1>2 DEF RowsOk, BatchOk

\* The loop body flushes the batch when it reaches the threshold, and starts a
\* new one with m when the builder was full.
LEMMA TakeBatch ==
  ASSUME BrokerTypes, LoopTypes, NEW p \in Proc, BatchOk(p), NEW m \in Msg, Take(p, m)
  PROVE  BatchOk(p)'
<1>1. /\ confirmBuilder \in [Proc -> SUBSET Msg]
      /\ warned \in [Proc -> BOOLEAN]
  BY DEF LoopTypes
<1>2. Cardinality({}) = 0 /\ Cardinality({m}) = 1
  BY FS_EmptySet, FS_Singleton
<1>3. CASE ConfirmOne(p, m)
  BY <1>1, <1>3 DEF ConfirmOne, BatchOk
<1>4. CASE AddToBatch(p, m)
  <2> DEFINE batch == confirmBuilder[p] \cup {m}
  <2>1. CASE Cardinality(batch) >= Threshold /\ Flush(p, batch)
    BY <1>1, <1>2, <2>1 DEF Flush, BatchOk
  <2>2. CASE ~(Cardinality(batch) >= Threshold) /\ confirmBuilder' = [confirmBuilder EXCEPT ![p] = batch]
    <3>1. Cardinality(batch) \in Nat
      BY <1>1, MsgsFinite
    <3> QED
      BY <1>1, <2>2, <3>1, PullAssumption DEF BatchOk
  <2> QED
    BY <1>4, <2>1, <2>2 DEF AddToBatch
<1>5. CASE AddAfterFlush(p, m)
  BY <1>1, <1>2, <1>5 DEF AddAfterFlush, BatchOk
<1> QED
  BY <1>3, <1>4, <1>5 DEF Take

\* Every step keeps the result set, its count and the confirms in line.
LEMMA RowsStep ==
  ASSUME BrokerTypes, LoopTypes, PlacesInv, LoopInvariant, RowsAccounted, BatchInvariant,
         [PullNext]_pullAll
  PROVE  RowsAccounted' /\ BatchInvariant'
<1>t. BrokerTypes /\ LoopTypes
  OBVIOUS
<1>i. LeaseAccounted /\ TakenInvariant /\ LoopInvariant /\ RowsAccounted /\ BatchInvariant
  BY DEF PlacesInv
<1>r. \A p \in Proc : RowsOk(p) /\ BatchOk(p)
  BY <1>i DEF RowsAccounted, BatchInvariant, RowsOk, BatchOk
<1>f. ASSUME NEW p \in Proc, RowsOk(p)', BatchOk(p)', confirmed \subseteq confirmed',
             \A r \in Proc \ {p} :
               /\ tupstore'[r] = tupstore[r] /\ received'[r] = received[r]
               /\ max_messages'[r] = max_messages[r] /\ warned'[r] = warned[r]
               /\ confirmBuilder'[r] = confirmBuilder[r] /\ confirming'[r] = confirming[r]
      PROVE  RowsAccounted' /\ BatchInvariant'
  <2>1. ASSUME NEW r \in Proc \ {p}
        PROVE  RowsOk(r)' /\ BatchOk(r)'
    BY <1>f, <1>r DEF RowsOk, BatchOk
  <2> QED
    BY <1>f, <2>1 DEF RowsAccounted, BatchInvariant, RowsOk, BatchOk
<1>u. ASSUME UNCHANGED <<confirming, confirmed, pullVars>>
      PROVE  RowsAccounted' /\ BatchInvariant'
  BY <1>i, <1>u DEF pullVars, loopVars, RowsAccounted, BatchInvariant
<1>1. ASSUME NEW p \in Proc, Call(p)
      PROVE  RowsAccounted' /\ BatchInvariant'
  BY <1>u, <1>1 DEF Call, brokerVars
<1>2. ASSUME NEW p \in Proc, SessionStep(p), UNCHANGED pullVars
      PROVE  RowsAccounted' /\ BatchInvariant'
  BY <1>u, <1>2 DEF SessionStep
<1>3. ASSUME NEW p \in Proc, PublishRow(p), UNCHANGED pullVars
      PROVE  RowsAccounted' /\ BatchInvariant'
  BY <1>u, <1>3 DEF PublishRow, Post, PostFails, brokerVars
<1>4. ASSUME NEW p \in Proc, Consume(p)
      PROVE  RowsAccounted' /\ BatchInvariant'
  <2>1. ASSUME NEW n \in 1..MaxMessages, NEW b \in BOOLEAN, StartLoop(p, n, b)
        PROVE  RowsAccounted' /\ BatchInvariant'
    <3>1. received[p] = 0 /\ n \in Nat
      BY <1>i, <2>1, PullAssumption DEF StartLoop, Goto, LoopInvariant, LoopPc
    <3>2. max_messages'[p] = n /\ \A r \in Proc \ {p} : max_messages'[r] = max_messages[r]
      BY <1>t, <2>1 DEF StartLoop, LoopTypes
    <3>3. RowsOk(p)' /\ BatchOk(p)'
      BY <1>r, <2>1, <3>1, <3>2 DEF StartLoop, brokerVars, RowsOk, BatchOk
    <3> QED
      BY <1>f, <2>1, <3>2, <3>3 DEF StartLoop, brokerVars
  <2>2. ASSUME NEW E \in SUBSET inbox[p], NextEvent(p, E)
        PROVE  RowsAccounted' /\ BatchInvariant'
    BY <1>i, <2>2 DEF NextEvent, RowsAccounted, BatchInvariant
  <2>3. CASE LeaveLoop(p)
    BY <1>u, <2>3 DEF LeaveLoop, brokerVars
  <2>4. ASSUME NEW m \in Msg, Take(p, m)
        PROVE  RowsAccounted' /\ BatchInvariant'
    <3>1. /\ confirmed' = confirmed /\ max_messages' = max_messages
          /\ received[p] < max_messages[p]
          /\ m \in msgIter[p]
          /\ tupstore' = [tupstore EXCEPT ![p] = @ \cup {m}]
          /\ received' = [received EXCEPT ![p] = @ + 1]
      BY <2>4 DEF Take
    <3>2. m \notin tupstore[p]
      BY <1>i, <3>1 DEF TakenInvariant
    <3>3. Cardinality(tupstore[p] \cup {m}) = Cardinality(tupstore[p]) + 1
      BY <1>t, <3>2, MsgsFinite, FS_AddElement DEF LoopTypes
    <3>4. /\ tupstore'[p] = tupstore[p] \cup {m}
          /\ received'[p] = received[p] + 1
          /\ received[p] \in Nat /\ max_messages[p] \in Nat
          /\ \A r \in Proc \ {p} : tupstore'[r] = tupstore[r] /\ received'[r] = received[r]
      BY <1>t, <3>1 DEF LoopTypes
    <3>5. ~warned'[p] =>
            tupstore'[p] \subseteq confirmBuilder'[p] \cup confirming'[p] \cup confirmed'
      BY <1>t, <1>i, <1>r, <2>4, <3>1, <3>4, TakeEffect DEF RowsOk, LeaseAccounted, LeaseOk
    <3>6. RowsOk(p)'
      <4>1. received'[p] = Cardinality(tupstore'[p])
        BY <1>r, <3>3, <3>4 DEF RowsOk
      <4>2. received'[p] <= max_messages'[p]
        BY <3>1, <3>4
      <4> QED
        BY <3>5, <4>1, <4>2 DEF RowsOk
    <3>7. BatchOk(p)'
      BY <1>t, <1>r, <2>4, TakeBatch
    <3> QED
      BY <1>t, <1>i, <1>f, <2>4, <3>1, <3>4, <3>6, <3>7, TakeEffect DEF LeaseAccounted, LeaseOk
  <2>5. CASE TakeFails(p)
    BY <1>t, <1>f, <2>5, DroppedOk DEF TakeFails, brokerVars, DropLocals, LoopTypes
  <2>6. CASE LeaveEvent(p)
    BY <1>i, <2>6 DEF LeaveEvent, brokerVars, RowsAccounted, BatchInvariant
  <2>7. CASE Return(p)
    <3>1. RowsOk(p)' /\ BatchOk(p)'
      BY <1>t, <2>7, DroppedOk DEF Return
    <3>2. \A r \in Proc \ {p} : confirming'[r] = confirming[r] /\ warned'[r] = warned[r]
      BY <1>t, <2>7 DEF Return, BrokerTypes, LoopTypes
    <3> QED
      BY <1>t, <1>f, <2>7, <3>1, <3>2 DEF Return, DropLocals, LoopTypes
  <2> QED
    BY <1>4, <2>1, <2>2, <2>3, <2>4, <2>5, <2>6, <2>7 DEF Consume
<1>5. ASSUME NEW p \in Proc, BackendExit(p)
      PROVE  RowsAccounted' /\ BatchInvariant'
  <2>1. RowsOk(p)' /\ BatchOk(p)'
    BY <1>t, <1>5, DroppedOk DEF BackendExit
  <2> QED
    BY <1>t, <1>f, <1>5, <2>1
    DEF BackendExit, Disconnect, DropLocals, BrokerTypes, LoopTypes
<1>6. ASSUME BrokerStep, UNCHANGED pullVars
      PROVE  RowsAccounted' /\ BatchInvariant'
  <2>0. PICK p \in Proc, m \in Msg :
          BrokerAccept(p, m) \/ BrokerReject(p, m) \/ Push(p, m) \/ ConfirmArrives(p, m)
    BY <1>6 DEF BrokerStep
  <2>1. CASE BrokerAccept(p, m) \/ BrokerReject(p, m) \/ Push(p, m)
    BY <1>u, <1>6, <2>1 DEF BrokerAccept, BrokerReject, Push
  <2>2. CASE ConfirmArrives(p, m)
    <3>0. /\ UNCHANGED <<tupstore, received, max_messages, confirmBuilder, warned>>
          /\ confirming[p] \cup confirmed \subseteq confirming'[p] \cup confirmed'
      BY <1>t, <1>6, <2>2 DEF ConfirmArrives, pullVars, loopVars, BrokerTypes
    <3>1. RowsOk(p)' /\ BatchOk(p)'
      BY <1>r, <3>0 DEF RowsOk, BatchOk
    <3> QED
      BY <1>t, <1>f, <1>6, <2>2, <3>1 DEF ConfirmArrives, pullVars, loopVars, BrokerTypes
  <2> QED
    BY <2>0, <2>1, <2>2
<1>7. CASE UNCHANGED pullAll
  BY <1>u, <1>7 DEF pullAll, brokerVars
<1> QED
  BY <1>1, <1>2, <1>3, <1>4, <1>5, <1>6, <1>7 DEF PullNext

(***************************************************************************)
(* Filters                                                                 *)
(***************************************************************************)
\* Whatever is given to a session passes its filter or was there before it: a
\* push respects the filter, and a change of it notes what is there.
LEMMA DeliveredStep ==
  ASSUME SessionTypes(PullLabels), BrokerTypes, LoopTypes, LeaseAccounted, LoopInvariant,
         DeliveredInvariant, [PullNext]_pullAll
  PROVE  DeliveredInvariant'
<1>t. SessionTypes(PullLabels) /\ BrokerTypes /\ LoopTypes
  OBVIOUS
<1>i. LeaseAccounted /\ LoopInvariant /\ DeliveredInvariant
  OBVIOUS
<1> DEFINE Given(r) == held[r] \cup tupstore[r]
           Ok(r, m) == Passes(m, handles[r][MsgQueue[m]]) \/ m \in early[r]
<1>d. \A r \in Proc : \A m \in Given(r) : Ok(r, m)
  BY <1>i DEF DeliveredInvariant
<1>m. ASSUME NEW r \in Proc, NEW m \in Given(r)
      PROVE  m \in Msg
  BY <1>t DEF BrokerTypes, LoopTypes
<1>u. ASSUME UNCHANGED <<handles, early>>, \A r \in Proc : Given(r)' \subseteq Given(r)
      PROVE  DeliveredInvariant'
  BY <1>d, <1>u DEF DeliveredInvariant, Passes
<1>1. ASSUME NEW p \in Proc, Call(p)
      PROVE  DeliveredInvariant'
  BY <1>u, <1>1 DEF Call, Enter, brokerVars, pullVars, loopVars
<1>2. ASSUME NEW p \in Proc, SessionStep(p), UNCHANGED pullVars
      PROVE  DeliveredInvariant'
  <2>1. /\ UNCHANGED <<held, tupstore>>
        /\ early' = [early EXCEPT ![p] = @ \cup
             {m \in stored \cup held[p] : handles'[p][MsgQueue[m]] # handles[p][MsgQueue[m]]}]
    BY <1>2 DEF SessionStep, NoteEarly, pullVars, loopVars
  <2>2. pc[p] \in EntryPc
    BY <1>2 DEF SessionStep, SetBrokerUri, GetSession, ReuseSession, StartSession,
                StartFails, GetQueue, EndCall, Goto, EntryPc
  <2>3. tupstore[p] = {}
    BY <1>i, <2>2 DEF LoopInvariant, EntryPc, LoopPc
  <2>4. \A r \in Proc \ {p} : handles'[r] = handles[r]
    BY <1>t, <1>2, OpFrame DEF SessionStep, SessionOp
  <2>5. /\ \A r \in Proc : early[r] \subseteq early'[r]
        /\ \A m \in held[p] : handles'[p][MsgQueue[m]] = handles[p][MsgQueue[m]] \/ m \in early'[p]
    BY <1>t, <2>1 DEF BrokerTypes
  <2>6. ASSUME NEW r \in Proc, NEW m \in Given(r)
        PROVE  Ok(r, m)'
    <3>1. CASE r = p
      BY <1>d, <2>3, <2>5, <2>6, <3>1 DEF Passes
    <3>2. CASE r # p
      BY <1>d, <2>4, <2>5, <2>6, <3>2 DEF Passes
    <3> QED
      BY <3>1, <3>2
  <2> QED
    BY <2>1, <2>6 DEF DeliveredInvariant
<1>3. ASSUME NEW p \in Proc, PublishRow(p), UNCHANGED pullVars
      PROVE  DeliveredInvariant'
  BY <1>u, <1>3 DEF PublishRow, Post, PostFails, cacheVars, brokerVars, pullVars, loopVars
<1>4. ASSUME NEW p \in Proc, Consume(p)
      PROVE  DeliveredInvariant'
  <2>1. UNCHANGED <<handles, early, held>>
    BY <1>4 DEF Consume, StartLoop, NextEvent, LeaveLoop, Take, TakeFails, LeaveEvent,
                Return, Handle, cacheVars, brokerVars
  <2>2. ASSUME NEW m \in Msg, Take(p, m)
        PROVE  Given(p)' \subseteq Given(p) /\ \A r \in Proc \ {p} : Given(r)' = Given(r)
    <3>1. m \in held[p]
      BY <1>i, <2>2 DEF Take, LeaseAccounted
    <3> QED
      BY <1>t, <2>1, <2>2, <3>1 DEF Take, LoopTypes
  <2>3. ASSUME DropLocals(p)
        PROVE  \A r \in Proc : tupstore'[r] \subseteq tupstore[r]
    BY <1>t, <2>3 DEF DropLocals, LoopTypes
  <2>4. \A r \in Proc : Given(r)' \subseteq Given(r)
    BY <1>4, <2>1, <2>2, <2>3
    DEF Consume, StartLoop, NextEvent, LeaveLoop, TakeFails, LeaveEvent, Return, pullVars, loopVars
  <2> QED
    BY <1>u, <2>1, <2>4
<1>5. ASSUME NEW p \in Proc, BackendExit(p)
      PROVE  DeliveredInvariant'
  <2>1. Given(p)' = {}
    BY <1>t, <1>5 DEF BackendExit, Disconnect, DropLocals, BrokerTypes, LoopTypes
  <2>2. \A r \in Proc \ {p} :
          Given(r)' = Given(r) /\ early'[r] = early[r] /\ handles'[r] = handles[r]
    BY <1>t, <1>5
    DEF BackendExit, Disconnect, DropLocals, Exit, BrokerTypes, LoopTypes, SessionTypes
  <2> QED
    BY <1>d, <2>1, <2>2 DEF DeliveredInvariant, Passes
<1>6. ASSUME BrokerStep, UNCHANGED pullVars
      PROVE  DeliveredInvariant'
  <2>0. PICK p \in Proc, m \in Msg :
          BrokerAccept(p, m) \/ BrokerReject(p, m) \/ Push(p, m) \/ ConfirmArrives(p, m)
    BY <1>6 DEF BrokerStep
  <2>h. UNCHANGED <<handles, early, tupstore>>
    BY <1>6, <2>0 DEF BrokerStep, sessionVars, pullVars, loopVars, BrokerAccept,
                      BrokerReject, Push, ConfirmArrives
  <2>1. CASE BrokerAccept(p, m) \/ BrokerReject(p, m)
    BY <1>u, <2>h, <2>1 DEF BrokerAccept, BrokerReject
  <2>2. CASE Push(p, m)
    <3>1. Ok(p, m)
      BY <2>2 DEF Push, Deliverable
    <3>2. /\ held'[p] = held[p] \cup {m}
          /\ \A r \in Proc \ {p} : held'[r] = held[r]
      BY <1>t, <2>2 DEF Push, BrokerTypes
    <3> QED
      BY <1>d, <2>h, <3>1, <3>2 DEF DeliveredInvariant, Passes
  <2>3. CASE ConfirmArrives(p, m)
    <3>1. \A r \in Proc : held'[r] \subseteq held[r]
      BY <1>t, <2>3 DEF ConfirmArrives, BrokerTypes
    <3> QED
      BY <1>u, <2>h, <3>1
  <2> QED
    BY <2>0, <2>1, <2>2, <2>3
<1>7. CASE UNCHANGED pullAll
  BY <1>u, <1>7 DEF pullAll, sessionVars, brokerVars, pullVars, loopVars
<1> QED
  BY <1>1, <1>2, <1>3, <1>4, <1>5, <1>6, <1>7 DEF PullNext

(***************************************************************************)
(* The theorems                                                            *)
(***************************************************************************)
\* PullIInv is an inductive invariant of every backend's bmq_consume calls.
THEOREM PullSafety == PullSpec => []PullIInv
<1>1. PullInit => PullIInv
  <2> SUFFICES ASSUME PullInit PROVE PullIInv
    OBVIOUS
  <2>1. Cardinality({}) = 0
    BY FS_EmptySet
  <2>2. SessionIInv
    BY DEF PullInit, SessionInit, SessionIInv, CacheMatchesBroker, NoHandleWithoutSession,
           EntryInvariant
  <2>3. OnePlace /\ LeaseAccounted /\ TakenInvariant /\ ConfirmOnlyTaken /\ DeliveredInvariant
    BY DEF PullInit, BrokerInit, NoMsgs, OnePlace, LeaseAccounted, TakenInvariant,
           ConfirmOnlyTaken, DeliveredInvariant
  <2>4. LoopInvariant
    BY DEF PullInit, SessionInit, NoMsgs, LoopInvariant, LoopPc
  <2>5. RowsAccounted /\ BatchInvariant
    BY <2>1 DEF PullInit, NoMsgs, RowsAccounted, BatchInvariant
  <2> QED
    BY <2>2, <2>3, <2>4, <2>5 DEF PullIInv
<1>2. PullTypeOK /\ PullIInv /\ [PullNext]_pullAll => PullIInv'
  <2> SUFFICES ASSUME PullTypeOK, PullIInv, [PullNext]_pullAll
               PROVE  PullIInv'
    OBVIOUS
  <2>1. SessionTypes(PullLabels) /\ BrokerTypes /\ LoopTypes
    BY DEF PullTypeOK, LoopTypes, PullLabels
  <2>2. PlacesInv /\ LeaseAccounted /\ LoopInvariant
    BY DEF PullIInv, PlacesInv
  <2>3. PlacesInv'
    <3>1. OnePlace' /\ \A p \in Proc : PlacesOk(p)'
      BY <2>1, <2>2, PlacesIs, PlacesStep
    <3> QED
      BY <3>1 DEF PlacesInv, PlacesOk, LeaseOk, TakenOk, LeaseAccounted, TakenInvariant,
                  ConfirmOnlyTaken
  <2>4. SessionIInv' /\ LoopInvariant'
    BY LoopStep DEF PullIInv
  <2>5. RowsAccounted' /\ BatchInvariant'
    BY <2>1, <2>2, RowsStep DEF PullIInv
  <2>6. DeliveredInvariant'
    BY <2>1, DeliveredStep DEF PullIInv
  <2> QED
    BY <2>3, <2>4, <2>5, <2>6 DEF PullIInv, PlacesInv
<1> QED
  BY <1>1, <1>2, PullTypeCorrect, PTL DEF PullSpec

\* Through pushes, posts, confirms under way and session ends, every message is
\* in one place.
THEOREM OnePlaceAlways == PullSpec => []OnePlace
<1>1. PullIInv => OnePlace
  BY DEF PullIInv
<1> QED
  BY <1>1, PullSafety, PTL

\* What bmq_consume works on is held for its session and in one hand of it.
THEOREM LeaseAccountedAlways == PullSpec => []LeaseAccounted
<1>1. PullIInv => LeaseAccounted
  BY DEF PullIInv
<1> QED
  BY <1>1, PullSafety, PTL

\* bmq_consume confirms nothing it did not put into a result set.
THEOREM ConfirmOnlyTakenAlways == PullSpec => []ConfirmOnlyTaken
<1>1. PullIInv => ConfirmOnlyTaken
  BY DEF PullIInv
<1> QED
  BY <1>1, PullSafety, PTL

\* The rows returned are as many as counted, no more than asked for, and all on
\* their way to be confirmed unless an SDK call failed with a WARNING.
THEOREM RowsAccountedAlways == PullSpec => []RowsAccounted
<1>1. PullIInv => RowsAccounted
  BY DEF PullIInv
<1> QED
  BY <1>1, PullSafety, PTL

\* Rows of the queue asked for pass the expression asked for, but for messages
\* that were there before the filter, or an expression whose reconfigure timed out.
THEOREM RowsPassFilterAlways == PullSpec => []RowsPassFilter
<1>1. PullTypeOK /\ PullIInv => RowsPassFilter
  <2> SUFFICES ASSUME PullTypeOK, PullIInv, NEW p \in Proc,
                      NEW m \in OfQueue(tupstore[p], arg[p].uri),
                      m \notin early[p]
               PROVE  \E f \in {arg[p].subscriptionExpr} \cup doubt[p][MsgQueue[m]] : Passes(m, f)
    BY DEF RowsPassFilter
  <2> DEFINE q == arg[p].uri
  <2>1. m \in tupstore[p] /\ MsgQueue[m] = q
    BY DEF OfQueue
  <2>2. pc[p] \in LoopPc
    BY <2>1 DEF PullIInv, LoopInvariant
  <2>3. q \in Queue /\ HandleFits(p)
    BY <2>2 DEF PullIInv, LoopInvariant
  <2>4. handles[p][q] \in {g_queues[p][q]} \cup doubt[p][q]
    BY <2>1, <2>3 DEF PullIInv, SessionIInv, CacheMatchesBroker
  <2>5. Passes(m, handles[p][q])
    BY <2>1 DEF PullIInv, DeliveredInvariant
  <2>6. CASE arg[p].subscriptionExpr = NoExpr
    BY <2>6 DEF Passes
  <2>7. CASE arg[p].subscriptionExpr = g_queues[p][q]
    BY <2>1, <2>4, <2>5, <2>7
  <2> QED
    BY <2>3, <2>6, <2>7 DEF HandleFits, Cached
<1> QED
  BY <1>1, PullSafety, PullTypeCorrect, PTL

\* With a flush threshold within the flow-control window (500 and 1000 in the
\* code), a waiting bmq_consume has not closed the window on itself.
THEOREM WindowStaysOpenAlways ==
  ASSUME Threshold <= Window, Window > 1
  PROVE  PullSpec => []WindowStaysOpen
<1>1. PullTypeOK /\ PullIInv => WindowStaysOpen
  <2> SUFFICES ASSUME PullTypeOK, PullIInv, NEW p \in Proc, NEW q \in Queue,
                      Starved(p), Stranded(p) = {}
               PROVE  HasRoom(p, q)
    BY DEF WindowStaysOpen
  <2>1. inbox[p] = {} /\ confirming[p] = {} /\ ~warned[p] /\ msgIter[p] = {}
    BY DEF Starved, PullIInv, LoopInvariant
  <2>2. OfQueue(held[p], q) \subseteq confirmBuilder[p]
    BY <2>1 DEF Stranded, OfQueue
  <2>3. confirmBuilder[p] \in SUBSET Msg
    BY DEF PullTypeOK
  <2>4. /\ IsFiniteSet(confirmBuilder[p]) /\ Cardinality(confirmBuilder[p]) \in Nat
        /\ Cardinality(OfQueue(held[p], q)) \in Nat
    BY <2>2, <2>3, MsgsFinite
  <2>5. Cardinality(OfQueue(held[p], q)) <= Cardinality(confirmBuilder[p])
    BY <2>2, <2>4, FS_Subset
  <2>6. Cardinality(confirmBuilder[p]) < Threshold \/ Cardinality(confirmBuilder[p]) <= 1
    BY <2>1 DEF PullIInv, BatchInvariant
  <2>7. Window \in Nat /\ Threshold \in Nat
    BY BrokerAssumption, PullAssumption
  <2> QED
    BY <2>4, <2>5, <2>6, <2>7 DEF HasRoom
<1> QED
  BY <1>1, PullSafety, PullTypeCorrect, PTL
=============================================================================
