--------------------------- MODULE SessionProofs ---------------------------
(***************************************************************************)
(* Proofs about Session, for any set of processes, queues and expressions, *)
(* and the lemmas on what each step at the broker does to where the        *)
(* messages are, on which the proofs about consumers rest.                 *)
(***************************************************************************)
EXTENDS Broker, TLAPS

\* What a process does to its session and its handle cache, whatever module the
\* rest of its call is in.
SessionOp(p) ==
  \/ \E u \in Uri : SetBrokerUri(p, u)
  \/ \E q \in Queue, e \in Filter : Enter(p, q, e)
  \/ GetSession(p)
  \/ GetQueue(p)
  \/ Exit(p)

\* The call ends and leaves session and cache alone.
CallEnds(p, l) == EndCall(p, l) /\ UNCHANGED <<g_broker_uri, g_session, cacheVars>>

\* What a call knows about its own entry: the queue it names and the filter it
\* asks for are proper ones from Enter until the call is over.
LEMMA ArgTyped ==
  ASSUME NEW L, SessionTypes(L), NEW p \in Proc, pc[p] \in EntryPc \ {"idle"}
  PROVE  arg[p].uri \in Queue /\ arg[p].subscriptionExpr \in Filter
BY DEF SessionTypes, EntryPc, Args

\* A request that failed keeps the handle table well formed, and what other
\* processes have in it.
LEMMA FailedTyped ==
  ASSUME NEW L, SessionTypes(L), NEW p \in Proc, NEW q \in Queue, NEW e \in Filter,
         Refused \/ TimedOut(p, q, e)
  PROVE  /\ handles' \in [Proc -> [Queue -> Filter \cup {None}]]
         /\ doubt' \in [Proc -> [Queue -> SUBSET Filter]]
         /\ \A r \in Proc \ {p} : handles'[r] = handles[r] /\ doubt'[r] = doubt[r]
<1>1. CASE Refused
  BY <1>1 DEF Refused, SessionTypes
<1>2. CASE TimedOut(p, q, e)
  <2>1. CASE handles' = handles
    BY <1>2, <2>1 DEF TimedOut, SessionTypes
  <2>2. CASE handles' = [handles EXCEPT ![p][q] = e]
    BY <1>2, <2>2 DEF TimedOut, SessionTypes
  <2> QED
    BY <1>2, <2>1, <2>2 DEF TimedOut
<1> QED
  BY <1>1, <1>2

\* Every step of get_session, get_queue and the exit hook keeps the cache, the
\* handle table and the call arguments well formed.
LEMMA OpTyped ==
  ASSUME NEW L, EntryPc \subseteq L, SessionTypes(L), NEW p \in Proc, SessionOp(p)
  PROVE  SessionTypes(L)'
<1> USE SessionAssumption DEF SessionTypes, EntryPc, Args, NoArg, Filter
<1>1. ASSUME NEW u \in Uri, SetBrokerUri(p, u)
      PROVE  SessionTypes(L)'
  BY <1>1 DEF SetBrokerUri
<1>2. ASSUME NEW q \in Queue, NEW e \in Filter, Enter(p, q, e)
      PROVE  SessionTypes(L)'
  BY <1>2 DEF Enter, Goto
<1>3. ASSUME GetSession(p)
      PROVE  SessionTypes(L)'
  <2>1. CASE ReuseSession(p)
    BY <2>1 DEF ReuseSession, Goto
  <2>2. CASE StartSession(p)
    BY <2>2 DEF StartSession, Goto
  <2>3. CASE StartFails(p)
    BY <2>3 DEF StartFails, EndCall, Goto
  <2> QED
    BY <1>3, <2>1, <2>2, <2>3 DEF GetSession
<1>4. ASSUME GetQueue(p)
      PROVE  SessionTypes(L)'
  <2>1. CASE ReuseHandle(p)
    BY <2>1 DEF ReuseHandle, Goto, cacheVars
  <2>2. CASE Reconfigure(p)
    <3>1. arg[p].subscriptionExpr \in Filter
      OBVIOUS
    <3>2. /\ handles' \in [Proc -> [Queue -> Filter \cup {None}]]
          /\ g_queues' \in [Proc -> [Queue -> Filter \cup {None}]]
      BY <2>2, <3>1 DEF Reconfigure
    <3>3. doubt' \in [Proc -> [Queue -> SUBSET Filter]]
      BY <2>2 DEF Reconfigure
    <3> QED
      BY <2>2, <3>2, <3>3 DEF Reconfigure, Goto
  <2>3. CASE ReconfigureFails(p)
    <3>1. arg[p].subscriptionExpr \in Filter /\ arg[p].uri \in Queue
      BY <1>4 DEF GetQueue
    <3>2. /\ handles' \in [Proc -> [Queue -> Filter \cup {None}]]
          /\ doubt' \in [Proc -> [Queue -> SUBSET Filter]]
      BY <2>3, <3>1, FailedTyped DEF ReconfigureFails
    <3> QED
      BY <2>3, <3>2 DEF ReconfigureFails, EndCall, Goto
  <2>4. CASE BadSubscription(p)
    BY <2>4 DEF BadSubscription, EndCall, Goto, cacheVars
  <2>5. CASE OpenQueue(p)
    BY <2>5 DEF OpenQueue, Goto
  <2>6. CASE OpenFails(p)
    <3>1. arg[p].subscriptionExpr \in Filter /\ arg[p].uri \in Queue
      BY <1>4 DEF GetQueue
    <3>2. /\ handles' \in [Proc -> [Queue -> Filter \cup {None}]]
          /\ doubt' \in [Proc -> [Queue -> SUBSET Filter]]
      BY <2>6, <3>1, FailedTyped DEF OpenFails
    <3> QED
      BY <2>6, <3>2 DEF OpenFails, EndCall, Goto
  <2> QED
    BY <1>4, <2>1, <2>2, <2>3, <2>4, <2>5, <2>6 DEF GetQueue
<1>5. ASSUME Exit(p)
      PROVE  SessionTypes(L)'
  BY <1>5 DEF Exit
<1> QED
  BY <1>1, <1>2, <1>3, <1>4, <1>5 DEF SessionOp

\* So does the end of a call.
LEMMA EndTyped ==
  ASSUME NEW L, EntryPc \subseteq L, SessionTypes(L), NEW p \in Proc, NEW l, CallEnds(p, l)
  PROVE  SessionTypes(L)'
BY SessionAssumption
DEF SessionTypes, EntryPc, Args, NoArg, Filter, CallEnds, EndCall, Goto, cacheVars

\* A process touches no other process's session, handles or call, and its own
\* call is then between its entry and the return of get_queue.
LEMMA OpFrame ==
  ASSUME NEW L, SessionTypes(L), NEW p \in Proc, SessionOp(p)
  PROVE  /\ \A r \in Proc \ {p} :
              /\ g_session'[r] = g_session[r]
              /\ g_queues'[r] = g_queues[r]
              /\ handles'[r] = handles[r]
              /\ doubt'[r] = doubt[r]
              /\ pc'[r] = pc[r]
              /\ arg'[r] = arg[r]
         /\ pc'[p] \in EntryPc
         /\ Exit(p) \/ pc[p] \in EntryPc
<1> USE DEF SessionTypes, EntryPc
<1>1. ASSUME NEW u \in Uri, SetBrokerUri(p, u)
      PROVE  /\ UNCHANGED <<g_session, g_queues, handles, doubt, pc, arg>>
             /\ pc[p] = "idle"
  BY <1>1 DEF SetBrokerUri
<1>2. ASSUME NEW q \in Queue, NEW e \in Filter, Enter(p, q, e)
      PROVE  /\ UNCHANGED <<g_session, g_queues, handles, doubt>>
             /\ \A r \in Proc \ {p} : pc'[r] = pc[r] /\ arg'[r] = arg[r]
             /\ pc'[p] \in EntryPc /\ pc[p] \in EntryPc
  BY <1>2 DEF Enter, Goto
<1>3. CASE GetSession(p)
  <2>1. CASE ReuseSession(p)
    BY <2>1 DEF ReuseSession, Goto
  <2>2. CASE StartSession(p)
    BY <2>2 DEF StartSession, Goto
  <2>3. CASE StartFails(p)
    BY <2>3 DEF StartFails, EndCall, Goto
  <2> QED
    BY <1>3, <2>1, <2>2, <2>3 DEF GetSession
<1>4. CASE GetQueue(p)
  <2>1. CASE ReuseHandle(p)
    BY <2>1 DEF ReuseHandle, Goto, cacheVars
  <2>2. CASE Reconfigure(p)
    BY <2>2 DEF Reconfigure, Goto
  <2>3. CASE ReconfigureFails(p)
    <3>1. \A r \in Proc \ {p} : handles'[r] = handles[r] /\ doubt'[r] = doubt[r]
      BY <1>4, <2>3, ArgTyped, FailedTyped DEF GetQueue, ReconfigureFails
    <3> QED
      BY <2>3, <3>1 DEF ReconfigureFails, EndCall, Goto
  <2>4. CASE BadSubscription(p)
    BY <2>4 DEF BadSubscription, EndCall, Goto, cacheVars
  <2>5. CASE OpenQueue(p)
    BY <2>5 DEF OpenQueue, Goto
  <2>6. CASE OpenFails(p)
    <3>1. \A r \in Proc \ {p} : handles'[r] = handles[r] /\ doubt'[r] = doubt[r]
      BY <1>4, <2>6, ArgTyped, FailedTyped DEF GetQueue, OpenFails
    <3> QED
      BY <2>6, <3>1 DEF OpenFails, EndCall, Goto
  <2> QED
    BY <1>4, <2>1, <2>2, <2>3, <2>4, <2>5, <2>6 DEF GetQueue
<1>5. CASE Exit(p)
  BY <1>5 DEF Exit
<1> QED
  BY <1>1, <1>2, <1>3, <1>4, <1>5 DEF SessionOp

\* SessionTypeOK is inductive.
THEOREM SessionTypeCorrect == SessionSpec => []SessionTypeOK
<1>1. SessionInit => SessionTypeOK
  BY SessionAssumption DEF SessionInit, SessionTypeOK, SessionTypes, EntryPc, Args, NoArg, Filter
<1>2. SessionTypeOK /\ [SessionNext]_sessionVars => SessionTypeOK'
  <2> SUFFICES ASSUME SessionTypeOK, [SessionNext]_sessionVars
               PROVE  SessionTypeOK'
    OBVIOUS
  <2>1. ASSUME NEW p \in Proc, SessionOp(p)
        PROVE  SessionTypeOK'
    BY <2>1, OpTyped DEF SessionTypeOK
  <2>2. ASSUME NEW p \in Proc, Done(p)
        PROVE  SessionTypeOK'
    BY <2>2, EndTyped DEF SessionTypeOK, Done, CallEnds
  <2>3. CASE UNCHANGED sessionVars
    BY <2>3 DEF sessionVars, SessionTypeOK, SessionTypes
  <2> QED
    BY <2>1, <2>2, <2>3 DEF SessionNext, SessionOp
<1> QED
  BY <1>1, <1>2, PTL DEF SessionSpec

\* A step of p that leaves sessions and handles alone keeps SessionIInv, if what
\* p's next label promises is so.
LEMMA LabelStep ==
  ASSUME NEW L, SessionTypes(L), SessionIInv,
         UNCHANGED <<g_session, g_queues, handles, doubt>>, NEW p \in Proc,
         NEW l, pc' = [pc EXCEPT ![p] = l],
         l \in {"get_queue", "ready"} => g_session[p] # None,
         l = "ready" => HandleFits(p) /\ arg' = arg,
         \A r \in Proc \ {p} : arg'[r] = arg[r]
  PROVE  SessionIInv'
<1>1. CacheMatchesBroker' /\ NoHandleWithoutSession'
  BY DEF SessionIInv, CacheMatchesBroker, NoHandleWithoutSession
<1>2. EntryInvariant'
  BY DEF SessionIInv, EntryInvariant, HandleFits, Cached, SessionTypes
<1> QED
  BY <1>1, <1>2 DEF SessionIInv

\* The end of a call keeps cache and broker in step.
LEMMA EndSafe ==
  ASSUME NEW L, SessionTypes(L), SessionIInv, NEW p \in Proc, NEW l, CallEnds(p, l)
  PROVE  SessionIInv'
BY LabelStep DEF CallEnds, EndCall, Goto, cacheVars, SessionTypes

\* A failed request leaves the broker what it had or what the request asked for,
\* and in the second case that is on record.
LEMMA FailedSafe ==
  ASSUME NEW L, SessionTypes(L), CacheMatchesBroker, NoHandleWithoutSession,
         NEW p \in Proc, NEW q \in Queue, NEW e \in Filter, g_session[p] # None,
         Refused \/ TimedOut(p, q, e), UNCHANGED <<g_session, g_queues>>
  PROVE  CacheMatchesBroker' /\ NoHandleWithoutSession'
<1>1. CASE Refused
  BY <1>1 DEF Refused, CacheMatchesBroker, NoHandleWithoutSession
<1>2. CASE TimedOut(p, q, e)
  <2>1. \A r \in Proc, k \in Queue : doubt[r][k] \subseteq doubt'[r][k]
    BY <1>2 DEF TimedOut, SessionTypes
  <2>2. e \in doubt'[p][q]
    BY <1>2 DEF TimedOut, SessionTypes
  <2>3. CASE handles' = handles
    BY <2>1, <2>3 DEF CacheMatchesBroker, NoHandleWithoutSession
  <2>4. CASE handles' = [handles EXCEPT ![p][q] = e]
    <3>1. e # None
      BY SessionAssumption DEF Filter
    <3>2. \A r \in Proc, k \in Queue :
            handles'[r][k] = IF r = p /\ k = q THEN e ELSE handles[r][k]
      BY <2>4 DEF SessionTypes
    <3>3. CacheMatchesBroker'
      BY <2>1, <2>2, <3>1, <3>2 DEF CacheMatchesBroker
    <3>4. NoHandleWithoutSession'
      BY <3>2 DEF NoHandleWithoutSession
    <3> QED
      BY <3>3, <3>4
  <2> QED
    BY <1>2, <2>3, <2>4 DEF TimedOut
<1> QED
  BY <1>1, <1>2

\* SessionIInv is inductive relative to the type invariant: every outcome of
\* get_session, get_queue and the exit hook keeps cache and broker in step.
LEMMA OpSafe ==
  ASSUME NEW L, SessionTypes(L), SessionIInv, NEW p \in Proc, SessionOp(p)
  PROVE  SessionIInv'
<1> USE SessionAssumption
<1>t. SessionTypes(L)
  OBVIOUS
<1>i. CacheMatchesBroker /\ NoHandleWithoutSession /\ EntryInvariant
  BY DEF SessionIInv
<1>2. ASSUME NEW u \in Uri, SetBrokerUri(p, u)
      PROVE  SessionIInv'
  BY <1>i, <1>2 DEF SetBrokerUri, SessionIInv, CacheMatchesBroker, NoHandleWithoutSession,
                    EntryInvariant, HandleFits, Cached
<1>3. ASSUME NEW q \in Queue, NEW e \in Filter, Enter(p, q, e)
      PROVE  SessionIInv'
  BY <1>t, LabelStep, <1>3 DEF Enter, Goto, EntryPc, SessionTypes
<1>4. ASSUME GetSession(p)
      PROVE  SessionIInv'
  <2>1. CASE ReuseSession(p)
    BY <1>t, LabelStep, <2>1 DEF ReuseSession, Goto, EntryPc
  <2>2. CASE StartSession(p)
    <3>1. CacheMatchesBroker'
      BY <1>i, <2>2 DEF StartSession, CacheMatchesBroker
    <3>2. NoHandleWithoutSession'
      BY <1>t, <1>i, <2>2
      DEF StartSession, NoHandleWithoutSession, SessionTypes
    <3>3. EntryInvariant'
      BY <1>t, <1>i, <2>2 DEF StartSession, Goto, EntryInvariant, HandleFits, Cached,
                              SessionTypes
    <3> QED
      BY <3>1, <3>2, <3>3 DEF SessionIInv
  <2>3. CASE StartFails(p)
    BY <1>t, LabelStep, <2>3
    DEF StartFails, EndCall, Goto, EntryPc, SessionTypes
  <2> QED
    BY <1>4, <2>1, <2>2, <2>3 DEF GetSession
<1>5. ASSUME GetQueue(p)
      PROVE  SessionIInv'
  <2>a. /\ pc[p] = "get_queue"
        /\ arg[p].uri \in Queue
        /\ arg[p].subscriptionExpr \in Filter
        /\ g_session[p] # None
    BY <1>t, <1>i, <1>5, ArgTyped DEF GetQueue, EntryInvariant, EntryPc
  <2>1. CASE ReuseHandle(p)
    BY <1>t, LabelStep, <2>1, <2>a DEF ReuseHandle, cacheVars, Goto, EntryPc
  <2>2. ASSUME HandleFits(p)' \/ pc'[p] = "idle",
               UNCHANGED <<g_session>>,
               \A r \in Proc \ {p} : /\ arg'[r] = arg[r]
                                      /\ pc'[r] = pc[r]
                                      /\ g_queues'[r] = g_queues[r]
        PROVE  EntryInvariant'
    BY <1>i, <2>2, <2>a DEF EntryInvariant, HandleFits, Cached
  <2>3. CASE Reconfigure(p)
    <3> DEFINE q == arg[p].uri
               e == arg[p].subscriptionExpr
    <3>1. /\ handles' = [handles EXCEPT ![p][q] = e]
          /\ g_queues' = [g_queues EXCEPT ![p][q] = e]
          /\ doubt' = [doubt EXCEPT ![p][q] = {}]
          /\ pc' = [pc EXCEPT ![p] = "ready"]
          /\ UNCHANGED <<g_session, arg>>
      BY <2>3 DEF Reconfigure, Goto
    <3>2. e # None
      BY <2>a DEF Filter
    <3>3. CacheMatchesBroker'
      BY <1>t, <1>i, <2>a, <3>1, <3>2 DEF CacheMatchesBroker, SessionTypes
    <3>4. NoHandleWithoutSession'
      BY <1>t, <1>i, <2>a, <3>1 DEF NoHandleWithoutSession, SessionTypes
    <3>5. HandleFits(p)'
      BY <1>t, <2>a, <3>1, <3>2 DEF HandleFits, Cached, SessionTypes
    <3>6. EntryInvariant'
      BY <1>t, <2>2, <3>1, <3>5 DEF SessionTypes
    <3> QED
      BY <3>3, <3>4, <3>6 DEF SessionIInv
  <2>4. CASE ReconfigureFails(p)
    <3> DEFINE q == arg[p].uri
               e == arg[p].subscriptionExpr
    <3>1. /\ pc' = [pc EXCEPT ![p] = "idle"]
          /\ arg' = [arg EXCEPT ![p] = NoArg]
          /\ UNCHANGED <<g_session, g_queues>>
          /\ Refused \/ TimedOut(p, q, e)
      BY <2>4 DEF ReconfigureFails, EndCall, Goto
    <3>2. EntryInvariant'
      BY <1>t, <2>2, <3>1 DEF SessionTypes
    <3>3. CacheMatchesBroker' /\ NoHandleWithoutSession'
      BY <1>t, <1>i, <2>a, <3>1, FailedSafe
    <3> QED
      BY <3>2, <3>3 DEF SessionIInv
  <2>5. CASE BadSubscription(p)
    BY <1>t, LabelStep, <2>5
    DEF BadSubscription, EndCall, Goto, EntryPc, cacheVars, SessionTypes
  <2>6. CASE OpenQueue(p)
    <3> DEFINE q == arg[p].uri
               e == arg[p].subscriptionExpr
    <3>1. /\ handles' = [handles EXCEPT ![p][q] = e]
          /\ g_queues' = [g_queues EXCEPT ![p][q] = e]
          /\ doubt' = [doubt EXCEPT ![p][q] = {}]
          /\ pc' = [pc EXCEPT ![p] = "ready"]
          /\ UNCHANGED <<g_session, arg>>
      BY <2>6 DEF OpenQueue, Goto
    <3>2. e # None
      BY <2>a DEF Filter
    <3>3. CacheMatchesBroker'
      BY <1>t, <1>i, <2>a, <3>1, <3>2 DEF CacheMatchesBroker, SessionTypes
    <3>4. NoHandleWithoutSession'
      BY <1>t, <1>i, <2>a, <3>1 DEF NoHandleWithoutSession, SessionTypes
    <3>5. HandleFits(p)'
      BY <1>t, <2>a, <3>1, <3>2 DEF HandleFits, Cached, SessionTypes
    <3>6. EntryInvariant'
      BY <1>t, <2>2, <3>1, <3>5 DEF SessionTypes
    <3> QED
      BY <3>3, <3>4, <3>6 DEF SessionIInv
  <2>7. CASE OpenFails(p)
    <3> DEFINE q == arg[p].uri
               e == arg[p].subscriptionExpr
    <3>1. /\ pc' = [pc EXCEPT ![p] = "idle"]
          /\ arg' = [arg EXCEPT ![p] = NoArg]
          /\ UNCHANGED <<g_session, g_queues>>
          /\ Refused \/ TimedOut(p, q, e)
      BY <2>7 DEF OpenFails, EndCall, Goto
    <3>2. EntryInvariant'
      BY <1>t, <2>2, <3>1 DEF SessionTypes
    <3>3. CacheMatchesBroker' /\ NoHandleWithoutSession'
      BY <1>t, <1>i, <2>a, <3>1, FailedSafe
    <3> QED
      BY <3>2, <3>3 DEF SessionIInv
  <2> QED
    BY <1>5, <2>1, <2>3, <2>4, <2>5, <2>6, <2>7 DEF GetQueue
<1>7. ASSUME Exit(p)
      PROVE  SessionIInv'
  <2>1. CacheMatchesBroker'
    BY <1>t, <1>i, <1>7 DEF Exit, CacheMatchesBroker, SessionTypes
  <2>2. NoHandleWithoutSession'
    BY <1>t, <1>i, <1>7 DEF Exit, NoHandleWithoutSession, SessionTypes
  <2>3. EntryInvariant'
    BY <1>t, <1>i, <1>7
    DEF Exit, EntryInvariant, HandleFits, Cached, SessionTypes
  <2> QED
    BY <2>1, <2>2, <2>3 DEF SessionIInv
<1> QED
  BY <1>2, <1>3, <1>4, <1>5, <1>7 DEF SessionOp

\* The inductive invariant of the handle cache holds in every reachable state.
THEOREM SessionSafety == SessionSpec => []SessionIInv
<1>1. SessionInit => SessionIInv
  BY DEF SessionInit, SessionIInv, CacheMatchesBroker, NoHandleWithoutSession, EntryInvariant
<1>2. SessionTypeOK /\ SessionIInv /\ [SessionNext]_sessionVars => SessionIInv'
  <2> SUFFICES ASSUME SessionTypeOK, SessionIInv, [SessionNext]_sessionVars
               PROVE  SessionIInv'
    OBVIOUS
  <2>1. ASSUME NEW p \in Proc, SessionOp(p)
        PROVE  SessionIInv'
    BY <2>1, OpSafe DEF SessionTypeOK
  <2>2. ASSUME NEW p \in Proc, Done(p)
        PROVE  SessionIInv'
    BY <2>2, EndSafe DEF SessionTypeOK, Done, CallEnds
  <2>3. CASE UNCHANGED sessionVars
    BY <2>3 DEF sessionVars, SessionIInv, CacheMatchesBroker, NoHandleWithoutSession,
                EntryInvariant, HandleFits, Cached
  <2> QED
    BY <2>1, <2>2, <2>3 DEF SessionNext, SessionOp
<1> QED
  BY <1>1, <1>2, SessionTypeCorrect, PTL DEF SessionSpec

\* What the cache remembers is open at the broker, and what is open there is what
\* the cache remembers or what a request asked for that timed out.
THEOREM CacheMatchesBrokerAlways == SessionSpec => []CacheMatchesBroker
<1>1. SessionIInv => CacheMatchesBroker
  BY DEF SessionIInv
<1> QED
  BY <1>1, SessionSafety, PTL

\* No handle outlives its session and none exists before it: the exit hook and
\* every failed start leave both handle tables empty.
THEOREM NoHandleWithoutSessionAlways == SessionSpec => []NoHandleWithoutSession
<1>1. SessionIInv => NoHandleWithoutSession
  BY DEF SessionIInv
<1> QED
  BY <1>1, SessionSafety, PTL

\* When get_queue returns, the filter in force is the one the call asked for or
\* one whose reconfigure timed out since the last that succeeded.
THEOREM FilterInForceAlways == SessionSpec => []FilterInForce
<1>1. SessionTypeOK /\ SessionIInv => FilterInForce
  <2> SUFFICES ASSUME SessionTypeOK, SessionIInv, NEW p \in Proc, pc[p] = "ready",
                      arg[p].subscriptionExpr # NoExpr
               PROVE  handles[p][arg[p].uri] \in
                        {arg[p].subscriptionExpr} \cup doubt[p][arg[p].uri]
    BY DEF FilterInForce
  <2>1. arg[p].uri \in Queue
    BY ArgTyped DEF SessionTypeOK, EntryPc
  <2>2. HandleFits(p)
    BY DEF SessionIInv, EntryInvariant
  <2> QED
    BY <2>1, <2>2 DEF SessionIInv, CacheMatchesBroker, HandleFits, Cached
<1> QED
  BY <1>1, SessionSafety, SessionTypeCorrect, PTL

(***************************************************************************)
(* Steps at the broker                                                     *)
(***************************************************************************)
\* Steps of the broker keep its state well formed.
LEMMA BrokerStepTyped ==
  ASSUME BrokerTypes, NEW p \in Proc, NEW m \in Msg,
         BrokerAccept(p, m) \/ BrokerReject(p, m) \/ Push(p, m) \/ ConfirmArrives(p, m)
  PROVE  BrokerTypes'
<1>1. CASE BrokerAccept(p, m)
  BY <1>1 DEF BrokerAccept, BrokerTypes
<1>2. CASE BrokerReject(p, m)
  BY <1>2 DEF BrokerReject, BrokerTypes
<1>3. CASE Push(p, m)
  BY <1>3 DEF Push, BrokerTypes
<1>4. CASE ConfirmArrives(p, m)
  BY <1>4 DEF ConfirmArrives, BrokerTypes
<1> QED
  BY <1>1, <1>2, <1>3, <1>4

\* The end of a session keeps the broker's state well formed.
LEMMA DisconnectTyped ==
  ASSUME BrokerTypes, NEW p \in Proc, Disconnect(p)
  PROVE  BrokerTypes'
BY DEF Disconnect, BrokerTypes

\* So does a step of get_session or get_queue, which notes what was there before.
LEMMA SessionStepTyped ==
  ASSUME BrokerTypes, NEW p \in Proc, SessionStep(p)
  PROVE  BrokerTypes'
BY DEF SessionStep, NoteEarly, BrokerTypes

\* So does a post.
LEMMA PostTyped ==
  ASSUME BrokerTypes, NEW p \in Proc, NEW m \in Msg, Post(p, m)
  PROVE  BrokerTypes'
BY DEF Post, BrokerTypes

\* A confirm that reaches the broker was sent by the session that holds the
\* message.
ConfirmsHeld == \A p \in Proc : confirming[p] \subseteq held[p]

\* The broker moves a message from one place to another.
LEMMA BrokerStepOnePlace ==
  ASSUME BrokerTypes, OnePlace, ConfirmsHeld, NEW p \in Proc, NEW m \in Msg,
         BrokerAccept(p, m) \/ BrokerReject(p, m) \/ Push(p, m) \/ ConfirmArrives(p, m)
  PROVE  OnePlace'
<1>1. CASE BrokerAccept(p, m)
  BY <1>1 DEF BrokerAccept, BrokerTypes, OnePlace
<1>2. CASE BrokerReject(p, m)
  BY <1>2 DEF BrokerReject, BrokerTypes, OnePlace
<1>3. CASE Push(p, m)
  BY <1>3 DEF Push, BrokerTypes, OnePlace
<1>4. CASE ConfirmArrives(p, m)
  BY <1>4 DEF ConfirmArrives, BrokerTypes, OnePlace, ConfirmsHeld
<1> QED
  BY <1>1, <1>2, <1>3, <1>4

\* The end of a session puts what it held back into the queue.
LEMMA DisconnectOnePlace ==
  ASSUME BrokerTypes, OnePlace, NEW p \in Proc, Disconnect(p)
  PROVE  OnePlace'
BY DEF Disconnect, BrokerTypes, OnePlace

\* A post adds a message that is nowhere yet.
LEMMA PostOnePlace ==
  ASSUME BrokerTypes, OnePlace, NEW p \in Proc, NEW m \in Msg, Post(p, m)
  PROVE  OnePlace'
BY DEF Post, BrokerTypes, OnePlace

\* Steps that leave the places alone.
LEMMA StillOnePlace ==
  ASSUME OnePlace, UNCHANGED <<posted, outbox, stored, held, confirmed>>
  PROVE  OnePlace'
BY DEF OnePlace
=============================================================================
