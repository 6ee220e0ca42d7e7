---------------------------- MODULE SystemProofs ----------------------------
(***************************************************************************)
(* Proofs about bmq_subscribe, bmq_unsubscribe and the worker, and then    *)
(* about the whole system, which implements AtLeastOnce: backends that     *)
(* publish, pull, subscribe and unsubscribe, workers, and the broker       *)
(* between them, for any number of each and any set of faults.             *)
(***************************************************************************)
EXTENDS System, PullProofs

(***************************************************************************)
(* Callers, segments and workers.  The lemmas leave the set L of program   *)
(* labels open, so that they serve Subscriber and System alike.            *)
(***************************************************************************)
SubLabels == EntryPc \cup CallerPc \cup WorkerPc

\* The segments, and what callers and workers know about each other.
HandTypes ==
  /\ config \in [Seg -> Args \cup {None}]
  /\ pinned \subseteq Seg
  /\ attached \in [Seg -> SUBSET Proc]
  /\ ready \in [Seg -> BOOLEAN]
  /\ segOf \in [Proc -> Seg \cup {None}]
  /\ visible \subseteq Worker
  /\ shutdown \subseteq Worker
  /\ target \in [Backend -> Worker \cup {None}]
  /\ promised \subseteq Seg

\* The locals of a worker's dispatch loop.
WorkTypes ==
  /\ workIter \in [Worker -> SUBSET Msg]
  /\ current \in [Worker -> Msg \cup {None}]
  /\ applied \in [Worker -> SUBSET Msg]
  /\ effects \subseteq Msg

\* A caller's segment and a worker's segment are real ones, with a queue in them.
LEMMA SegmentNamed ==
  ASSUME HandTypes, CallerInvariant, NEW p \in Proc, segOf[p] # None
  PROVE  /\ segOf[p] \in Seg
         /\ config[segOf[p]] \in Args
         /\ config[segOf[p]].uri \in Queue
         /\ segOf[p] \in pinned
BY DEF HandTypes, CallerInvariant

\* The end of a mapping takes one process out of one segment.
LEMMA DetachEffect ==
  ASSUME HandTypes, NEW p \in Proc, Detach(p)
  PROVE  /\ attached' \in [Seg -> SUBSET Proc]
         /\ \A s \in Seg : attached[s] \ {p} \subseteq attached'[s]
         /\ \A s \in Seg \ {segOf[p]} : attached'[s] = attached[s]
BY DEF HandTypes, Detach

(***************************************************************************)
(* The hand-off between caller and worker                                  *)
(***************************************************************************)

\* A backend that goes on with a call of its own, or ends one, disturbs no
\* subscription.
LEMMA OwnCall ==
  ASSUME CallerInvariant, WorkerInvariant,
         UNCHANGED <<handoffVars, target>>, NEW p \in Backend, pc'[p] \notin CallerPc,
         \A r \in Proc \ {p} :
           /\ pc'[r] = pc[r] /\ arg'[r] = arg[r]
           /\ g_session'[r] = g_session[r] /\ g_queues'[r] = g_queues[r]
           /\ handles'[r] = handles[r]
  PROVE  CallerInvariant' /\ WorkerInvariant'
<1>1. CallerInvariant'
  BY SubscriberAssumption DEF CallerInvariant, CallerPc, handoffVars
<1>2. \A w \in Worker : w \in Proc \ {p}
  BY SubscriberAssumption
<1>3. WorkerInvariant'
  BY <1>2 DEF WorkerInvariant, WorkerOk, handoffVars
<1> QED
  BY <1>1, <1>3

\* Everything a caller of bmq_subscribe or bmq_unsubscribe does keeps the hand-off
\* in order.
LEMMA MoveCaller ==
  ASSUME NEW L, SessionTypes(L), HandTypes, CallerInvariant, WorkerInvariant,
         NEW p \in Backend, NEW l, pc' = [pc EXCEPT ![p] = l],
         l \in CallerPc \ {"kill"} => segOf[p] # None /\ p \in attached[segOf[p]],
         l = "kill" => target'[p] # None,
         UNCHANGED <<HandleVars, arg, handoffVars>>,
         \A b \in Backend \ {p} : target'[b] = target[b]
  PROVE  CallerInvariant' /\ WorkerInvariant'
<1>0. p \in Proc /\ (\A w \in Worker : w \in Proc /\ w # p) /\ (\A b \in Backend : b \in Proc)
  BY SubscriberAssumption
<1>1. CallerInvariant'
  BY <1>0 DEF CallerInvariant, handoffVars, SessionTypes
<1>2. WorkerInvariant'
  BY <1>0 DEF WorkerInvariant, WorkerOk, handoffVars, HandleVars, cacheVars, SessionTypes
<1> QED
  BY <1>1, <1>2

\* The call is over and the caller's mapping goes with it.
LEMMA LeaveHandoff ==
  ASSUME NEW L, SessionTypes(L), HandTypes, CallerInvariant, WorkerInvariant, NEW p \in Backend,
         pc' = [pc EXCEPT ![p] = "idle"], LeaveSubscribe(p),
         promised' \subseteq promised \cup {s \in Seg : ready[s]}
  PROVE  CallerInvariant' /\ WorkerInvariant'
<1>0. p \in Proc /\ (\A w \in Worker : w \in Proc /\ w # p) /\ (\A b \in Backend : b \in Proc)
  BY SubscriberAssumption
<1>1. /\ UNCHANGED <<HandleVars, arg, config, pinned, ready, target>>
      /\ segOf' = [segOf EXCEPT ![p] = None]
      /\ Detach(p)
  BY DEF LeaveSubscribe, signalVars
<1>2. \A s \in Seg : attached[s] \ {p} \subseteq attached'[s]
  BY <1>0, <1>1, DetachEffect
<1>3. \A r \in Proc \ {p} : pc'[r] = pc[r] /\ segOf'[r] = segOf[r]
  BY <1>0, <1>1 DEF SessionTypes, HandTypes
<1>4. pc'[p] = "idle" /\ segOf'[p] = None
  BY <1>0, <1>1 DEF SessionTypes, HandTypes
<1>5. CallerInvariant'
  <2>1. \A s \in Seg : /\ config'[s] # None => config'[s].uri \in Queue /\ s \in pinned'
                       /\ config'[s] = None => ~ready'[s]
    BY <1>1 DEF CallerInvariant
  <2>2. promised' \subseteq {s \in Seg : ready'[s]}
    BY <1>1 DEF CallerInvariant
  <2>3. \A r \in Proc : segOf'[r] # None => config'[segOf'[r]] # None
    BY <1>1, <1>3, <1>4 DEF CallerInvariant
  <2>4. ASSUME NEW b \in Backend
        PROVE  /\ pc'[b] \in CallerPc \ {"kill"} => segOf'[b] # None /\ b \in attached'[segOf'[b]]
               /\ pc'[b] = "kill" => target'[b] # None
    BY <1>0, <1>1, <1>2, <1>3, <1>4 DEF CallerInvariant, HandTypes, CallerPc
  <2> QED
    BY <2>1, <2>2, <2>3, <2>4 DEF CallerInvariant
<1>6. WorkerInvariant'
  <2>1. \A w \in Worker : segOf[w] # None => attached[segOf[w]] \ {p} \subseteq attached'[segOf[w]]
    BY <1>0, <1>2 DEF HandTypes
  <2> QED
    BY <1>0, <1>1, <1>3, <2>1 DEF WorkerInvariant, WorkerOk, HandleVars, cacheVars, OpeningPc, ServingPc
<1> QED
  BY <1>5, <1>6

\* The worker process and the segment of a new subscription were free.
LEMMA SubscribeHandoff ==
  ASSUME NEW L, SessionTypes(L), HandTypes, CallerInvariant, WorkerInvariant, NEW p \in Backend,
         NEW q \in Queue, NEW e \in Filter, NEW s \in Seg, NEW w \in Worker, Subscribe(p, q, e, s, w)
  PROVE  HandTypes' /\ CallerInvariant' /\ WorkerInvariant'
<1> DEFINE cfg == [uri |-> q, subscriptionExpr |-> e]
<1>0. p \in Proc /\ w \in Proc /\ p # w /\ (\A b \in Backend : b \in Proc /\ b # w)
      /\ (\A v \in Worker : v \in Proc /\ v # p) /\ None \notin Seg
  BY SubscriberAssumption
<1>1. /\ pc[p] = "idle" /\ pc[w] = "idle" /\ config[s] = None
      /\ config' = [config EXCEPT ![s] = cfg]
      /\ attached' = [attached EXCEPT ![s] = {p}]
      /\ pinned' = pinned \cup {s}
      /\ segOf' = [segOf EXCEPT ![p] = s, ![w] = s]
      /\ pc' = [pc EXCEPT ![p] = "wait_start", ![w] = "registered"]
      /\ UNCHANGED <<HandleVars, arg, ready, promised, target, visible, shutdown>>
  BY DEF Subscribe, signalVars
<1>2. cfg \in Args /\ cfg.uri \in Queue /\ cfg # None
  BY SubscriberAssumption DEF Args
<1>3. HandTypes'
  BY <1>0, <1>1, <1>2 DEF HandTypes
<1>4. /\ \A r \in Proc \ {p, w} : segOf'[r] = segOf[r] /\ pc'[r] = pc[r]
      /\ segOf'[p] = s /\ segOf'[w] = s /\ pc'[p] = "wait_start" /\ pc'[w] = "registered"
  BY <1>0, <1>1 DEF HandTypes, SessionTypes
<1>5. \A r \in Proc : segOf[r] # s
  BY <1>0, <1>1 DEF CallerInvariant
<1>6. /\ \A x \in Seg \ {s} : config'[x] = config[x] /\ attached'[x] = attached[x]
      /\ config'[s] = cfg /\ attached'[s] = {p} /\ ~ready[s]
  BY <1>1 DEF HandTypes, CallerInvariant
<1>7. CallerInvariant'
  <2>1. \A x \in Seg : /\ config'[x] # None => config'[x].uri \in Queue /\ x \in pinned'
                       /\ config'[x] = None => ~ready'[x]
    BY <1>1, <1>2, <1>6 DEF CallerInvariant
  <2>2. promised' \subseteq {x \in Seg : ready'[x]}
    BY <1>1 DEF CallerInvariant
  <2>3. \A r \in Proc : segOf'[r] # None => config'[segOf'[r]] # None
    BY <1>2, <1>4, <1>5, <1>6 DEF CallerInvariant, HandTypes
  <2>4. ASSUME NEW b \in Backend
        PROVE  /\ pc'[b] \in CallerPc \ {"kill"} => segOf'[b] # None /\ b \in attached'[segOf'[b]]
               /\ pc'[b] = "kill" => target'[b] # None
    <3>1. CASE b = p
      BY <1>0, <1>4, <1>6, <3>1
    <3>2. CASE b # p
      <4>1. /\ pc'[b] = pc[b] /\ segOf'[b] = segOf[b] /\ target'[b] = target[b]
            /\ segOf[b] # None => attached'[segOf[b]] = attached[segOf[b]]
        BY <1>0, <1>1, <1>4, <1>5, <1>6, <3>2 DEF HandTypes
      <4> QED
        BY <4>1 DEF CallerInvariant
    <3> QED
      BY <3>1, <3>2
  <2> QED
    BY <2>1, <2>2, <2>3, <2>4 DEF CallerInvariant
<1>8. WorkerInvariant'
  <2>1. \A v \in Worker : /\ v # w => segOf'[v] = segOf[v] /\ segOf[v] # s /\ pc'[v] = pc[v]
                          /\ segOf[v] # None => segOf[v] \in Seg
    BY <1>0, <1>4, <1>5 DEF HandTypes
  <2>2. \A v \in Worker \ {w} : segOf[v] # None =>
          config'[segOf[v]] = config[segOf[v]] /\ attached'[segOf[v]] = attached[segOf[v]]
    BY <1>6, <2>1
  <2>3. \A v \in Worker : pc[v] # "idle" => segOf[v] # None
    BY DEF WorkerInvariant, WorkerOk
  <2>4. UNCHANGED <<g_session, g_queues, handles, arg, ready>>
    BY <1>1 DEF HandleVars, cacheVars
  <2>5. ASSUME NEW v \in Worker, v # w
        PROVE  WorkerOk(v)'
    <3>1. \A u \in Worker \ {v} : segOf'[v] # None => segOf'[u] # segOf'[v]
      BY <1>4, <2>1, <2>5 DEF WorkerInvariant, WorkerOk
    <3> QED
      BY <2>1, <2>2, <2>3, <2>4, <2>5, <3>1 DEF WorkerInvariant, WorkerOk, OpeningPc, ServingPc
  <2>6. g_session'[w] = None
    BY <1>1, <2>4 DEF WorkerInvariant, WorkerOk, ServingPc
  <2>7. \A v \in Worker \ {w} : segOf'[v] # s
    BY <2>1
  <2>8. WorkerOk(w)'
    BY <1>0, <1>1, <1>4, <1>6, <2>6, <2>7 DEF WorkerOk, OpeningPc, ServingPc
  <2> QED
    BY <2>5, <2>8 DEF WorkerInvariant
<1> QED
  BY <1>3, <1>7, <1>8

\* Processes that move on outside get_session and get_queue leave session and
\* cache in order.
LEMMA Relabel ==
  ASSUME NEW L, SessionTypes(L), UNCHANGED HandleVars, pc' \in [Proc -> L], arg' \in [Proc -> Args],
         \A p \in Proc : /\ pc'[p] \in {"get_queue", "ready"} => pc'[p] = pc[p] /\ arg'[p] = arg[p]
                         /\ pc'[p] = "get_session" => arg'[p].uri \in Queue
  PROVE  SessionTypes(L)' /\ (SessionIInv => SessionIInv')
<1>1. SessionTypes(L)'
  BY DEF SessionTypes, EntryPc, HandleVars, cacheVars
<1>2. ASSUME SessionIInv
      PROVE  SessionIInv'
  BY <1>2 DEF SessionIInv, CacheMatchesBroker, NoHandleWithoutSession, EntryInvariant, HandleFits,
              Cached, HandleVars, cacheVars
<1> QED
  BY <1>1, <1>2

\* The calls of bmq_subscribe and bmq_unsubscribe.
CallerOp(p) ==
  \/ \E q \in Queue, e \in Filter, s \in Seg :
       RegisterFails(p, q, e, s) \/ \E w \in Worker : Subscribe(p, q, e, s, w)
  \/ \E w \in Worker : CheckPid(p, w)
  \/ SubscribeStep(p) \/ WaitInterrupted(p) \/ Kill(p)

\* Whatever a caller of bmq_subscribe or bmq_unsubscribe meets, its own session
\* and the hand-off to its worker stay in order.
LEMMA CallerStep ==
  ASSUME NEW L, SubLabels \subseteq L, SessionTypes(L), HandTypes, SessionIInv, CallerInvariant,
         WorkerInvariant, NEW p \in Backend, CallerOp(p)
  PROVE  SessionTypes(L)' /\ HandTypes' /\ SessionIInv' /\ CallerInvariant' /\ WorkerInvariant'
<1>t. SessionTypes(L) /\ HandTypes /\ SessionIInv /\ CallerInvariant /\ WorkerInvariant
  OBVIOUS
<1>p. p \in Proc
  BY SubscriberAssumption
<1>a. pc \in [Proc -> L] /\ arg \in [Proc -> Args]
  BY DEF SessionTypes
<1>l. {"idle", "wait_start", "wait_ready", "last_look", "warning", "kill", "registered"} \subseteq L
  BY DEF SubLabels, EntryPc, CallerPc, WorkerPc
<1>s. ASSUME NEW l \in {"idle", "wait_start", "wait_ready", "last_look", "warning", "kill"},
             pc' = [pc EXCEPT ![p] = l], UNCHANGED <<HandleVars, arg>>
      PROVE  SessionTypes(L)' /\ SessionIInv'
  <2>1. pc' \in [Proc -> L] /\ arg' \in [Proc -> Args]
    BY <1>a, <1>l, <1>s
  <2>2. \A r \in Proc : /\ pc'[r] \in {"get_queue", "ready"} => pc'[r] = pc[r] /\ arg'[r] = arg[r]
                        /\ pc'[r] = "get_session" => arg'[r].uri \in Queue
    BY <1>t, <1>s DEF SessionTypes, EntryPc
  <2> QED
    BY <1>t, <1>s, <2>1, <2>2, Relabel
<1>1. ASSUME NEW q \in Queue, NEW e \in Filter, NEW s \in Seg, RegisterFails(p, q, e, s)
      PROVE  SessionTypes(L)' /\ HandTypes' /\ SessionIInv' /\ CallerInvariant' /\ WorkerInvariant'
  <2>1. SessionTypes(L)' /\ SessionIInv'
    BY <1>t, <1>1 DEF RegisterFails, sessionVars, SessionTypes, SessionIInv, CacheMatchesBroker,
                      NoHandleWithoutSession, EntryInvariant, HandleFits, Cached
  <2>2. [uri |-> q, subscriptionExpr |-> e] \in Args
        /\ [uri |-> q, subscriptionExpr |-> e].uri \in Queue
    BY DEF Args
  <2>3. HandTypes'
    BY <1>t, <1>1, <2>2 DEF RegisterFails, signalVars, HandTypes
  <2>4. \A r \in Proc : segOf[r] # None => segOf[r] # s
    BY <1>t, <1>1 DEF RegisterFails, CallerInvariant
  <2>5. /\ \A r \in Proc : segOf[r] # None => config'[segOf[r]] = config[segOf[r]]
        /\ \A x \in Seg \ {s} : config'[x] = config[x]
        /\ config'[s] = [uri |-> q, subscriptionExpr |-> e] /\ config'[s] # None
        /\ pinned' = pinned \cup {s}
        /\ UNCHANGED <<pc, arg, g_session, g_queues, handles, attached, ready, segOf, promised, target>>
    BY <1>t, <1>1, <2>2, <2>4, SubscriberAssumption
    DEF RegisterFails, signalVars, sessionVars, HandTypes
  <2>6. CallerInvariant'
    BY <1>t, <2>2, <2>5 DEF CallerInvariant
  <2>7. WorkerInvariant'
    <3>1. \A w \in Worker : w \in Proc
      BY SubscriberAssumption
    <3> QED
      BY <1>t, <2>5, <3>1 DEF WorkerInvariant, WorkerOk, OpeningPc, ServingPc
  <2> QED
    BY <2>1, <2>3, <2>6, <2>7
<1>2. ASSUME NEW q \in Queue, NEW e \in Filter, NEW s \in Seg, NEW w \in Worker,
             Subscribe(p, q, e, s, w)
      PROVE  SessionTypes(L)' /\ HandTypes' /\ SessionIInv' /\ CallerInvariant' /\ WorkerInvariant'
  <2>1. /\ pc' = [pc EXCEPT ![p] = "wait_start", ![w] = "registered"]
        /\ UNCHANGED <<HandleVars, arg>>
    BY <1>2 DEF Subscribe
  <2>2. pc' \in [Proc -> L] /\ arg' \in [Proc -> Args]
    BY <1>a, <1>l, <2>1
  <2>3. \A r \in Proc : /\ pc'[r] \in {"get_queue", "ready"} => pc'[r] = pc[r] /\ arg'[r] = arg[r]
                        /\ pc'[r] = "get_session" => arg'[r].uri \in Queue
    BY <1>t, <2>1 DEF SessionTypes, EntryPc
  <2>4. SessionTypes(L)' /\ SessionIInv'
    BY <1>t, <2>1, <2>2, <2>3, Relabel
  <2> QED
    BY <1>t, <1>2, <2>4, SubscribeHandoff
<1>3. ASSUME NEW w \in Worker, CheckPid(p, w)
      PROVE  SessionTypes(L)' /\ HandTypes' /\ SessionIInv' /\ CallerInvariant' /\ WorkerInvariant'
  <2>1. SessionTypes(L)' /\ SessionIInv'
    BY <1>3, <1>s DEF CheckPid, Goto
  <2>2. HandTypes'
    BY <1>t, <1>3 DEF CheckPid, handoffVars, HandTypes
  <2>3. target'[p] # None /\ \A b \in Backend \ {p} : target'[b] = target[b]
    BY <1>t, <1>3, SubscriberAssumption DEF CheckPid, HandTypes
  <2>4. CallerInvariant' /\ WorkerInvariant'
    BY <1>t, <1>3, <2>3, MoveCaller DEF CheckPid, Goto
  <2> QED
    BY <2>1, <2>2, <2>4
<1>4. CASE Kill(p)
  <2>1. SessionTypes(L)' /\ SessionIInv'
    BY <1>4, <1>s DEF Kill, Goto
  <2>2. target[p] \in Worker
    BY <1>t, <1>4 DEF Kill, Goto, CallerInvariant, HandTypes
  <2>3. HandTypes'
    BY <1>t, <1>4, <2>2 DEF Kill, handoffVars, HandTypes
  <2>4. \A b \in Backend \ {p} : target'[b] = target[b]
    BY <1>t, <1>4 DEF Kill, HandTypes
  <2>5. CallerInvariant' /\ WorkerInvariant'
    BY <1>t, <1>4, <2>4, MoveCaller DEF Kill, Goto, CallerPc
  <2> QED
    BY <2>1, <2>3, <2>5
<1>5. CASE SeeStarted(p) \/ SeeReady(p) \/ ReadyTimeout(p) \/ Warn(p)
  <2>1. PICK l \in CallerPc \ {"kill"} : pc' = [pc EXCEPT ![p] = l]
    BY <1>5 DEF SeeStarted, SeeReady, ReadyTimeout, Warn, Goto, CallerPc
  <2>2. UNCHANGED <<HandleVars, arg, brokerVars, subVars>> /\ pc[p] \in CallerPc \ {"kill"}
    BY <1>5 DEF SeeStarted, SeeReady, ReadyTimeout, Warn, Goto, CallerPc, CallerWaits
  <2>3. SessionTypes(L)' /\ SessionIInv'
    BY <1>s, <2>1, <2>2 DEF CallerPc
  <2>4. HandTypes'
    BY <1>t, <2>2 DEF subVars, handoffVars, signalVars, HandTypes
  <2>5. segOf[p] # None /\ p \in attached[segOf[p]]
    BY <1>t, <2>2 DEF CallerInvariant
  <2>6. CallerInvariant' /\ WorkerInvariant'
    BY <1>t, <2>1, <2>2, <2>5, MoveCaller DEF subVars, signalVars
  <2> QED
    BY <2>3, <2>4, <2>6
<1>6. CASE SeeStopped(p) \/ WaitInterrupted(p) \/ ReturnReady(p) \/ ReturnWarned(p)
  <2>1. pc' = [pc EXCEPT ![p] = "idle"] /\ LeaveSubscribe(p) /\ pc[p] \in CallerPc \ {"kill"}
    BY <1>6 DEF SeeStopped, WaitInterrupted, ReturnReady, ReturnWarned, Goto, CallerPc
  <2>2. segOf[p] \in Seg
    BY <1>t, <1>p, <2>1, SegmentNamed DEF CallerInvariant
  <2>3. promised' \subseteq promised \cup {s \in Seg : ready[s]}
    BY <1>6, <2>2 DEF SeeStopped, WaitInterrupted, ReturnReady, ReturnWarned
  <2>4. SessionTypes(L)' /\ SessionIInv'
    BY <1>s, <2>1 DEF LeaveSubscribe
  <2>5. CallerInvariant' /\ WorkerInvariant'
    BY <1>t, <2>1, <2>3, LeaveHandoff
  <2>6. attached' \in [Seg -> SUBSET Proc]
    BY <1>t, <1>p, <2>1, DetachEffect DEF LeaveSubscribe
  <2>7. HandTypes'
    BY <1>t, <1>p, <2>1, <2>3, <2>6 DEF LeaveSubscribe, signalVars, HandTypes
  <2> QED
    BY <2>4, <2>5, <2>7
<1> QED
  BY <1>1, <1>2, <1>3, <1>4, <1>5, <1>6 DEF CallerOp, SubscribeStep

\* The end of a caller or a worker, wherever it is, takes its mapping and its
\* session with it and leaves the segment to the other side.
LEMMA EndHandoff ==
  ASSUME NEW L, EntryPc \subseteq L, SessionTypes(L), HandTypes, SessionIInv, CallerInvariant,
         WorkerInvariant, NEW p \in Proc, WorkerEnds(p) \/ (p \in Backend /\ SubscriberExit(p))
  PROVE  SessionTypes(L)' /\ HandTypes' /\ SessionIInv' /\ CallerInvariant' /\ WorkerInvariant'
<1>t. SessionTypes(L) /\ HandTypes /\ SessionIInv /\ CallerInvariant /\ WorkerInvariant
  OBVIOUS
<1>1. /\ Exit(p) /\ Detach(p)
      /\ segOf' = [segOf EXCEPT ![p] = None]
      /\ UNCHANGED <<config, pinned, ready, promised>>
      /\ target' = target \/ (p \in Backend /\ target' = [target EXCEPT ![p] = None])
      /\ visible' \subseteq visible /\ shutdown' \subseteq shutdown
  BY DEF WorkerEnds, SubscriberExit
<1>2. SessionTypes(L)'
  BY <1>1, OpTyped DEF SessionOp
<1>3. SessionIInv'
  BY <1>1, OpSafe DEF SessionOp
<1>4. /\ attached' \in [Seg -> SUBSET Proc]
      /\ \A s \in Seg : attached[s] \ {p} \subseteq attached'[s]
  BY <1>1, DetachEffect
<1>5. HandTypes'
  BY <1>t, <1>1, <1>4 DEF HandTypes
<1>6. \A r \in Proc \ {p} : /\ pc'[r] = pc[r] /\ arg'[r] = arg[r] /\ segOf'[r] = segOf[r]
                            /\ g_session'[r] = g_session[r] /\ g_queues'[r] = g_queues[r]
                            /\ handles'[r] = handles[r]
  BY <1>t, <1>1 DEF Exit, SessionTypes, HandTypes
<1>7. pc'[p] = "idle" /\ segOf'[p] = None /\ g_session'[p] = None
  BY <1>t, <1>1 DEF Exit, SessionTypes, HandTypes
<1>8. CallerInvariant'
  <2>1. \A s \in Seg : /\ config'[s] # None => config'[s].uri \in Queue /\ s \in pinned'
                       /\ config'[s] = None => ~ready'[s]
    BY <1>t, <1>1 DEF CallerInvariant
  <2>2. promised' \subseteq {s \in Seg : ready'[s]}
    BY <1>t, <1>1 DEF CallerInvariant
  <2>3. \A r \in Proc : segOf'[r] # None => config'[segOf'[r]] # None
    BY <1>t, <1>1, <1>6, <1>7 DEF CallerInvariant
  <2>4. ASSUME NEW b \in Backend, b # p
        PROVE  /\ pc'[b] \in CallerPc \ {"kill"} => segOf'[b] # None /\ b \in attached'[segOf'[b]]
               /\ pc'[b] = "kill" => target'[b] # None
    <3>1. b \in Proc
      BY SubscriberAssumption
    <3>2. target'[b] = target[b]
      BY <1>t, <1>1, <2>4 DEF HandTypes
    <3>3. segOf[b] # None => attached[segOf[b]] \ {p} \subseteq attached'[segOf[b]]
      BY <1>t, <1>4, <3>1 DEF HandTypes
    <3> QED
      BY <1>t, <1>6, <2>4, <3>1, <3>2, <3>3 DEF CallerInvariant
  <2> QED
    BY <1>7, <2>1, <2>2, <2>3, <2>4 DEF CallerInvariant, CallerPc
<1>9. WorkerInvariant'
  <2>1. ASSUME NEW w \in Worker, w # p
        PROVE  WorkerOk(w)'
    <3>1. w \in Proc \ {p} /\ \A v \in Worker : v \in Proc
      BY <2>1, SubscriberAssumption
    <3>2. segOf[w] # None => attached[segOf[w]] \ {p} \subseteq attached'[segOf[w]]
      BY <1>t, <1>4, <3>1 DEF HandTypes
    <3>3. \A v \in Worker \ {w} : segOf'[w] # None => segOf'[v] # segOf'[w]
      BY <1>t, <1>6, <1>7, <3>1 DEF WorkerInvariant, WorkerOk
    <3> QED
      BY <1>t, <1>1, <1>6, <2>1, <3>1, <3>2, <3>3
      DEF WorkerInvariant, WorkerOk, OpeningPc, ServingPc
  <2>2. ASSUME p \in Worker
        PROVE  WorkerOk(p)'
    BY <1>7 DEF WorkerOk, OpeningPc, ServingPc
  <2> QED
    BY <2>1, <2>2 DEF WorkerInvariant
<1> QED
  BY <1>2, <1>3, <1>5, <1>8, <1>9

\* The worker's way to its queue: the one mapped segment, a fresh session, one
\* handle, and the flag last.
OpeningOp(w) == Fork(w) \/ Attach(w) \/ Connect(w) \/ Open(w) \/ ReportReady(w)

\* A step of worker w that touches its own label, handle and mapping only.
LEMMA WorkerFrame ==
  ASSUME HandTypes, CallerInvariant, WorkerInvariant, NEW w \in Worker, WorkerOk(w)',
         UNCHANGED <<config, pinned, segOf, promised, target>>,
         \A r \in Proc \ {w} :
           /\ pc'[r] = pc[r] /\ arg'[r] = arg[r]
           /\ g_session'[r] = g_session[r] /\ g_queues'[r] = g_queues[r]
           /\ handles'[r] = handles[r],
         \A s \in Seg : /\ attached[s] \ {w} \subseteq attached'[s]
                        /\ ready'[s] = ready[s] \/ (s = segOf[w] /\ ready'[s] = TRUE)
  PROVE  CallerInvariant' /\ WorkerInvariant'
<1>0. w \in Proc /\ (\A v \in Worker : v \in Proc) /\ (\A b \in Backend : b \in Proc /\ b # w)
  BY SubscriberAssumption
<1>1. \A r \in Proc : segOf[r] # None => segOf[r] \in Seg
  BY DEF HandTypes
<1>2. CallerInvariant'
  <2>1. \A s \in Seg : config[s] = None => s # segOf[w]
    BY <1>0, SubscriberAssumption DEF CallerInvariant
  <2>2. \A s \in Seg : ready[s] => ready'[s]
    BY DEF HandTypes
  <2>3. ASSUME NEW b \in Backend
        PROVE  /\ pc'[b] \in CallerPc \ {"kill"} => segOf'[b] # None /\ b \in attached'[segOf'[b]]
               /\ pc'[b] = "kill" => target'[b] # None
    BY <1>0, <1>1 DEF CallerInvariant
  <2> QED
    BY <2>1, <2>2, <2>3 DEF CallerInvariant
<1>3. ASSUME NEW v \in Worker, v # w
      PROVE  WorkerOk(v)'
  <2>1. v \in Proc \ {w}
    BY <1>0, <1>3
  <2>2. segOf[v] # None => segOf[v] # segOf[w]
    BY <1>3 DEF WorkerInvariant, WorkerOk
  <2>3. segOf[v] # None => /\ attached[segOf[v]] \ {w} \subseteq attached'[segOf[v]]
                           /\ ready'[segOf[v]] = ready[segOf[v]]
    BY <1>1, <2>1, <2>2
  <2> QED
    BY <1>3, <2>1, <2>3 DEF WorkerInvariant, WorkerOk, OpeningPc, ServingPc
<1> QED
  BY <1>2, <1>3 DEF WorkerInvariant

\* A fresh session, then the one handle the segment asks for.
LEMMA OpenEffect ==
  ASSUME NEW L, SessionTypes(L), HandTypes, SessionIInv, CallerInvariant, WorkerInvariant,
         NEW w \in Worker, Open(w)
  PROVE  /\ pc[w] \in OpeningPc /\ arg' = arg
         /\ \/ pc'[w] = "get_queue" /\ \A q \in Queue : g_queues'[w][q] = None
            \/ pc'[w] = "ready" /\ handles'[w][arg[w].uri] = arg[w].subscriptionExpr
<1>t. WorkerOk(w) /\ w \in Proc
  BY SubscriberAssumption DEF WorkerInvariant
<1>1. GetSession(w) \/ GetQueue(w)
  BY DEF Open, SessionStep, SetBrokerUri
<1>2. pc[w] \in {"get_session", "get_queue"} /\ pc[w] \in OpeningPc
  BY <1>1 DEF GetSession, GetQueue, ReuseSession, StartSession, StartFails, EndCall, Goto, OpeningPc
<1>3. segOf[w] # None /\ arg[w] = config[segOf[w]]
  BY <1>t, <1>2 DEF WorkerOk
<1>4. arg[w].uri \in Queue
  BY <1>t, <1>3, SegmentNamed
<1>5. pc'[w] # "idle"
  BY DEF Open
<1>6. CASE pc[w] = "get_session"
  <2>1. g_session[w] = None
    BY <1>t, <1>6 DEF WorkerOk, ServingPc
  <2>2. StartSession(w)
    BY <1>t, <1>1, <1>5, <1>6, <2>1
    DEF GetSession, GetQueue, ReuseSession, StartFails, EndCall, Goto, SessionTypes
  <2>3. pc'[w] = "get_queue" /\ g_queues' = g_queues /\ arg' = arg
    BY <1>t, <2>2 DEF StartSession, Goto, SessionTypes
  <2> QED
    BY <1>t, <1>2, <2>1, <2>3 DEF SessionIInv, NoHandleWithoutSession
<1>7. CASE pc[w] = "get_queue"
  <2>1. Cached(w) = None
    BY <1>t, <1>4, <1>7 DEF WorkerOk, Cached
  <2>2. OpenQueue(w)
    BY <1>t, <1>1, <1>5, <1>7, <2>1
    DEF GetSession, ReuseSession, StartSession, StartFails, GetQueue, ReuseHandle, Reconfigure,
        ReconfigureFails, MustReconfigure, HandleFits, BadSubscription, OpenFails, EndCall, Goto,
        SessionTypes
  <2>3. pc'[w] = "ready" /\ handles'[w][arg[w].uri] = arg[w].subscriptionExpr /\ arg' = arg
    BY <1>t, <1>4, <2>2 DEF OpenQueue, Goto, SessionTypes
  <2> QED
    BY <1>2, <2>3
<1> QED
  BY <1>2, <1>6, <1>7

\* The worker opens what its segment asks for and reports ready no sooner than it
\* has it open.
LEMMA OpeningStep ==
  ASSUME NEW L, SubLabels \subseteq L, SessionTypes(L), HandTypes, SessionIInv, CallerInvariant,
         WorkerInvariant, NEW w \in Worker, OpeningOp(w)
  PROVE  SessionTypes(L)' /\ HandTypes' /\ SessionIInv' /\ CallerInvariant' /\ WorkerInvariant'
<1>t. SessionTypes(L) /\ HandTypes /\ SessionIInv /\ CallerInvariant /\ WorkerInvariant
  OBVIOUS
<1>w. w \in Proc /\ WorkerOk(w)
  BY SubscriberAssumption DEF WorkerInvariant
<1>a. pc \in [Proc -> L] /\ arg \in [Proc -> Args]
  BY DEF SessionTypes
<1>l. {"attach", "connect", "get_session", "loop"} \subseteq L /\ EntryPc \subseteq L
  BY DEF SubLabels, EntryPc, WorkerPc
<1>1. CASE Fork(w)
  <2>1. /\ pc[w] = "registered" /\ pc' = [pc EXCEPT ![w] = "attach"]
        /\ UNCHANGED <<HandleVars, arg, handoffVars, signalVars>>
    BY <1>1 DEF Fork, Goto, subVars
  <2>2. \A r \in Proc \ {w} : pc'[r] = pc[r]
    BY <1>a, <2>1
  <2>3. pc' \in [Proc -> L] /\ pc'[w] = "attach"
    BY <1>a, <1>l, <1>w, <2>1
  <2>4. SessionTypes(L)' /\ SessionIInv'
    <3>1. \A r \in Proc : /\ pc'[r] \in {"get_queue", "ready"} => pc'[r] = pc[r] /\ arg'[r] = arg[r]
                          /\ pc'[r] = "get_session" => arg'[r].uri \in Queue
      BY <1>t, <2>1, <2>2, <2>3 DEF SessionTypes, EntryPc
    <3> QED
      BY <1>t, <1>a, <2>1, <2>3, <3>1, Relabel
  <2>5. HandTypes'
    BY <1>t, <2>1 DEF handoffVars, signalVars, HandTypes
  <2>6. WorkerOk(w)'
    BY <1>w, <2>1, <2>3 DEF WorkerOk, OpeningPc, ServingPc, HandleVars, cacheVars, handoffVars
  <2>7. CallerInvariant' /\ WorkerInvariant'
    BY <1>t, <2>1, <2>2, <2>6, WorkerFrame DEF HandleVars, cacheVars, handoffVars, signalVars
  <2> QED
    BY <2>4, <2>5, <2>7
<1>2. CASE Attach(w)
  <2>1. /\ pc[w] = "attach" /\ pc' = [pc EXCEPT ![w] = "connect"]
        /\ attached' = [attached EXCEPT ![segOf[w]] = @ \cup {w}]
        /\ arg' = [arg EXCEPT ![w] = config[segOf[w]]]
        /\ UNCHANGED <<HandleVars, config, pinned, ready, segOf, promised, signalVars>>
    BY <1>2 DEF Attach, Goto
  <2>2. segOf[w] # None /\ segOf[w] \in Seg /\ config[segOf[w]] \in Args
    <3>1. segOf[w] # None
      BY <1>w, <2>1 DEF WorkerOk
    <3> QED
      BY <1>t, <1>w, <3>1, SegmentNamed
  <2>3. /\ \A r \in Proc \ {w} : pc'[r] = pc[r] /\ arg'[r] = arg[r]
        /\ pc' \in [Proc -> L] /\ arg' \in [Proc -> Args]
        /\ pc'[w] = "connect" /\ arg'[w] = config[segOf[w]]
    BY <1>a, <1>l, <1>w, <2>1, <2>2
  <2>4. SessionTypes(L)' /\ SessionIInv'
    <3>1. \A r \in Proc : /\ pc'[r] \in {"get_queue", "ready"} => pc'[r] = pc[r] /\ arg'[r] = arg[r]
                          /\ pc'[r] = "get_session" => arg'[r].uri \in Queue
      BY <1>t, <2>3 DEF SessionTypes, EntryPc
    <3> QED
      BY <1>t, <2>1, <2>3, <3>1, Relabel
  <2>5. /\ attached' \in [Seg -> SUBSET Proc] /\ w \in attached'[segOf[w]]
        /\ \A s \in Seg : attached[s] \subseteq attached'[s]
    BY <1>t, <1>w, <2>1, <2>2 DEF HandTypes
  <2>6. HandTypes'
    BY <1>t, <2>1, <2>5 DEF signalVars, HandTypes
  <2>7. WorkerOk(w)'
    BY <1>w, <2>1, <2>3, <2>5 DEF WorkerOk, OpeningPc, ServingPc, HandleVars, cacheVars
  <2>8. CallerInvariant' /\ WorkerInvariant'
    BY <1>t, <2>1, <2>3, <2>5, <2>7, WorkerFrame DEF HandleVars, cacheVars, signalVars
  <2> QED
    BY <2>4, <2>6, <2>8
<1>3. CASE Connect(w)
  <2>1. /\ pc[w] = "connect" /\ pc' = [pc EXCEPT ![w] = "get_session"]
        /\ visible' = visible \cup {w}
        /\ UNCHANGED <<HandleVars, arg, handoffVars, shutdown, target>>
    BY <1>3 DEF Connect, Goto
  <2>2. arg[w].uri \in Queue
    <3>1. segOf[w] # None /\ arg[w] = config[segOf[w]]
      BY <1>w, <2>1 DEF WorkerOk, OpeningPc
    <3> QED
      BY <1>t, <1>w, <3>1, SegmentNamed
  <2>3. /\ \A r \in Proc \ {w} : pc'[r] = pc[r]
        /\ pc' \in [Proc -> L] /\ pc'[w] = "get_session"
    BY <1>a, <1>l, <1>w, <2>1
  <2>4. SessionTypes(L)' /\ SessionIInv'
    <3>1. \A r \in Proc : /\ pc'[r] \in {"get_queue", "ready"} => pc'[r] = pc[r] /\ arg'[r] = arg[r]
                          /\ pc'[r] = "get_session" => arg'[r].uri \in Queue
      BY <1>t, <2>1, <2>2, <2>3 DEF SessionTypes, EntryPc
    <3> QED
      BY <1>t, <1>a, <2>1, <2>3, <3>1, Relabel
  <2>5. HandTypes'
    BY <1>t, <2>1 DEF handoffVars, HandTypes
  <2>6. WorkerOk(w)'
    BY <1>w, <2>1, <2>3 DEF WorkerOk, OpeningPc, ServingPc, HandleVars, cacheVars, handoffVars
  <2>7. CallerInvariant' /\ WorkerInvariant'
    BY <1>t, <2>1, <2>3, <2>6, WorkerFrame DEF HandleVars, cacheVars, handoffVars
  <2> QED
    BY <2>4, <2>5, <2>7
<1>4. CASE Open(w)
  <2>1. SessionOp(w)
    BY <1>4 DEF Open, SessionStep, SessionOp
  <2>2. SessionTypes(L)' /\ SessionIInv'
    BY <1>t, <1>w, <1>l, <2>1, OpTyped, OpSafe
  <2>3. UNCHANGED <<handoffVars, signalVars>>
    BY <1>4 DEF Open, subVars
  <2>4. HandTypes'
    BY <1>t, <2>3 DEF handoffVars, signalVars, HandTypes
  <2>5. \A r \in Proc \ {w} :
           /\ pc'[r] = pc[r] /\ arg'[r] = arg[r]
           /\ g_session'[r] = g_session[r] /\ g_queues'[r] = g_queues[r]
           /\ handles'[r] = handles[r]
    BY <1>t, <1>w, <2>1, OpFrame
  <2>6. /\ pc[w] \in OpeningPc /\ arg' = arg
        /\ \/ pc'[w] = "get_queue" /\ \A q \in Queue : g_queues'[w][q] = None
           \/ pc'[w] = "ready" /\ handles'[w][arg[w].uri] = arg[w].subscriptionExpr
    BY <1>t, <1>4, OpenEffect
  <2>7. WorkerOk(w)'
    BY <1>w, <2>3, <2>6 DEF WorkerOk, OpeningPc, ServingPc, handoffVars
  <2>8. CallerInvariant' /\ WorkerInvariant'
    BY <1>t, <2>3, <2>5, <2>7, WorkerFrame DEF handoffVars, signalVars
  <2> QED
    BY <2>2, <2>4, <2>8
<1>5. CASE ReportReady(w)
  <2>1. /\ pc[w] = "ready" /\ pc' = [pc EXCEPT ![w] = "loop"]
        /\ ready' = [ready EXCEPT ![segOf[w]] = TRUE]
        /\ Detach(w)
        /\ UNCHANGED <<HandleVars, arg, config, pinned, segOf, promised, signalVars>>
    BY <1>5 DEF ReportReady, Goto
  <2>2. /\ attached' \in [Seg -> SUBSET Proc]
        /\ \A s \in Seg : attached[s] \ {w} \subseteq attached'[s]
    BY <1>t, <1>w, <2>1, DetachEffect
  <2>3. /\ \A r \in Proc \ {w} : pc'[r] = pc[r]
        /\ pc' \in [Proc -> L] /\ pc'[w] = "loop"
    BY <1>a, <1>l, <1>w, <2>1
  <2>4. SessionTypes(L)' /\ SessionIInv'
    <3>1. \A r \in Proc : /\ pc'[r] \in {"get_queue", "ready"} => pc'[r] = pc[r] /\ arg'[r] = arg[r]
                          /\ pc'[r] = "get_session" => arg'[r].uri \in Queue
      BY <1>t, <2>1, <2>3 DEF SessionTypes, EntryPc
    <3> QED
      BY <1>t, <1>a, <2>1, <2>3, <3>1, Relabel
  <2>5. HandTypes'
    BY <1>t, <2>1, <2>2 DEF signalVars, HandTypes
  <2>6. WorkerOk(w)'
    BY <1>w, <2>1, <2>3 DEF WorkerOk, OpeningPc, ServingPc, HandleVars, cacheVars
  <2>7. \A s \in Seg : ready'[s] = ready[s] \/ (s = segOf[w] /\ ready'[s] = TRUE)
    BY <1>t, <2>1 DEF HandTypes
  <2>8. CallerInvariant' /\ WorkerInvariant'
    BY <1>t, <2>1, <2>2, <2>3, <2>6, <2>7, WorkerFrame DEF HandleVars, cacheVars, signalVars
  <2> QED
    BY <2>4, <2>5, <2>8
<1> QED
  BY <1>1, <1>2, <1>3, <1>4, <1>5 DEF OpeningOp

(***************************************************************************)
(* The dispatch loop                                                       *)
(***************************************************************************)
ServingOp(w) ==
  \/ \E E \in SUBSET inbox[w] : Receive(w, E)
  \/ \E m \in workIter[w] : Callback(w, m) \/ CallbackFails(w, m)
  \/ Commit(w) \/ ConfirmCurrent(w) \/ EndOfEvent(w)

\* Inside the loop a worker keeps its handle and what it was started with.
LEMMA ServingMove ==
  ASSUME NEW w \in Worker, ServingOp(w)
  PROVE  /\ pc[w] \in ServingPc
         /\ \E l \in ServingPc : pc' = [pc EXCEPT ![w] = l]
         /\ UNCHANGED <<HandleVars, arg, handoffVars, signalVars>>
         /\ UNCHANGED <<posted, outbox, stored, held, confirmed, early>>
BY DEF ServingOp, Receive, Callback, CallbackFails, Commit, ConfirmCurrent, EndOfEvent,
       NextMessage, Goto, ServingPc, brokerVars, subVars

\* The dispatch loop leaves session and hand-off in order.
LEMMA ServingStep ==
  ASSUME NEW L, SubLabels \subseteq L, SessionTypes(L), HandTypes, SessionIInv, CallerInvariant,
         WorkerInvariant, NEW w \in Worker, ServingOp(w)
  PROVE  SessionTypes(L)' /\ HandTypes' /\ SessionIInv' /\ CallerInvariant' /\ WorkerInvariant'
<1>t. SessionTypes(L) /\ HandTypes /\ SessionIInv /\ CallerInvariant /\ WorkerInvariant
  OBVIOUS
<1>w. w \in Proc /\ WorkerOk(w)
  BY SubscriberAssumption DEF WorkerInvariant
<1>1. PICK l \in ServingPc : pc' = [pc EXCEPT ![w] = l]
  BY ServingMove
<1>2. pc[w] \in ServingPc /\ UNCHANGED <<HandleVars, arg, handoffVars, signalVars>>
  BY ServingMove
<1>3. pc \in [Proc -> L] /\ arg \in [Proc -> Args] /\ l \in L
  BY DEF SessionTypes, SubLabels, WorkerPc, ServingPc
<1>4. /\ pc' \in [Proc -> L] /\ pc'[w] = l
      /\ \A r \in Proc \ {w} : pc'[r] = pc[r]
  BY <1>w, <1>1, <1>3
<1>5. SessionTypes(L)' /\ SessionIInv'
  <2>1. \A r \in Proc : /\ pc'[r] \in {"get_queue", "ready"} => pc'[r] = pc[r] /\ arg'[r] = arg[r]
                        /\ pc'[r] = "get_session" => arg'[r].uri \in Queue
    BY <1>t, <1>2, <1>4 DEF SessionTypes, EntryPc, ServingPc
  <2> QED
    BY <1>t, <1>2, <1>3, <1>4, <2>1, Relabel
<1>6. HandTypes'
  BY <1>t, <1>2 DEF handoffVars, signalVars, HandTypes
<1>7. WorkerOk(w)'
  BY <1>w, <1>2, <1>4 DEF WorkerOk, OpeningPc, ServingPc, HandleVars, cacheVars, handoffVars
<1>8. CallerInvariant' /\ WorkerInvariant'
  BY <1>t, <1>2, <1>4, <1>7, WorkerFrame DEF HandleVars, cacheVars, handoffVars, signalVars
<1> QED
  BY <1>5, <1>6, <1>8

\* What a worker has in its hands, and what it has committed.
InHand(w) == IF current[w] = None THEN {} ELSE {current[w]}

WorkOk(w) ==
  /\ inbox[w] \cup workIter[w] \cup InHand(w) \cup confirming[w] \subseteq held[w]
  /\ inbox[w] \cap (workIter[w] \cup InHand(w) \cup confirming[w]) = {}
  /\ workIter[w] \cap (InHand(w) \cup confirming[w]) = {}
  /\ InHand(w) \cap confirming[w] = {}
  /\ applied[w] \cap (inbox[w] \cup workIter[w]) = {}
  /\ pc[w] = "commit" => current[w] \notin applied[w]
  /\ pc[w] \in {"commit", "confirm"} <=> current[w] # None
  /\ pc[w] = "confirm" => current[w] \in applied[w]
  /\ confirming[w] \subseteq applied[w]
  /\ applied[w] \subseteq effects \cap (held[w] \cup confirmed)

WorkInv == \A w \in Worker : WorkOk(w)

\* WorkInv is the three invariants of the dispatch loop, worker by worker.
LEMMA WorkInvIs == WorkInv <=> WorkAccounted /\ OncePerProcess /\ CommitInvariant
BY DEF WorkInv, WorkOk, InHand, WorkAccounted, OncePerProcess, CommitInvariant

\* A worker is not disturbed by what happens elsewhere.
LEMMA WorkUndisturbed ==
  ASSUME NEW v \in Worker, WorkOk(v),
         workIter'[v] = workIter[v], current'[v] = current[v], applied'[v] = applied[v],
         inbox'[v] = inbox[v], confirming'[v] = confirming[v], held'[v] = held[v],
         effects \subseteq effects', confirmed \subseteq confirmed',
         pc'[v] = pc[v] \/ {pc[v], pc'[v]} \cap {"commit", "confirm"} = {}
  PROVE  WorkOk(v)'
BY DEF WorkOk, InHand

\* The dispatch loop keeps its locals and the broker's tables well formed.
LEMMA ServingTyped ==
  ASSUME NEW L, SessionTypes(L), BrokerTypes, WorkTypes, WorkInv, NEW w \in Worker, ServingOp(w)
  PROVE  BrokerTypes' /\ WorkTypes'
<1>t. BrokerTypes /\ WorkTypes /\ w \in Proc /\ WorkOk(w)
  BY SubscriberAssumption DEF WorkInv
<1>0. UNCHANGED <<posted, outbox, stored, held, confirmed, early>>
  BY ServingMove
<1>n. ASSUME NEW from, NEW S \in SUBSET Msg, NextMessage(w, from, S)
      PROVE  workIter' \in [Worker -> SUBSET Msg]
  BY <1>t, <1>n DEF NextMessage, WorkTypes
<1>i. inbox[w] \in SUBSET Msg /\ workIter[w] \in SUBSET Msg
  BY <1>t DEF BrokerTypes, WorkTypes
<1>1. ASSUME NEW E \in SUBSET inbox[w], Receive(w, E)
      PROVE  BrokerTypes' /\ WorkTypes'
  BY <1>t, <1>i, <1>0, <1>1 DEF Receive, BrokerTypes, WorkTypes
<1>2. ASSUME NEW m \in workIter[w], Callback(w, m)
      PROVE  BrokerTypes' /\ WorkTypes'
  BY <1>t, <1>i, <1>2 DEF Callback, brokerVars, BrokerTypes, WorkTypes
<1>3. ASSUME NEW m \in workIter[w], CallbackFails(w, m)
      PROVE  BrokerTypes' /\ WorkTypes'
  <2>1. workIter' \in [Worker -> SUBSET Msg]
    BY <1>i, <1>n, <1>3 DEF CallbackFails
  <2> QED
    BY <1>t, <1>3, <2>1 DEF CallbackFails, brokerVars, BrokerTypes, WorkTypes
<1>4. CASE Commit(w)
  <2>1. current[w] \in Msg
    BY <1>t, <1>4 DEF Commit, Goto, WorkOk, WorkTypes
  <2> QED
    BY <1>t, <1>4, <2>1 DEF Commit, brokerVars, BrokerTypes, WorkTypes
<1>5. CASE ConfirmCurrent(w)
  <2>1. current[w] \in Msg
    BY <1>t, <1>5 DEF ConfirmCurrent, NextMessage, Goto, WorkOk, WorkTypes
  <2>2. workIter' \in [Worker -> SUBSET Msg]
    BY <1>i, <1>n, <1>5 DEF ConfirmCurrent
  <2>3. confirming' \in [Proc -> SUBSET Msg]
    BY <1>t, <1>5, <2>1 DEF ConfirmCurrent, BrokerTypes
  <2> QED
    BY <1>t, <1>5, <2>2, <2>3 DEF ConfirmCurrent, BrokerTypes, WorkTypes
<1>6. CASE EndOfEvent(w)
  BY <1>t, <1>6 DEF EndOfEvent, brokerVars, subVars, workVars, BrokerTypes, WorkTypes
<1> QED
  BY <1>1, <1>2, <1>3, <1>4, <1>5, <1>6 DEF ServingOp

\* A message is confirmed after its commit, and dispatched no second time by the
\* process that committed it.
LEMMA ServingWork ==
  ASSUME NEW L, SessionTypes(L), BrokerTypes, WorkTypes, WorkInv, NEW w \in Worker, ServingOp(w)
  PROVE  WorkInv'
<1>t. BrokerTypes /\ WorkTypes /\ w \in Proc /\ WorkOk(w) /\ pc \in [Proc -> L]
  BY SubscriberAssumption DEF WorkInv, SessionTypes
<1>0. /\ UNCHANGED <<posted, outbox, stored, held, confirmed, early>>
      /\ \A r \in Proc \ {w} : pc'[r] = pc[r]
  BY <1>t, ServingMove
<1>i. /\ inbox[w] \in SUBSET Msg /\ workIter[w] \in SUBSET Msg
      /\ confirming[w] \in SUBSET Msg /\ current[w] \in Msg \cup {None} /\ None \notin Msg
  BY <1>t, SubscriberAssumption DEF BrokerTypes, WorkTypes
<1>f. ASSUME WorkOk(w)', effects \subseteq effects',
             \A v \in Worker \ {w} :
               /\ workIter'[v] = workIter[v] /\ current'[v] = current[v]
               /\ applied'[v] = applied[v] /\ inbox'[v] = inbox[v]
               /\ confirming'[v] = confirming[v]
      PROVE  WorkInv'
  <2>1. \A v \in Worker \ {w} : v \in Proc \ {w}
    BY SubscriberAssumption
  <2> QED
    BY <1>0, <1>f, <2>1, WorkUndisturbed DEF WorkInv
<1>n. ASSUME NEW from, NEW S \in SUBSET Msg, NextMessage(w, from, S)
      PROVE  /\ pc[w] = from /\ pc'[w] \in {"loop", "dispatch"}
             /\ workIter'[w] \subseteq S
             /\ \A v \in Worker \ {w} : workIter'[v] = workIter[v]
  BY <1>t, <1>n DEF NextMessage, Goto, WorkTypes
<1>1. ASSUME NEW E \in SUBSET inbox[w], Receive(w, E)
      PROVE  WorkInv'
  <2>1. /\ pc[w] = "loop" /\ pc'[w] = "dispatch"
        /\ inbox'[w] = inbox[w] \ E /\ workIter'[w] = E
        /\ UNCHANGED <<current, applied, effects, confirming>>
    BY <1>t, <1>1 DEF Receive, Goto, BrokerTypes, WorkTypes
  <2>2. WorkOk(w)'
    BY <1>t, <1>0, <2>1 DEF WorkOk, InHand
  <2>3. \A v \in Worker \ {w} : workIter'[v] = workIter[v] /\ inbox'[v] = inbox[v]
    BY <1>t, <1>1, SubscriberAssumption DEF Receive, BrokerTypes, WorkTypes
  <2> QED
    BY <1>f, <2>1, <2>2, <2>3
<1>2. ASSUME NEW m \in workIter[w], Callback(w, m)
      PROVE  WorkInv'
  <2>1. /\ pc[w] = "dispatch" /\ pc'[w] = "commit"
        /\ workIter'[w] = workIter[w] \ {m} /\ current'[w] = m /\ m # None
        /\ UNCHANGED <<inbox, applied, effects, confirming>>
    BY <1>t, <1>i, <1>2 DEF Callback, Goto, brokerVars, WorkTypes
  <2>2. WorkOk(w)'
    BY <1>t, <1>0, <2>1 DEF WorkOk, InHand
  <2>3. \A v \in Worker \ {w} : workIter'[v] = workIter[v] /\ current'[v] = current[v]
    BY <1>t, <1>2 DEF Callback, WorkTypes
  <2> QED
    BY <1>f, <2>1, <2>2, <2>3
<1>3. ASSUME NEW m \in workIter[w], CallbackFails(w, m)
      PROVE  WorkInv'
  <2>1. UNCHANGED <<inbox, confirming, current, applied, effects>>
    BY <1>3 DEF CallbackFails, brokerVars
  <2>2. /\ pc[w] = "dispatch" /\ pc'[w] \in {"loop", "dispatch"}
        /\ workIter'[w] \subseteq workIter[w]
        /\ \A v \in Worker \ {w} : workIter'[v] = workIter[v]
    BY <1>i, <1>n, <1>3 DEF CallbackFails
  <2>3. WorkOk(w)'
    BY <1>t, <1>0, <2>1, <2>2 DEF WorkOk, InHand
  <2> QED
    BY <1>f, <2>1, <2>2, <2>3
<1>4. CASE Commit(w)
  <2>1. /\ pc[w] = "commit" /\ pc'[w] = "confirm"
        /\ applied'[w] = applied[w] \cup {current[w]} /\ effects' = effects \cup {current[w]}
        /\ UNCHANGED <<inbox, confirming, workIter, current>>
    BY <1>t, <1>4 DEF Commit, Goto, brokerVars, WorkTypes
  <2>2. WorkOk(w)'
    BY <1>t, <1>0, <2>1 DEF WorkOk, InHand
  <2>3. \A v \in Worker \ {w} : applied'[v] = applied[v]
    BY <1>t, <1>4 DEF Commit, WorkTypes
  <2> QED
    BY <1>f, <2>1, <2>2, <2>3
<1>5. CASE ConfirmCurrent(w)
  <2>1. /\ current'[w] = None
        /\ confirming'[w] \subseteq confirming[w] \cup {current[w]}
        /\ UNCHANGED <<inbox, applied, effects>>
        /\ \A v \in Worker \ {w} : current'[v] = current[v] /\ confirming'[v] = confirming[v]
    BY <1>t, <1>5, SubscriberAssumption DEF ConfirmCurrent, BrokerTypes, WorkTypes
  <2>2. /\ pc[w] = "confirm" /\ pc'[w] \in {"loop", "dispatch"}
        /\ workIter'[w] \subseteq workIter[w]
        /\ \A v \in Worker \ {w} : workIter'[v] = workIter[v]
    BY <1>i, <1>n, <1>5 DEF ConfirmCurrent
  <2>3. WorkOk(w)'
    BY <1>t, <1>0, <2>1, <2>2 DEF WorkOk, InHand
  <2> QED
    BY <1>f, <2>1, <2>2, <2>3
<1>6. CASE EndOfEvent(w)
  <2>1. /\ pc[w] = "dispatch" /\ pc'[w] = "loop"
        /\ UNCHANGED <<inbox, confirming, workIter, current, applied, effects>>
    BY <1>t, <1>6 DEF EndOfEvent, Goto, brokerVars, subVars, workVars
  <2>2. WorkOk(w)'
    BY <1>t, <1>0, <2>1 DEF WorkOk, InHand
  <2> QED
    BY <1>f, <2>1, <2>2
<1> QED
  BY <1>1, <1>2, <1>3, <1>4, <1>5, <1>6 DEF ServingOp

(***************************************************************************)
(* The invariant, step by step                                             *)
(***************************************************************************)
\* All of SubIInv and the types but for the confirms of backends.
Core(L) ==
  /\ SessionTypes(L) /\ BrokerTypes /\ HandTypes /\ WorkTypes
  /\ SessionIInv /\ CallerInvariant /\ WorkerInvariant
  /\ OnePlace /\ WorkInv

\* The end of a worker at any point takes its share of the work with it; the end
\* of a backend is none of its business.
LEMMA EndCore ==
  ASSUME NEW L, EntryPc \subseteq L, Core(L), NEW p \in Proc,
         (p \in Worker /\ WorkerEnds(p)) \/ (p \in Backend /\ SubscriberExit(p))
  PROVE  /\ Core(L)'
         /\ UNCHANGED <<effects, confirmed>>
         /\ confirming'[p] = {}
         /\ \A r \in Proc \ {p} : /\ held'[r] = held[r] /\ inbox'[r] = inbox[r]
                                  /\ confirming'[r] = confirming[r]
<1>t. /\ SessionTypes(L) /\ BrokerTypes /\ HandTypes /\ WorkTypes
      /\ SessionIInv /\ CallerInvariant /\ WorkerInvariant /\ OnePlace /\ WorkInv
  BY DEF Core
<1>1. SessionTypes(L)' /\ HandTypes' /\ SessionIInv' /\ CallerInvariant' /\ WorkerInvariant'
  BY <1>t, EndHandoff
<1>2. Exit(p) /\ Disconnect(p)
  BY DEF WorkerEnds, SubscriberExit
<1>3. BrokerTypes' /\ OnePlace'
  BY <1>t, <1>2, DisconnectTyped, DisconnectOnePlace
<1>4. /\ held'[p] = {} /\ inbox'[p] = {} /\ confirming'[p] = {} /\ pc'[p] = "idle"
      /\ confirmed' = confirmed
      /\ \A r \in Proc \ {p} : /\ held'[r] = held[r] /\ inbox'[r] = inbox[r]
                               /\ confirming'[r] = confirming[r] /\ pc'[r] = pc[r]
  BY <1>t, <1>2 DEF Disconnect, Exit, BrokerTypes, SessionTypes
<1>5. CASE p \in Worker /\ WorkerEnds(p)
  <2>1. /\ workIter' = [workIter EXCEPT ![p] = {}]
        /\ current' = [current EXCEPT ![p] = None]
        /\ applied' = [applied EXCEPT ![p] = {}]
        /\ effects' = effects
    BY <1>5 DEF WorkerEnds
  <2>2. WorkTypes'
    BY <1>t, <1>5, <2>1 DEF WorkTypes
  <2>3. /\ workIter'[p] = {} /\ current'[p] = None /\ applied'[p] = {}
        /\ \A v \in Worker \ {p} : /\ workIter'[v] = workIter[v] /\ current'[v] = current[v]
                                   /\ applied'[v] = applied[v] /\ v \in Proc \ {p}
    BY <1>t, <1>5, <2>1, SubscriberAssumption DEF WorkTypes
  <2>4. WorkOk(p)'
    BY <1>4, <2>3 DEF WorkOk, InHand
  <2>5. \A v \in Worker \ {p} : WorkOk(v)'
    BY <1>t, <1>4, <2>1, <2>3, WorkUndisturbed DEF WorkInv
  <2> QED
    BY <1>1, <1>3, <1>4, <2>1, <2>2, <2>4, <2>5 DEF Core, WorkInv
<1>6. CASE p \in Backend /\ SubscriberExit(p)
  <2>1. UNCHANGED workVars
    BY <1>6 DEF SubscriberExit
  <2>2. WorkTypes'
    BY <1>t, <2>1 DEF workVars, WorkTypes
  <2>3. \A v \in Worker : v \in Proc \ {p}
    BY <1>6, SubscriberAssumption
  <2>4. WorkInv'
    BY <1>t, <1>4, <2>1, <2>3, WorkUndisturbed DEF WorkInv, workVars
  <2> QED
    BY <1>1, <1>3, <1>4, <2>1, <2>2, <2>4 DEF Core, workVars
<1> QED
  BY <1>5, <1>6

\* The work of workers is as it was, if broker and dispatch loops are left alone
\* and no process enters or leaves a transaction.
LEMMA WorkIdle ==
  ASSUME BrokerTypes, WorkTypes, OnePlace, WorkInv, UNCHANGED workVars,
         UNCHANGED <<posted, outbox, stored, held, inbox, confirming, confirmed>>,
         early' \in [Proc -> SUBSET Msg],
         \A v \in Worker : pc'[v] = pc[v] \/ {pc[v], pc'[v]} \cap {"commit", "confirm"} = {}
  PROVE  BrokerTypes' /\ WorkTypes' /\ OnePlace' /\ WorkInv'
<1>1. BrokerTypes' /\ WorkTypes'
  BY DEF BrokerTypes, WorkTypes, workVars
<1>2. OnePlace'
  BY StillOnePlace
<1>3. WorkInv'
  BY WorkUndisturbed DEF WorkInv, workVars
<1> QED
  BY <1>1, <1>2, <1>3

\* The calls of bmq_subscribe and bmq_unsubscribe.
LEMMA CallerCore ==
  ASSUME NEW L, SubLabels \subseteq L, Core(L), NEW p \in Backend, CallerOp(p)
  PROVE  Core(L)' /\ UNCHANGED <<brokerVars, workVars>>
<1>t. /\ SessionTypes(L) /\ BrokerTypes /\ HandTypes /\ WorkTypes
      /\ SessionIInv /\ CallerInvariant /\ WorkerInvariant /\ OnePlace /\ WorkInv
  BY DEF Core
<1>1. SessionTypes(L)' /\ HandTypes' /\ SessionIInv' /\ CallerInvariant' /\ WorkerInvariant'
  BY <1>t, CallerStep
<1>2. UNCHANGED <<brokerVars, workVars>>
  BY DEF CallerOp, RegisterFails, Subscribe, CheckPid, Kill, SubscribeStep, SeeStarted, SeeStopped,
         SeeReady, ReadyTimeout, Warn, ReturnReady, ReturnWarned, WaitInterrupted, LeaveSubscribe,
         CallerWaits, subVars
<1>3. ASSUME NEW v \in Worker
      PROVE  pc'[v] = pc[v] \/ {pc[v], pc'[v]} \cap {"commit", "confirm"} = {}
  <2>0. v \in Proc /\ p \in Proc /\ v # p /\ pc \in [Proc -> L]
    BY <1>t, SubscriberAssumption DEF SessionTypes
  <2>1. ASSUME NEW q \in Queue, NEW e \in Filter, NEW s \in Seg, NEW w \in Worker,
               Subscribe(p, q, e, s, w)
        PROVE  pc'[v] = pc[v] \/ (pc[v] = "idle" /\ pc'[v] = "registered")
    <3>1. /\ pc' = [pc EXCEPT ![p] = "wait_start", ![w] = "registered"]
          /\ pc[w] = "idle"
      BY <2>1 DEF Subscribe
    <3> QED
      BY <2>0, <3>1
  <2>2. CASE pc' = pc \/ \E l : pc' = [pc EXCEPT ![p] = l]
    BY <2>0, <2>2
  <2>3. \/ \E q \in Queue, e \in Filter, s \in Seg, w \in Worker : Subscribe(p, q, e, s, w)
        \/ pc' = pc \/ \E l : pc' = [pc EXCEPT ![p] = l]
    BY DEF CallerOp, RegisterFails, sessionVars, CheckPid, Kill, SubscribeStep, SeeStarted, SeeStopped,
           SeeReady, ReadyTimeout, Warn, ReturnReady, ReturnWarned, WaitInterrupted, Goto
  <2> QED
    BY <2>1, <2>2, <2>3
<1>4. early' \in [Proc -> SUBSET Msg]
  BY <1>t, <1>2 DEF brokerVars, BrokerTypes
<1>5. BrokerTypes' /\ WorkTypes' /\ OnePlace' /\ WorkInv'
  BY <1>t, <1>2, <1>3, <1>4, WorkIdle DEF brokerVars
<1> QED
  BY <1>1, <1>2, <1>5 DEF Core

\* A worker on its way to its queue.
LEMMA OpeningCore ==
  ASSUME NEW L, SubLabels \subseteq L, Core(L), NEW w \in Worker, OpeningOp(w)
  PROVE  /\ Core(L)'
         /\ UNCHANGED workVars
         /\ UNCHANGED <<posted, outbox, stored, held, inbox, confirming, confirmed>>
<1>t. /\ SessionTypes(L) /\ BrokerTypes /\ HandTypes /\ WorkTypes
      /\ SessionIInv /\ CallerInvariant /\ WorkerInvariant /\ OnePlace /\ WorkInv
  BY DEF Core
<1>w. w \in Proc /\ (\A v \in Worker : v \in Proc) /\ pc \in [Proc -> L]
  BY <1>t, SubscriberAssumption DEF SessionTypes
<1>1. SessionTypes(L)' /\ HandTypes' /\ SessionIInv' /\ CallerInvariant' /\ WorkerInvariant'
  BY <1>t, OpeningStep
<1>2. /\ UNCHANGED workVars
      /\ UNCHANGED <<posted, outbox, stored, held, inbox, confirming, confirmed>>
  BY DEF OpeningOp, Fork, Attach, Connect, Open, ReportReady, SessionStep, brokerVars, subVars
<1>3. CASE Open(w)
  <2>1. SessionStep(w) /\ SessionOp(w)
    BY <1>3 DEF Open, SessionStep, SessionOp
  <2>2. BrokerTypes'
    BY <1>t, <1>w, <2>1, SessionStepTyped
  <2>3. \A r \in Proc \ {w} : pc'[r] = pc[r]
    BY <1>t, <1>w, <2>1, OpFrame
  <2>4. pc[w] \in OpeningPc /\ pc'[w] \in OpeningPc
    BY <1>t, <1>3, OpenEffect DEF OpeningPc
  <2> QED
    BY <1>t, <1>w, <2>2, <2>3, <2>4, <1>1, <1>2, WorkIdle DEF BrokerTypes, OpeningPc, Core
<1>4. CASE Fork(w) \/ Attach(w) \/ Connect(w) \/ ReportReady(w)
  <2>1. early' = early
    BY <1>4 DEF Fork, Attach, Connect, ReportReady, brokerVars
  <2>2. \A v \in Worker : pc'[v] = pc[v] \/ {pc[v], pc'[v]} \cap {"commit", "confirm"} = {}
    BY <1>w, <1>4 DEF Fork, Attach, Connect, ReportReady, Goto
  <2> QED
    BY <1>t, <1>1, <1>2, <2>1, <2>2, WorkIdle DEF BrokerTypes, Core
<1> QED
  BY <1>2, <1>3, <1>4 DEF OpeningOp

\* Every step of a worker process, its end included.
LEMMA WorkerCore ==
  ASSUME NEW L, SubLabels \subseteq L, Core(L), NEW w \in Worker,
         WorkerStep(w) \/ StartupFails(w) \/ CommitFails(w) \/ Crash(w)
  PROVE  /\ Core(L)'
         /\ effects \subseteq effects' /\ confirmed' = confirmed
         /\ \A p \in Backend : /\ held'[p] = held[p] /\ inbox'[p] = inbox[p]
                              /\ confirming'[p] = confirming[p]
<1>0. w \in Proc /\ EntryPc \subseteq L /\ \A p \in Backend : p \in Proc \ {w}
  BY SubscriberAssumption DEF SubLabels
<1>1. CASE OpeningOp(w)
  BY <1>1, OpeningCore DEF workVars
<1>2. CASE ServingOp(w)
  <2>t. /\ SessionTypes(L) /\ BrokerTypes /\ HandTypes /\ WorkTypes
        /\ SessionIInv /\ CallerInvariant /\ WorkerInvariant /\ OnePlace /\ WorkInv
    BY DEF Core
  <2>1. SessionTypes(L)' /\ HandTypes' /\ SessionIInv' /\ CallerInvariant' /\ WorkerInvariant'
    BY <2>t, <1>2, ServingStep
  <2>2. BrokerTypes' /\ WorkTypes' /\ WorkInv'
    BY <2>t, <1>2, ServingTyped, ServingWork
  <2>3. UNCHANGED <<posted, outbox, stored, held, confirmed>>
    BY <1>2, ServingMove
  <2>4. OnePlace'
    BY <2>t, <2>3, StillOnePlace
  <2>5. /\ effects \subseteq effects'
        /\ \A p \in Backend : inbox'[p] = inbox[p] /\ confirming'[p] = confirming[p]
    BY <2>t, <1>0, <1>2
    DEF ServingOp, Receive, Callback, CallbackFails, Commit, ConfirmCurrent, EndOfEvent, brokerVars,
        subVars, workVars, BrokerTypes
  <2> QED
    BY <2>1, <2>2, <2>3, <2>4, <2>5 DEF Core
<1>3. CASE WorkerEnds(w)
  BY <1>0, <1>3, EndCore
<1> QED
  BY <1>1, <1>2, <1>3
  DEF WorkerStep, OpeningOp, ServingOp, StartupFails, CommitFails, Crash, Stop

\* The broker gives a worker nothing that the worker has committed before.
LEMMA BrokerCore ==
  ASSUME NEW L, Core(L), ConfirmsHeld, BrokerStep, UNCHANGED subVars
  PROVE  Core(L)'
<1>t. /\ SessionTypes(L) /\ BrokerTypes /\ HandTypes /\ WorkTypes
      /\ SessionIInv /\ CallerInvariant /\ WorkerInvariant /\ OnePlace /\ WorkInv
  BY DEF Core
<1>1. SessionTypes(L)' /\ HandTypes' /\ SessionIInv' /\ CallerInvariant' /\ WorkerInvariant' /\ WorkTypes'
  <2>1. UNCHANGED <<sessionVars, handoffVars, signalVars, workVars>>
    BY DEF BrokerStep, subVars
  <2>2. SessionTypes(L)' /\ SessionIInv'
    BY <1>t, <2>1 DEF sessionVars, SessionTypes, SessionIInv, CacheMatchesBroker,
                      NoHandleWithoutSession, EntryInvariant, HandleFits, Cached
  <2>3. HandTypes' /\ WorkTypes'
    BY <1>t, <2>1 DEF handoffVars, signalVars, workVars, HandTypes, WorkTypes
  <2>4. CallerInvariant'
    BY <1>t, <2>1 DEF sessionVars, handoffVars, signalVars, CallerInvariant
  <2>5. WorkerInvariant'
    BY <1>t, <2>1 DEF sessionVars, handoffVars, WorkerInvariant, WorkerOk
  <2> QED
    BY <2>2, <2>3, <2>4, <2>5
<1>2. PICK p \in Proc, m \in Msg :
        BrokerAccept(p, m) \/ BrokerReject(p, m) \/ Push(p, m) \/ ConfirmArrives(p, m)
  BY DEF BrokerStep
<1>3. BrokerTypes' /\ OnePlace'
  BY <1>t, <1>2, BrokerStepTyped, BrokerStepOnePlace
<1>4. UNCHANGED <<pc, workIter, current, applied, effects>>
  BY DEF BrokerStep, sessionVars, subVars, workVars
<1>5. ASSUME NEW w \in Worker
      PROVE  WorkOk(w)'
  <2>0. w \in Proc /\ WorkOk(w)
    BY <1>t, SubscriberAssumption DEF WorkInv
  <2>1. CASE w # p \/ BrokerAccept(p, m) \/ BrokerReject(p, m)
    <3>1. inbox'[w] = inbox[w] /\ confirming'[w] = confirming[w] /\ held'[w] = held[w]
          /\ confirmed \subseteq confirmed'
      BY <1>t, <1>2, <2>0, <2>1 DEF BrokerAccept, BrokerReject, Push, ConfirmArrives, BrokerTypes
    <3> QED
      BY <1>4, <2>0, <3>1, WorkUndisturbed
  <2>2. CASE w = p /\ Push(p, m)
    <3>1. /\ held'[w] = held[w] \cup {m} /\ inbox'[w] = inbox[w] \cup {m}
          /\ confirming' = confirming /\ confirmed' = confirmed
      BY <1>t, <2>0, <2>2 DEF Push, BrokerTypes
    <3>2. m \notin held[w] /\ m \notin confirmed
      BY <1>t, <2>0, <2>2 DEF Push, OnePlace
    <3> QED
      BY <1>4, <2>0, <3>1, <3>2 DEF WorkOk, InHand
  <2>3. CASE w = p /\ ConfirmArrives(p, m)
    <3>1. /\ held'[w] = held[w] \ {m} /\ inbox' = inbox /\ m \in confirming[w]
          /\ confirming'[w] = confirming[w] \ {m} /\ confirmed' = confirmed \cup {m}
      BY <1>t, <2>0, <2>3 DEF ConfirmArrives, BrokerTypes
    <3> QED
      BY <1>4, <2>0, <3>1 DEF WorkOk, InHand
  <2> QED
    BY <1>2, <2>1, <2>2, <2>3
<1> QED
  BY <1>1, <1>3, <1>5 DEF Core, WorkInv

\* A backend's own calls into get_session, get_queue and post.
LEMMA OwnCore ==
  ASSUME NEW L, SubLabels \subseteq L, Core(L), NEW p \in Backend, UNCHANGED subVars,
         \/ (\E q \in Queue, e \in Filter : Enter(p, q, e)) /\ UNCHANGED brokerVars
         \/ SessionStep(p)
         \/ PublishRow(p)
  PROVE  Core(L)' /\ UNCHANGED <<confirming, confirmed>>
<1>t. /\ SessionTypes(L) /\ BrokerTypes /\ HandTypes /\ WorkTypes
      /\ SessionIInv /\ CallerInvariant /\ WorkerInvariant /\ OnePlace /\ WorkInv
  BY DEF Core
<1>p. /\ p \in Proc /\ EntryPc \subseteq L /\ "ready" \in L /\ pc \in [Proc -> L]
      /\ (\A w \in Worker : w \in Proc \ {p})
  BY <1>t, SubscriberAssumption DEF SubLabels, EntryPc, SessionTypes
<1>u. UNCHANGED <<handoffVars, signalVars, workVars>>
  BY DEF subVars
<1>0. ASSUME SessionTypes(L)', SessionIInv', BrokerTypes', OnePlace', pc'[p] \in EntryPc,
             UNCHANGED <<held, inbox, confirming, confirmed>>,
             \A r \in Proc \ {p} :
               /\ pc'[r] = pc[r] /\ arg'[r] = arg[r]
               /\ g_session'[r] = g_session[r] /\ g_queues'[r] = g_queues[r]
               /\ handles'[r] = handles[r]
      PROVE  Core(L)' /\ UNCHANGED <<confirming, confirmed>>
  <2>1. CallerInvariant' /\ WorkerInvariant'
    BY <1>t, <1>u, <1>0, OwnCall DEF EntryPc, CallerPc, signalVars
  <2>2. HandTypes' /\ WorkTypes'
    BY <1>t, <1>u DEF handoffVars, signalVars, workVars, HandTypes, WorkTypes
  <2>3. WorkInv'
    BY <1>t, <1>p, <1>u, <1>0, WorkUndisturbed DEF WorkInv, workVars
  <2> QED
    BY <1>0, <2>1, <2>2, <2>3 DEF Core
<1>1. CASE (\E q \in Queue, e \in Filter : Enter(p, q, e)) /\ UNCHANGED brokerVars
  <2>1. SessionOp(p)
    BY <1>1 DEF SessionOp
  <2>2. SessionTypes(L)' /\ SessionIInv'
    BY <1>t, <1>p, <2>1, OpTyped, OpSafe
  <2>3. BrokerTypes' /\ OnePlace'
    BY <1>t, <1>1, StillOnePlace DEF brokerVars, BrokerTypes
  <2>4. pc'[p] \in EntryPc
    BY <1>p, <1>1 DEF Enter, Goto, EntryPc
  <2> QED
    BY <1>t, <1>p, <1>0, <1>1, <2>1, <2>2, <2>3, <2>4, OpFrame DEF brokerVars
<1>2. CASE SessionStep(p)
  <2>1. SessionOp(p) /\ UNCHANGED <<posted, outbox, stored, held, inbox, confirming, confirmed>>
    BY <1>2 DEF SessionOp, SessionStep
  <2>2. SessionTypes(L)' /\ SessionIInv'
    BY <1>t, <1>p, <2>1, OpTyped, OpSafe
  <2>3. BrokerTypes' /\ OnePlace'
    BY <1>t, <1>p, <1>2, <2>1, StillOnePlace, SessionStepTyped
  <2> QED
    BY <1>t, <1>p, <1>0, <2>1, <2>2, <2>3, OpFrame
<1>3. CASE PublishRow(p)
  <2>1. CallEnds(p, "ready") /\ UNCHANGED <<held, inbox, confirming, confirmed>>
    BY <1>3 DEF PublishRow, Post, PostFails, CallEnds, brokerVars
  <2>2. SessionTypes(L)' /\ SessionIInv'
    BY <1>t, <1>p, <2>1, EndTyped, EndSafe
  <2>3. BrokerTypes' /\ OnePlace'
    <3>1. CASE PostFails(p)
      BY <1>t, <3>1, StillOnePlace DEF PostFails, brokerVars, BrokerTypes
    <3>2. ASSUME NEW m \in Msg, Post(p, m)
          PROVE  BrokerTypes' /\ OnePlace'
      BY <1>t, <1>p, <3>2, PostTyped, PostOnePlace
    <3> QED
      BY <1>3, <3>1, <3>2 DEF PublishRow
  <2>4. /\ pc'[p] \in EntryPc
        /\ \A r \in Proc \ {p} :
               /\ pc'[r] = pc[r] /\ arg'[r] = arg[r]
               /\ g_session'[r] = g_session[r] /\ g_queues'[r] = g_queues[r]
               /\ handles'[r] = handles[r]
    BY <1>t, <1>p, <2>1 DEF CallEnds, EndCall, Goto, cacheVars, SessionTypes, EntryPc
  <2> QED
    BY <1>0, <2>1, <2>2, <2>3, <2>4
<1> QED
  BY <1>1, <1>2, <1>3

\* At first every label is "idle", nothing is handed over and nobody works.
LEMMA CoreInit ==
  ASSUME NEW L, "idle" \in L, SubInit
  PROVE  Core(L)
<1>1. SessionTypes(L)
  BY SessionAssumption
  DEF SubInit, SessionInit, SessionTypes, EntryPc, Args, NoArg, Filter
<1>2. BrokerTypes /\ HandTypes /\ WorkTypes
  BY DEF SubInit, BrokerInit, NoMsgs, BrokerTypes, HandTypes, WorkTypes
<1>3. SessionIInv
  BY DEF SubInit, SessionInit, SessionIInv, CacheMatchesBroker, NoHandleWithoutSession, EntryInvariant
<1>4. CallerInvariant
  BY SubscriberAssumption DEF SubInit, SessionInit, CallerInvariant, CallerPc
<1>5. WorkerInvariant
  BY SubscriberAssumption DEF SubInit, SessionInit, WorkerInvariant, WorkerOk, OpeningPc, ServingPc
<1>6. OnePlace
  BY DEF SubInit, BrokerInit, NoMsgs, OnePlace
<1>7. WorkInv
  BY SubscriberAssumption DEF SubInit, SessionInit, BrokerInit, NoMsgs, WorkInv, WorkOk, InHand
<1> QED
  BY <1>1, <1>2, <1>3, <1>4, <1>5, <1>6, <1>7 DEF Core

\* Every confirm under way is a worker's, and its callback took effect.
ConfirmInv ==
  /\ confirmed \subseteq effects
  /\ \A p \in Backend : confirming[p] = {}

\* Types and SubIInv together are what is inductive.
LEMMA SubIs == SubTypeOK /\ SubIInv <=> Core(SubLabels) /\ ConfirmInv
<1>1. SubTypeOK <=> SessionTypes(SubLabels) /\ BrokerTypes /\ HandTypes /\ WorkTypes
  BY DEF SubTypeOK, SubLabels, HandTypes, WorkTypes
<1>2. CommitInvariant => \A w \in Worker : confirming[w] \subseteq applied[w]
  BY DEF CommitInvariant
<1> QED
  BY <1>1, <1>2, WorkInvIs DEF SubIInv, Core, ConfirmInv, EffectBeforeConfirm

\* The types of callers, workers and segments and the invariant that makes push
\* consumption correct hold in every state, for any number of each and whatever
\* fails or dies in between.
THEOREM SubSafety == SubSpec => [](SubTypeOK /\ SubIInv)
<1>1. SubInit => SubTypeOK /\ SubIInv
  <2> SUFFICES ASSUME SubInit PROVE Core(SubLabels) /\ ConfirmInv
    BY SubIs
  <2>1. Core(SubLabels)
    BY CoreInit DEF SubLabels, EntryPc
  <2>2. ConfirmInv
    BY SubscriberAssumption DEF SubInit, BrokerInit, NoMsgs, ConfirmInv
  <2> QED
    BY <2>1, <2>2
<1>2. Core(SubLabels) /\ ConfirmInv /\ [SubNext]_subAll => (Core(SubLabels) /\ ConfirmInv)'
  <2> SUFFICES ASSUME Core(SubLabels), ConfirmInv, [SubNext]_subAll
               PROVE  Core(SubLabels)' /\ ConfirmInv'
    OBVIOUS
  <2>t. SubLabels \subseteq SubLabels /\ EntryPc \subseteq SubLabels
    BY DEF SubLabels
  <2>p. (\A p \in Backend : p \in Proc) /\ (\A w \in Worker : w \in Proc)
    BY SubscriberAssumption
  <2>c. ASSUME effects \subseteq effects', confirmed' = confirmed,
               \A p \in Backend : confirming'[p] \in {confirming[p], {}}
        PROVE  ConfirmInv'
    BY <2>c DEF ConfirmInv
  <2>1. ASSUME NEW p \in Backend, UNCHANGED subVars,
               \/ (\E q \in Queue, e \in Filter : Enter(p, q, e)) /\ UNCHANGED brokerVars
               \/ SessionStep(p)
               \/ PublishRow(p)
        PROVE  Core(SubLabels)' /\ ConfirmInv'
    <3>1. Core(SubLabels)' /\ UNCHANGED <<confirming, confirmed>>
      BY <2>t, <2>1, OwnCore
    <3> QED
      BY <2>c, <2>1, <3>1 DEF subVars, workVars
  <2>2. ASSUME NEW p \in Backend, CallerOp(p)
        PROVE  Core(SubLabels)' /\ ConfirmInv'
    <3>1. Core(SubLabels)' /\ UNCHANGED <<brokerVars, workVars>>
      BY <2>t, <2>2, CallerCore
    <3> QED
      BY <2>c, <3>1 DEF brokerVars, workVars
  <2>3. ASSUME NEW p \in Backend, SubscriberExit(p)
        PROVE  Core(SubLabels)' /\ ConfirmInv'
    <3>1. /\ Core(SubLabels)' /\ UNCHANGED <<effects, confirmed>>
          /\ confirming'[p] = {} /\ \A r \in Proc \ {p} : confirming'[r] = confirming[r]
      BY <2>t, <2>p, <2>3, EndCore
    <3> QED
      BY <2>c, <2>p, <3>1
  <2>4. ASSUME NEW w \in Worker, WorkerStep(w) \/ StartupFails(w) \/ CommitFails(w) \/ Crash(w)
        PROVE  Core(SubLabels)' /\ ConfirmInv'
    <3>1. /\ Core(SubLabels)' /\ effects \subseteq effects' /\ confirmed' = confirmed
          /\ \A p \in Backend : confirming'[p] = confirming[p]
      BY <2>t, <2>4, WorkerCore
    <3> QED
      BY <2>c, <3>1
  <2>5. ASSUME BrokerStep, UNCHANGED subVars
        PROVE  Core(SubLabels)' /\ ConfirmInv'
    <3>1. \A w \in Worker : confirming[w] \subseteq held[w] /\ confirming[w] \subseteq effects
      BY DEF Core, WorkInv, WorkOk
    <3>2. ConfirmsHeld
      BY <3>1, SubscriberAssumption DEF ConfirmInv, ConfirmsHeld
    <3>3. Core(SubLabels)'
      BY <2>5, <3>2, BrokerCore
    <3>4. \A p \in Proc : confirming[p] \subseteq effects
      BY <3>1, SubscriberAssumption DEF ConfirmInv
    <3>5. PICK p \in Proc, m \in Msg :
            BrokerAccept(p, m) \/ BrokerReject(p, m) \/ Push(p, m) \/ ConfirmArrives(p, m)
      BY <2>5 DEF BrokerStep
    <3>6. effects' = effects
      BY <2>5 DEF subVars, workVars
    <3>7. confirming \in [Proc -> SUBSET Msg]
      BY DEF Core, BrokerTypes
    <3>8. CASE BrokerAccept(p, m) \/ BrokerReject(p, m) \/ Push(p, m)
      BY <3>3, <3>6, <3>8 DEF BrokerAccept, BrokerReject, Push, ConfirmInv
    <3>9. CASE ConfirmArrives(p, m)
      <4>1. confirmed' \subseteq effects'
        BY <3>4, <3>6, <3>9 DEF ConfirmArrives, ConfirmInv
      <4>2. \A b \in Backend : confirming'[b] \subseteq confirming[b]
        BY <2>p, <3>7, <3>9 DEF ConfirmArrives
      <4> QED
        BY <3>3, <4>1, <4>2 DEF ConfirmInv
    <3> QED
      BY <3>5, <3>8, <3>9
  <2>6. CASE UNCHANGED subAll
    <3>1. UNCHANGED <<sessionVars, brokerVars, handoffVars, signalVars, workVars>>
      BY <2>6 DEF subAll, subVars
    <3>2. SessionTypes(SubLabels)' /\ SessionIInv' /\ BrokerTypes' /\ OnePlace'
      BY <3>1 DEF Core, sessionVars, brokerVars, SessionTypes, SessionIInv, CacheMatchesBroker,
                  NoHandleWithoutSession, EntryInvariant, HandleFits, Cached, BrokerTypes, OnePlace
    <3>3. HandTypes' /\ WorkTypes' /\ CallerInvariant'
      BY <3>1 DEF Core, sessionVars, handoffVars, signalVars, workVars, HandTypes, WorkTypes,
                  CallerInvariant
    <3>4. WorkerInvariant' /\ WorkInv'
      BY <3>1 DEF Core, sessionVars, brokerVars, handoffVars, workVars, WorkerInvariant, WorkerOk,
                  WorkInv, WorkOk, InHand
    <3>5. ConfirmInv'
      BY <3>1 DEF brokerVars, workVars, ConfirmInv
    <3> QED
      BY <3>2, <3>3, <3>4, <3>5 DEF Core
  <2>7. ASSUME NEW p \in Backend, BackendCall(p)
        PROVE  Core(SubLabels)' /\ ConfirmInv'
    <3>1. NoExpr \in Filter
      BY DEF Filter
    <3> QED
      BY <2>1, <2>2, <2>7, <3>1 DEF BackendCall, CallerOp
  <2> QED
    BY <2>1, <2>2, <2>3, <2>4, <2>5, <2>6, <2>7 DEF SubNext, CallerOp
<1> QED
  BY <1>1, <1>2, SubIs, PTL DEF SubSpec

\* The types alone.
THEOREM SubTypeCorrect == SubSpec => []SubTypeOK
BY SubSafety, PTL

\* Neither the worker nor the caller ever touches the ready flag of a segment it
\* has not mapped, and the segment outlives the caller that created it.
THEOREM SegmentMappedAlways == SubSpec => []SegmentMapped
<1>1. SubTypeOK /\ SubIInv => SegmentMapped
  <2> SUFFICES ASSUME SubTypeOK, SubIInv
               PROVE  SegmentMapped
    OBVIOUS
  <2>1. HandTypes /\ CallerInvariant /\ WorkerInvariant
    BY DEF SubTypeOK, SubIInv, HandTypes
  <2>2. ASSUME NEW w \in Worker
        PROVE  /\ pc[w] \in {"registered", "attach"} => Exists(segOf[w])
               /\ pc[w] \in {"connect", "get_session", "get_queue", "ready"} => w \in attached[segOf[w]]
    <3>1. WorkerOk(w) /\ w \in Proc
      BY <2>1, SubscriberAssumption DEF WorkerInvariant
    <3>2. pc[w] # "idle" => segOf[w] \in pinned
      BY <2>1, <3>1, SegmentNamed DEF WorkerOk
    <3> QED
      BY <3>1, <3>2 DEF WorkerOk, OpeningPc, Exists
  <2> QED
    BY <2>1, <2>2 DEF SegmentMapped, CallerInvariant
<1> QED
  BY <1>1, SubSafety, PTL

\* A subscription reported ready has its queue open with the filter it asked for
\* as long as its worker lives.
THEOREM ReadyMeansOpenAlways == SubSpec => []ReadyMeansOpen
<1>1. SubIInv => ReadyMeansOpen
  <2> SUFFICES ASSUME SubIInv, NEW s \in promised, NEW w \in Worker, ServedBy(s, w)
               PROVE  handles[w][config[s].uri] = config[s].subscriptionExpr
    BY DEF ReadyMeansOpen
  <2>1. s \in Seg /\ ready[s] /\ segOf[w] = s /\ s # None
    BY SubscriberAssumption DEF SubIInv, CallerInvariant, ServedBy
  <2>2. WorkerOk(w)
    BY DEF SubIInv, WorkerInvariant
  <2> QED
    BY <2>1, <2>2 DEF WorkerOk
<1> QED
  BY <1>1, SubSafety, PTL

\* No message is confirmed whose callback was not committed before.
THEOREM EffectBeforeConfirmAlways == SubSpec => []EffectBeforeConfirm
<1>1. SubIInv => EffectBeforeConfirm
  BY DEF SubIInv
<1> QED
  BY <1>1, SubSafety, PTL

\* No worker process commits the callback of a message twice.
THEOREM OncePerProcessAlways == SubSpec => []OncePerProcess
<1>1. SubIInv => OncePerProcess
  BY DEF SubIInv
<1> QED
  BY <1>1, SubSafety, PTL

\* What a worker works on is held for it, and in one of its hands.
THEOREM WorkAccountedAlways == SubSpec => []WorkAccounted
<1>1. SubIInv => WorkAccounted
  BY DEF SubIInv
<1> QED
  BY <1>1, SubSafety, PTL

(***************************************************************************)
(* The whole system                                                        *)
(***************************************************************************)
SysLabels == SubLabels \cup LoopPc

\* Backends keep what PullProofs proves of their hands, workers what is proved
\* of theirs above, and no worker pulls.
SysInv ==
  /\ Core(SysLabels) /\ LoopTypes
  /\ \A p \in Backend : PlacesOk(p)
  /\ \A w \in Worker : taken[w] = {}

(***************************************************************************)
(* Stages and owners                                                       *)
(***************************************************************************)
\* Where a message is decides its stage and its owner.
Table(m) ==
  /\ m \notin posted => StageOf(m) = "unsent" /\ OwnerOf(m) = None
  /\ \A p \in Proc : m \in outbox[p] => StageOf(m) = "sent" /\ OwnerOf(m) = p
  /\ m \in stored => StageOf(m) = "queued" /\ OwnerOf(m) = None
  /\ \A p \in Proc : m \in held[p] =>
       StageOf(m) = (IF m \in UsedBy(p) THEN "used" ELSE "leased") /\ OwnerOf(m) = p
  /\ m \in confirmed => StageOf(m) = "done" /\ OwnerOf(m) = None
  /\ m \in posted /\ m \notin stored /\ m \notin confirmed
       /\ (\A p \in Proc : m \notin outbox[p] /\ m \notin held[p]) =>
     StageOf(m) = "lost" /\ OwnerOf(m) = None

\* It does because every message is in one place.
LEMMA TableHolds == OnePlace => \A m \in Msg : Table(m)
<1> SUFFICES ASSUME OnePlace, NEW m \in Msg
             PROVE  Table(m)
  OBVIOUS
<1>0. /\ m \in stored => m \in posted /\ m \notin confirmed
      /\ m \in confirmed => m \in posted /\ m \notin stored
      /\ \A p \in Proc : /\ m \in outbox[p] =>
                              /\ m \in posted /\ m \notin stored /\ m \notin confirmed
                              /\ \A r \in Proc : m \notin held[r] /\ (r # p => m \notin outbox[r])
                         /\ m \in held[p] =>
                              /\ m \in posted /\ m \notin stored /\ m \notin confirmed
                              /\ \A r \in Proc : m \notin outbox[r] /\ (r # p => m \notin held[r])
  BY DEF OnePlace
<1>1. CASE \E p \in Proc : m \in outbox[p]
  <2>1. PICK p \in Proc : m \in outbox[p]
    BY <1>1
  <2>2. StageOf(m) = "sent"
    BY <1>0, <2>1 DEF StageOf
  <2>3. OwnerOf(m) = p
    BY <1>0, <2>1 DEF OwnerOf
  <2> QED
    BY <1>0, <2>1, <2>2, <2>3 DEF Table
<1>2. CASE \E p \in Proc : m \in held[p]
  <2>1. PICK p \in Proc : m \in held[p]
    BY <1>2
  <2>2. StageOf(m) = IF m \in UsedBy(p) THEN "used" ELSE "leased"
    BY <1>0, <2>1 DEF StageOf
  <2>3. OwnerOf(m) = p
    BY <1>0, <2>1 DEF OwnerOf
  <2> QED
    BY <1>0, <2>1, <2>2, <2>3 DEF Table
<1>3. CASE \A p \in Proc : m \notin outbox[p] /\ m \notin held[p]
  <2>1. OwnerOf(m) = None
    BY <1>3 DEF OwnerOf
  <2>2. /\ m \notin posted => StageOf(m) = "unsent"
        /\ m \in stored => StageOf(m) = "queued"
        /\ m \in confirmed => StageOf(m) = "done"
        /\ m \in posted /\ m \notin stored /\ m \notin confirmed => StageOf(m) = "lost"
    BY <1>0, <1>3 DEF StageOf
  <2> QED
    BY <1>3, <2>1, <2>2 DEF Table
<1> QED
  BY <1>1, <1>2, <1>3

\* The table after a step.
LEMMA TableAfter == OnePlace' => \A m \in Msg : Table(m)'
<1>1. OnePlace' => (\A m \in Msg : Table(m))'
  BY TableHolds, PTL
<1> QED
  BY <1>1

\* A message that stays where it is, and is used no more and no less, stutters.
Stays(m) ==
  /\ m \in posted' <=> m \in posted
  /\ m \in stored' <=> m \in stored
  /\ m \in confirmed' <=> m \in confirmed
  /\ \A p \in Proc : /\ m \in outbox'[p] <=> m \in outbox[p]
                     /\ m \in held'[p] <=> m \in held[p]
                     /\ m \in held[p] => (m \in UsedBy(p)' <=> m \in UsedBy(p))

Same(m) == StageOf(m)' = StageOf(m) /\ OwnerOf(m)' = OwnerOf(m)

\* A message that stays where it is keeps stage and owner.
LEMMA StaysSame ==
  ASSUME OnePlace, OnePlace', NEW m \in Msg, Stays(m)
  PROVE  Same(m)
<1>1. Table(m) /\ Table(m)'
  BY TableHolds, TableAfter
<1>2. CASE \E p \in Proc : m \in outbox[p]
  BY <1>1, <1>2 DEF Table, Stays, Same
<1>3. ASSUME NEW p \in Proc, m \in held[p]
      PROVE  Same(m)
  BY <1>1, <1>3 DEF Table, Stays, Same
<1>4. CASE \A p \in Proc : m \notin outbox[p] /\ m \notin held[p]
  BY <1>1, <1>4 DEF Table, Stays, Same
<1> QED
  BY <1>2, <1>3, <1>4

\* Nothing happened, as AtLeastOnce sees it.
LEMMA Stutter ==
  ASSUME \A m \in Msg : Same(m)
  PROVE  UNCHANGED ALO!aloVars
BY DEF Same, ALO!aloVars

\* One message moved.
LEMMA OneMoves ==
  ASSUME NEW m \in Msg, NEW to, NEW o, StageOf(m)' = to, OwnerOf(m)' = o,
         \A x \in Msg \ {m} : Same(x)
  PROVE  ALO!Move(m, StageOf(m), to, o)
BY DEF Same, ALO!Move

(***************************************************************************)
(* The invariant                                                           *)
(***************************************************************************)
\* A backend's call of bmq_publish_row or bmq_consume, up to the loop.
LEMMA EntryKeeps ==
  ASSUME SysInv, NEW p \in Backend, UNCHANGED <<pullVars, subVars>>,
         \/ (\E q \in Queue, e \in Filter : Enter(p, q, e)) /\ UNCHANGED brokerVars
         \/ SessionStep(p)
         \/ PublishRow(p)
  PROVE  SysInv'
<1>0. SubLabels \subseteq SysLabels /\ \A r \in Backend : r \in Proc
  BY SubscriberAssumption DEF SysLabels
<1>1. Core(SysLabels)'
  BY <1>0, OwnCore DEF SysInv
<1>2. UNCHANGED <<held, inbox, confirming, confirmed>>
  BY DEF SessionStep, PublishRow, Post, PostFails, brokerVars
<1>3. \A r \in Backend : PlacesOk(r)'
  BY <1>0, <1>2, PlacesUndisturbed DEF SysInv, pullVars, loopVars
<1> QED
  BY <1>1, <1>3 DEF SysInv, LoopTypes, pullVars, loopVars

\* The receive loop.
LEMMA ConsumeKeeps ==
  ASSUME SysInv, NEW p \in Backend, Consume(p), UNCHANGED subVars
  PROVE  SysInv'
<1>t. /\ SessionTypes(SysLabels) /\ BrokerTypes /\ HandTypes /\ WorkTypes /\ LoopTypes
      /\ SessionIInv /\ CallerInvariant /\ WorkerInvariant /\ OnePlace /\ WorkInv
      /\ PlacesOk(p)
  BY DEF SysInv, Core
<1>0. /\ p \in Proc /\ (\A r \in Backend : r \in Proc) /\ (\A w \in Worker : w \in Proc \ {p})
      /\ EntryPc \cup LoopPc \subseteq SysLabels
  BY SubscriberAssumption DEF SysLabels, SubLabels
<1>1. /\ SessionTypes(SysLabels)' /\ SessionIInv' /\ UNCHANGED Handle
      /\ pc'[p] \in LoopPc \cup {"idle"}
      /\ \A r \in Proc \ {p} : pc'[r] = pc[r] /\ arg'[r] = arg[r]
  BY <1>t, <1>0, ConsumeSession
<1>2. BrokerTypes' /\ LoopTypes'
  BY <1>t, <1>0, ConsumeTyped
<1>3. /\ PlacesOk(p)'
      /\ UNCHANGED <<posted, outbox, stored, held, confirmed>>
      /\ \A r \in Proc \ {p} :
           /\ inbox'[r] = inbox[r] /\ confirming'[r] = confirming[r]
           /\ msgIter'[r] = msgIter[r] /\ confirmBuilder'[r] = confirmBuilder[r]
           /\ tupstore'[r] = tupstore[r] /\ taken'[r] = taken[r]
  BY <1>t, <1>0, ConsumePlaces
<1>4. HandTypes' /\ WorkTypes' /\ UNCHANGED <<handoffVars, target, workVars>>
  BY <1>t DEF subVars, handoffVars, signalVars, workVars, HandTypes, WorkTypes
<1>5. CallerInvariant' /\ WorkerInvariant'
  <2>1. pc'[p] \notin CallerPc
    BY <1>1 DEF LoopPc, CallerPc
  <2> QED
    BY <1>t, <1>1, <1>4, <2>1, OwnCall DEF Handle, cacheVars
<1>6. OnePlace'
  BY <1>t, <1>3, StillOnePlace
<1>7. WorkInv'
  BY <1>t, <1>0, <1>1, <1>3, <1>4, WorkUndisturbed DEF WorkInv, workVars
<1>8. \A r \in Backend \ {p} : PlacesOk(r)'
  BY <1>0, <1>3, PlacesUndisturbed DEF SysInv
<1>9. \A w \in Worker : taken'[w] = {}
  BY <1>0, <1>3 DEF SysInv
<1> QED
  BY <1>1, <1>2, <1>3, <1>4, <1>5, <1>6, <1>7, <1>8, <1>9 DEF SysInv, Core

\* Whatever else a backend calls, and its end.
LEMMA BackendKeeps ==
  ASSUME SysInv, NEW p \in Backend, SysBackend(p)
  PROVE  SysInv'
<1>0. /\ SubLabels \subseteq SysLabels /\ EntryPc \subseteq SysLabels
      /\ (\A r \in Backend : r \in Proc) /\ (\A w \in Worker : w \in Proc \ {p}) /\ NoExpr \in Filter
  BY SubscriberAssumption DEF SysLabels, SubLabels, Filter
<1>1. CASE Call(p) /\ UNCHANGED subVars
  BY <1>1, EntryKeeps DEF Call
<1>2. CASE (SessionStep(p) \/ PublishRow(p)) /\ UNCHANGED <<pullVars, subVars>>
  BY <1>2, EntryKeeps
<1>3. CASE Consume(p) /\ UNCHANGED subVars
  BY <1>3, ConsumeKeeps
<1>4. CASE (\E q \in Queue : Enter(p, q, NoExpr)) /\ UNCHANGED <<brokerVars, subVars, pullVars>>
  BY <1>0, <1>4, EntryKeeps
<1>5. CASE CallerOp(p) /\ UNCHANGED pullVars
  <2>1. Core(SysLabels)' /\ UNCHANGED <<brokerVars, workVars>>
    BY <1>0, <1>5, CallerCore DEF SysInv
  <2>2. \A r \in Backend : PlacesOk(r)'
    BY <1>0, <1>5, <2>1, PlacesUndisturbed DEF SysInv, brokerVars, pullVars, loopVars
  <2> QED
    BY <1>5, <2>1, <2>2 DEF SysInv, LoopTypes, pullVars, loopVars
<1>6. CASE BackendExit(p) /\ SubscriberExit(p)
  <2>1. Core(SysLabels)'
    BY <1>0, <1>6, EndCore DEF SysInv
  <2>2. LoopTypes /\ BrokerTypes
    BY DEF SysInv, Core
  <2>3. \A r \in Backend : PlacesOk(r)'
    BY <1>0, <1>6, <2>2, ExitPlaces DEF SysInv
  <2>4. LoopTypes' /\ \A w \in Worker : taken'[w] = {}
    BY <1>0, <1>6, <2>2, DropTyped DEF SysInv, BackendExit, LoopTypes
  <2> QED
    BY <2>1, <2>3, <2>4 DEF SysInv
<1> QED
  BY <1>1, <1>2, <1>3, <1>4, <1>5, <1>6 DEF SysBackend, BackendCall, CallerOp

\* SysInv is an invariant of the whole system.
LEMMA SysKeeps ==
  ASSUME SysInv, [SysNext]_vars
  PROVE  SysInv'
<1>0. /\ SubLabels \subseteq SysLabels
      /\ (\A r \in Backend : r \in Proc) /\ Proc = Backend \cup Worker
  BY SubscriberAssumption DEF SysLabels
<1>1. ASSUME NEW p \in Backend, SysBackend(p)
      PROVE  SysInv'
  BY <1>1, BackendKeeps
<1>2. ASSUME NEW w \in Worker, SysWorker(w)
      PROVE  SysInv'
  <2>1. /\ Core(SysLabels)' /\ confirmed' = confirmed
        /\ \A p \in Backend : /\ held'[p] = held[p] /\ inbox'[p] = inbox[p]
                              /\ confirming'[p] = confirming[p]
    BY <1>0, <1>2, WorkerCore DEF SysInv, SysWorker
  <2>2. UNCHANGED pullVars
    BY <1>2 DEF SysWorker
  <2>3. \A p \in Backend : PlacesOk(p)'
    BY <1>0, <2>1, <2>2, PlacesUndisturbed DEF SysInv, pullVars, loopVars
  <2> QED
    BY <2>1, <2>2, <2>3 DEF SysInv, LoopTypes, pullVars, loopVars
<1>3. ASSUME BrokerStep, UNCHANGED <<pullVars, subVars>>
      PROVE  SysInv'
  <2>1. ConfirmsHeld
    BY <1>0 DEF SysInv, Core, WorkInv, WorkOk, PlacesOk, LeaseOk, ConfirmsHeld
  <2>2. Core(SysLabels)'
    BY <1>3, <2>1, BrokerCore DEF SysInv
  <2>3. BrokerTypes /\ OnePlace
    BY DEF SysInv, Core
  <2>4. \A p \in Backend : PlacesOk(p)'
    BY <1>0, <1>3, <2>3, BrokerPlaces DEF SysInv, BrokerStep
  <2> QED
    BY <1>3, <2>2, <2>4 DEF SysInv, LoopTypes, pullVars, loopVars
<1>4. CASE UNCHANGED vars
  <2>1. UNCHANGED <<sessionVars, brokerVars, pullVars, handoffVars, signalVars, workVars>>
    BY <1>4 DEF vars, subVars
  <2>2. SessionTypes(SysLabels)' /\ SessionIInv' /\ BrokerTypes' /\ OnePlace'
    BY <2>1 DEF SysInv, Core, sessionVars, brokerVars, SessionTypes, SessionIInv, CacheMatchesBroker,
                NoHandleWithoutSession, EntryInvariant, HandleFits, Cached, BrokerTypes, OnePlace
  <2>3. HandTypes' /\ WorkTypes' /\ CallerInvariant'
    BY <2>1 DEF SysInv, Core, sessionVars, handoffVars, signalVars, workVars, HandTypes, WorkTypes,
                CallerInvariant
  <2>4. WorkerInvariant' /\ WorkInv'
    BY <2>1 DEF SysInv, Core, sessionVars, brokerVars, handoffVars, workVars, WorkerInvariant, WorkerOk,
                WorkInv, WorkOk, InHand
  <2>5. \A p \in Backend : PlacesOk(p)'
    BY <1>0, <2>1, PlacesUndisturbed DEF SysInv, brokerVars, pullVars, loopVars
  <2> QED
    BY <2>1, <2>2, <2>3, <2>4, <2>5 DEF SysInv, Core, LoopTypes, pullVars, loopVars
<1> QED
  BY <1>1, <1>2, <1>3, <1>4 DEF SysNext

\* The system starts with every process idle and no message anywhere.
LEMMA SysStarts ==
  ASSUME SysInit
  PROVE  SysInv
<1>1. Core(SysLabels)
  BY CoreInit DEF SysInit, SysLabels, SubLabels, EntryPc
<1>2. LoopTypes /\ (\A p \in Proc : PlacesOk(p)) /\ (\A p \in Proc : taken[p] = {})
  BY DEF SysInit, PullInit, BrokerInit, NoMsgs, LoopTypes, PlacesOk, LeaseOk, TakenOk
<1> QED
  BY <1>1, <1>2, SubscriberAssumption DEF SysInv

(***************************************************************************)
(* Every step is a step of AtLeastOnce, or none                            *)
(***************************************************************************)
\* Calls, openings, pending confirms and the like move no message.
LEMMA QuietStep ==
  ASSUME SysInv, SysInv', UNCHANGED <<posted, outbox, stored, held, confirmed, taken, applied>>
  PROVE  UNCHANGED ALO!aloVars
<1>1. OnePlace /\ OnePlace'
  BY DEF SysInv, Core
<1>2. \A m \in Msg : Stays(m)
  BY DEF Stays, UsedBy
<1> QED
  BY <1>1, <1>2, StaysSame, Stutter

\* post() was accepted.
LEMMA PostSends ==
  ASSUME SysInv, SysInv', NEW p \in Backend, NEW m \in Msg, Post(p, m), UNCHANGED <<taken, applied>>
  PROVE  ALO!Send(p, m)
<1>1. OnePlace /\ OnePlace' /\ BrokerTypes /\ p \in Proc
  BY SubscriberAssumption DEF SysInv, Core
<1>2. /\ m \notin posted /\ posted' = posted \cup {m} /\ m \in outbox'[p]
      /\ \A r \in Proc : outbox'[r] \subseteq outbox[r] \cup {m} /\ outbox[r] \subseteq outbox'[r]
      /\ UNCHANGED <<stored, held, confirmed>>
  BY <1>1 DEF Post, BrokerTypes
<1>3. \A x \in Msg \ {m} : Stays(x)
  BY <1>2 DEF Stays, UsedBy
<1>4. \A x \in Msg \ {m} : Same(x)
  BY <1>1, <1>3, StaysSame
<1>5. StageOf(m) = "unsent"
  BY <1>1, <1>2, TableHolds DEF Table
<1>6. StageOf(m)' = "sent" /\ OwnerOf(m)' = p
  BY <1>1, <1>2, TableAfter DEF Table
<1> QED
  BY <1>4, <1>5, <1>6, OneMoves DEF ALO!Send

\* A process uses one message it holds: bmq_consume puts it into its result set,
\* or a worker commits its callback.
LEMMA UseUses ==
  ASSUME SysInv, SysInv', NEW p \in Proc, NEW m \in held[p], m \notin UsedBy(p), m \in UsedBy(p)',
         UNCHANGED <<posted, outbox, stored, held, confirmed>>,
         \A r \in Proc : UsedBy(r) \subseteq UsedBy(r)' /\ UsedBy(r)' \subseteq UsedBy(r) \cup {m}
  PROVE  m \in Msg /\ ALO!Use(p, m)
<1>1. OnePlace /\ OnePlace' /\ BrokerTypes
  BY DEF SysInv, Core
<1>2. m \in Msg
  BY <1>1 DEF BrokerTypes
<1>3. \A x \in Msg \ {m} : Stays(x)
  BY DEF Stays
<1>4. \A x \in Msg \ {m} : Same(x)
  BY <1>1, <1>3, StaysSame
<1>5. StageOf(m) = "leased" /\ OwnerOf(m) = p
  BY <1>1, <1>2, TableHolds DEF Table
<1>6. StageOf(m)' = "used" /\ OwnerOf(m)' = p
  BY <1>1, <1>2, TableAfter DEF Table
<1>7. ALO!Move(m, "leased", "used", p)
  BY <1>2, <1>4, <1>5, <1>6, OneMoves
<1> QED
  BY <1>2, <1>5, <1>7 DEF ALO!Use

\* A process ends: its posts under way are lost, its leases go back to the queue.
LEMMA EndEnds ==
  ASSUME SysInv, SysInv', NEW p \in Proc, Disconnect(p),
         \A r \in Proc \ {p} : UsedBy(r)' = UsedBy(r)
  PROVE  ALO!End(p)
<1>1. OnePlace /\ OnePlace' /\ BrokerTypes
  BY DEF SysInv, Core
<1>n. p # None
  BY SubscriberAssumption
<1>2. /\ stored' = stored \cup held[p] /\ UNCHANGED <<posted, confirmed>>
      /\ held'[p] = {} /\ outbox'[p] = {}
      /\ \A r \in Proc \ {p} : held'[r] = held[r] /\ outbox'[r] = outbox[r]
  BY <1>1 DEF Disconnect, BrokerTypes
<1>3. ASSUME NEW m \in Msg
      PROVE  /\ StageOf(m)' = IF OwnerOf(m) # p THEN StageOf(m)
                              ELSE IF StageOf(m) = "sent" THEN "lost" ELSE "queued"
             /\ OwnerOf(m)' = IF OwnerOf(m) = p THEN None ELSE OwnerOf(m)
  <2>t. Table(m) /\ Table(m)'
    BY <1>1, TableHolds, TableAfter
  <2>1. CASE m \in outbox[p]
    <3>1. StageOf(m) = "sent" /\ OwnerOf(m) = p
      BY <2>t, <2>1 DEF Table
    <3>2. /\ m \in posted' /\ m \notin stored' /\ m \notin confirmed'
          /\ \A r \in Proc : m \notin outbox'[r] /\ m \notin held'[r]
      BY <1>1, <1>2, <2>1 DEF OnePlace
    <3>3. StageOf(m)' = "lost" /\ OwnerOf(m)' = None
      BY <2>t, <3>2 DEF Table
    <3> QED
      BY <3>1, <3>3
  <2>2. CASE m \in held[p]
    <3>1. StageOf(m) # "sent" /\ OwnerOf(m) = p
      BY <2>t, <2>2 DEF Table
    <3>2. StageOf(m)' = "queued" /\ OwnerOf(m)' = None
      BY <1>2, <2>t, <2>2 DEF Table
    <3> QED
      BY <3>1, <3>2
  <2>3. CASE m \notin outbox[p] /\ m \notin held[p]
    <3>1. Stays(m)
      BY <1>2, <2>3 DEF Stays
    <3>2. Same(m)
      BY <1>1, <3>1, StaysSame
    <3>3. OwnerOf(m) # p
      <4>1. CASE \E r \in Proc : m \in outbox[r] \/ m \in held[r]
        BY <2>t, <2>3, <4>1 DEF Table
      <4>2. CASE \A r \in Proc : m \notin outbox[r] /\ m \notin held[r]
        BY <1>n, <4>2 DEF OwnerOf
      <4> QED
        BY <4>1, <4>2
    <3> QED
      BY <3>2, <3>3 DEF Same
  <2> QED
    BY <2>1, <2>2, <2>3
<1> QED
  BY <1>3 DEF ALO!End

\* The broker stores or refuses a post, leases a message, or is told that it was
\* used.
LEMMA BrokerMoves ==
  ASSUME SysInv, SysInv', NEW p \in Proc, NEW m \in Msg,
         BrokerAccept(p, m) \/ BrokerReject(p, m) \/ Push(p, m) \/ ConfirmArrives(p, m),
         UNCHANGED <<taken, applied>>
  PROVE  ALO!Arrive(m) \/ ALO!Refuse(m) \/ ALO!Lease(p, m) \/ ALO!Finish(m)
<1>1. OnePlace /\ OnePlace' /\ BrokerTypes
  BY DEF SysInv, Core
<1>t. Table(m) /\ Table(m)'
  BY <1>1, TableHolds, TableAfter
<1>u. \A r \in Proc : UsedBy(r)' = UsedBy(r)
  BY DEF UsedBy
<1>w. /\ UsedBy(p) \subseteq held[p] \cup confirmed
      /\ confirming[p] \subseteq UsedBy(p) /\ confirming[p] \subseteq held[p]
  <2>1. CASE p \in Backend
    BY <2>1 DEF SysInv, PlacesOk, LeaseOk, TakenOk, UsedBy, Core, WorkInv, WorkOk
  <2>2. CASE p \in Worker
    BY <2>2 DEF SysInv, UsedBy, Core, WorkInv, WorkOk
  <2> QED
    BY <2>1, <2>2, SubscriberAssumption
<1>s. ASSUME \A x \in Msg \ {m} : Stays(x)
      PROVE  \A x \in Msg \ {m} : Same(x)
  BY <1>1, <1>s, StaysSame
<1>2. CASE BrokerAccept(p, m)
  <2>1. /\ m \in outbox[p] /\ stored' = stored \cup {m}
        /\ \A r \in Proc : outbox'[r] \subseteq outbox[r] /\ outbox[r] \ {m} \subseteq outbox'[r]
        /\ UNCHANGED <<posted, held, confirmed>>
    BY <1>1, <1>2 DEF BrokerAccept, BrokerTypes
  <2>2. \A x \in Msg \ {m} : Stays(x)
    BY <1>u, <2>1 DEF Stays
  <2>3. StageOf(m) = "sent" /\ StageOf(m)' = "queued" /\ OwnerOf(m)' = None
    BY <1>t, <2>1 DEF Table
  <2> QED
    BY <1>s, <2>2, <2>3, OneMoves DEF ALO!Arrive
<1>3. CASE BrokerReject(p, m)
  <2>1. /\ m \in outbox[p] /\ m \notin outbox'[p]
        /\ \A r \in Proc : outbox'[r] \subseteq outbox[r] /\ outbox[r] \ {m} \subseteq outbox'[r]
        /\ UNCHANGED <<posted, stored, held, confirmed>>
    BY <1>1, <1>3 DEF BrokerReject, BrokerTypes
  <2>2. \A x \in Msg \ {m} : Stays(x)
    BY <1>u, <2>1 DEF Stays
  <2>3. StageOf(m) = "sent"
    BY <1>t, <2>1 DEF Table
  <2>4. /\ m \in posted' /\ m \notin stored' /\ m \notin confirmed'
        /\ \A r \in Proc : m \notin outbox'[r] /\ m \notin held'[r]
    BY <1>1, <2>1 DEF OnePlace
  <2>5. StageOf(m)' = "lost" /\ OwnerOf(m)' = None
    BY <1>t, <2>4 DEF Table
  <2> QED
    BY <1>s, <2>2, <2>3, <2>5, OneMoves DEF ALO!Refuse
<1>4. CASE Push(p, m)
  <2>1. /\ m \in stored /\ stored' = stored \ {m} /\ m \in held'[p]
        /\ \A r \in Proc : held[r] \subseteq held'[r] /\ held'[r] \ {m} \subseteq held[r]
        /\ UNCHANGED <<posted, outbox, confirmed>>
    BY <1>1, <1>4 DEF Push, BrokerTypes
  <2>2. \A x \in Msg \ {m} : Stays(x)
    BY <1>u, <2>1 DEF Stays
  <2>3. StageOf(m) = "queued"
    BY <1>t, <2>1 DEF Table
  <2>4. m \notin UsedBy(p)'
    BY <1>1, <1>u, <1>w, <2>1 DEF OnePlace
  <2>5. StageOf(m)' = "leased" /\ OwnerOf(m)' = p
    BY <1>t, <2>1, <2>4 DEF Table
  <2> QED
    BY <1>s, <2>2, <2>3, <2>5, OneMoves DEF ALO!Lease
<1>5. CASE ConfirmArrives(p, m)
  <2>1. /\ m \in confirming[p] /\ confirmed' = confirmed \cup {m}
        /\ \A r \in Proc : held'[r] \subseteq held[r] /\ held[r] \ {m} \subseteq held'[r]
        /\ UNCHANGED <<posted, outbox, stored>>
    BY <1>1, <1>5 DEF ConfirmArrives, BrokerTypes
  <2>2. \A x \in Msg \ {m} : Stays(x)
    BY <1>u, <2>1 DEF Stays
  <2>3. StageOf(m) = "used"
    BY <1>t, <1>w, <2>1 DEF Table
  <2>4. StageOf(m)' = "done" /\ OwnerOf(m)' = None
    BY <1>t, <2>1 DEF Table
  <2> QED
    BY <1>s, <2>2, <2>3, <2>4, OneMoves DEF ALO!Finish
<1> QED
  BY <1>2, <1>3, <1>4, <1>5

\* One step of the system is at most one step of AtLeastOnce.
LEMMA SysImplements ==
  ASSUME SysInv, SysInv', [SysNext]_vars
  PROVE  [ALO!Next]_(ALO!aloVars)
<1>0. /\ Proc = Backend \cup Worker /\ (\A r \in Backend : r \in Proc /\ r \notin Worker)
      /\ (\A w \in Worker : w \in Proc)
  BY SubscriberAssumption
<1>t. BrokerTypes /\ LoopTypes /\ WorkTypes /\ OnePlace
  BY DEF SysInv, Core
<1>q. ASSUME UNCHANGED <<posted, outbox, stored, held, confirmed, taken, applied>>
      PROVE  [ALO!Next]_(ALO!aloVars)
  BY <1>q, QuietStep
<1>1. ASSUME NEW p \in Backend, SysBackend(p)
      PROVE  [ALO!Next]_(ALO!aloVars)
  <2>1. CASE Call(p) /\ UNCHANGED subVars
    BY <1>q, <2>1 DEF Call, brokerVars, pullVars, subVars, workVars
  <2>2. CASE SessionStep(p) /\ UNCHANGED <<pullVars, subVars>>
    BY <1>q, <2>2 DEF SessionStep, pullVars, subVars, workVars
  <2>3. CASE PublishRow(p) /\ UNCHANGED <<pullVars, subVars>>
    <3>1. UNCHANGED <<taken, applied>>
      BY <2>3 DEF pullVars, subVars, workVars
    <3>2. CASE PostFails(p)
      BY <1>q, <3>1, <3>2 DEF PostFails, brokerVars
    <3>3. ASSUME NEW m \in Msg, Post(p, m)
          PROVE  ALO!Next
      BY <1>0, <3>1, <3>3, PostSends DEF ALO!Next
    <3> QED
      BY <2>3, <3>2, <3>3 DEF PublishRow
  <2>4. CASE Consume(p) /\ UNCHANGED subVars
    <3>0. PlacesOk(p) /\ p \in Proc /\ p \notin Worker /\ applied' = applied
      BY <1>0, <2>4 DEF SysInv, subVars, workVars
    <3>1. /\ UNCHANGED <<posted, outbox, stored, held, confirmed>>
          /\ \/ taken' = taken
             \/ \E m \in held[p] \ taken[p] : taken' = [taken EXCEPT ![p] = @ \cup {m}]
      BY <1>t, <2>4, <3>0, ConsumePlaces
    <3>2. CASE taken' = taken
      BY <1>q, <3>0, <3>1, <3>2
    <3>3. ASSUME NEW m \in held[p] \ taken[p], taken' = [taken EXCEPT ![p] = @ \cup {m}]
          PROVE  ALO!Next
      <4>1. m \notin UsedBy(p) /\ m \in UsedBy(p)'
        BY <1>t, <3>0, <3>3 DEF UsedBy, LoopTypes
      <4>2. \A r \in Proc : UsedBy(r) \subseteq UsedBy(r)' /\ UsedBy(r)' \subseteq UsedBy(r) \cup {m}
        BY <1>t, <3>0, <3>3 DEF UsedBy, LoopTypes
      <4> QED
        BY <3>0, <3>1, <4>1, <4>2, UseUses DEF ALO!Next
    <3> QED
      BY <3>1, <3>2, <3>3
  <2>5. CASE /\ BackendCall(p) \/ SubscribeStep(p) \/ WaitInterrupted(p) \/ Kill(p)
             /\ UNCHANGED pullVars
    <3>1. CASE CallerOp(p)
      <4>1. SubLabels \subseteq SysLabels
        BY DEF SysLabels
      <4>2. UNCHANGED <<brokerVars, workVars>>
        BY <3>1, <4>1, CallerCore DEF SysInv
      <4> QED
        BY <1>q, <2>5, <4>2 DEF brokerVars, workVars, pullVars
    <3>2. CASE UNCHANGED <<brokerVars, subVars>>
      BY <1>q, <2>5, <3>2 DEF brokerVars, subVars, workVars, pullVars
    <3> QED
      BY <2>5, <3>1, <3>2 DEF BackendCall, CallerOp
  <2>6. CASE BackendExit(p) /\ SubscriberExit(p)
    <3>1. Disconnect(p)
      BY <2>6 DEF BackendExit
    <3>2. \A r \in Proc \ {p} : UsedBy(r)' = UsedBy(r)
      BY <1>t, <2>6 DEF BackendExit, SubscriberExit, workVars, UsedBy, LoopTypes
    <3> QED
      BY <1>0, <3>1, <3>2, EndEnds DEF ALO!Next
  <2> QED
    BY <1>1, <2>1, <2>2, <2>3, <2>4, <2>5, <2>6 DEF SysBackend
<1>2. ASSUME NEW w \in Worker, SysWorker(w)
      PROVE  [ALO!Next]_(ALO!aloVars)
  <2>0. taken' = taken /\ w \in Proc /\ taken[w] = {} /\ WorkOk(w)
    BY <1>0, <1>2 DEF SysWorker, pullVars, SysInv, Core, WorkInv
  <2>1. CASE OpeningOp(w)
    <3>1. SubLabels \subseteq SysLabels
      BY DEF SysLabels
    <3>2. UNCHANGED workVars /\ UNCHANGED <<posted, outbox, stored, held, confirmed>>
      BY <2>1, <3>1, OpeningCore DEF SysInv
    <3> QED
      BY <1>q, <2>0, <3>2 DEF workVars
  <2>2. CASE ServingOp(w)
    <3>1. UNCHANGED <<posted, outbox, stored, held, confirmed>>
      BY <2>2, ServingMove
    <3>2. CASE Commit(w)
      <4>1. /\ pc[w] = "commit"
            /\ applied' = [applied EXCEPT ![w] = @ \cup {current[w]}]
        BY <3>2 DEF Commit, Goto
      <4>2. current[w] \in held[w] /\ current[w] \notin applied[w]
        BY <2>0, <4>1 DEF WorkOk, InHand
      <4>3. current[w] \notin UsedBy(w) /\ current[w] \in UsedBy(w)'
        BY <1>t, <2>0, <4>1, <4>2 DEF UsedBy, WorkTypes
      <4>4. \A r \in Proc : /\ UsedBy(r) \subseteq UsedBy(r)'
                            /\ UsedBy(r)' \subseteq UsedBy(r) \cup {current[w]}
        BY <1>t, <2>0, <4>1 DEF UsedBy, WorkTypes
      <4>5. current[w] \in Msg /\ ALO!Use(w, current[w])
        BY <2>0, <3>1, <4>2, <4>3, <4>4, UseUses
      <4> QED
        BY <2>0, <4>5 DEF ALO!Next
    <3>3. CASE ~Commit(w)
      <4>1. applied' = applied
        BY <2>2, <3>3 DEF ServingOp, Receive, Callback, CallbackFails, ConfirmCurrent, EndOfEvent,
                          subVars, workVars
      <4> QED
        BY <1>q, <2>0, <3>1, <4>1
    <3> QED
      BY <3>2, <3>3
  <2>3. CASE WorkerEnds(w)
    <3>1. Disconnect(w) /\ applied' = [applied EXCEPT ![w] = {}]
      BY <2>3 DEF WorkerEnds
    <3>2. \A r \in Proc \ {w} : UsedBy(r)' = UsedBy(r)
      BY <1>t, <2>0, <3>1 DEF UsedBy, WorkTypes
    <3> QED
      BY <2>0, <3>1, <3>2, EndEnds DEF ALO!Next
  <2> QED
    BY <1>2, <2>1, <2>2, <2>3
    DEF SysWorker, WorkerStep, OpeningOp, ServingOp, StartupFails, CommitFails, Crash, Stop
<1>3. ASSUME BrokerStep, UNCHANGED <<pullVars, subVars>>
      PROVE  [ALO!Next]_(ALO!aloVars)
  <2>1. PICK p \in Proc, m \in Msg :
          BrokerAccept(p, m) \/ BrokerReject(p, m) \/ Push(p, m) \/ ConfirmArrives(p, m)
    BY <1>3 DEF BrokerStep
  <2>2. UNCHANGED <<taken, applied>>
    BY <1>3 DEF pullVars, subVars, workVars
  <2>3. ALO!Arrive(m) \/ ALO!Refuse(m) \/ ALO!Lease(p, m) \/ ALO!Finish(m)
    BY <2>1, <2>2, BrokerMoves
  <2> QED
    BY <2>3 DEF ALO!Next
<1>4. CASE UNCHANGED vars
  BY <1>q, <1>4 DEF vars, brokerVars, pullVars, subVars, workVars
<1> QED
  BY <1>1, <1>2, <1>3, <1>4 DEF SysNext

(***************************************************************************)
(* The theorems                                                            *)
(***************************************************************************)
\* SysInv is an invariant of backends, workers and broker together.
THEOREM SysSafety == SysSpec => []SysInv
<1>1. SysInit => SysInv
  BY SysStarts
<1>2. SysInv /\ [SysNext]_vars => SysInv'
  BY SysKeeps
<1> QED
  BY <1>1, <1>2, PTL DEF SysSpec

\* With pulls and pushes on the same queues, every message is in one place.
THEOREM SysOnePlace == SysSpec => []OnePlace
<1>1. SysInv => OnePlace
  BY DEF SysInv, Core
<1> QED
  BY <1>1, SysSafety, PTL

\* With pulls on the same queues, a worker still works on its own messages only.
THEOREM SysWorkAccounted == SysSpec => []WorkAccounted
<1>1. SysInv => WorkAccounted
  BY WorkInvIs DEF SysInv, Core
<1> QED
  BY <1>1, SysSafety, PTL

\* The extension and the broker implement AtLeastOnce: a message that was stored is
\* finished only by a process that used it during the lease, and no crash, failed
\* callback, failed commit or lost confirm loses it.
THEOREM SysRefines == SysSpec => ImplementsAtLeastOnce
<1>1. SysInit => ALO!Init
  <2> SUFFICES ASSUME SysInit
               PROVE  ALO!Init
    OBVIOUS
  <2>1. OnePlace /\ posted = {}
    BY SysStarts DEF SysInv, Core, SysInit, SubInit, BrokerInit
  <2>2. \A m \in Msg : StageOf(m) = "unsent" /\ OwnerOf(m) = None
    BY <2>1, TableHolds DEF Table
  <2> QED
    BY <2>2 DEF ALO!Init
<1>2. SysInv /\ SysInv' /\ [SysNext]_vars => [ALO!Next]_(ALO!aloVars)
  BY SysImplements
<1> QED
  BY <1>1, <1>2, SysSafety, PTL DEF SysSpec, ImplementsAtLeastOnce, ALO!Spec
=============================================================================
