--------------------------- MODULE MeasureProofs ---------------------------
(***************************************************************************)
(* Proofs about the scripts of CoreBench and DrainBench, for any readers,  *)
(* subject hierarchy and counts, and for any rows and number of runs.      *)
(***************************************************************************)
EXTENDS MCMeasure, SumProofs

(***************************************************************************)
(* The number of matches a reader expects                                  *)
(***************************************************************************)

\* Quotient and remainder are unique.
LEMMA ModUnique ==
  ASSUME NEW i \in Nat, NEW m \in Nat \ {0}, NEW p \in Nat, NEW s \in Nat, s < m, i = m * p + s
  PROVE  i % m = s
<1> DEFINE q == i \div m
           r == i % m
<1>1. q \in Nat /\ r \in Nat /\ r < m /\ i = m * q + r
  OBVIOUS
<1> HIDE DEF q, r
<1>2. q = p
  <2>1. CASE q < p
    <3>1. m * (q + 1) <= m * p /\ m * (q + 1) = m * q + m
      BY <1>1, <2>1
    <3>2. QED
      BY <1>1, <3>1
  <2>2. CASE p < q
    <3>1. m * (p + 1) <= m * q /\ m * (p + 1) = m * p + m
      BY <1>1, <2>2
    <3>2. QED
      BY <1>1, <3>1
  <2>3. QED
    BY <1>1, <2>1, <2>2
<1>3. m * q = m * p
  BY <1>2
<1>4. r = s
  BY <1>1, <1>3
<1>5. QED
  BY <1>4 DEF r

\* A number is a multiple of a product when it is one of the first factor and its
\* quotient is one of the second.
LEMMA MultipleOfProduct ==
  ASSUME NEW i \in Nat, NEW R \in Nat \ {0}, NEW S \in Nat \ {0}
  PROVE  i % (R * S) = 0 <=> i % R = 0 /\ (i \div R) % S = 0
<1> DEFINE q == i \div R
           r == i % R
           p == q \div S
           t == q % S
<1>1. q \in Nat /\ r \in Nat /\ r < R /\ i = R * q + r
  OBVIOUS
<1>2. p \in Nat /\ t \in Nat /\ t < S /\ q = S * p + t
  BY <1>1
<1> HIDE DEF q, r, p, t
<1>3. R * S \in Nat \ {0} /\ R * t \in Nat
  BY <1>2
<1>4. i = (R * S) * p + (R * t + r)
  BY <1>1, <1>2
<1>5. R * t + r < R * S
  <2>1. t + 1 <= S
    BY <1>2
  <2>2. R * (t + 1) <= R * S
    BY <1>2, <2>1
  <2>3. R * (t + 1) = R * t + R
    BY <1>2
  <2>4. QED
    BY <1>1, <1>3, <2>2, <2>3
<1>6. i % (R * S) = R * t + r
  <2>1. R * t + r \in Nat
    BY <1>1, <1>3
  <2>2. QED
    BY <1>2, <1>3, <1>4, <1>5, <2>1, ModUnique, Zenon
<1>7. R * t + r = 0 <=> t = 0 /\ r = 0
  BY <1>1, <1>2, <1>3
<1>8. QED
  BY <1>6, <1>7 DEF r, t, q

\* The rows a reader's pattern matches are finitely many.
LEMMA RowsFinite ==
  ASSUME count \in Nat
  PROVE  /\ IsFiniteSet(Rows) /\ Cardinality(Rows) = count
         /\ IsFiniteSet({r \in Rows : Matches(r)})
<1>1. 0 \in Int /\ count - 1 \in Int
  OBVIOUS
<1>2. IsFiniteSet(0..(count - 1))
      /\ Cardinality(0..(count - 1)) = IF 0 > count - 1 THEN 0 ELSE count - 1 - 0 + 1
  BY <1>1, FS_Interval, Zenon
<1>3. Cardinality(0..(count - 1)) = count
  BY <1>2
<1>4. {r \in Rows : Matches(r)} \subseteq Rows
  OBVIOUS
<1>5. QED
  BY <1>2, <1>3, <1>4, FS_Subset, Zenon DEF Rows

\* The script's arithmetic is right: expected_matches is the number of rows whose
\* subject the pattern matches, for every count and size of the hierarchy.
LEMMA ExpectedExact ==
  ASSUME count \in Nat, script \in Pattern
  PROVE  expected_matches = Cardinality({r \in Rows : Matches(r)})
<1>1. REGIONS \in Nat \ {0} /\ SYMBOLS \in Nat \ {0}
  BY CoreAssumption
<1>2. CASE script = "trades.>"
  <2>1. {r \in Rows : Matches(r)} = Rows
    BY <1>2 DEF Matches
  <2>2. expected_matches = count
    BY <1>2 DEF expected_matches
  <2>3. QED
    BY <2>1, <2>2, RowsFinite
<1>3. CASE script = "trades.r0.>"
  <2>1. {r \in Rows : Matches(r)} = {i \in Rows : i % REGIONS = 0}
    BY <1>3 DEF Matches, subject_for
  <2>2. expected_matches = Cardinality({i \in Rows : i % REGIONS = 0})
    BY <1>3 DEF expected_matches
  <2>3. QED
    BY <2>1, <2>2
<1>4. CASE script = "trades.r0.s0"
  <2>1. \A i \in Rows : Matches(i) <=> i % REGIONS = 0 /\ (i \div REGIONS) % SYMBOLS = 0
    BY <1>4 DEF Matches, subject_for
  <2>2. \A i \in Rows : i \in Nat
    BY DEF Rows
  <2>3. \A i \in Rows :
          i % (REGIONS * SYMBOLS) = 0 <=> i % REGIONS = 0 /\ (i \div REGIONS) % SYMBOLS = 0
    BY <1>1, <2>2, MultipleOfProduct, Zenon
  <2>4. {r \in Rows : Matches(r)} = {i \in Rows : i % TOTAL_SUBJECTS = 0}
    BY <2>1, <2>3, Zenon DEF TOTAL_SUBJECTS
  <2>5. expected_matches = Cardinality({i \in Rows : i % TOTAL_SUBJECTS = 0})
    BY <1>4, Zenon DEF expected_matches
  <2>6. QED
    BY <2>4, <2>5
<1>5. QED
  BY <1>2, <1>3, <1>4 DEF Pattern

\* So the pattern reader waits for a number.
LEMMA ExpectedNat == CoreTypeOK => (~Group => expected_matches \in Nat)
<1> SUFFICES ASSUME CoreTypeOK, ~Group
             PROVE  expected_matches \in Nat
  OBVIOUS
<1>1. count \in Nat /\ script \in Pattern
  BY CoreAssumption DEF CoreTypeOK, Group
<1>2. expected_matches = Cardinality({r \in Rows : Matches(r)})
  BY <1>1, ExpectedExact
<1>3. IsFiniteSet({r \in Rows : Matches(r)})
  BY <1>1, RowsFinite
<1>4. QED
  BY <1>2, <1>3, FS_CardinalityType, Zenon

\* The script starts at least one reader, and never an unknown one.
LEMMA StartedReaders == Started # {} /\ Started \subseteq Reader
BY CoreAssumption DEF Started

\* Both scripts have a bounded number of subscriptions per reader.
LEMMA SubsIs == Subs \in {1, 2} /\ (Group => Subs = 2)
BY DEF Subs

(***************************************************************************)
(* CoreBench: the steps                                                    *)
(***************************************************************************)

\* What the script is does not change, and neither does what follows from it.
LEMMA SameScript ==
  ASSUME UNCHANGED <<script, count>>
  PROVE  /\ Started' = Started /\ Subs' = Subs /\ Rows' = Rows /\ (Group' <=> Group)
         /\ \A r : Matches(r)' <=> Matches(r)
         /\ expected_matches' = expected_matches
BY DEF Started, Subs, Rows, Group, Matches, expected_matches

\* The type invariant, with that of the readers' places that it rests on.
LEMMA CoreTypeStep ==
  ASSUME CoreTypeOK, StartedInvariant, CoreNext
  PROVE  CoreTypeOK' /\ StartedInvariant'
<1>0. count \in Nat /\ UNCHANGED <<script, count>>
  BY CoreAssumption DEF CoreTypeOK, CoreNext
<1>1. Started' = Started /\ Subs' = Subs /\ Rows' = Rows /\ (Group' <=> Group)
  BY <1>0, SameScript
<1>2. ASSUME NEW c \in Reader, ReaderStep(c), UNCHANGED publisherVars
      PROVE  CoreTypeOK' /\ StartedInvariant'
  <2>1. c \in Started
    BY <1>2 DEF StartedInvariant, ReaderStep, Subscribe, Ready, FlushRaises, WaitEnds, WaitTimeout,
       Report, CloseRaises, Move
  <2>2. CASE Subscribe(c) \/ WaitEnds(c)
    BY <1>0, <1>1, <1>2, <2>1, <2>2 DEF CoreTypeOK, StartedInvariant, Subscribe, WaitEnds, Move,
       publisherVars
  <2>3. CASE Ready(c) \/ WaitTimeout(c)
    BY <1>0, <1>1, <1>2, <2>1, <2>3 DEF CoreTypeOK, StartedInvariant, Ready, WaitTimeout, Move,
       publisherVars
  <2>4. CASE FlushRaises(c)
    BY <1>0, <1>1, <1>2, <2>1, <2>4, SubsIs DEF CoreTypeOK, StartedInvariant, FlushRaises, Move,
       publisherVars
  <2>5. CASE Report(c)
    <3>1. live' \in [Reader -> 0..Subs] /\ at' = [at EXCEPT ![c] = "done"]
          /\ UNCHANGED <<ready, stop, got, early, publisher, sent, routed>>
      BY <1>2, <2>5, SubsIs DEF CoreTypeOK, Report, Move, publisherVars
    <3>2. box' \in [Reader -> SUBSET (0..(routed - 1))] /\ cut' \subseteq 0..(routed - 1)
      BY <2>5 DEF CoreTypeOK, Report
    <3>3. QED
      BY <1>0, <1>1, <2>1, <3>1, <3>2 DEF CoreTypeOK, StartedInvariant
  <2>6. CASE CloseRaises(c)
    <3>1. live' \in [Reader -> 0..Subs] /\ at' = [at EXCEPT ![c] = "raised"]
          /\ early' = early \cup {c} /\ UNCHANGED <<ready, stop, got, publisher, sent, routed>>
      BY <1>2, <2>6, SubsIs DEF CoreTypeOK, CloseRaises, Move, publisherVars
    <3>2. box' \in [Reader -> SUBSET (0..(routed - 1))] /\ cut' \subseteq 0..(routed - 1)
      BY <2>6 DEF CoreTypeOK, CloseRaises
    <3>3. QED
      BY <1>0, <1>1, <2>1, <3>1, <3>2 DEF CoreTypeOK, StartedInvariant
  <2>7. QED
    BY <1>2, <2>2, <2>3, <2>4, <2>5, <2>6 DEF ReaderStep
<1>3. ASSUME NEW c \in Reader, OnStop(c) \/ ServerSubscribes(c), UNCHANGED publisherVars
      PROVE  CoreTypeOK' /\ StartedInvariant'
  <2>1. UNCHANGED <<at, ready, box, got, cut, early, publisher, sent, routed>>
    BY <1>3 DEF OnStop, ServerSubscribes, publisherVars
  <2>2. stop' \in [Reader -> {"none", "coming", "seen"}]
    BY <1>3 DEF CoreTypeOK, OnStop, ServerSubscribes
  <2>3. live' \in [Reader -> 0..Subs]
    BY <1>3, SubsIs DEF CoreTypeOK, OnStop, ServerSubscribes
  <2>4. QED
    BY <1>0, <1>1, <2>1, <2>2, <2>3 DEF CoreTypeOK, StartedInvariant
<1>4. ASSUME NEW c \in Reader, NEW r \in Rows, OnMsg(c, r) \/ Drop(c, r), UNCHANGED publisherVars
      PROVE  CoreTypeOK' /\ StartedInvariant'
  <2>1. UNCHANGED <<at, live, ready, stop, early, publisher, sent, routed>>
    BY <1>4 DEF OnMsg, Drop, publisherVars
  <2>2. r \in 0..(routed - 1)
    BY <1>4 DEF CoreTypeOK, OnMsg, Drop
  <2>3. /\ box' \in [Reader -> SUBSET (0..(routed - 1))]
        /\ got' \in [Reader -> SUBSET (0..(routed - 1))]
        /\ cut' \subseteq 0..(routed - 1)
    <3> DEFINE D == 0..(routed - 1)
    <3>1. box \in [Reader -> SUBSET D] /\ got \in [Reader -> SUBSET D] /\ cut \subseteq D /\ r \in D
      BY <2>2 DEF CoreTypeOK
    <3> HIDE DEF D
    <3>2. box' \in [Reader -> SUBSET D] /\ got' \in [Reader -> SUBSET D] /\ cut' \subseteq D
      <4>1. CASE OnMsg(c, r)
        BY <3>1, <4>1 DEF OnMsg
      <4>2. CASE Drop(c, r)
        BY <3>1, <4>2 DEF Drop
      <4>3. QED
        BY <1>4, <4>1, <4>2
    <3>3. QED
      BY <3>2 DEF D
  <2>4. QED
    BY <1>0, <1>1, <2>1, <2>3 DEF CoreTypeOK, StartedInvariant
<1>5. CASE (StartPublisher \/ PublishOne \/ Flush \/ PublisherRaises) /\ UNCHANGED readerVars
  BY <1>0, <1>1, <1>5 DEF CoreTypeOK, StartedInvariant, StartPublisher, PublishOne, Flush,
     PublisherRaises, readerVars
<1>6. CASE PublishStop
  BY <1>0, <1>1, <1>6 DEF CoreTypeOK, StartedInvariant, PublishStop
<1>7. CASE Route
  BY <1>0, <1>1, <1>7 DEF CoreTypeOK, StartedInvariant, Route
<1>8. QED
  BY <1>2, <1>3, <1>4, <1>5, <1>6, <1>7 DEF CoreNext

\* Markers, subscriptions and STOP: what a step of a reader or of the server does.
LEMMA MarkerReader ==
  ASSUME CoreTypeOK, CoreIInv, UNCHANGED <<script, count, publisherVars>>, NEW c \in Reader,
         \/ ReaderStep(c) \/ OnStop(c) \/ ServerSubscribes(c)
         \/ \E r \in Rows : OnMsg(c, r) \/ Drop(c, r)
  PROVE  MarkerInvariant' /\ StopInvariant' /\ StopNotMissed'
<1> USE DEF CoreIInv
<1>1. Started' = Started /\ Subs' = Subs /\ (Group' <=> Group) /\ UNCHANGED <<publisher, sent, routed, count>>
      /\ early \subseteq early'
  BY SameScript DEF publisherVars, ReaderStep, Subscribe, Ready, FlushRaises, WaitEnds, WaitTimeout,
     Report, CloseRaises, OnStop, ServerSubscribes, OnMsg, Drop
<1>2. CASE Subscribe(c) \/ WaitEnds(c) \/ WaitTimeout(c)
  <2>1. UNCHANGED <<live, ready, box, stop>>
    BY <1>2 DEF Subscribe, WaitEnds, WaitTimeout
  <2>2. \/ at[c] = "connect" /\ at' = [at EXCEPT ![c] = "flush"]
        \/ at[c] = "wait" /\ at' = [at EXCEPT ![c] = "closing"]
    BY <1>2 DEF Subscribe, WaitEnds, WaitTimeout, Move
  <2>3. MarkerInvariant'
    BY <1>1, <2>1, <2>2, StartedReaders DEF CoreTypeOK, MarkerInvariant
  <2>4. StopInvariant' /\ StopNotMissed'
    BY <1>1, <2>1, <2>2 DEF CoreTypeOK, StopInvariant, StopNotMissed
  <2>5. QED
    BY <2>3, <2>4
<1>3. CASE Ready(c)
  <2>1. /\ live[c] = Subs /\ at[c] = "flush" /\ at' = [at EXCEPT ![c] = "wait"]
        /\ ready' = ready \cup {c} /\ UNCHANGED <<live, box, stop>>
    BY <1>3 DEF Ready, Move
  <2>2. c \in Started
    BY <2>1 DEF StartedInvariant
  <2>3. publisher = "off"
    BY <2>1, <2>2 DEF MarkerInvariant
  <2>4. QED
    BY <1>1, <2>1, <2>3 DEF CoreTypeOK, MarkerInvariant, StopInvariant, StopNotMissed
<1>4. CASE FlushRaises(c)
  <2>1. /\ at[c] \in {"connect", "flush"} /\ at' = [at EXCEPT ![c] = "raised"]
        /\ live' = [live EXCEPT ![c] = 0] /\ UNCHANGED <<ready, box, stop>>
    BY <1>4 DEF FlushRaises, Move
  <2>2. QED
    BY <1>1, <2>1 DEF CoreTypeOK, MarkerInvariant, StopInvariant, StopNotMissed
<1>5. CASE Report(c)
  <2>1. /\ at[c] = "closing" /\ at' = [at EXCEPT ![c] = "done"]
        /\ live' = [live EXCEPT ![c] = 0] /\ box' = [box EXCEPT ![c] = {}]
        /\ UNCHANGED <<ready, stop>>
    BY <1>5 DEF Report, Move
  <2>2. QED
    BY <1>1, <2>1 DEF CoreTypeOK, MarkerInvariant, StopInvariant, StopNotMissed
<1>10. CASE CloseRaises(c)
  <2>1. /\ at[c] = "closing" /\ at' = [at EXCEPT ![c] = "raised"] /\ c \in early'
        /\ live' = [live EXCEPT ![c] = 0] /\ box' = [box EXCEPT ![c] = {}]
        /\ UNCHANGED <<ready, stop>>
    BY <1>10 DEF CloseRaises, Move
  <2>2. QED
    BY <1>1, <2>1 DEF CoreTypeOK, MarkerInvariant, StopInvariant, StopNotMissed
<1>6. CASE OnStop(c)
  <2>1. stop[c] = "coming" /\ stop' = [stop EXCEPT ![c] = "seen"] /\ UNCHANGED <<at, live, ready, box>>
    BY <1>6 DEF OnStop
  <2>2. QED
    BY <1>1, <2>1 DEF CoreTypeOK, MarkerInvariant, StopInvariant, StopNotMissed
<1>7. CASE ServerSubscribes(c)
  <2>1. /\ at[c] \in {"flush", "wait"} /\ live[c] < Subs /\ live' = [live EXCEPT ![c] = @ + 1]
        /\ UNCHANGED <<at, ready, box, stop>>
    BY <1>7 DEF ServerSubscribes
  <2>2. at[c] = "flush"
    BY <2>1, SubsIs DEF MarkerInvariant
  <2>3. QED
    BY <1>1, <2>1, <2>2 DEF CoreTypeOK, MarkerInvariant, StopInvariant, StopNotMissed
<1>8. ASSUME NEW r \in Rows, OnMsg(c, r) \/ Drop(c, r)
      PROVE  MarkerInvariant' /\ StopInvariant' /\ StopNotMissed'
  <2>1. box' = [box EXCEPT ![c] = @ \ {r}] /\ UNCHANGED <<at, live, ready, stop>>
    BY <1>8 DEF OnMsg, Drop
  <2>2. QED
    BY <1>1, <2>1 DEF CoreTypeOK, MarkerInvariant, StopInvariant, StopNotMissed
<1>9. QED
  BY <1>2, <1>3, <1>4, <1>5, <1>6, <1>7, <1>8, <1>10 DEF ReaderStep

\* The same for a step of the publisher, and for a row the server passes on.
LEMMA MarkerPublisher ==
  ASSUME CoreTypeOK, CoreIInv, UNCHANGED <<script, count>>,
         \/ (StartPublisher \/ PublishOne \/ Flush \/ PublisherRaises) /\ UNCHANGED readerVars
         \/ PublishStop \/ Route
  PROVE  MarkerInvariant' /\ StopInvariant' /\ StopNotMissed'
<1> USE DEF CoreIInv
<1>1. Started' = Started /\ Subs' = Subs /\ (Group' <=> Group) /\ count' = count /\ count \in Nat
  BY SameScript, CoreAssumption DEF CoreTypeOK
<1>2. CASE (StartPublisher \/ PublishOne \/ Flush \/ PublisherRaises) /\ UNCHANGED readerVars
  <2>1. UNCHANGED <<at, live, ready, box, stop, early>>
    BY <1>2 DEF readerVars
  <2>2. MarkerInvariant'
    BY <1>1, <1>2, <2>1 DEF CoreTypeOK, MarkerInvariant, StartPublisher, PublishOne, Flush,
       PublisherRaises
  <2>3. StopInvariant'
    BY <1>1, <1>2, <2>1 DEF CoreTypeOK, StopInvariant, StartPublisher, PublishOne, Flush,
       PublisherRaises
  <2>4. StopNotMissed'
    BY <1>1, <1>2, <2>1 DEF StopNotMissed, StopInvariant, StartPublisher, PublishOne, Flush,
       PublisherRaises
  <2>5. QED
    BY <2>2, <2>3, <2>4
<1>3. CASE PublishStop
  <2>1. Group
    BY <1>3 DEF PublishStop, CoreTypeOK, StopInvariant
  <2>2. QED
    BY <1>1, <1>3, <2>1, SubsIs DEF CoreTypeOK, PublishStop, MarkerInvariant, StopInvariant,
       StopNotMissed
<1>4. CASE Route
  <2>1. /\ routed < sent /\ routed' = routed + 1 /\ UNCHANGED <<publisher, sent, at, live, ready, stop, early>>
        /\ \A c \in Reader : live[c] = 0 => box'[c] = box[c]
    BY <1>4 DEF Route, CoreTypeOK
  <2>2. publisher \notin {"flushed", "closed"}
    BY <1>1, <2>1 DEF StopInvariant, CoreTypeOK
  <2>3. QED
    BY <1>1, <2>1, <2>2 DEF MarkerInvariant, StopInvariant, StopNotMissed
<1>5. QED
  BY <1>2, <1>3, <1>4

\* Where rows are, after a step of a reader or of the server for one.
LEMMA RowsReader ==
  ASSUME CoreTypeOK, CoreIInv, UNCHANGED <<script, count, publisherVars>>, NEW c \in Reader,
         \/ ReaderStep(c) \/ OnStop(c) \/ ServerSubscribes(c)
         \/ \E r \in Rows : OnMsg(c, r) \/ Drop(c, r)
  PROVE  RowsInvariant'
<1> USE DEF CoreIInv
<1> DEFINE M == {r \in Rows : Matches(r)}
           Ends(x) == IF Group THEN stop[x] = "seen" ELSE Cardinality(got[x]) >= expected_matches
<1>1. Started' = Started /\ (Group' <=> Group) /\ routed' = routed /\ M' = M
      /\ expected_matches' = expected_matches
  BY SameScript DEF publisherVars
<1>2. /\ \A x \in Reader : box[x] \cup got[x] \subseteq M
      /\ early = {} => \A x \in Started : at[x] \in {"closing", "done"} => Ends(x)
      /\ Group /\ early = {} => \A r \in 0..(routed - 1) :
           r \in cut \/ \E x \in Reader : r \in box[x] \cup got[x]
  BY DEF RowsInvariant
<1> DEFINE Goal ==
      /\ \A x \in Reader : box'[x] \cup got'[x] \subseteq M
      /\ early' = {} => \A x \in Started : at'[x] \in {"closing", "done"} => Ends(x)'
      /\ Group /\ early' = {} => \A r \in 0..(routed - 1) :
           r \in cut' \/ \E x \in Reader : r \in box'[x] \cup got'[x]
<1>3. SUFFICES Goal
  BY <1>1 DEF RowsInvariant
<1> HIDE DEF M
<1>4. CASE Subscribe(c) \/ Ready(c) \/ FlushRaises(c) \/ WaitTimeout(c)
  <2>1. UNCHANGED <<box, got, cut, stop>> /\ early \subseteq early'
    BY <1>4 DEF Subscribe, Ready, FlushRaises, WaitTimeout
  <2>2. early' = {} => \A x \in Started : at'[x] \in {"closing", "done"} => at'[x] = at[x]
    BY <1>4, StartedReaders DEF Subscribe, Ready, FlushRaises, WaitTimeout, Move, CoreTypeOK
  <2>3. QED
    BY <1>1, <1>2, <2>1, <2>2
<1>5. CASE WaitEnds(c)
  <2>1. UNCHANGED <<box, got, cut, stop, early>> /\ Ends(c) /\ at' = [at EXCEPT ![c] = "closing"]
    BY <1>5 DEF WaitEnds, Move
  <2>2. QED
    BY <1>1, <1>2, <2>1, StartedReaders DEF CoreTypeOK
<1>6. CASE Report(c)
  <2>1. /\ UNCHANGED <<got, stop, early>> /\ at' = [at EXCEPT ![c] = "done"] /\ at[c] = "closing"
        /\ cut' = cut \cup box[c] /\ box' = [box EXCEPT ![c] = {}]
    BY <1>6 DEF Report, Move
  <2>2. \A x \in Started : at'[x] \in {"closing", "done"} => at[x] \in {"closing", "done"}
    BY <2>1, StartedReaders DEF CoreTypeOK
  <2>3. \A x \in Reader : box'[x] \subseteq box[x] /\ (x # c => box'[x] = box[x])
    BY <2>1 DEF CoreTypeOK
  <2>4. QED
    BY <1>1, <1>2, <2>1, <2>2, <2>3
<1>12. CASE CloseRaises(c)
  <2>1. /\ got' = got /\ early' # {} /\ box' = [box EXCEPT ![c] = {}]
    BY <1>12 DEF CloseRaises
  <2>2. \A x \in Reader : box'[x] \subseteq box[x]
    BY <2>1 DEF CoreTypeOK
  <2>3. QED
    BY <1>2, <2>1, <2>2
<1>7. CASE OnStop(c)
  <2>1. UNCHANGED <<at, box, got, cut, early>> /\ stop' = [stop EXCEPT ![c] = "seen"]
    BY <1>7 DEF OnStop
  <2>2. QED
    BY <1>1, <1>2, <2>1, StartedReaders DEF CoreTypeOK
<1>8. CASE ServerSubscribes(c)
  BY <1>1, <1>2, <1>8 DEF ServerSubscribes
<1>9. ASSUME NEW r \in Rows, Drop(c, r)
      PROVE  Goal
  <2>1. /\ r \in box[c] /\ box' = [box EXCEPT ![c] = @ \ {r}] /\ cut' = cut \cup {r}
        /\ UNCHANGED <<at, stop, got, early>>
    BY <1>9 DEF Drop
  <2>2. QED
    BY <1>1, <1>2, <2>1 DEF CoreTypeOK
<1>10. ASSUME NEW r \in Rows, OnMsg(c, r)
       PROVE  Goal
  <2>1. /\ r \in box[c] /\ box' = [box EXCEPT ![c] = @ \ {r}] /\ got' = [got EXCEPT ![c] = @ \cup {r}]
        /\ UNCHANGED <<at, stop, cut, early>>
    BY <1>10 DEF OnMsg
  <2>2. \A x \in Reader : box'[x] \cup got'[x] = box[x] \cup got[x] /\ got[x] \subseteq got'[x]
    BY <2>1 DEF CoreTypeOK
  <2>3. ASSUME NEW x \in Reader
        PROVE  /\ Cardinality(got[x]) \in Nat /\ Cardinality(got'[x]) \in Nat
               /\ Cardinality(got'[x]) >= Cardinality(got[x])
    <3>1. IsFiniteSet(M)
      BY RowsFinite, CoreAssumption DEF M, CoreTypeOK
    <3>2. got'[x] \subseteq M /\ got[x] \subseteq got'[x]
      BY <1>2, <2>2
    <3>3. IsFiniteSet(got'[x])
      BY <3>1, <3>2, FS_Subset, Zenon
    <3>4. IsFiniteSet(got[x]) /\ Cardinality(got[x]) <= Cardinality(got'[x])
      BY <3>2, <3>3, FS_Subset, Zenon
    <3>5. Cardinality(got[x]) \in Nat /\ Cardinality(got'[x]) \in Nat
      BY <3>3, <3>4, FS_CardinalityType, Zenon
    <3>6. QED
      BY <3>4, <3>5
  <2>4. \A x \in Started : Ends(x) => Ends(x)'
    BY <1>1, <2>1, <2>3, StartedReaders, ExpectedNat
  <2>5. QED
    BY <1>1, <1>2, <2>1, <2>2, <2>4
<1>11. QED
  BY <1>4, <1>5, <1>6, <1>7, <1>8, <1>9, <1>10, <1>12 DEF ReaderStep

\* Where rows are, after a step of the publisher, and after a row was passed on:
\* a row of the group finds a reader unless one of them gave up, since none has
\* seen STOP before the last row is through.
LEMMA RowsPublisher ==
  ASSUME CoreTypeOK, CoreIInv, UNCHANGED <<script, count>>,
         \/ (StartPublisher \/ PublishOne \/ Flush \/ PublisherRaises) /\ UNCHANGED readerVars
         \/ PublishStop \/ Route
  PROVE  RowsInvariant'
<1> USE DEF CoreIInv
<1> DEFINE M == {r \in Rows : Matches(r)}
           Ends(x) == IF Group THEN stop[x] = "seen" ELSE Cardinality(got[x]) >= expected_matches
<1>1. Started' = Started /\ (Group' <=> Group) /\ M' = M
      /\ expected_matches' = expected_matches /\ count \in Nat
  BY SameScript, CoreAssumption DEF CoreTypeOK
<1>2. /\ \A x \in Reader : box[x] \cup got[x] \subseteq M
      /\ early = {} => \A x \in Started : at[x] \in {"closing", "done"} => Ends(x)
      /\ Group /\ early = {} => \A r \in 0..(routed - 1) :
           r \in cut \/ \E x \in Reader : r \in box[x] \cup got[x]
  BY DEF RowsInvariant
<1> DEFINE Goal ==
      /\ \A x \in Reader : box'[x] \cup got'[x] \subseteq M
      /\ early' = {} => \A x \in Started : at'[x] \in {"closing", "done"} => Ends(x)'
      /\ Group /\ early' = {} => \A r \in 0..(routed' - 1) :
           r \in cut' \/ \E x \in Reader : r \in box'[x] \cup got'[x]
<1>3. SUFFICES Goal
  BY <1>1 DEF RowsInvariant
<1>4. CASE (StartPublisher \/ PublishOne \/ Flush \/ PublisherRaises) /\ UNCHANGED readerVars
  <2>1. routed' = routed /\ UNCHANGED <<at, box, stop, got, cut, early>>
    BY <1>4 DEF StartPublisher, PublishOne, Flush, PublisherRaises, readerVars
  <2>2. QED
    BY <1>1, <1>2, <2>1
<1>5. CASE PublishStop
  <2>1. routed' = routed /\ UNCHANGED <<at, box, got, cut, early>>
        /\ \A x \in Reader : stop[x] = "seen" => FALSE
    BY <1>5 DEF PublishStop, StopInvariant
  <2>2. Group
    BY <1>5 DEF PublishStop, StopInvariant
  <2>3. QED
    BY <1>1, <1>2, <2>1, <2>2, StartedReaders
<1>6. CASE Route
  <2>1. routed < sent /\ routed' = routed + 1 /\ UNCHANGED <<at, stop, got, cut, early>>
    BY <1>6 DEF Route
  <2>2. routed \in Nat /\ routed \in Rows /\ sent \in Nat /\ sent <= count
    BY <1>1, <2>1 DEF CoreTypeOK, Rows
  <2>3. \/ /\ box' = box /\ {c \in Reader : live[c] > 0 /\ Matches(routed)} = {}
        \/ \E c \in Reader : live[c] > 0 /\ Matches(routed)
                             /\ box' = [box EXCEPT ![c] = @ \cup {routed}]
    BY <1>6 DEF Route
  <2>4. \A x \in Reader : box'[x] \cup got'[x] \subseteq M /\ box[x] \subseteq box'[x]
    BY <1>2, <2>1, <2>2, <2>3 DEF CoreTypeOK
  <2>5. ASSUME Group, early = {}
        PROVE  \E x \in Reader : routed \in box'[x]
    <3>1. publisher \notin {"off", "flushed", "closed"} /\ ready = Started
      BY <2>1, <2>2 DEF MarkerInvariant, StopInvariant, CoreTypeOK
    <3>2. \A x \in Started : stop[x] = "none"
      BY <3>1, StartedReaders DEF StopInvariant
    <3>3. \A x \in Started : at[x] = "wait"
      BY <1>2, <2>5, <3>1, <3>2 DEF MarkerInvariant
    <3>4. \A x \in Started : live[x] = 2 /\ x \in Reader
      BY <2>5, <3>3, StartedReaders, SubsIs DEF MarkerInvariant
    <3>5. Matches(routed)
      BY <2>5 DEF Matches, Group
    <3>6. {c \in Reader : live[c] > 0 /\ Matches(routed)} # {}
      BY <3>4, <3>5, StartedReaders
    <3>7. QED
      BY <2>3, <3>6 DEF CoreTypeOK
  <2>6. ASSUME Group, early = {}, NEW r \in 0..(routed' - 1)
        PROVE  r \in cut' \/ \E x \in Reader : r \in box'[x] \cup got'[x]
    <3>1. r \in 0..(routed - 1) \/ r = routed
      BY <2>1, <2>2
    <3>2. QED
      BY <1>2, <2>1, <2>4, <2>5, <2>6, <3>1
  <2>7. QED
    BY <1>1, <1>2, <2>1, <2>4, <2>6
<1>7. QED
  BY <1>4, <1>5, <1>6

\* The invariant is inductive.
LEMMA CoreStep ==
  ASSUME CoreTypeOK, CoreIInv, [CoreNext]_coreVars
  PROVE  CoreTypeOK' /\ CoreIInv'
<1>1. CASE CoreNext
  <2>1. CoreTypeOK' /\ StartedInvariant'
    BY <1>1, CoreTypeStep DEF CoreIInv
  <2>2. MarkerInvariant' /\ StopInvariant' /\ StopNotMissed' /\ RowsInvariant'
    <3>1. UNCHANGED <<script, count>>
      BY <1>1 DEF CoreNext
    <3>2. CASE /\ \E c \in Reader : ReaderStep(c) \/ OnStop(c) \/ ServerSubscribes(c)
                                    \/ \E r \in Rows : OnMsg(c, r) \/ Drop(c, r)
               /\ UNCHANGED publisherVars
      BY <3>1, <3>2, MarkerReader, RowsReader
    <3>3. CASE \/ (StartPublisher \/ PublishOne \/ Flush \/ PublisherRaises) /\ UNCHANGED readerVars
               \/ PublishStop \/ Route
      BY <3>1, <3>3, MarkerPublisher, RowsPublisher
    <3>4. QED
      BY <1>1, <3>2, <3>3 DEF CoreNext
  <2>3. QED
    BY <2>1, <2>2 DEF CoreIInv
<1>2. CASE UNCHANGED coreVars
  <2>1. UNCHANGED <<script, count, at, live, ready, box, stop, got, cut, early, publisher, sent, routed>>
    BY <1>2 DEF coreVars, readerVars, publisherVars
  <2>2. Started' = Started /\ Subs' = Subs /\ Rows' = Rows /\ (Group' <=> Group)
        /\ (\A r : Matches(r)' <=> Matches(r)) /\ expected_matches' = expected_matches
    BY <2>1, SameScript
  <2>3. CoreTypeOK'
    BY <2>1, <2>2 DEF CoreTypeOK
  <2>4. StartedInvariant' /\ MarkerInvariant' /\ StopInvariant' /\ StopNotMissed'
    BY <2>1, <2>2 DEF CoreIInv, StartedInvariant, MarkerInvariant, StopInvariant, StopNotMissed
  <2>5. RowsInvariant'
    BY <2>1, <2>2 DEF CoreIInv, RowsInvariant
  <2>6. QED
    BY <2>3, <2>4, <2>5 DEF CoreIInv
<1>3. QED
  BY <1>1, <1>2

\* It holds when the readers start.
LEMMA CoreStart ==
  ASSUME CoreInit
  PROVE  CoreTypeOK /\ CoreIInv
<1>1. count \in Nat /\ script \in Pattern \cup {"group"}
  BY CoreAssumption DEF CoreInit
<1>2. /\ at = [c \in Reader |-> IF c \in Started THEN "connect" ELSE "done"]
      /\ live = [c \in Reader |-> 0] /\ ready = {} /\ publisher = "off" /\ sent = 0 /\ routed = 0
      /\ box = [c \in Reader |-> {}] /\ stop = [c \in Reader |-> "none"]
      /\ got = [c \in Reader |-> {}] /\ cut = {} /\ early = {}
  BY DEF CoreInit
<1>3. CoreTypeOK
  BY <1>1, <1>2, SubsIs DEF CoreTypeOK
<1>4. StartedInvariant /\ MarkerInvariant /\ StopInvariant /\ StopNotMissed
  BY <1>2, StartedReaders DEF StartedInvariant, MarkerInvariant, StopInvariant, StopNotMissed
<1>5. RowsInvariant
  BY <1>1, <1>2, StartedReaders DEF RowsInvariant
<1>6. QED
  BY <1>3, <1>4, <1>5 DEF CoreIInv

(***************************************************************************)
(* CoreBench: the theorems                                                 *)
(***************************************************************************)

\* The inductive invariant of readers and publisher holds for any number of
\* readers, any hierarchy and any count.
THEOREM CoreSafety == CoreSpec => [](CoreTypeOK /\ CoreIInv)
<1>1. CoreInit => CoreTypeOK /\ CoreIInv
  BY CoreStart
<1>2. CoreTypeOK /\ CoreIInv /\ [CoreNext]_coreVars => (CoreTypeOK /\ CoreIInv)'
  BY CoreStep
<1>3. QED
  BY <1>1, <1>2, PTL DEF CoreSpec

\* STOP reaches every reader that waits: run_publisher() sends it only behind all
\* markers, and a marker stands for both subscriptions.
THEOREM StopNotMissedAlways == CoreSpec => []StopNotMissed
<1>1. CoreIInv => StopNotMissed
  BY DEF CoreIInv
<1>2. QED
  BY <1>1, CoreSafety, PTL

\* What the readers report is exact: match_ok holds exactly for the whole set of
\* matching rows, and readers that neither gave up nor lost a row have them all.
THEOREM ReportsExactAlways == CoreSpec => []ReportsExact
<1>1. CoreTypeOK /\ CoreIInv => ReportsExact
  <2> SUFFICES ASSUME CoreTypeOK, CoreIInv
               PROVE  ReportsExact
    OBVIOUS
  <2> USE DEF CoreIInv
  <2> DEFINE M == {r \in Rows : Matches(r)}
  <2>1. count \in Nat /\ IsFiniteSet(M)
    BY RowsFinite, CoreAssumption DEF CoreTypeOK
  <2>2. ASSUME ~Group, NEW c \in Reader
        PROVE  /\ expected_matches \in Nat /\ Cardinality(got[c]) \in Nat
               /\ Cardinality(got[c]) <= expected_matches
               /\ Cardinality(got[c]) = expected_matches <=> got[c] = M
    <3>1. script \in Pattern
      BY <2>2 DEF CoreTypeOK, Group
    <3>2. expected_matches = Cardinality(M)
      BY <2>1, <3>1, ExpectedExact
    <3>3. got[c] \subseteq M
      BY DEF RowsInvariant
    <3>4. IsFiniteSet(got[c]) /\ Cardinality(got[c]) <= Cardinality(M)
          /\ (Cardinality(got[c]) = Cardinality(M) => got[c] = M)
      BY <2>1, <3>3, FS_Subset, Zenon
    <3>5. Cardinality(got[c]) \in Nat /\ Cardinality(M) \in Nat
      BY <2>1, <3>4, FS_CardinalityType, Zenon
    <3>6. QED
      BY <3>2, <3>4, <3>5
  <2>3. MatchOkExact
    BY <2>2, StartedReaders DEF MatchOkExact
  <2>4. ASSUME early = {}, cut = {}, \A c \in Reader : at[c] = "done"
        PROVE  UNION {got[c] : c \in Reader} = M
    <3>1. \A c \in Reader : got[c] \subseteq M
      BY DEF RowsInvariant
    <3>2. PICK s \in Started : s \in Reader
      BY StartedReaders
    <3>3. CASE Group
      <4>1. stop[s] = "seen"
        BY <2>4, <3>2, <3>3 DEF RowsInvariant
      <4>2. routed = count
        BY <3>2, <4>1 DEF StopInvariant
      <4>3. \A c \in Reader : box[c] = {}
        BY <2>4 DEF MarkerInvariant
      <4>4. \A r \in 0..(routed - 1) : \E c \in Reader : r \in got[c]
        BY <2>4, <3>3, <4>3 DEF RowsInvariant
      <4>5. \A r \in M : \E c \in Reader : r \in got[c]
        BY <4>2, <4>4 DEF Rows
      <4>6. QED
        BY <3>1, <4>5
    <3>4. CASE ~Group
      <4>1. Cardinality(got[s]) >= expected_matches
        BY <2>4, <3>2, <3>4 DEF RowsInvariant
      <4>2. got[s] = M
        BY <2>2, <3>2, <3>4, <4>1
      <4>3. QED
        BY <3>1, <3>2, <4>2
    <3>5. QED
      BY <3>3, <3>4
  <2>5. UnionComplete
    BY <2>4 DEF UnionComplete
  <2>6. QED
    BY <2>3, <2>5 DEF ReportsExact
<1>2. QED
  BY <1>1, CoreSafety, PTL

(***************************************************************************)
(* DrainBench: rows and messages                                           *)
(***************************************************************************)

\* What a query gives is a list of at most Limit rows.
LEMMA SourceIs ==
  ASSUME NEW s \in SourceTable
  PROVE  /\ Len(s) \in 0..Limit /\ DOMAIN s = 1..Len(s)
         /\ \A i \in 1..Len(s) : s[i] \in Content
<1>1. PICK n \in 0..Limit : s \in [1..n -> Content]
  BY DEF SourceTable
<1>2. n \in Nat
  BY <1>1, DrainAssumption
<1>3. s \in Seq(Content) /\ Len(s) = n
  BY <1>1, <1>2
<1>4. QED
  BY <1>1, <1>2, <1>3

\* A message as the type invariant wants it, after R runs.
MessageOk(m, R) == m.run \in 1..R /\ m.what \in Content /\ m.row \in 1..Limit

\* The messages a run publishes are such messages.
LEMMA OwnMessage ==
  ASSUME DrainTypeOK, NEW phase, NEW i \in 1..Len(source)
  PROVE  /\ MessageOk(Message(phase, i), run)
         /\ Message(phase, i).run = run /\ Message(phase, i).row = i
<1>1. Len(source) \in 0..Limit /\ source[i] \in Content
  BY SourceIs DEF DrainTypeOK
<1>2. run \in 1..run /\ Limit \in Nat
  BY DrainAssumption DEF DrainTypeOK
<1>3. QED
  BY <1>1, <1>2 DEF MessageOk, Message

\* The run's messages are as many as its rows, although rows may be equal.
LEMMA OwnCount ==
  ASSUME DrainTypeOK, NEW phase
  PROVE  /\ IsFiniteSet(Own(phase)) /\ Cardinality(Own(phase)) = Len(source)
         /\ Own(phase) = {Message(phase, i) : i \in 1..Len(source)}
         /\ Len(source) \in Nat /\ Len(source) <= Limit
<1>1. Len(source) \in Nat /\ Len(source) <= Limit /\ DOMAIN source = 1..Len(source)
  BY SourceIs, DrainAssumption DEF DrainTypeOK
<1>2. Own(phase) = {Message(phase, i) : i \in 1..Len(source)}
  BY <1>1 DEF Own
<1> DEFINE f == [i \in 1..Len(source) |-> Message(phase, i)]
<1>3. f \in Bijection(1..Len(source), Own(phase))
  <2>1. f \in Injection(1..Len(source), Own(phase))
    BY <1>2, OwnMessage DEF Injection, IsInjective
  <2>2. f \in Surjection(1..Len(source), Own(phase))
    BY <1>2 DEF Surjection
  <2>3. QED
    BY <2>1, <2>2 DEF Bijection
<1>4. IsFiniteSet(Own(phase)) /\ Cardinality(Own(phase)) = Len(source)
  <2>1. 1 \in Int /\ Len(source) \in Int
    BY <1>1
  <2>2. IsFiniteSet(1..Len(source))
        /\ Cardinality(1..Len(source)) = IF 1 > Len(source) THEN 0 ELSE Len(source) - 1 + 1
    BY <2>1, FS_Interval, Zenon
  <2>3. Cardinality(1..Len(source)) = Len(source)
    BY <1>1, <2>2
  <2>4. ExistsBijection(1..Len(source), Own(phase))
    BY <1>3, Zenon DEF ExistsBijection
  <2>5. QED
    BY <2>2, <2>3, <2>4, FS_Bijection, Zenon
<1>5. QED
  BY <1>1, <1>2, <1>4

(***************************************************************************)
(* DrainBench: the steps                                                   *)
(***************************************************************************)

\* The type invariant in two parts: the messages, and the rest.
MessagesTyped(R) ==
  \A m \in held \cup other \cup unread \cup lost \cup DOMAIN dump : MessageOk(m, R)

ScriptOk ==
  /\ tool \in {"js_bench", "bmq_bench"} /\ form \in Forms
  /\ run \in 1..MaxRuns /\ source \in SourceTable /\ posted \in 0..Len(source)
  /\ stage \in {"create", "publish", "info", "drain", "stop", "verify", "cleanup", "receive",
                "republish", "pull", "compare", "summary", "raised"}
  /\ stream \in BOOLEAN /\ files \in BOOLEAN /\ torn \in BOOLEAN
  /\ late \in BOOLEAN /\ mixed \in BOOLEAN /\ kept \in BOOLEAN
  /\ drainer \in {"off", "on", "killed"} /\ verdict \in {"none", "PASS", "FAIL"}
  /\ again \in 0..MaxAgain

QueuesOk == (held # {} => stream \/ ~Js) /\ unread \subseteq held /\ IsABag(dump)

\* The type invariant, taken apart.
LEMMA DrainTypeIs == DrainTypeOK <=> ScriptOk /\ MessagesTyped(run) /\ QueuesOk
BY DEF DrainTypeOK, ScriptOk, MessagesTyped, MessageOk, QueuesOk, BagToSet

\* An exception at any place.
Raises ==
  \/ CreateRaises \/ PublishRaises \/ InfoRaises \/ StopRaises \/ VerifyRaises
  \/ CleanupRaises \/ ConsumeRaises

\* A run that raises: nothing is added anywhere, and the drainer was stopped before
\* or is killed.
LEMMA RaiseIs ==
  ASSUME DrainTypeOK, DrainIInv, Raises
  PROVE  /\ stage' = "raised"
         /\ UNCHANGED <<tool, form, run, source, posted, files, dump, torn, verdict, ghosts>>
         /\ held' \subseteq held /\ other' \subseteq other /\ unread' \subseteq held'
         /\ unread' \subseteq unread
         /\ drainer' \in {drainer, "killed"} /\ drainer' # "on"
         /\ stream' \in BOOLEAN /\ (~Js => ~stream') /\ (held' # {} => stream' \/ ~Js)
<1>0. Raise
  BY DEF Raises, CreateRaises, PublishRaises, InfoRaises, StopRaises, VerifyRaises, CleanupRaises,
     ConsumeRaises
<1>1. stage' = "raised"
      /\ UNCHANGED <<tool, form, run, source, posted, files, dump, torn, verdict, ghosts>>
  BY <1>0 DEF Raise
<1>2. /\ unread \subseteq held /\ stream \in BOOLEAN /\ (held # {} => stream \/ ~Js)
      /\ (~Js => ~stream /\ unread = {}) /\ (drainer = "on" => stage \in {"drain", "stop"})
      /\ (stage \in {"receive", "pull"} => ~Js)
  BY DEF DrainTypeOK, DrainIInv, PhaseInvariant
<1>3. CASE CreateRaises
  <2>1. UNCHANGED <<held, other, unread, drainer>> /\ stage = "create"
    BY <1>3 DEF CreateRaises
  <2>2. stream' = stream \/ stream' = Js
    BY <1>3, Zenon DEF CreateRaises
  <2>3. stream' \in BOOLEAN /\ (stream' = stream \/ (stream' <=> Js))
    BY <1>2, <2>2, Zenon DEF Js
  <2>4. (~Js => ~stream') /\ (held # {} => stream' \/ ~Js)
    BY <1>2, <2>3
  <2>5. held' \subseteq held /\ other' \subseteq other /\ unread' \subseteq held'
        /\ unread' \subseteq unread
    BY <1>2, <2>1
  <2>6. drainer' \in {drainer, "killed"} /\ drainer' # "on"
    BY <1>2, <2>1
  <2>7. held' # {} => stream' \/ ~Js
    BY <2>1, <2>4
  <2>8. QED
    BY <1>1, <2>3, <2>4, <2>5, <2>6, <2>7, Zenon
<1>4. CASE PublishRaises \/ InfoRaises \/ VerifyRaises
  BY <1>1, <1>2, <1>4 DEF PublishRaises, InfoRaises, VerifyRaises, queueVars
<1>5. CASE StopRaises
  BY <1>1, <1>2, <1>5 DEF StopRaises, queueVars
<1>6. CASE CleanupRaises
  <2>1. UNCHANGED <<other, drainer>> /\ stage = "cleanup"
    BY <1>6 DEF CleanupRaises
  <2>2. CASE UNCHANGED <<stream, held, unread>>
    BY <1>1, <1>2, <2>1, <2>2
  <2>3. CASE stream' = FALSE /\ held' = {} /\ unread' = {}
    BY <1>1, <1>2, <2>1, <2>3
  <2>4. QED
    BY <1>6, <2>2, <2>3 DEF CleanupRaises
<1>7. CASE ConsumeRaises
  BY <1>1, <1>2, <1>7 DEF ConsumeRaises
<1>8. QED
  BY <1>3, <1>4, <1>5, <1>6, <1>7 DEF Raises

\* What a run publishes does not change while it runs.
LEMMA SameRun ==
  ASSUME UNCHANGED <<tool, run, source>>
  PROVE  /\ Compared' = Compared /\ (Js' <=> Js)
         /\ \A phase, i : Message(phase, i)' = Message(phase, i)
BY DEF Compared, Own, Message, Js

\* After an exception only what is still there counts.
LEMMA RaiseStep ==
  ASSUME DrainTypeOK, DrainIInv, Raises
  PROVE  DrainTypeOK' /\ DrainIInv'
<1>1. /\ stage' = "raised"
      /\ UNCHANGED <<tool, form, run, source, posted, files, dump, torn, verdict, lost, again, late, mixed,
                     kept>>
      /\ held' \subseteq held /\ other' \subseteq other /\ unread' \subseteq held'
      /\ unread' \subseteq unread
      /\ drainer' \in {drainer, "killed"} /\ drainer' # "on"
      /\ stream' \in BOOLEAN /\ (~Js => ~stream') /\ (held' # {} => stream' \/ ~Js)
  BY RaiseIs DEF ghosts
<1>2. Js' <=> Js
  BY <1>1, SameRun
<1>3. DrainTypeOK'
  <2>1. ScriptOk'
    BY <1>1, DrainTypeIs DEF ScriptOk
  <2>2. MessagesTyped(run)'
    BY <1>1, DrainTypeIs DEF MessagesTyped, MessageOk
  <2>3. QueuesOk'
    BY <1>1, <1>2, DrainTypeIs DEF QueuesOk
  <2>4. QED
    BY <2>1, <2>2, <2>3, DrainTypeIs, PTL
<1>4. PhaseInvariant'
  BY <1>1, <1>2 DEF DrainIInv, PhaseInvariant
<1>5. BacklogInvariant'
  <2>1. IsFiniteSet(held') /\ IsFiniteSet(other')
    BY <1>1, FS_Subset, Zenon DEF DrainIInv, BacklogInvariant
  <2>2. BacklogIsOwn'
    BY <1>1 DEF BacklogIsOwn
  <2>3. QED
    BY <1>1, <2>1, <2>2 DEF BacklogInvariant
<1>6. EmptyInvariant'
  BY <1>1 DEF EmptyInvariant
<1>7. QED
  BY <1>3, <1>4, <1>5, <1>6 DEF DrainIInv

\* The steps of js_bench and of its drainer that touch neither stream nor losses.
JsQuiet ==
  \/ Create \/ Published \/ PollEnds \/ StopDrainer \/ Verify \/ Compare
  \/ \E m \in unread : DrainOne(m)

\* They keep the invariant.
LEMMA QuietStep ==
  ASSUME DrainTypeOK, DrainIInv, JsQuiet
  PROVE  DrainTypeOK' /\ DrainIInv'
<1> USE DEF DrainIInv
<1>1. UNCHANGED <<tool, form, run, source, held, other, lost, mixed, kept>>
  BY DEF JsQuiet, Create, Published, PollEnds, StopDrainer, Verify, Compare, DrainOne, queueVars,
     ghosts
<1>2. Compared' = Compared /\ (Js' <=> Js) /\ \A phase, i : Message(phase, i)' = Message(phase, i)
  BY <1>1, SameRun
<1>3. posted' \in 0..Len(source) /\ again' \in 0..MaxAgain
  <2>1. Len(source) \in Nat /\ MaxAgain \in Nat
    BY OwnCount, DrainAssumption
  <2>2. posted' \in {posted, 0}
    BY DEF JsQuiet, Create, Published, PollEnds, StopDrainer, Verify, Compare, DrainOne
  <2>3. again' = again \/ (again < MaxAgain /\ again' = again + 1)
    BY DEF JsQuiet, Create, Published, PollEnds, StopDrainer, Verify, Compare, DrainOne, ghosts
  <2>4. QED
    BY <2>1, <2>2, <2>3 DEF DrainTypeOK
<1>4. /\ stream' \in BOOLEAN /\ (held # {} => stream' \/ ~Js) /\ (~Js => ~stream')
      /\ (stage' = "summary" /\ stream' => kept) /\ (Js /\ stage' = "publish" => stream')
      /\ torn' \in BOOLEAN /\ late' \in BOOLEAN /\ (late => late')
  <2>1. \/ stream' = stream /\ (stage' = "publish" => stage = "publish")
        \/ stream' = Js /\ stage' = "publish"
    BY DEF JsQuiet, Create, Published, PollEnds, StopDrainer, Verify, Compare, DrainOne, queueVars
  <2>2. /\ stream' \in BOOLEAN
        /\ \/ stream' = stream /\ (stage' = "publish" => stage = "publish")
           \/ (stream' <=> Js) /\ stage' = "publish"
    BY <2>1, Zenon DEF Js, DrainTypeOK
  <2>3. stream' = stream /\ stage' = "summary" /\ stream => kept
    BY DEF JsQuiet, Create, Published, PollEnds, StopDrainer, Verify, Compare, DrainOne,
       PhaseInvariant
  <2>4. torn' \in BOOLEAN
    <3>1. CASE StopDrainer
      BY <3>1 DEF StopDrainer
    <3>2. torn \in BOOLEAN
      BY DEF DrainTypeOK
    <3>3. QED
      BY <3>1, <3>2 DEF JsQuiet, Create, Published, PollEnds, Verify, Compare, DrainOne
  <2>5. late' = late \/ late' = TRUE
    BY DEF JsQuiet, Create, Published, PollEnds, StopDrainer, Verify, Compare, DrainOne, ghosts
  <2>6. late' \in BOOLEAN /\ (late => late')
    BY <2>5 DEF DrainTypeOK
  <2>7. (held # {} => stream' \/ ~Js) /\ (~Js => ~stream') /\ (stage' = "summary" /\ stream' => kept)
        /\ (Js /\ stage' = "publish" => stream')
    BY <2>2, <2>3 DEF DrainTypeOK, PhaseInvariant
  <2>8. QED
    BY <2>2, <2>4, <2>6, <2>7
<1>5. /\ unread' \subseteq unread /\ files' = files
      /\ drainer' \in {drainer, "off"} /\ verdict' \in {verdict, "PASS", "FAIL"}
  BY DEF JsQuiet, Create, Published, PollEnds, StopDrainer, Verify, Compare, DrainOne, queueVars
<1>6. \/ stage = "create" /\ stage' = "publish" /\ posted' = posted
      \/ Js /\ stage = "publish" /\ posted = Len(source) /\ posted' = 0 /\ stage' = "info"
      \/ ~Js /\ stage = "publish" /\ posted' = 0 /\ stage' = "receive"
      \/ ~Js /\ stage = "republish" /\ posted' = 0 /\ stage' = "pull"
      \/ stage = "drain" /\ stage' = "stop" /\ posted' = posted
      \/ stage = "stop" /\ stage' = "verify" /\ drainer' = "off" /\ posted' = posted
      \/ stage = "verify" /\ stage' = "cleanup" /\ posted' = posted
      \/ stage = "compare" /\ stage' = "summary" /\ posted' = posted
      \/ stage' = stage /\ posted' = posted
  BY DEF JsQuiet, Create, Published, PollEnds, StopDrainer, Verify, Compare, DrainOne, PhaseInvariant
<1>7. DrainTypeOK'
  <2>1. ScriptOk'
    BY <1>1, <1>3, <1>4, <1>5, <1>6, DrainTypeIs DEF ScriptOk
  <2>2. /\ IsABag(dump') /\ \A m \in DOMAIN dump' : MessageOk(m, run)
    <3>1. IsABag(dump) /\ \A m \in DOMAIN dump \cup unread : MessageOk(m, run)
      BY DrainTypeIs DEF QueuesOk, MessagesTyped
    <3>2. ASSUME NEW m \in unread, DrainOne(m)
          PROVE  IsABag(dump') /\ DOMAIN dump' = DOMAIN dump \cup {m}
      <4>1. dump' = dump (+) SetToBag({m})
        BY <3>2 DEF DrainOne
      <4>2. QED
        BY <3>1, <4>1 DEF IsABag, SetToBag, (+)
    <3>3. QED
      BY <3>1, <3>2 DEF JsQuiet, Create, Published, PollEnds, StopDrainer, Verify, Compare
  <2>3. MessagesTyped(run)'
    BY <1>1, <1>5, <2>2, DrainTypeIs DEF MessagesTyped, MessageOk
  <2>4. QueuesOk'
    BY <1>1, <1>2, <1>4, <1>5, <2>2, DrainTypeIs DEF QueuesOk
  <2>5. QED
    BY <2>1, <2>3, <2>4, DrainTypeIs, PTL
<1>8. PhaseInvariant'
  BY <1>1, <1>2, <1>4, <1>5, <1>6 DEF PhaseInvariant
<1>9. BacklogInvariant'
  <2>1. BacklogIsOwn'
    BY <1>1, <1>2, <1>6 DEF BacklogInvariant, BacklogIsOwn, PhaseInvariant
  <2>2. Js /\ stage' \notin {"summary", "raised"} => SentSoFar' = SentSoFar
    <3>1. Own("measure") = {Message("measure", i) : i \in 1..Len(source)}
      BY OwnCount
    <3>2. QED
      BY <1>2, <1>6, <3>1 DEF SentSoFar, Compared, PhaseInvariant
  <2>3. QED
    BY <1>1, <1>2, <1>6, <2>1, <2>2 DEF BacklogInvariant
<1>10. EmptyInvariant'
  BY <1>1, <1>2, <1>4, <1>6 DEF EmptyInvariant, PhaseInvariant
<1>11. QED
  BY <1>7, <1>8, <1>9, <1>10

\* A row is published: it is stored, or it is lost, and it was neither before.
LEMMA PublishRowStep ==
  ASSUME DrainTypeOK, DrainIInv, PublishRow
  PROVE  DrainTypeOK' /\ DrainIInv'
<1> USE DEF DrainIInv
<1>1. /\ stage \in {"publish", "republish"} /\ posted < Len(source) /\ posted' = posted + 1
      /\ UNCHANGED <<tool, form, run, stage, source, stream, unread, drainer, files, dump, torn, verdict,
                     again, late, mixed, kept>>
  BY DEF PublishRow
<1>2. Compared' = Compared /\ (Js' <=> Js) /\ \A phase, i : Message(phase, i)' = Message(phase, i)
  BY <1>1, SameRun
<1>3. posted \in Nat /\ Len(source) \in Nat /\ posted + 1 \in 1..Len(source)
  BY <1>1, OwnCount DEF DrainTypeOK
<1> DEFINE m == Message(IF stage = "publish" THEN "measure" ELSE "verify", posted + 1)
<1>4. \/ lost' = lost \cup {m} /\ UNCHANGED <<held, other>>
      \/ stage = "publish" /\ held' = held \cup {m} /\ UNCHANGED <<other, lost>>
      \/ stage = "republish" /\ other' = other \cup {m} /\ UNCHANGED <<held, lost>>
  BY DEF PublishRow
<1>5. MessageOk(m, run)
  BY <1>3, OwnMessage
<1>6. Js => /\ stage = "publish" /\ m = Message("measure", posted + 1) /\ m \in Compared
            /\ m \notin SentSoFar /\ SentSoFar' = SentSoFar \cup {m}
  <2>1. ASSUME Js
        PROVE  stage = "publish" /\ m = Message("measure", posted + 1)
    BY <1>1, <2>1 DEF PhaseInvariant
  <2>2. Own("measure") = {Message("measure", i) : i \in 1..Len(source)}
    BY OwnCount
  <2>3. ASSUME NEW i \in 1..posted
        PROVE  Message("measure", i) # Message("measure", posted + 1)
    <3>1. i \in 1..Len(source) /\ i # posted + 1
      BY <1>3
    <3>2. Message("measure", i).row = i /\ Message("measure", posted + 1).row = posted + 1
      BY <1>3, <3>1, OwnMessage
    <3>3. QED
      BY <3>1, <3>2
  <2>4. 1..posted' = 1..posted \cup {posted + 1}
    BY <1>1, <1>3
  <2>5. ASSUME Js
        PROVE  /\ SentSoFar = {Message("measure", i) : i \in 1..posted}
               /\ SentSoFar' = {Message("measure", i) : i \in 1..posted'}
    BY <1>1, <1>2, <2>1, <2>5 DEF SentSoFar
  <2>6. ASSUME Js
        PROVE  m \in Compared
    BY <1>3, <2>1, <2>2, <2>6 DEF Compared
  <2>7. ASSUME Js
        PROVE  m \notin SentSoFar /\ SentSoFar' = SentSoFar \cup {m}
    BY <2>1, <2>3, <2>4, <2>5, <2>7
  <2>8. QED
    BY <2>1, <2>6, <2>7
<1> HIDE DEF m
<1>7. DrainTypeOK'
  <2>1. ScriptOk'
    BY <1>1, <1>3, DrainTypeIs DEF ScriptOk
  <2>2. MessagesTyped(run)'
    BY <1>1, <1>4, <1>5, DrainTypeIs DEF MessagesTyped, MessageOk
  <2>3. QueuesOk'
    <3>1. Js => stream
      BY <1>1 DEF PhaseInvariant
    <3>2. QED
      BY <1>1, <1>2, <1>4, <3>1, DrainTypeIs DEF QueuesOk
  <2>4. QED
    BY <2>1, <2>2, <2>3, DrainTypeIs, PTL
<1>8. PhaseInvariant'
  BY <1>1, <1>2, <1>4 DEF PhaseInvariant
<1>9. BacklogInvariant'
  <2>1. IsFiniteSet(held') /\ IsFiniteSet(other')
    BY <1>4, FS_AddElement DEF BacklogInvariant
  <2>2. BacklogIsOwn'
    BY <1>1 DEF BacklogIsOwn
  <2>3. Js => lost' \subseteq SentSoFar' /\ held' \cap Compared = SentSoFar' \ lost'
    <3>1. Js => lost \subseteq SentSoFar /\ held \cap Compared = SentSoFar \ lost
      BY <1>1 DEF BacklogInvariant
    <3>2. QED
      BY <1>4, <1>6, <3>1
  <2>4. QED
    BY <1>1, <1>2, <2>1, <2>2, <2>3 DEF BacklogInvariant
<1>10. EmptyInvariant'
  BY <1>1 DEF EmptyInvariant
<1>11. QED
  BY <1>7, <1>8, <1>9, <1>10

\* The backlog has the right size: then it has as many foreign rows as rows were lost.
LEMMA BacklogCount ==
  ASSUME DrainTypeOK, DrainIInv, stage = "info", BacklogValid
  PROVE  Cardinality(held \ Compared) = Cardinality(lost)
<1>1. Js /\ SentSoFar = Compared
  BY DEF DrainIInv, PhaseInvariant, SentSoFar
<1>2. lost \subseteq Compared /\ held \cap Compared = Compared \ lost /\ IsFiniteSet(held)
  BY <1>1 DEF DrainIInv, BacklogInvariant
<1>3. IsFiniteSet(Compared) /\ Cardinality(Compared) = Len(source) /\ Cardinality(held) = Len(source)
      /\ Len(source) \in Nat
  BY <1>1, OwnCount DEF Compared, BacklogValid
<1>4. IsFiniteSet(lost)
  BY <1>2, <1>3, FS_Subset, Zenon
<1>5. Cardinality(held \ Compared) = Cardinality(held) - Cardinality(held \cap Compared)
  BY <1>2, FS_Difference, Zenon
<1>6. Cardinality(Compared \ lost) = Cardinality(Compared) - Cardinality(Compared \cap lost)
  BY <1>3, FS_Difference, Zenon
<1>7. Compared \cap lost = lost
  BY <1>2
<1>8. Cardinality(lost) \in Nat
  BY <1>4, FS_CardinalityType, Zenon
<1>9. Cardinality(held \cap Compared) = Len(source) - Cardinality(lost)
  BY <1>2, <1>3, <1>6, <1>7
<1>10. \A n, l \in Nat : n - (n - l) = l
  OBVIOUS
<1>11. QED
  BY <1>3, <1>5, <1>8, <1>9, <1>10

\* js_bench starts its drainer on the backlog.
LEMMA StartDrainStep ==
  ASSUME DrainTypeOK, DrainIInv, StartDrain
  PROVE  DrainTypeOK' /\ DrainIInv'
<1> USE DEF DrainIInv
<1>1. /\ stage = "info" /\ BacklogValid /\ stage' = "drain" /\ drainer' = "on" /\ files' = TRUE
      /\ unread' = held
      /\ UNCHANGED <<tool, form, run, source, posted, stream, held, other, dump, torn, verdict, lost, again,
                     late, kept>>
  BY DEF StartDrain
<1>2. mixed' \in BOOLEAN
  BY DEF StartDrain
<1>3. Js /\ Compared' = Compared /\ (Js' <=> Js)
  BY <1>1, SameRun DEF PhaseInvariant
<1>4. DrainTypeOK'
  <2>1. ScriptOk'
    BY <1>1, <1>2, DrainTypeIs DEF ScriptOk
  <2>2. MessagesTyped(run)'
    BY <1>1, DrainTypeIs DEF MessagesTyped, MessageOk
  <2>3. QueuesOk'
    BY <1>1, <1>3, DrainTypeIs DEF QueuesOk
  <2>4. QED
    BY <2>1, <2>2, <2>3, DrainTypeIs, PTL
<1>5. PhaseInvariant'
  BY <1>1, <1>3 DEF PhaseInvariant
<1>6. BacklogInvariant'
  <2>1. BacklogIsOwn'
    BY <1>1, <1>3, BacklogCount DEF BacklogIsOwn
  <2>2. SentSoFar' = SentSoFar
    BY <1>1, <1>3 DEF SentSoFar
  <2>3. QED
    BY <1>1, <1>3, <2>1, <2>2 DEF BacklogInvariant
<1>7. EmptyInvariant'
  BY <1>1 DEF EmptyInvariant
<1>8. QED
  BY <1>4, <1>5, <1>6, <1>7

\* js_bench deletes its files, and its stream if the server lets it.
LEMMA CleanupStep ==
  ASSUME DrainTypeOK, DrainIInv, Cleanup
  PROVE  DrainTypeOK' /\ DrainIInv'
<1> USE DEF DrainIInv
<1>1. /\ stage = "cleanup" /\ stage' = "summary" /\ files' = FALSE
      /\ UNCHANGED <<tool, form, run, source, posted, other, drainer, dump, torn, verdict, lost,
                     again, late, mixed>>
      /\ \/ stream' = FALSE /\ held' = {} /\ unread' = {} /\ kept' = kept
         \/ kept' = TRUE /\ UNCHANGED <<stream, held, unread>>
  BY DEF Cleanup
<1>2. Js /\ (Js' <=> Js)
  BY <1>1, SameRun DEF PhaseInvariant
<1>3. /\ held' \subseteq held /\ unread' \subseteq unread /\ unread' \subseteq held'
      /\ stream' \in BOOLEAN /\ kept' \in BOOLEAN
      /\ (held' # {} => stream') /\ (stream' => kept') /\ (~kept' => held' = {})
  <2>1. /\ unread \subseteq held /\ stream \in BOOLEAN /\ kept \in BOOLEAN
        /\ (held # {} => stream)
    BY <1>2 DEF DrainTypeOK
  <2>2. QED
    BY <1>1, <2>1
<1>4. DrainTypeOK'
  <2>1. ScriptOk'
    BY <1>1, <1>3, DrainTypeIs DEF ScriptOk
  <2>2. MessagesTyped(run)'
    BY <1>1, <1>3, DrainTypeIs DEF MessagesTyped, MessageOk
  <2>3. QueuesOk'
    BY <1>1, <1>3, DrainTypeIs DEF QueuesOk
  <2>4. QED
    BY <2>1, <2>2, <2>3, DrainTypeIs, PTL
<1>5. PhaseInvariant'
  BY <1>1, <1>2, <1>3 DEF PhaseInvariant
<1>6. BacklogInvariant'
  <2>1. IsFiniteSet(held')
    BY <1>3, FS_Subset, Zenon DEF BacklogInvariant
  <2>2. QED
    BY <1>1, <2>1 DEF BacklogInvariant, BacklogIsOwn
<1>7. EmptyInvariant'
  BY <1>1, <1>2, <1>3 DEF EmptyInvariant
<1>8. QED
  BY <1>4, <1>5, <1>6, <1>7

\* bmq_bench takes messages: the limit, or all that came in time.
LEMMA ReceiveStep ==
  ASSUME DrainTypeOK, DrainIInv, Receive
  PROVE  DrainTypeOK' /\ DrainIInv'
<1> USE DEF DrainIInv
<1>1. /\ stage = "receive" /\ stage' = "republish" /\ held' \subseteq held /\ late' \in BOOLEAN
      /\ UNCHANGED <<tool, form, run, source, posted, stream, other, unread, drainer, files, dump, torn, verdict,
                     lost, again, mixed, kept>>
  BY DEF Receive
<1>2. ~Js /\ (Js' <=> Js)
  BY <1>1, SameRun DEF PhaseInvariant
<1>3. DrainTypeOK'
  <2>1. ScriptOk'
    BY <1>1, DrainTypeIs DEF ScriptOk
  <2>2. MessagesTyped(run)'
    BY <1>1, DrainTypeIs DEF MessagesTyped, MessageOk
  <2>3. QueuesOk'
    BY <1>1, <1>2, DrainTypeIs DEF QueuesOk, PhaseInvariant
  <2>4. QED
    BY <2>1, <2>2, <2>3, DrainTypeIs, PTL
<1>4. PhaseInvariant'
  BY <1>1, <1>2 DEF PhaseInvariant
<1>5. BacklogInvariant'
  <2>1. IsFiniteSet(held')
    BY <1>1, FS_Subset, Zenon DEF BacklogInvariant
  <2>2. QED
    BY <1>1, <1>2, <2>1 DEF BacklogInvariant, BacklogIsOwn
<1>6. EmptyInvariant'
  BY <1>1 DEF EmptyInvariant
<1>7. QED
  BY <1>3, <1>4, <1>5, <1>6

\* The last pull of bmq_bench: with none but its own messages about, and none late,
\* it takes all of them.
LEMMA PullStep ==
  ASSUME DrainTypeOK, DrainIInv, Pull
  PROVE  DrainTypeOK' /\ DrainIInv'
<1> USE DEF DrainIInv
<1>1. PICK S \in Taken(held \cup other) :
        /\ held' = held \ S /\ other' = other \ S /\ dump' = SetToBag(S)
        /\ late' = (late \/ (S # held \cup other /\ Cardinality(S) < Limit))
  BY DEF Pull
<1>2. /\ stage = "pull" /\ stage' = "compare" /\ mixed' = ~(held \cup other \subseteq Compared)
      /\ UNCHANGED <<tool, form, run, source, posted, stream, unread, drainer, files, torn, verdict, lost, again,
                     kept>>
  BY DEF Pull
<1>3. ~Js /\ (Js' <=> Js)
  BY <1>2, SameRun DEF PhaseInvariant
<1>4. S \subseteq held \cup other /\ Cardinality(S) <= Limit
  BY <1>1 DEF Taken
<1>5. late' \in BOOLEAN /\ mixed' \in BOOLEAN
  BY <1>1, <1>2, Zenon
<1>6. DrainTypeOK'
  <2>1. ScriptOk'
    BY <1>2, <1>5, DrainTypeIs DEF ScriptOk
  <2>2. IsABag(dump') /\ DOMAIN dump' = S
    BY <1>1 DEF IsABag, SetToBag
  <2>3. MessagesTyped(run)'
    BY <1>1, <1>2, <1>4, <2>2, DrainTypeIs DEF MessagesTyped, MessageOk
  <2>4. QueuesOk'
    BY <1>2, <1>3, <2>2, DrainTypeIs DEF QueuesOk, PhaseInvariant
  <2>5. QED
    BY <2>1, <2>3, <2>4, DrainTypeIs, PTL
<1>7. PhaseInvariant'
  BY <1>2, <1>3 DEF PhaseInvariant
<1>8. BacklogInvariant'
  <2>1. IsFiniteSet(held') /\ IsFiniteSet(other')
    BY <1>1, FS_Difference, Zenon DEF BacklogInvariant
  <2>2. QED
    BY <1>2, <1>3, <2>1 DEF BacklogInvariant, BacklogIsOwn
<1>9. EmptyInvariant'
  <2>1. ASSUME ~mixed', ~late'
        PROVE  S = held \cup other
    <3>1. held \cup other \subseteq Compared /\ (S = held \cup other \/ ~(Cardinality(S) < Limit))
      BY <1>1, <1>2, <2>1
    <3>2. IsFiniteSet(Compared) /\ Cardinality(Compared) <= Limit /\ Cardinality(Compared) \in Nat
          /\ Limit \in Nat
      BY <1>3, OwnCount, DrainAssumption DEF Compared
    <3>3. IsFiniteSet(held \cup other) /\ Cardinality(held \cup other) <= Cardinality(Compared)
      BY <3>1, <3>2, FS_Subset, Zenon
    <3>4. IsFiniteSet(S) /\ Cardinality(S) <= Cardinality(held \cup other)
          /\ (Cardinality(S) = Cardinality(held \cup other) => S = held \cup other)
      BY <1>4, <3>3, FS_Subset, Zenon
    <3>5. Cardinality(S) \in Nat /\ Cardinality(held \cup other) \in Nat
      BY <3>3, <3>4, FS_CardinalityType, Zenon
    <3>6. QED
      BY <1>4, <3>1, <3>2, <3>3, <3>4, <3>5
  <2>2. QED
    BY <1>1, <1>2, <1>3, <2>1 DEF EmptyInvariant
<1>10. QED
  BY <1>6, <1>7, <1>8, <1>9

\* The next run: what it finds is of earlier runs.
LEMMA RerunStep ==
  ASSUME DrainTypeOK, DrainIInv, Rerun
  PROVE  DrainTypeOK' /\ DrainIInv'
<1> USE DEF DrainIInv
<1>1. /\ stage \in {"summary", "raised"} /\ run < MaxRuns /\ run' = run + 1 /\ stage' = "create"
      /\ source' \in SourceTable /\ posted' = 0 /\ unread' = {} /\ drainer' = "off"
      /\ files' = FALSE /\ dump' = EmptyBag /\ torn' = FALSE /\ verdict' = "none"
      /\ lost' = {} /\ again' = 0 /\ late' = FALSE /\ mixed' = FALSE /\ kept' = FALSE
      /\ UNCHANGED <<tool, form, stream, held, other>>
  BY DEF Rerun
<1>2. Js' <=> Js
  BY <1>1 DEF Js
<1>3. run \in Nat /\ MaxRuns \in Nat /\ MaxAgain \in Nat /\ Len(source') \in Nat
  BY <1>1, SourceIs, DrainAssumption DEF DrainTypeOK
<1>4. IsABag(dump') /\ DOMAIN dump' = {}
  BY <1>1 DEF IsABag, EmptyBag, SetToBag
<1>5. DrainTypeOK'
  <2>1. ScriptOk'
    <3>1. run' \in 1..MaxRuns /\ posted' \in 0..Len(source') /\ again' \in 0..MaxAgain
      BY <1>1, <1>3
    <3>2. QED
      BY <1>1, <3>1, DrainTypeIs DEF ScriptOk
  <2>2. MessagesTyped(run)'
    BY <1>1, <1>3, <1>4, DrainTypeIs DEF MessagesTyped, MessageOk
  <2>3. QueuesOk'
    BY <1>1, <1>2, <1>4, DrainTypeIs DEF QueuesOk
  <2>4. QED
    BY <2>1, <2>2, <2>3, DrainTypeIs, PTL
<1>6. PhaseInvariant'
  BY <1>1, <1>2 DEF PhaseInvariant
<1>7. BacklogInvariant'
  <2>1. SentSoFar' = {}
    BY <1>1 DEF SentSoFar
  <2>2. held' \cap Compared' = {}
    <3>1. \A x \in held : x.run < run'
      BY <1>1, <1>3 DEF DrainTypeOK
    <3>2. \A x \in Compared' : x.run = run'
      BY DEF Compared, Own, Message
    <3>3. run' \in Nat /\ held' = held
      BY <1>1, <1>3
    <3>4. ASSUME NEW x \in held', x \in Compared'
          PROVE  FALSE
      BY <3>1, <3>2, <3>3, <3>4
    <3>5. QED
      BY <3>4
  <2>3. QED
    BY <1>1, <2>1, <2>2 DEF BacklogInvariant, BacklogIsOwn
<1>8. EmptyInvariant'
  BY <1>1 DEF EmptyInvariant
<1>9. QED
  BY <1>5, <1>6, <1>7, <1>8

\* The invariant is inductive.
LEMMA DrainStep ==
  ASSUME DrainTypeOK, DrainIInv, [DrainNext]_drainVars
  PROVE  DrainTypeOK' /\ DrainIInv'
<1>1. CASE DrainNext
  <2>1. JsQuiet \/ PublishRow \/ StartDrain \/ Cleanup \/ Receive \/ Pull \/ Rerun \/ Raises
    BY <1>1 DEF DrainNext, Script, JsQuiet, Raises
  <2>2. QED
    BY <2>1, QuietStep, PublishRowStep, StartDrainStep, CleanupStep, ReceiveStep, PullStep,
       RerunStep, RaiseStep
<1>2. CASE UNCHANGED drainVars
  <2>1. UNCHANGED <<tool, form, run, stage, source, posted, stream, held, other, unread, drainer, files,
                    dump, torn, verdict, lost, again, late, mixed, kept>>
    BY <1>2 DEF drainVars, queueVars, ghosts
  <2>2. Compared' = Compared /\ (Js' <=> Js) /\ \A phase, i : Message(phase, i)' = Message(phase, i)
    BY <2>1, SameRun
  <2>3. DrainTypeOK'
    BY <2>1, <2>2 DEF DrainTypeOK
  <2>4. PhaseInvariant' /\ EmptyInvariant'
    BY <2>1, <2>2 DEF DrainIInv, PhaseInvariant, EmptyInvariant
  <2>5. BacklogInvariant'
    BY <2>1, <2>2 DEF DrainIInv, BacklogInvariant, SentSoFar, BacklogIsOwn
  <2>6. QED
    BY <2>3, <2>4, <2>5 DEF DrainIInv
<1>3. QED
  BY <1>1, <1>2

\* It holds before the first run.
LEMMA DrainStart ==
  ASSUME DrainInit
  PROVE  DrainTypeOK /\ DrainIInv
<1>1. /\ tool \in {"js_bench", "bmq_bench"} /\ form \in Forms /\ run = 1
      /\ stage = "create" /\ source \in SourceTable /\ posted = 0
      /\ stream = FALSE /\ held = {} /\ other = {} /\ unread = {}
      /\ drainer = "off" /\ files = FALSE /\ dump = EmptyBag /\ torn = FALSE /\ verdict = "none"
      /\ lost = {} /\ again = 0 /\ late = FALSE /\ mixed = FALSE /\ kept = FALSE
  BY DEF DrainInit
<1>2. MaxRuns \in Nat \ {0} /\ MaxAgain \in Nat /\ Len(source) \in Nat
  BY <1>1, SourceIs, DrainAssumption
<1>3. IsABag(dump) /\ DOMAIN dump = {}
  BY <1>1 DEF IsABag, EmptyBag, SetToBag
<1>4. DrainTypeOK
  <2>1. ScriptOk
    <3>1. run \in 1..MaxRuns /\ posted \in 0..Len(source) /\ again \in 0..MaxAgain
      BY <1>1, <1>2
    <3>2. QED
      BY <1>1, <3>1 DEF ScriptOk
  <2>2. MessagesTyped(run) /\ QueuesOk
    BY <1>1, <1>3 DEF MessagesTyped, QueuesOk
  <2>3. QED
    BY <2>1, <2>2, DrainTypeIs
<1>5. PhaseInvariant /\ EmptyInvariant
  BY <1>1 DEF PhaseInvariant, EmptyInvariant
<1>6. BacklogInvariant
  <2>1. SentSoFar = {}
    BY <1>1 DEF SentSoFar
  <2>2. QED
    BY <1>1, <2>1, FS_EmptySet DEF BacklogInvariant, BacklogIsOwn
<1>7. QED
  BY <1>4, <1>5, <1>6 DEF DrainIInv

(***************************************************************************)
(* DrainBench: the theorems                                                *)
(***************************************************************************)

\* The inductive invariant of publish-then-drain runs holds for any rows, any limit
\* and any number of runs under the same names.
THEOREM DrainSafety == DrainSpec => [](DrainTypeOK /\ DrainIInv)
<1>1. DrainInit => DrainTypeOK /\ DrainIInv
  BY DrainStart
<1>2. DrainTypeOK /\ DrainIInv /\ [DrainNext]_drainVars => (DrainTypeOK /\ DrainIInv)'
  BY DrainStep
<1>3. QED
  BY <1>1, <1>2, PTL DEF DrainSpec

\* Runs are apart: the check of the backlog lets no more foreign rows through than
\* rows were lost, and a run that reaches its summary leaves nothing behind, but
\* for a stream whose DELETE was refused.
THEOREM RunsApartAlways == DrainSpec => []RunsApart
<1>1. DrainTypeOK /\ DrainIInv => RunsApart
  <2> SUFFICES ASSUME DrainTypeOK, DrainIInv
               PROVE  RunsApart
    OBVIOUS
  <2>1. BacklogIsOwn
    BY DEF DrainIInv, BacklogInvariant
  <2>2. LeavesNothing
    BY DEF DrainIInv, PhaseInvariant, EmptyInvariant, LeavesNothing
  <2>3. QED
    BY <2>1, <2>2 DEF RunsApart
<1>2. QED
  BY <1>1, DrainSafety, PTL

(***************************************************************************)
(* DrainBench: comparing contents                                          *)
(***************************************************************************)

\* A set as a bag has one of each.
LEMMA OneEach ==
  ASSUME NEW S
  PROVE  DOMAIN SetToBag(S) = S /\ \A m \in S : SetToBag(S)[m] = 1
BY DEF SetToBag

\* A dump in which each message is once has as many lines as messages.
LEMMA LinesCount ==
  ASSUME NEW S, IsFiniteSet(S)
  PROVE  Lines(SetToBag(S)) = Cardinality(S)
BY OneEach, SumOnes DEF Lines, SumFunction

\* The normal forms of messages, and the messages that have one of them.
FormsIn(S, f)   == {f[m.what] : m \in S}
Having(S, f, c) == {m \in S : f[m.what] = c}

\* The normal forms of such a dump are those of its messages.
LEMMA FormsOf ==
  ASSUME NEW f, NEW S
  PROVE  DOMAIN Contents(SetToBag(S), f) = FormsIn(S, f)
BY OneEach DEF Contents, FormsIn

\* It has as many of each as messages have it.
LEMMA FormCount ==
  ASSUME NEW f, NEW S, IsFiniteSet(S), NEW c \in FormsIn(S, f)
  PROVE  /\ Contents(SetToBag(S), f)[c] = Cardinality(Having(S, f, c))
         /\ IsFiniteSet(Having(S, f, c))
<1> DEFINE b == SetToBag(S)
           T == Having(S, f, c)
<1>1. DOMAIN b = S /\ \A m \in S : b[m] = 1
  BY OneEach
<1> HIDE DEF b
<1>2. Contents(b, f)[c] = SumFunctionOnSet(b, T)
  BY <1>1 DEF Contents, FormsIn, Having
<1>3. T \in SUBSET S
  BY DEF Having
<1> HIDE DEF T
<1>4. IsFiniteSet(T) /\ \A m \in T : b[m] = 1
  BY <1>1, <1>3, FS_Subset
<1>5. SumFunctionOnSet(b, T) = Cardinality(T)
  BY <1>4, SumOnes
<1>6. QED
  BY <1>2, <1>4, <1>5 DEF b, T

\* Of the messages some came back, each once.  If no normal form is missing, none
\* of the messages is, although messages may have equal ones.
LEMMA NoneMissing ==
  ASSUME NEW f, NEW C, IsFiniteSet(C), NEW D \in SUBSET C,
         Contents(SetToBag(D), f) = Contents(SetToBag(C), f)
  PROVE  D = C
<1>1. SUFFICES ASSUME NEW x \in C
               PROVE  x \in D
  OBVIOUS
<1>2. IsFiniteSet(D)
  BY FS_Subset
<1>3. PICK c : c = f[x.what]
  OBVIOUS
<1>4. c \in FormsIn(C, f) /\ c \in FormsIn(D, f)
  <2>1. c \in FormsIn(C, f)
    BY <1>3 DEF FormsIn
  <2>2. QED
    BY <2>1, FormsOf
<1>5. /\ Contents(SetToBag(C), f)[c] = Cardinality(Having(C, f, c)) /\ IsFiniteSet(Having(C, f, c))
      /\ Contents(SetToBag(D), f)[c] = Cardinality(Having(D, f, c))
  BY <1>2, <1>4, FormCount
<1>6. Cardinality(Having(D, f, c)) = Cardinality(Having(C, f, c))
      /\ Having(D, f, c) \subseteq Having(C, f, c)
  BY <1>5 DEF Having
<1>7. Having(D, f, c) = Having(C, f, c)
  BY <1>5, <1>6, FS_Subset
<1>8. x \in Having(C, f, c)
  BY <1>3 DEF Having
<1>9. QED
  BY <1>7, <1>8 DEF Having

\* Where no two messages have the same normal form, these tell how often each of
\* them came back.
LEMMA EachOnce ==
  ASSUME NEW f, NEW C, IsFiniteSet(C), \A x, y \in C : f[x.what] = f[y.what] => x = y,
         NEW b, IsABag(b), DOMAIN b \subseteq C, Contents(b, f) = Contents(SetToBag(C), f)
  PROVE  b = SetToBag(C)
<1>1. /\ DOMAIN Contents(b, f) = FormsIn(DOMAIN b, f)
      /\ \A c \in FormsIn(DOMAIN b, f) :
           Contents(b, f)[c] = SumFunctionOnSet(b, Having(DOMAIN b, f, c))
  BY DEF Contents, FormsIn, Having
<1>2. FormsIn(DOMAIN b, f) = FormsIn(C, f)
  BY <1>1, FormsOf
<1>3. DOMAIN b = C
  <2>1. ASSUME NEW x \in C
        PROVE  x \in DOMAIN b
    <3>1. f[x.what] \in FormsIn(DOMAIN b, f)
      BY <1>2 DEF FormsIn
    <3>2. PICK y \in DOMAIN b : f[y.what] = f[x.what]
      BY <3>1 DEF FormsIn
    <3>3. QED
      BY <3>2
  <2>2. QED
    BY <2>1
<1>4. ASSUME NEW x \in C
      PROVE  b[x] = 1
  <2>1. PICK c : c = f[x.what]
    OBVIOUS
  <2>2. Having(C, f, c) = {x} /\ c \in FormsIn(C, f)
    BY <2>1 DEF Having, FormsIn
  <2>3. Contents(b, f)[c] = SumFunctionOnSet(b, {x})
    BY <1>1, <1>3, <2>2
  <2>4. Contents(SetToBag(C), f)[c] = Cardinality({x})
    BY <2>2, FormCount
  <2>5. Cardinality({x}) = 1 /\ IsFiniteSet({x})
    BY FS_Singleton
  <2>6. b[x] \in Nat
    BY <1>3 DEF IsABag
  <2>7. SumFunctionOnSet(b, {x}) = b[x] + SumFunctionOnSet(b, {x} \ {x})
    <3>1. Naturals(b, {x}) /\ x \in {x}
      BY <2>6 DEF Naturals
    <3>2. QED
      BY <2>5, <3>1, SumTake
  <2>8. SumFunctionOnSet(b, {x} \ {x}) = 0
    <3>1. {x} \ {x} = {}
      OBVIOUS
    <3>2. QED
      BY <3>1, SumEmpty
  <2>9. QED
    BY <2>3, <2>4, <2>5, <2>6, <2>7, <2>8
<1>5. b = [m \in C |-> b[m]]
  BY <1>3 DEF IsABag
<1>6. QED
  BY <1>4, <1>5 DEF SetToBag

(***************************************************************************)
(* DrainBench: the verdict                                                 *)
(***************************************************************************)

\* Once given, a verdict stays sound as long as nothing it speaks of changes.
LEMMA VerdictKept ==
  ASSUME RunVerdictSound,
         UNCHANGED <<tool, form, run, source, dump, verdict, lost, again, late, mixed>>
  PROVE  RunVerdictSound'
<1>1. Compared' = Compared /\ (Js' <=> Js)
  BY SameRun
<1>2. QED
  BY <1>1 DEF RunVerdictSound, PassMeansDelivered, FailMeansFault, Distinct, Recognised

\* Before the comparison there is none.
LEMMA NoVerdict ==
  ASSUME verdict' = "none"
  PROVE  RunVerdictSound'
BY DEF RunVerdictSound, PassMeansDelivered, FailMeansFault

\* The rows to compare, that two of them with equal normal forms are one if the
\* rows of the query are distinct, and that one that is recognised looks the same
\* on both sides.
LEMMA ComparedIs ==
  ASSUME DrainTypeOK
  PROVE  /\ IsFiniteSet(Compared) /\ Cardinality(Compared) = Len(source)
         /\ Len(source) \in Nat /\ Len(source) <= Limit /\ Limit \in Nat
         /\ Distinct => \A x, y \in Compared : form.ref[x.what] = form.ref[y.what] => x = y
         /\ Recognised => \A x \in Compared : form.got[x.what] = form.ref[x.what]
<1>1. PICK phase : Compared = Own(phase)
  BY DEF Compared
<1>2. /\ IsFiniteSet(Own(phase)) /\ Cardinality(Own(phase)) = Len(source)
      /\ Own(phase) = {Message(phase, i) : i \in 1..Len(source)}
      /\ Len(source) \in Nat /\ Len(source) <= Limit /\ Limit \in Nat
  BY OwnCount, DrainAssumption
<1>3. ASSUME Distinct, NEW x \in Compared, NEW y \in Compared,
             form.ref[x.what] = form.ref[y.what]
      PROVE  x = y
  <2>1. PICK i \in DOMAIN source : x = Message(phase, i)
    BY <1>1 DEF Own
  <2>2. PICK j \in DOMAIN source : y = Message(phase, j)
    BY <1>1 DEF Own
  <2>3. form.ref[source[i]] = form.ref[source[j]]
    BY <1>3, <2>1, <2>2 DEF Message
  <2>4. QED
    BY <1>3, <2>1, <2>2, <2>3 DEF Distinct
<1>4. ASSUME Recognised, NEW x \in Compared
      PROVE  form.got[x.what] = form.ref[x.what]
  <2>1. PICK i \in DOMAIN source : x = Message(phase, i)
    BY <1>1 DEF Own
  <2>2. QED
    BY <1>4, <2>1 DEF Recognised, Message
<1>5. QED
  BY <1>1, <1>2, <1>3, <1>4

\* After an exception.
LEMMA VerdictRaise ==
  ASSUME DrainTypeOK, DrainIInv, VerdictIInv, Raises
  PROVE  VerdictIInv'
<1>1. /\ stage' = "raised"
      /\ UNCHANGED <<tool, form, run, source, dump, verdict, lost, again, late, mixed>>
  BY RaiseIs DEF ghosts
<1>2. RunVerdictSound'
  BY <1>1, VerdictKept DEF VerdictIInv
<1>3. QED
  BY <1>1, <1>2 DEF VerdictIInv, DumpInvariant, PullInvariant

\* Before the drain: nothing is in the dump, and the rows of the verify step are on
\* their way.
LEMMA VerdictPublish ==
  ASSUME DrainTypeOK, DrainIInv, VerdictIInv, Create \/ PublishRow \/ Published \/ Receive
  PROVE  VerdictIInv'
<1>1. /\ UNCHANGED <<tool, form, run, source, dump, verdict, again, mixed>>
      /\ stage \in {"create", "publish", "republish", "receive"}
      /\ stage' \in {"publish", "info", "receive", "republish", "pull"}
  BY DEF Create, PublishRow, Published, Receive, ghosts
<1>2. Compared' = Compared /\ (Js' <=> Js) /\ \A phase, i : Message(phase, i)' = Message(phase, i)
  BY <1>1, SameRun
<1>3. verdict' = "none"
  BY <1>1 DEF VerdictIInv
<1>4. DumpInvariant'
  <2>1. stage' \in {"publish", "info"} => stage \in {"create", "publish"}
    BY DEF Create, PublishRow, Published, Receive, DrainIInv, PhaseInvariant
  <2>2. QED
    BY <1>1, <2>1 DEF VerdictIInv, DumpInvariant
<1>5. ~Js => Compared = {Message("verify", i) : i \in 1..Len(source)}
  BY OwnCount DEF Compared
<1>6. PullInvariant'
  <2>1. CASE Create
    BY <2>1 DEF Create, PullInvariant
  <2>2. CASE Receive
    <3>1. stage = "receive" /\ stage' = "republish" /\ posted' = posted /\ posted = 0
      BY <2>2 DEF Receive, VerdictIInv, PullInvariant
    <3>2. 1..posted' = {}
      BY <3>1
    <3>3. QED
      BY <3>1, <3>2 DEF PullInvariant
  <2>3. CASE Published
    <3>1. /\ stage' = (IF Js THEN "info" ELSE IF stage = "publish" THEN "receive" ELSE "pull")
          /\ posted' = 0 /\ posted = Len(source) /\ UNCHANGED <<other, lost>>
          /\ stage \in {"publish", "republish"}
      BY <2>3 DEF Published, queueVars, ghosts
    <3>2. QED
      BY <1>2, <1>5, <3>1 DEF VerdictIInv, PullInvariant
  <2>4. CASE PublishRow
    <3>1. /\ stage' = stage /\ posted' = posted + 1 /\ posted \in Nat
      BY <2>4, OwnCount DEF PublishRow, DrainTypeOK
    <3>2. ASSUME stage = "republish", NEW i \in 1..(posted + 1), Message("verify", i) \notin lost'
          PROVE  Message("verify", i) \in other'
      <4> DEFINE new == Message("verify", posted + 1)
      <4>1. \/ lost' = lost \cup {new} /\ other' = other
            \/ lost' = lost /\ other' = other \cup {new}
        BY <2>4, <3>2 DEF PublishRow
      <4>2. CASE i = posted + 1
        BY <3>2, <4>1, <4>2
      <4>3. CASE i \in 1..posted
        BY <3>2, <4>1, <4>3 DEF VerdictIInv, PullInvariant
      <4>4. QED
        BY <3>1, <4>2, <4>3
    <3>3. stage \in {"publish", "republish"}
      BY <2>4 DEF PublishRow
    <3>4. QED
      BY <1>2, <3>1, <3>2, <3>3 DEF PullInvariant
  <2>5. QED
    BY <2>1, <2>2, <2>3, <2>4
<1>7. RunVerdictSound'
  BY <1>3, NoVerdict
<1>8. QED
  BY <1>3, <1>4, <1>6, <1>7 DEF VerdictIInv

\* The drain of js_bench: the dump grows by what is acknowledged, and the poll loop
\* that sees enough lines has seen all messages, unless one came twice.
LEMMA VerdictDrain ==
  ASSUME DrainTypeOK, DrainIInv, VerdictIInv,
         StartDrain \/ PollEnds \/ StopDrainer \/ \E m \in unread : DrainOne(m)
  PROVE  VerdictIInv'
<1>1. /\ UNCHANGED <<tool, form, run, source, held, verdict>>
      /\ stage \in {"info", "drain", "stop"} /\ stage' \in {"drain", "stop", "verify"}
  BY DEF StartDrain, PollEnds, StopDrainer, DrainOne, queueVars, DrainIInv, PhaseInvariant
<1>2. Compared' = Compared
  BY <1>1, SameRun
<1>3. verdict' = "none"
  BY <1>1 DEF VerdictIInv
<1>4. unread \subseteq held /\ IsFiniteSet(held) /\ again \in Nat
  BY DrainAssumption DEF DrainTypeOK, DrainIInv, BacklogInvariant
<1>5. DumpInvariant'
  <2>1. CASE StartDrain
    <3>1. /\ stage = "info" /\ Cardinality(held) = Len(source) /\ stage' = "drain"
          /\ unread' = held /\ mixed' = ~(held \subseteq Compared) /\ UNCHANGED <<held, dump, again>>
      BY <2>1 DEF StartDrain, BacklogValid
    <3>2. dump = SetToBag({}) /\ held \ unread' = {}
      BY <3>1 DEF VerdictIInv, DumpInvariant, EmptyBag
    <3>3. BagToSet(dump) = {}
      BY <3>2, OneEach DEF BagToSet
    <3>4. mixed' \/ held \subseteq Compared
      BY <3>1
    <3>5. QED
      BY <1>1, <1>2, <3>1, <3>2, <3>3, <3>4 DEF DumpInvariant, BagToSet
  <2>2. CASE PollEnds
    <3>1. /\ stage = "drain" /\ stage' = "stop" /\ UNCHANGED <<held, unread, dump, again, mixed>>
          /\ (Enough \/ late')
      BY <2>2 DEF PollEnds, queueVars
    <3>2. ASSUME Enough, again = 0
          PROVE  unread = {}
      <4>1. dump = SetToBag(held \ unread) /\ Cardinality(held) = Len(source)
        BY <3>1, <3>2 DEF VerdictIInv, DumpInvariant
      <4>2. IsFiniteSet(held \ unread)
        BY <1>4, FS_Difference
      <4>3. Cardinality(held \ unread) >= Cardinality(held)
        BY <3>2, <4>1, <4>2, LinesCount DEF Enough
      <4>4. /\ Cardinality(held \ unread) <= Cardinality(held)
            /\ Cardinality(held \ unread) = Cardinality(held) => held \ unread = held
            /\ Cardinality(held) \in Nat /\ Cardinality(held \ unread) \in Nat
        BY <1>4, <4>2, FS_Subset, FS_CardinalityType
      <4>5. held \ unread = held
        BY <4>3, <4>4
      <4>6. QED
        BY <1>4, <4>5
    <3>3. late' \/ again > 0 \/ unread = {}
      BY <1>4, <3>1, <3>2
    <3>4. QED
      BY <1>1, <1>2, <3>1, <3>3 DEF VerdictIInv, DumpInvariant
  <2>3. CASE StopDrainer
    <3>1. /\ stage = "stop" /\ stage' = "verify"
          /\ UNCHANGED <<held, unread, dump, again, mixed, late>>
      BY <2>3 DEF StopDrainer, queueVars, ghosts
    <3>2. QED
      BY <1>1, <1>2, <3>1 DEF VerdictIInv, DumpInvariant
  <2>4. ASSUME NEW m \in unread, DrainOne(m)
        PROVE  DumpInvariant'
    <3>1. /\ stage \in {"drain", "stop"} /\ dump' = dump (+) SetToBag({m})
          /\ \/ unread' = unread \ {m} /\ again' = again
             \/ again' = again + 1 /\ unread' = unread
          /\ UNCHANGED <<stage, held, late, mixed>>
      BY <2>4 DEF DrainOne, DrainIInv, PhaseInvariant
    <3>2. BagToSet(dump) \subseteq held /\ IsABag(dump)
      BY <3>1 DEF VerdictIInv, DumpInvariant, DrainTypeOK
    <3>3. BagToSet(dump') \subseteq held
      BY <1>4, <3>1, <3>2 DEF BagToSet, (+), SetToBag
    <3>4. ASSUME again' = 0
          PROVE  dump' = SetToBag(held \ unread')
      <4>1. again = 0 /\ unread' = unread \ {m}
        BY <1>4, <3>1, <3>4
      <4>2. dump = SetToBag(held \ unread)
        BY <3>1, <4>1 DEF VerdictIInv, DumpInvariant
      <4>3. held \ unread' = (held \ unread) \cup {m} /\ m \notin held \ unread
        BY <1>4, <4>1
      <4> DEFINE D == held \ unread
      <4>4. /\ DOMAIN dump = D /\ (\A x \in D : dump[x] = 1)
            /\ DOMAIN SetToBag({m}) = {m} /\ SetToBag({m})[m] = 1
        BY <4>2, OneEach
      <4> HIDE DEF D
      <4>5. dump' = [x \in D \cup {m} |-> (IF x \in D THEN dump[x] ELSE 0)
                                          + (IF x \in {m} THEN SetToBag({m})[x] ELSE 0)]
        BY <3>1, <4>4 DEF (+)
      <4>6. \A x \in D \cup {m} : dump'[x] = 1
        BY <4>3, <4>4, <4>5 DEF D
      <4>7. dump' = [x \in D \cup {m} |-> 1]
        BY <4>5, <4>6
      <4>8. QED
        BY <4>3, <4>7 DEF SetToBag, D
    <3>5. stage = "stop" => late' \/ again' > 0 \/ unread' = {}
      BY <1>4, <3>1 DEF VerdictIInv, DumpInvariant
    <3>6. QED
      BY <1>1, <1>2, <3>1, <3>3, <3>4, <3>5 DEF VerdictIInv, DumpInvariant, BagToSet
  <2>5. QED
    BY <2>1, <2>2, <2>3, <2>4
<1>6. PullInvariant'
  BY <1>1 DEF PullInvariant
<1>7. RunVerdictSound'
  BY <1>3, NoVerdict
<1>8. QED
  BY <1>3, <1>5, <1>6, <1>7 DEF VerdictIInv

\* A bag of messages of the run looks the same in the normal form of the reference,
\* if the rows are recognised.
LEMMA SameForm ==
  ASSUME DrainTypeOK, Recognised, BagToSet(dump) \subseteq Compared
  PROVE  Contents(dump, form.got) = Contents(dump, form.ref)
<1>1. \A m \in DOMAIN dump : form.got[m.what] = form.ref[m.what]
  BY ComparedIs DEF BagToSet
<1>2. {form.got[m.what] : m \in DOMAIN dump} = {form.ref[m.what] : m \in DOMAIN dump}
  BY <1>1
<1>3. \A c : {m \in DOMAIN dump : form.got[m.what] = c} = {m \in DOMAIN dump : form.ref[m.what] = c}
  BY <1>1
<1>4. QED
  BY <1>2, <1>3 DEF Contents

\* A comparison of messages that are all of the run: equal normal forms mean that
\* each came back once, and if each did the normal forms are equal.
LEMMA ComparisonSound ==
  ASSUME DrainTypeOK, Recognised, BagToSet(dump) \subseteq Compared
  PROVE  /\ SameRows /\ Distinct => dump = SetToBag(Compared)
         /\ SameRows /\ dump = SetToBag(BagToSet(dump)) => dump = SetToBag(Compared)
         /\ dump = SetToBag(Compared) => SameRows /\ Lines(dump) = Len(source)
<1> DEFINE f == form.ref
<1>1. /\ IsFiniteSet(Compared) /\ Cardinality(Compared) = Len(source)
      /\ Distinct => \A x, y \in Compared : f[x.what] = f[y.what] => x = y
  BY ComparedIs
<1>2. IsABag(dump) /\ DOMAIN dump \subseteq Compared
  BY DEF DrainTypeOK, BagToSet
<1>3. SameRows <=> Contents(dump, f) = Contents(SetToBag(Compared), f)
  BY SameForm DEF SameRows
<1> HIDE DEF f
<1>4. SameRows /\ Distinct => dump = SetToBag(Compared)
  BY <1>1, <1>2, <1>3, EachOnce
<1>5. ASSUME SameRows, dump = SetToBag(BagToSet(dump))
      PROVE  dump = SetToBag(Compared)
  <2> DEFINE D == BagToSet(dump)
  <2>1. D \in SUBSET Compared /\ Contents(SetToBag(D), f) = Contents(SetToBag(Compared), f)
    BY <1>3, <1>5
  <2> HIDE DEF D
  <2>2. D = Compared
    BY <1>1, <2>1, NoneMissing
  <2>3. QED
    BY <1>5, <2>2 DEF D
<1>6. dump = SetToBag(Compared) => SameRows /\ Lines(dump) = Len(source)
  BY <1>1, <1>3, LinesCount
<1>7. QED
  BY <1>4, <1>5, <1>6

\* js_bench compares the dump with the rows of its query.
LEMMA VerdictVerify ==
  ASSUME DrainTypeOK, DrainIInv, VerdictIInv, Verify
  PROVE  VerdictIInv'
<1>1. /\ stage = "verify" /\ stage' = "cleanup" /\ verdict' = IF SameRows THEN "PASS" ELSE "FAIL"
      /\ UNCHANGED <<tool, form, run, source, held, unread, dump, lost, again, late, mixed>>
  BY DEF Verify, queueVars, ghosts
<1>2. Compared' = Compared /\ (Js' <=> Js) /\ (Distinct' <=> Distinct)
      /\ (Recognised' <=> Recognised)
  BY <1>1, SameRun DEF Distinct, Recognised
<1>3. /\ Cardinality(held) = Len(source) /\ BagToSet(dump) \subseteq held
      /\ mixed \/ held \subseteq Compared
      /\ again = 0 => dump = SetToBag(held \ unread)
      /\ late \/ again > 0 \/ unread = {}
  BY <1>1 DEF VerdictIInv, DumpInvariant
<1>4. again \in Nat
  BY DrainAssumption DEF DrainTypeOK
<1>5. ASSUME SameRows, Recognised, ~mixed, again = 0 \/ Distinct
      PROVE  dump = SetToBag(Compared)
  <2>1. BagToSet(dump) \subseteq Compared
    BY <1>3, <1>5
  <2>2. again = 0 => dump = SetToBag(BagToSet(dump))
    BY <1>3, OneEach DEF BagToSet
  <2>3. QED
    BY <1>5, <2>1, <2>2, ComparisonSound
<1>6. ASSUME ~SameRows, Recognised, ~mixed, again = 0, ~late
      PROVE  FALSE
  <2>1. held \subseteq Compared /\ dump = SetToBag(held)
    <3>1. held \ unread = held
      BY <1>3, <1>6
    <3>2. QED
      BY <1>3, <1>6, <3>1
  <2>2. held = Compared
    BY <1>3, <2>1, ComparedIs, FS_Subset
  <2>3. QED
    BY <1>3, <1>6, <2>1, <2>2, ComparisonSound
<1>7. PassMeansDelivered'
  BY <1>1, <1>2, <1>5 DEF PassMeansDelivered
<1>8. FailMeansFault'
  BY <1>1, <1>2, <1>4, <1>6 DEF FailMeansFault
<1>9. DumpInvariant' /\ PullInvariant'
  BY <1>1 DEF DumpInvariant, PullInvariant
<1>10. QED
  BY <1>1, <1>7, <1>8, <1>9 DEF VerdictIInv, RunVerdictSound

\* The last pull of bmq_bench takes rows of the run, unless others are about, and
\* all of them, unless one is lost or late.
LEMMA VerdictPull ==
  ASSUME DrainTypeOK, DrainIInv, VerdictIInv, Pull
  PROVE  VerdictIInv'
<1>1. PICK S \in Taken(held \cup other) :
        /\ dump' = SetToBag(S)
        /\ late' = (late \/ (S # held \cup other /\ Cardinality(S) < Limit))
  BY DEF Pull
<1>2. /\ stage = "pull" /\ stage' = "compare" /\ mixed' = ~(held \cup other \subseteq Compared)
      /\ UNCHANGED <<tool, form, run, source, verdict, lost>>
  BY DEF Pull
<1>3. Compared' = Compared
  BY <1>2, SameRun
<1>4. verdict' = "none"
  BY <1>2 DEF VerdictIInv
<1>5. S \subseteq held \cup other /\ Cardinality(S) <= Limit
  BY <1>1 DEF Taken
<1>6. BagToSet(dump') = S
  BY <1>1, OneEach DEF BagToSet
<1>7. ~mixed' => S \subseteq Compared
  BY <1>2, <1>5
<1>8. ASSUME ~mixed', lost = {}, ~late'
      PROVE  S = Compared
  <2>1. held \cup other = Compared
    BY <1>2, <1>8 DEF VerdictIInv, PullInvariant
  <2>2. S = Compared \/ ~(Cardinality(S) < Limit)
    BY <1>1, <1>8, <2>1
  <2>3. /\ IsFiniteSet(Compared) /\ Cardinality(Compared) \in Nat /\ Cardinality(Compared) <= Limit
        /\ Limit \in Nat
    BY ComparedIs
  <2>4. /\ IsFiniteSet(S) /\ Cardinality(S) <= Cardinality(Compared)
        /\ Cardinality(S) = Cardinality(Compared) => S = Compared
    BY <1>5, <2>1, <2>3, FS_Subset
  <2>5. Cardinality(S) \in Nat
    BY <2>4, FS_CardinalityType
  <2>6. QED
    BY <2>2, <2>3, <2>4, <2>5
<1>9. PullInvariant'
  <2>1. /\ dump' = SetToBag(BagToSet(dump')) /\ (mixed' \/ BagToSet(dump') \subseteq Compared)
        /\ mixed' \/ lost # {} \/ late' \/ dump' = SetToBag(Compared)
    BY <1>1, <1>6, <1>7, <1>8
  <2>2. QED
    BY <1>2, <1>3, <2>1 DEF PullInvariant, BagToSet
<1>10. DumpInvariant'
  BY <1>2 DEF DumpInvariant
<1>11. RunVerdictSound'
  BY <1>4, NoVerdict
<1>12. QED
  BY <1>4, <1>9, <1>10, <1>11 DEF VerdictIInv

\* bmq_bench compares what it pulled with the rows of its query.
LEMMA VerdictCompare ==
  ASSUME DrainTypeOK, DrainIInv, VerdictIInv, Compare
  PROVE  VerdictIInv'
<1>1. /\ stage = "compare" /\ stage' = "summary"
      /\ verdict' = IF Lines(dump) = Len(source) /\ Len(source) = Limit /\ SameRows
                    THEN "PASS" ELSE "FAIL"
      /\ UNCHANGED <<tool, form, run, source, dump, lost, again, late, mixed>>
  BY DEF Compare, ghosts
<1>2. Compared' = Compared /\ (Js' <=> Js) /\ ~Js /\ (Recognised' <=> Recognised)
  BY <1>1, SameRun DEF DrainIInv, PhaseInvariant, Recognised
<1>3. /\ dump = SetToBag(BagToSet(dump)) /\ (mixed \/ BagToSet(dump) \subseteq Compared)
      /\ mixed \/ lost # {} \/ late \/ dump = SetToBag(Compared)
  BY <1>1 DEF VerdictIInv, PullInvariant
<1>4. SameRows /\ Recognised /\ ~mixed => dump = SetToBag(Compared)
  BY <1>3, ComparisonSound
<1>5. ASSUME Recognised, ~mixed, lost = {}, ~late, ~(Len(source) < Limit)
      PROVE  verdict' = "PASS"
  <2>1. dump = SetToBag(Compared) /\ BagToSet(dump) \subseteq Compared
    BY <1>3, <1>5
  <2>2. Lines(dump) = Len(source) /\ SameRows
    BY <1>5, <2>1, ComparisonSound
  <2>3. Len(source) = Limit
    BY <1>5, ComparedIs
  <2>4. QED
    BY <1>1, <2>2, <2>3
<1>6. PassMeansDelivered'
  BY <1>1, <1>2, <1>4 DEF PassMeansDelivered
<1>7. FailMeansFault'
  BY <1>1, <1>2, <1>5 DEF FailMeansFault
<1>8. DumpInvariant' /\ PullInvariant'
  BY <1>1 DEF DumpInvariant, PullInvariant
<1>9. QED
  BY <1>1, <1>6, <1>7, <1>8 DEF VerdictIInv, RunVerdictSound

\* The invariant behind the verdict is inductive.
LEMMA VerdictStep ==
  ASSUME DrainTypeOK, DrainIInv, VerdictIInv, [DrainNext]_drainVars
  PROVE  VerdictIInv'
<1>1. CASE Cleanup
  <2>1. /\ stage = "cleanup" /\ stage' = "summary"
        /\ UNCHANGED <<tool, form, run, source, dump, verdict, lost, again, late, mixed>>
    BY <1>1 DEF Cleanup, ghosts
  <2>2. RunVerdictSound'
    BY <2>1, VerdictKept DEF VerdictIInv
  <2>3. QED
    BY <2>1, <2>2 DEF VerdictIInv, DumpInvariant, PullInvariant
<1>2. CASE Rerun
  <2>1. stage' = "create" /\ dump' = EmptyBag /\ again' = 0 /\ verdict' = "none"
    BY <1>2 DEF Rerun
  <2>2. RunVerdictSound'
    BY <2>1, NoVerdict
  <2>3. QED
    BY <2>1, <2>2 DEF VerdictIInv, DumpInvariant, PullInvariant
<1>3. CASE UNCHANGED drainVars
  <2>1. UNCHANGED <<tool, form, run, stage, source, posted, held, other, unread, dump, verdict,
                    lost, again, late, mixed>>
    BY <1>3 DEF drainVars, queueVars, ghosts
  <2>2. Compared' = Compared /\ \A phase, i : Message(phase, i)' = Message(phase, i)
    BY <2>1, SameRun
  <2>3. RunVerdictSound'
    BY <2>1, VerdictKept DEF VerdictIInv
  <2>4. DumpInvariant' /\ PullInvariant'
    BY <2>1, <2>2 DEF VerdictIInv, DumpInvariant, PullInvariant, BagToSet
  <2>5. QED
    BY <2>1, <2>3, <2>4 DEF VerdictIInv
<1>4. CASE DrainNext
  <2>1. \/ Create \/ PublishRow \/ Published \/ Receive
        \/ StartDrain \/ PollEnds \/ StopDrainer \/ (\E m \in unread : DrainOne(m))
        \/ Verify \/ Pull \/ Compare \/ Cleanup \/ Rerun \/ Raises
    BY <1>4 DEF DrainNext, Script, Raises
  <2>2. QED
    BY <1>1, <1>2, <2>1, VerdictPublish, VerdictDrain, VerdictVerify, VerdictPull, VerdictCompare,
       VerdictRaise
<1>5. QED
  BY <1>3, <1>4

\* The verdict on a run is sound both ways, for any rows and any number of runs: PASS
\* means that each row of the run came back once, if the normal form knows each row
\* for itself, unless other messages were there or a row came twice in place of one
\* with the same normal form; FAIL means that something went wrong, or that a row's
\* normal form differs from itself.
THEOREM RunVerdictSoundAlways == DrainSpec => []RunVerdictSound
<1>1. DrainInit => VerdictIInv
  <2>1. ASSUME DrainInit
        PROVE  VerdictIInv
    <3>1. stage = "create" /\ dump = EmptyBag /\ again = 0 /\ verdict = "none"
      BY <2>1 DEF DrainInit
    <3>2. QED
      BY <3>1 DEF VerdictIInv, DumpInvariant, PullInvariant, RunVerdictSound, PassMeansDelivered,
         FailMeansFault
  <2>2. QED
    BY <2>1
<1>2. DrainTypeOK /\ DrainIInv /\ VerdictIInv /\ [DrainNext]_drainVars => VerdictIInv'
  BY VerdictStep
<1>3. VerdictIInv => RunVerdictSound
  BY DEF VerdictIInv
<1>4. QED
  BY <1>1, <1>2, <1>3, DrainSafety, PTL DEF DrainSpec

(***************************************************************************)
(* Both kinds of script                                                    *)
(***************************************************************************)

\* No order of messages, timeouts and exceptions leaves a script, its readers, its
\* drainer or its queues ill formed, whichever of the four scripts it is.
THEOREM MeasureTypeCorrect == MCSpec => []MeasureTypeOK
<1> DEFINE Inv == CoreTypeOK /\ StartedInvariant /\ DrainTypeOK /\ DrainIInv
<1>1. MCInit => Inv
  <2>1. CoreInit => CoreTypeOK /\ StartedInvariant
    BY CoreStart DEF CoreIInv
  <2>2. DrainInit => DrainTypeOK /\ DrainIInv
    BY DrainStart
  <2>3. CoreOver => CoreTypeOK /\ StartedInvariant
    BY SubsIs DEF CoreOver, CoreTypeOK, StartedInvariant
  <2>4. ASSUME DrainOver
        PROVE  DrainTypeOK /\ DrainIInv
    <3>1. /\ tool = "js_bench" /\ run = MaxRuns
          /\ stage = "summary" /\ source = <<>> /\ posted = 0
          /\ stream = FALSE /\ held = {} /\ other = {} /\ unread = {}
          /\ drainer = "off" /\ files = FALSE /\ dump = EmptyBag /\ torn = FALSE /\ verdict = "PASS"
          /\ lost = {} /\ again = 0 /\ late = FALSE /\ mixed = FALSE /\ kept = FALSE
          /\ form \in Forms
      BY <2>4, DrainAssumption DEF DrainOver
    <3>2. source \in SourceTable /\ Len(source) = 0
      <4>1. <<>> \in [1..0 -> Content] /\ 0 \in 0..Limit
        BY DrainAssumption
      <4>2. QED
        BY <3>1, <4>1 DEF SourceTable
    <3>3. IsABag(dump) /\ DOMAIN dump = {}
      BY <3>1 DEF IsABag, EmptyBag, SetToBag
    <3>4. ScriptOk
      <4>1. run \in 1..MaxRuns /\ posted \in 0..Len(source) /\ again \in 0..MaxAgain
        BY <3>1, <3>2, DrainAssumption
      <4>2. QED
        BY <3>1, <3>2, <4>1 DEF ScriptOk
    <3>5. MessagesTyped(run) /\ QueuesOk
      BY <3>1, <3>3 DEF MessagesTyped, QueuesOk
    <3>6. DrainIInv
      BY <3>1, FS_EmptySet DEF DrainIInv, PhaseInvariant, EmptyInvariant, BacklogInvariant,
         BacklogIsOwn, Js
    <3>7. QED
      BY <3>4, <3>5, <3>6, DrainTypeIs
  <2>5. QED
    BY <2>1, <2>2, <2>3, <2>4 DEF MCInit
<1>2. Inv /\ [MCNext]_<<coreVars, drainVars>> => Inv'
  <2> SUFFICES ASSUME Inv, [MCNext]_<<coreVars, drainVars>>
               PROVE  Inv'
    OBVIOUS
  <2>1. [CoreNext]_coreVars /\ [DrainNext]_drainVars
    BY DEF MCNext
  <2>2. DrainTypeOK' /\ DrainIInv'
    BY <2>1, DrainStep
  <2>3. CASE CoreNext
    BY <2>2, <2>3, CoreTypeStep
  <2>4. CASE UNCHANGED coreVars
    <3>1. UNCHANGED <<script, count, at, live, ready, box, stop, got, cut, early, publisher, sent, routed>>
      BY <2>4 DEF coreVars, readerVars, publisherVars
    <3>2. Started' = Started /\ Subs' = Subs
      BY <3>1, SameScript
    <3>3. CoreTypeOK' /\ StartedInvariant'
      BY <3>1, <3>2 DEF CoreTypeOK, StartedInvariant
    <3>4. QED
      BY <2>2, <3>3
  <2>5. QED
    BY <2>1, <2>3, <2>4
<1>3. Inv => MeasureTypeOK
  BY DEF MeasureTypeOK
<1>4. QED
  BY <1>1, <1>2, <1>3, PTL DEF MCSpec
=============================================================================
