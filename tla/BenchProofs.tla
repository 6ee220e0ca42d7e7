---------------------------- MODULE BenchProofs -----------------------------
(***************************************************************************)
(* Proofs about the throughput harness, for any number of producers and    *)
(* consumers, any queues, rates and windows of samples: totals are the     *)
(* sums of what the workers did, under their locks, and the curve of       *)
(* samples bounds the rows left in the broker.                             *)
(***************************************************************************)
EXTENDS SustainedBench, SumProofs

(***************************************************************************)
(* Layouts                                                                 *)
(***************************************************************************)
\* What every layout of workers and queues has in common.
LEMMA LayoutIs ==
  ASSUME layout \in Layouts
  PROVE  /\ IsFiniteSet(Worker) /\ IsFiniteSet(layout.values)
         /\ Worker \subseteq Producer \cup Consumer /\ Worker # {}
         /\ ~layout.timed => Worker \subseteq Producer
         /\ \A w \in Worker : queueOf[w] \in Queues
         /\ 1 \in Queues /\ \A q \in Queues : q \in Nat
<1>1. /\ IsFiniteSet(Worker) /\ IsFiniteSet(layout.values)
      /\ Worker \subseteq Producer \cup Consumer /\ Worker # {}
      /\ ~layout.timed => Worker \subseteq Producer
      /\ Queues = 1..Cardinality(Queues)
  BY BenchAssumption DEF Worker, queueOf, Queues
<1>2. Queues = {queueOf[w] : w \in Worker}
  BY DEF Queues, Worker, Range
<1>3. Cardinality(Queues) \in Nat
  <2>1. [w \in Worker |-> queueOf[w]] \in Surjection(Worker, Queues)
    BY <1>2 DEF Surjection
  <2>2. IsFiniteSet(Queues)
    BY <1>1, <2>1, FS_Surjection
  <2>3. QED
    BY <2>2, FS_CardinalityType
<1>4. \E q \in Queues : TRUE
  BY <1>1, <1>2
<1>5. \A w \in Worker : queueOf[w] \in Queues
  BY <1>2
<1>6. 1 \in Queues /\ \A q \in Queues : q \in Nat
  BY <1>1, <1>3, <1>4
<1>7. QED
  BY <1>1, <1>5, <1>6

\* The layout is fixed for the run.
LEMMA SameLayout ==
  ASSUME layout' = layout
  PROVE  /\ queueOf' = queueOf /\ Worker' = Worker /\ Queues' = Queues /\ Rows' = Rows
         /\ Counters' = Counters
         /\ \A r, q : Of(r, q)' = Of(r, q)
         /\ \A rows : Count(rows)' = Count(rows)
BY DEF queueOf, Worker, Queues, Rows, Counters, Of, Role, Count

\* Each worker has a counter, and each queue three.
LEMMA CountersAre ==
  ASSUME layout \in Layouts
  PROVE  /\ \A w \in Worker : Counter(w) \in Counters
         /\ \A r \in {"pub", "con", "wrong"}, q \in Queues : <<r, q>> \in Counters
BY LayoutIs DEF Counter, Counters, Role

(***************************************************************************)
(* Types                                                                   *)
(***************************************************************************)
At == {"prime", "barrier", "loop", "retry", "add", "locked", "addWrong", "lockedWrong", "done", "raised"}

\* The type invariant, part by part, for workers W, queues Q and counters C.
Places(W)    == at \in [W -> At] /\ attempt \in [W -> 0..(MaxAttempts - 1)]
Numbers(W)   == n \in [W -> Nat] /\ seen \in [W -> Nat] /\ local \in [W -> Nat] /\ wrong \in [W -> Nat]
Shared(W, C) == counter \in [C -> Nat] /\ holder \in [C -> W \cup {Nobody}]
Stored(Q, R) == backlog \in [Q -> R] /\ uncounted \in [Q -> Nat]
Others(Q)    ==
  /\ clock \in {"run", "tail", "over"}
  /\ monitor \in {"sleep", "first", "second", "done"} /\ index \in Q /\ first \in Nat
  /\ main \in {"join", "collect", "report"}

\* The type invariant, taken apart.
LEMMA BenchTypeIs ==
  BenchTypeOK <=> /\ layout \in Layouts /\ Places(Worker) /\ Numbers(Worker)
                  /\ Shared(Worker, Counters) /\ Stored(Queues, Rows) /\ Others(Queues)
BY DEF BenchTypeOK, Places, Numbers, Shared, Stored, Others, At

\* What a call posts or gets is a number of rows of each value.
LEMMA BatchIs ==
  ASSUME layout \in Layouts, NEW size \in Nat, NEW rows \in Batches(size)
  PROVE  /\ rows \in Rows /\ Count(rows) \in Nat /\ Count(rows) <= size
         /\ \A X : SumFunctionOnSet(rows, layout.values \ X) \in Nat
<1>1. rows \in [layout.values -> 0..size] /\ Count(rows) <= size
  BY DEF Batches
<1>2. rows \in Rows
  BY <1>1 DEF Rows
<1>3. ASSUME NEW X \in SUBSET layout.values
      PROVE  SumFunctionOnSet(rows, X) \in Nat
  <2>1. IsFiniteSet(X) /\ Naturals(rows, X)
    BY <1>1, LayoutIs, FS_Subset DEF Naturals
  <2>2. QED
    BY <2>1, SumNat
<1>4. Count(rows) \in Nat
  BY <1>3 DEF Count
<1>5. \A X : layout.values \ X \in SUBSET layout.values
  OBVIOUS
<1>6. QED
  BY <1>1, <1>2, <1>3, <1>4, <1>5

\* The rows of a queue are counted by value: what comes in is added, what is taken
\* was there.
LEMMA CountPlus ==
  ASSUME layout \in Layouts, NEW a \in Rows, NEW b \in Rows
  PROVE  /\ [v \in layout.values |-> a[v] + b[v]] \in Rows
         /\ Count([v \in layout.values |-> a[v] + b[v]]) = Count(a) + Count(b)
         /\ Count(a) \in Nat
<1>1. IsFiniteSet(layout.values) /\ Naturals(a, layout.values) /\ Naturals(b, layout.values)
  BY LayoutIs DEF Naturals, Rows
<1> DEFINE c == [v \in layout.values |-> a[v] + b[v]]
<1>2. c \in Rows /\ \A v \in layout.values : c[v] = a[v] + b[v]
  BY DEF Rows
<1> HIDE DEF c
<1>3. Count(c) = Count(a) + Count(b)
  BY <1>1, <1>2, SumPlus DEF Count
<1>4. Count(a) \in Nat
  BY <1>1, SumNat DEF Count
<1>5. QED
  BY <1>2, <1>3, <1>4 DEF c

\* The rows of w's queue that no counter shows grow by e.
Misses(w, e) ==
  \A q \in Queues : uncounted'[q] = uncounted[q] + (IF q = queueOf[w] THEN e ELSE 0)

\* What a producer posts is added to its queue.
LEMMA PostIs ==
  ASSUME layout \in Layouts, Stored(Queues, Rows), NEW w \in Worker, NEW rows \in Rows, Post(w, rows)
  PROVE  /\ backlog' \in [Queues -> Rows]
         /\ \A q \in Queues :
              Count(backlog'[q]) = Count(backlog[q]) + (IF q = queueOf[w] THEN Count(rows) ELSE 0)
<1>1. backlog' = [backlog EXCEPT ![queueOf[w]] = [v \in layout.values |-> @[v] + rows[v]]]
  BY DEF Post
<1>2. queueOf[w] \in Queues /\ backlog \in [Queues -> Rows]
  BY LayoutIs DEF Stored
<1> DEFINE old == backlog[queueOf[w]]
           new == [v \in layout.values |-> old[v] + rows[v]]
<1>3. /\ new \in Rows /\ Count(new) = Count(old) + Count(rows) /\ Count(rows) \in Nat
      /\ \A q \in Queues : Count(backlog[q]) \in Nat
  BY <1>2, CountPlus
<1>4. backlog' = [backlog EXCEPT ![queueOf[w]] = new]
  BY <1>1, <1>2
<1> HIDE DEF new
<1>5. QED
  BY <1>2, <1>3, <1>4

\* A call of a producer adds to its queue no more rows than it sent.
LEMMA PostSomeIs ==
  ASSUME layout \in Layouts, Stored(Queues, Rows), NEW w \in Worker, NEW size \in Nat, PostSome(w, size)
  PROVE  /\ backlog' \in [Queues -> Rows]
         /\ \A q \in Queues : Count(backlog'[q]) <= Count(backlog[q]) + (IF q = queueOf[w] THEN size ELSE 0)
<1>1. PICK rows \in Batches(size) : Post(w, rows)
  BY DEF PostSome
<1>2. rows \in Rows /\ Count(rows) \in Nat /\ Count(rows) <= size
  BY BatchIs
<1>3. /\ backlog' \in [Queues -> Rows]
      /\ \A q \in Queues :
           Count(backlog'[q]) = Count(backlog[q]) + (IF q = queueOf[w] THEN Count(rows) ELSE 0)
  BY <1>1, <1>2, PostIs
<1>4. \A q \in Queues : Count(backlog[q]) \in Nat
  BY CountPlus DEF Stored
<1>5. QED
  BY <1>2, <1>3, <1>4

\* What a failing call posted is in the queue and in no count.
LEMMA LostIs ==
  ASSUME layout \in Layouts, Stored(Queues, Rows), NEW w \in Worker, NEW size \in Nat,
         NEW rows \in Batches(size), Post(w, rows), Lost(w, rows)
  PROVE  /\ backlog' \in [Queues -> Rows] /\ uncounted' \in [Queues -> Nat]
         /\ Count(rows) \in Nat /\ Misses(w, Count(rows))
         /\ \A q \in Queues :
              Count(backlog'[q]) = Count(backlog[q]) + (IF q = queueOf[w] THEN Count(rows) ELSE 0)
<1>1. rows \in Rows /\ Count(rows) \in Nat
  BY BatchIs
<1>2. queueOf[w] \in Queues /\ uncounted \in [Queues -> Nat]
  BY LayoutIs DEF Stored
<1>3. uncounted' = [uncounted EXCEPT ![queueOf[w]] = uncounted[queueOf[w]] + Count(rows)]
  BY DEF Lost
<1>4. uncounted' \in [Queues -> Nat] /\ Misses(w, Count(rows))
  BY <1>1, <1>2, <1>3 DEF Misses
<1>5. QED
  BY <1>1, <1>4, PostIs

\* A call of a consumer takes from its queue the rows it got.
LEMMA PullIs ==
  ASSUME layout \in Layouts, Stored(Queues, Rows), NEW w \in Worker, NEW rows \in Rows, Pull(w, rows)
  PROVE  /\ backlog' \in [Queues -> Rows]
         /\ \A q \in Queues :
              Count(backlog'[q]) + (IF q = queueOf[w] THEN Count(rows) ELSE 0) = Count(backlog[q])
<1>1. /\ \A v \in layout.values : rows[v] <= backlog[queueOf[w]][v]
      /\ backlog' = [backlog EXCEPT ![queueOf[w]] = [v \in layout.values |-> @[v] - rows[v]]]
  BY DEF Pull
<1>2. queueOf[w] \in Queues /\ backlog \in [Queues -> Rows]
  BY LayoutIs DEF Stored
<1> DEFINE old == backlog[queueOf[w]]
           new == [v \in layout.values |-> old[v] - rows[v]]
           sum == [v \in layout.values |-> new[v] + rows[v]]
<1>3. new \in Rows /\ old \in Rows /\ old = sum
  <2>1. old \in [layout.values -> Nat] /\ rows \in [layout.values -> Nat]
    BY <1>2 DEF Rows
  <2>2. ASSUME NEW v \in layout.values
        PROVE  old[v] - rows[v] \in Nat /\ (old[v] - rows[v]) + rows[v] = old[v]
    BY <1>1, <2>1
  <2>3. new \in [layout.values -> Nat] /\ \A v \in layout.values : sum[v] = old[v]
    BY <2>2
  <2>4. QED
    BY <2>1, <2>3 DEF Rows
<1>4. backlog' = [backlog EXCEPT ![queueOf[w]] = new]
  BY <1>1, <1>2
<1> HIDE DEF new
<1>5. Count(sum) = Count(new) + Count(rows) /\ \A q \in Queues : Count(backlog[q]) \in Nat
  BY <1>2, <1>3, CountPlus
<1> HIDE DEF sum
<1>6. QED
  BY <1>2, <1>3, <1>4, <1>5

\* The sizes of batches and the number of attempts.
LEMMA Numeric ==
  ASSUME layout \in Layouts
  PROVE  /\ BatchRows \in Nat /\ BatchRows - 1 \in Nat /\ layout.run.old \in Nat
         /\ ConsumeBatch \in Nat /\ 1 \in Nat /\ MaxAttempts \in Nat /\ MaxAttempts > 0
BY BenchAssumption DEF BatchRows

\* A worker's call leaves the types as they are.
LEMMA CallTyped ==
  ASSUME BenchTypeOK, NEW w \in Worker, UNCHANGED layout,
         Prime(w) \/ Publish(w) \/ PublishOnce(w) \/ Consume(w)
           \/ PublishRetries(w) \/ CallRaises(w)
  PROVE  /\ Places(Worker)' /\ Numbers(Worker)' /\ Shared(Worker, Counters)'
         /\ Stored(Queues, Rows)'
<1>0. /\ layout \in Layouts /\ Places(Worker) /\ Numbers(Worker) /\ Shared(Worker, Counters)
      /\ Stored(Queues, Rows)
  BY BenchTypeIs
<1>l. /\ queueOf' = queueOf /\ Worker' = Worker /\ Queues' = Queues /\ Rows' = Rows
      /\ Counters' = Counters
  BY SameLayout
<1>f. ASSUME NEW size \in Nat, NEW rows \in Filtered(w, size)
      PROVE  rows \in Rows /\ Count(rows) \in Nat /\ Against(w, rows) \in Nat
  <2>1. rows \in Batches(size)
    BY DEF Filtered
  <2>2. QED
    BY <1>0, <2>1, BatchIs DEF Against
<1>b. ASSUME NEW size \in Nat, \E rows \in Filtered(w, size) : Pull(w, rows)
      PROVE  backlog' \in [Queues -> Rows]
  BY <1>0, <1>b, <1>f, PullIs
<1>u. ASSUME UNCHANGED uncounted, backlog' \in [Queues -> Rows]
      PROVE  Stored(Queues, Rows)'
  BY <1>0, <1>l, <1>u DEF Stored
<1>p. ASSUME NEW size \in Nat, \E rows \in Batches(size) : Post(w, rows) /\ Lost(w, rows)
      PROVE  Stored(Queues, Rows)'
  BY <1>0, <1>l, <1>p, LostIs DEF Stored
<1>1. CASE Prime(w)
  <2>1. backlog' \in [Queues -> Rows]
    BY <1>0, <1>1, <1>b, PostSomeIs, Numeric DEF Prime
  <2>2. Places(Worker)'
    BY <1>0, <1>1, <1>l, Numeric DEF Prime, Move, Places, At
  <2>3. QED
    BY <1>0, <1>1, <1>l, <1>u, <2>1, <2>2 DEF Prime, Numbers, Shared
<1>2. CASE Publish(w)
  <2>1. backlog' \in [Queues -> Rows]
    BY <1>0, <1>2, PostSomeIs, Numeric DEF Publish
  <2>2. Places(Worker)'
    BY <1>0, <1>2, <1>l, Numeric DEF Publish, Attempts, Fetched, Move, Places, At
  <2>3. Numbers(Worker)'
    BY <1>0, <1>2, <1>l, Numeric DEF Publish, Fetched, Numbers
  <2>4. QED
    BY <1>0, <1>2, <1>l, <1>u, <2>1, <2>2, <2>3 DEF Publish, Fetched, Shared
<1>3. CASE PublishOnce(w)
  <2>1. backlog' \in [Queues -> Rows]
    BY <1>0, <1>3, PostSomeIs, Numeric DEF PublishOnce
  <2>2. Places(Worker)'
    BY <1>0, <1>3, <1>l DEF PublishOnce, Move, Places, At
  <2>3. Numbers(Worker)'
    BY <1>0, <1>3, <1>l, Numeric DEF PublishOnce, Numbers
  <2>4. QED
    BY <1>0, <1>3, <1>l, <1>u, <2>1, <2>2, <2>3 DEF PublishOnce, Shared
<1>4. CASE Consume(w)
  <2>1. PICK rows \in Filtered(w, ConsumeBatch) :
          /\ Pull(w, rows) /\ Fetched(w, Count(rows))
          /\ wrong' = [wrong EXCEPT ![w] = @ + Against(w, rows)]
    BY <1>4 DEF Consume
  <2>2. rows \in Rows /\ Count(rows) \in Nat /\ Against(w, rows) \in Nat
    BY <1>0, <1>f, Numeric
  <2>3. backlog' \in [Queues -> Rows]
    BY <1>0, <2>1, <2>2, PullIs
  <2>4. Places(Worker)'
    BY <1>0, <1>4, <1>l, <2>1 DEF Consume, Fetched, Move, Places, At
  <2>5. Numbers(Worker)'
    BY <1>0, <1>l, <2>1, <2>2 DEF Fetched, Numbers
  <2>6. QED
    BY <1>0, <1>l, <1>u, <2>1, <2>3, <2>4, <2>5 DEF Fetched, Shared
<1>5. CASE PublishRetries(w)
  <2>1. Stored(Queues, Rows)'
    BY <1>0, <1>5, <1>p, Numeric DEF PublishRetries
  <2>2. Places(Worker)'
    BY <1>0, <1>5, <1>l, Numeric DEF PublishRetries, Attempts, Move, Places, At
  <2>3. QED
    BY <1>0, <1>5, <1>l, <2>1, <2>2 DEF PublishRetries, Numbers, Shared
<1>6. CASE CallRaises(w)
  <2>1. Stored(Queues, Rows)'
    <3>1. CASE \E rows \in Batches(BatchRows) : Post(w, rows) /\ Lost(w, rows)
      BY <1>0, <1>p, <3>1, Numeric
    <3>2. CASE (\E rows \in Filtered(w, ConsumeBatch) : Pull(w, rows)) /\ UNCHANGED uncounted
      BY <1>0, <1>b, <1>u, <3>2, Numeric
    <3>3. QED
      BY <1>6, <3>1, <3>2 DEF CallRaises
  <2>2. Places(Worker)'
    BY <1>0, <1>6, <1>l DEF CallRaises, Raise, Move, Places, At
  <2>3. QED
    BY <1>0, <1>6, <1>l, <2>1, <2>2 DEF CallRaises, Numbers, Shared
<1>7. QED
  BY <1>1, <1>2, <1>3, <1>4, <1>5, <1>6

\* So does everything else a worker does.
LEMMA QuietTyped ==
  ASSUME BenchTypeOK, UNCHANGED layout, NEW w \in Worker,
         PrimeRetries(w) \/ PrimeRaises(w) \/ Lock(w) \/ Add(w) \/ Finish(w) \/ Release
  PROVE  /\ Places(Worker)' /\ Numbers(Worker)' /\ Shared(Worker, Counters)'
         /\ Stored(Queues, Rows)'
<1>0. /\ layout \in Layouts /\ Places(Worker) /\ Numbers(Worker) /\ Shared(Worker, Counters)
      /\ Stored(Queues, Rows)
  BY BenchTypeIs
<1>l. /\ Worker' = Worker /\ Queues' = Queues /\ Rows' = Rows /\ Counters' = Counters
  BY SameLayout
<1>b. backlog' = backlog /\ uncounted' = uncounted
  BY DEF PrimeRetries, PrimeRaises, Lock, Add, Finish, Release
<1>s. Stored(Queues, Rows)'
  BY <1>0, <1>l, <1>b DEF Stored
<1>c. Counter(w) \in Counters
  BY <1>0, CountersAre
<1>1. CASE PrimeRetries(w)
  <2>1. Places(Worker)'
    BY <1>0, <1>1, <1>l, Numeric DEF PrimeRetries, Places
  <2>2. QED
    BY <1>0, <1>1, <1>l, <1>s, <2>1 DEF PrimeRetries, Numbers, Shared
<1>2. CASE PrimeRaises(w)
  <2>1. Places(Worker)'
    BY <1>0, <1>2, <1>l DEF PrimeRaises, Raise, Move, Places, At
  <2>2. QED
    BY <1>0, <1>2, <1>l, <1>s, <2>1 DEF PrimeRaises, Numbers, Shared
<1>3. CASE Lock(w)
  <2>1. Places(Worker)'
    BY <1>0, <1>3, <1>l DEF Lock, Move, Places, At
  <2>2. Numbers(Worker)'
    BY <1>0, <1>3, <1>l, <1>c DEF Lock, Numbers, Shared
  <2>3. Shared(Worker, Counters)'
    BY <1>0, <1>3, <1>l, <1>c DEF Lock, Shared
  <2>4. QED
    BY <1>s, <2>1, <2>2, <2>3
<1>4. CASE Add(w)
  <2>1. Places(Worker)'
    BY <1>0, <1>4, <1>l DEF Add, Move, Places, At
  <2>2. Numbers(Worker)'
    BY <1>0, <1>4, <1>l DEF Add, Numbers
  <2>3. Shared(Worker, Counters)'
    <3>1. seen[w] + n[w] \in Nat
      BY <1>0 DEF Numbers
    <3>2. QED
      BY <1>0, <1>4, <1>l, <1>c, <3>1 DEF Add, Shared
  <2>4. QED
    BY <1>s, <2>1, <2>2, <2>3
<1>5. CASE Finish(w)
  <2>1. Places(Worker)'
    BY <1>0, <1>5, <1>l DEF Finish, Move, Places, At
  <2>2. Numbers(Worker)'
    BY <1>0, <1>5, <1>l DEF Finish, Numbers
  <2>3. Shared(Worker, Counters)'
    BY <1>0, <1>5, <1>l DEF Finish, Shared
  <2>4. QED
    BY <1>s, <2>1, <2>2, <2>3
<1>6. CASE Release
  <2>1. Places(Worker)'
    BY <1>0, <1>6, <1>l DEF Release, Places, At
  <2>2. QED
    BY <1>0, <1>6, <1>l, <1>s, <2>1 DEF Release, Numbers, Shared
<1>7. QED
  BY <1>1, <1>2, <1>3, <1>4, <1>5, <1>6

(***************************************************************************)
(* One worker moves                                                        *)
(***************************************************************************)
Busy == {"add", "locked"}

\* Nobody's numbers change but w's.
Alone(w) ==
  /\ UNCHANGED layout
  /\ \A v \in Worker \ {w} : /\ at'[v] = at[v] /\ n'[v] = n[v] /\ local'[v] = local[v]
                             /\ wrong'[v] = wrong[v] /\ seen'[v] = seen[v]

Mine(w, r, q) == w \in Of(r, q)

\* What of a worker's own count is not in the shared counter yet.
Share(w) == IF at[w] \in Busy THEN n[w] ELSE 0

\* The workers of a role at a queue are finitely many, with natural counts.
LEMMA GroupIs ==
  ASSUME BenchTypeOK, NEW r, NEW q
  PROVE  /\ Of(r, q) \subseteq Worker /\ IsFiniteSet(Of(r, q))
         /\ \A X \in SUBSET Of(r, q) :
              IsFiniteSet(X) /\ Naturals(n, X) /\ Naturals(local, X) /\ Naturals(wrong, X)
<1>1. layout \in Layouts /\ Numbers(Worker) /\ IsFiniteSet(Worker)
  BY BenchTypeIs, LayoutIs
<1>2. Of(r, q) \subseteq Worker
  BY DEF Of
<1>3. ASSUME NEW X \in SUBSET Worker
      PROVE  IsFiniteSet(X) /\ Naturals(n, X) /\ Naturals(local, X) /\ Naturals(wrong, X)
  BY <1>1, FS_Subset DEF Naturals, Numbers
<1>4. QED
  BY <1>2, <1>3

\* So are their counts after a step.
LEMMA GroupAfter ==
  ASSUME BenchTypeOK', UNCHANGED layout, NEW r, NEW q
  PROVE  \A X \in SUBSET Of(r, q) : Naturals(n', X) /\ Naturals(local', X) /\ Naturals(wrong', X)
<1>1. Numbers(Worker)' /\ Worker' = Worker
  BY SameLayout DEF BenchTypeOK, Numbers
<1>2. Of(r, q) \subseteq Worker
  BY DEF Of
<1>3. QED
  BY <1>1, <1>2 DEF Naturals, Numbers

\* The workers' own counts of a queue.
LEMMA LocalMoves ==
  ASSUME BenchTypeOK, BenchTypeOK', NEW w \in Worker, Alone(w), NEW r, NEW q
  PROVE  SumFunctionOnSet(local', Of(r, q)) + (IF Mine(w, r, q) THEN local[w] ELSE 0)
           = SumFunctionOnSet(local, Of(r, q)) + (IF Mine(w, r, q) THEN local'[w] ELSE 0)
<1> DEFINE S == Of(r, q)
<1>1. S \subseteq Worker /\ IsFiniteSet(S) /\ Naturals(local, S)
  BY GroupIs
<1>2. Naturals(local', S)
  BY GroupAfter DEF Alone
<1>3. \A x \in S \ {w} : local[x] = local'[x]
  BY <1>1 DEF Alone
<1> HIDE DEF S
<1>4. SumFunctionOnSet(local', S) + (IF w \in S THEN local[w] ELSE 0)
        = SumFunctionOnSet(local, S) + (IF w \in S THEN local'[w] ELSE 0)
  BY <1>1, <1>2, <1>3, SumMoves
<1>5. QED
  BY <1>4 DEF S, Mine

\* What the workers of a queue are still adding.
LEMMA AddingMoves ==
  ASSUME BenchTypeOK, BenchTypeOK', NEW w \in Worker, Alone(w), NEW r, NEW q
  PROVE  SumFunctionOnSet(n', Adding(Of(r, q))') + (IF Mine(w, r, q) THEN Share(w) ELSE 0)
           = SumFunctionOnSet(n, Adding(Of(r, q))) + (IF Mine(w, r, q) THEN Share(w)' ELSE 0)
<1> DEFINE S == Adding(Of(r, q))
           T == {v \in Of(r, q) : at'[v] \in Busy}
<1>0. Of(r, q)' = Of(r, q) /\ Of(r, q) \subseteq Worker
  BY SameLayout, GroupIs DEF Alone
<1>1. S \in SUBSET Of(r, q) /\ T \in SUBSET Of(r, q)
  BY DEF Adding
<1>2. IsFiniteSet(S) /\ IsFiniteSet(T) /\ Naturals(n, S) /\ Naturals(n', T)
  BY <1>1, GroupIs, GroupAfter DEF Alone
<1>3. S \ {w} = T \ {w} /\ \A x \in S \ {w} : n[x] = n'[x]
  BY <1>0 DEF Alone, Adding, Busy
<1>4. Adding(Of(r, q))' = T
  BY <1>0 DEF Adding, Busy
<1>5. /\ w \in S <=> Mine(w, r, q) /\ at[w] \in Busy
      /\ w \in T <=> Mine(w, r, q) /\ at'[w] \in Busy
  BY DEF Mine, Adding, Busy
<1> HIDE DEF S, T
<1>6. SumFunctionOnSet(n', T) + (IF w \in S THEN n[w] ELSE 0)
        = SumFunctionOnSet(n, S) + (IF w \in T THEN n'[w] ELSE 0)
  BY <1>2, <1>3, SumMoves
<1>7. /\ (IF w \in S THEN n[w] ELSE 0) = IF Mine(w, r, q) THEN Share(w) ELSE 0
      /\ (IF w \in T THEN n'[w] ELSE 0) = IF Mine(w, r, q) THEN Share(w)' ELSE 0
  BY <1>5 DEF Share
<1>8. QED
  BY <1>4, <1>6, <1>7 DEF S

\* The mismatches of the consumers that are done.
Tallied(q) == {w \in Of("con", q) : at[w] = "done"}

\* The mismatches of finished consumers change by those of w only.
LEMMA WrongMoves ==
  ASSUME BenchTypeOK, BenchTypeOK', NEW w \in Worker, Alone(w), NEW q
  PROVE  SumFunctionOnSet(wrong', Tallied(q)')
           + (IF Mine(w, "con", q) /\ at[w] = "done" THEN wrong[w] ELSE 0)
         = SumFunctionOnSet(wrong, Tallied(q))
           + (IF Mine(w, "con", q) /\ at'[w] = "done" THEN wrong'[w] ELSE 0)
<1> DEFINE S == Tallied(q)
           T == {v \in Of("con", q) : at'[v] = "done"}
<1>0. Of("con", q)' = Of("con", q) /\ Of("con", q) \subseteq Worker
  BY SameLayout, GroupIs DEF Alone
<1>1. S \in SUBSET Of("con", q) /\ T \in SUBSET Of("con", q)
  BY DEF Tallied
<1>2. IsFiniteSet(S) /\ IsFiniteSet(T) /\ Naturals(wrong, S) /\ Naturals(wrong', T)
  BY <1>1, GroupIs, GroupAfter DEF Alone
<1>3. S \ {w} = T \ {w} /\ \A x \in S \ {w} : wrong[x] = wrong'[x]
  BY <1>0 DEF Alone, Tallied
<1>4. Tallied(q)' = T
  BY <1>0 DEF Tallied
<1>5. /\ w \in S <=> Mine(w, "con", q) /\ at[w] = "done"
      /\ w \in T <=> Mine(w, "con", q) /\ at'[w] = "done"
  BY DEF Mine, Tallied
<1> HIDE DEF S, T
<1>6. SumFunctionOnSet(wrong', T) + (IF w \in S THEN wrong[w] ELSE 0)
        = SumFunctionOnSet(wrong, S) + (IF w \in T THEN wrong'[w] ELSE 0)
  BY <1>2, <1>3, SumMoves
<1>7. QED
  BY <1>4, <1>5, <1>6 DEF S

\* The producers that have sent their priming row.
Primed(q) == {w \in Of("pub", q) : at[w] # "prime"}

\* The number of producers past priming changes by w only.
LEMMA PrimedMoves ==
  ASSUME BenchTypeOK, NEW w \in Worker, Alone(w), NEW q
  PROVE  /\ Cardinality(Primed(q)') + (IF Mine(w, "pub", q) /\ at[w] # "prime" THEN 1 ELSE 0)
              = Cardinality(Primed(q)) + (IF Mine(w, "pub", q) /\ at'[w] # "prime" THEN 1 ELSE 0)
         /\ Cardinality(Primed(q)) \in Nat /\ Cardinality(Primed(q)') \in Nat
<1> DEFINE S == Primed(q)
           T == {v \in Of("pub", q) : at'[v] # "prime"}
<1>0. Of("pub", q)' = Of("pub", q) /\ Of("pub", q) \subseteq Worker
  BY SameLayout, GroupIs DEF Alone
<1>1. S \in SUBSET Of("pub", q) /\ T \in SUBSET Of("pub", q)
  BY DEF Primed
<1>2. IsFiniteSet(S) /\ IsFiniteSet(T)
  BY <1>1, GroupIs
<1>3. S \ {w} = T \ {w}
  BY <1>0 DEF Alone, Primed
<1>4. Primed(q)' = T
  BY <1>0 DEF Primed
<1>5. /\ w \in S <=> Mine(w, "pub", q) /\ at[w] # "prime"
      /\ w \in T <=> Mine(w, "pub", q) /\ at'[w] # "prime"
  BY DEF Mine, Primed
<1> HIDE DEF S, T
<1>6. Cardinality(T) + (IF w \in S THEN 1 ELSE 0) = Cardinality(S) + (IF w \in T THEN 1 ELSE 0)
  BY <1>2, <1>3, CardMoves
<1>7. Cardinality(S) \in Nat /\ Cardinality(T) \in Nat
  BY <1>2, FS_CardinalityType
<1>8. QED
  BY <1>4, <1>5, <1>6, <1>7 DEF S

\* The shared counters of calls grow by k for w's role and queue.
Grows(w, k) ==
  \A r \in {"pub", "con"}, q \in Queues :
    counter'[<<r, q>>] = counter[<<r, q>>] + (IF Mine(w, r, q) THEN k ELSE 0)

\* What a sum over a group is, before and after a step.
LEMMA SumsTyped ==
  ASSUME BenchTypeOK, NEW r, NEW q
  PROVE  /\ SumFunctionOnSet(local, Of(r, q)) \in Nat
         /\ SumFunctionOnSet(n, Adding(Of(r, q))) \in Nat
<1>1. Of(r, q) \in SUBSET Of(r, q) /\ Adding(Of(r, q)) \in SUBSET Of(r, q)
  BY DEF Adding
<1>2. QED
  BY <1>1, GroupIs, SumNat

\* The same after a step.
LEMMA SumsTypedAfter ==
  ASSUME BenchTypeOK, BenchTypeOK', UNCHANGED layout, NEW r, NEW q
  PROVE  /\ SumFunctionOnSet(local', Of(r, q)) \in Nat
         /\ SumFunctionOnSet(n', Adding(Of(r, q))') \in Nat
<1> DEFINE T == Adding(Of(r, q))'
<1>1. Of(r, q) \in SUBSET Of(r, q) /\ T \in SUBSET Of(r, q)
  BY SameLayout DEF Adding
<1> HIDE DEF T
<1>2. IsFiniteSet(Of(r, q)) /\ IsFiniteSet(T)
  BY <1>1, GroupIs
<1>3. Naturals(local', Of(r, q)) /\ Naturals(n', T)
  BY <1>1, GroupAfter
<1>4. QED
  BY <1>2, <1>3, SumNat DEF T

\* Counters and own counts agree if w's own count grows by what is added to the
\* counter and what is still to be added.
LEMMA AgreeStep ==
  ASSUME BenchTypeOK, BenchTypeOK', NEW w \in Worker, Alone(w), NEW k \in Nat, Grows(w, k),
         CountersAgree, layout.timed => local'[w] + Share(w) = local[w] + k + Share(w)'
  PROVE  CountersAgree'
<1> SUFFICES ASSUME layout'.timed, NEW r \in {"pub", "con"}, NEW q \in Queues'
             PROVE  SumFunctionOnSet(local', Of(r, q)')
                      = counter'[<<r, q>>] + SumFunctionOnSet(n', Adding(Of(r, q))')
  BY DEF CountersAgree
<1>0. layout.timed /\ q \in Queues /\ Of(r, q)' = Of(r, q) /\ Worker' = Worker /\ UNCHANGED layout
  BY SameLayout DEF Alone
<1> DEFINE L  == SumFunctionOnSet(local, Of(r, q))
           L1 == SumFunctionOnSet(local', Of(r, q))
           A  == SumFunctionOnSet(n, Adding(Of(r, q)))
           A1 == SumFunctionOnSet(n', Adding(Of(r, q))')
           c  == counter[<<r, q>>]
<1>1. L = c + A
  BY <1>0 DEF CountersAgree
<1>2. counter'[<<r, q>>] = c + (IF Mine(w, r, q) THEN k ELSE 0)
  BY <1>0 DEF Grows
<1>3. /\ L1 + (IF Mine(w, r, q) THEN local[w] ELSE 0) = L + (IF Mine(w, r, q) THEN local'[w] ELSE 0)
      /\ A1 + (IF Mine(w, r, q) THEN Share(w) ELSE 0) = A + (IF Mine(w, r, q) THEN Share(w)' ELSE 0)
  BY LocalMoves, AddingMoves
<1>4. L \in Nat /\ A \in Nat /\ L1 \in Nat /\ A1 \in Nat
  BY <1>0, SumsTyped, SumsTypedAfter
<1>5. c \in Nat /\ local[w] \in Nat /\ Share(w) \in Nat /\ local'[w] \in Nat /\ Share(w)' \in Nat
  <2>1. layout \in Layouts /\ Numbers(Worker) /\ Shared(Worker, Counters)
    BY BenchTypeIs
  <2>2. local' \in [Worker -> Nat] /\ n' \in [Worker -> Nat]
    BY <1>0 DEF BenchTypeOK
  <2>3. <<r, q>> \in Counters
    BY <1>0, <2>1, CountersAre
  <2>4. QED
    BY <2>1, <2>2, <2>3 DEF Numbers, Shared, Share
<1> HIDE DEF L, L1, A, A1, c
<1>6. L1 = counter'[<<r, q>>] + A1
  <2>1. CASE Mine(w, r, q)
    <3>1. counter'[<<r, q>>] = c + k /\ L1 + local[w] = L + local'[w] /\ A1 + Share(w) = A + Share(w)'
      BY <1>2, <1>3, <2>1
    <3>2. local'[w] + Share(w) = local[w] + k + Share(w)'
      BY <1>0
    <3> DEFINE l == local[w]  l1 == local'[w]  s == Share(w)  s1 == Share(w)'
    <3>3. /\ L = c + A /\ L1 + l = L + l1 /\ A1 + s = A + s1 /\ l1 + s = l + k + s1
          /\ L \in Nat /\ L1 \in Nat /\ A \in Nat /\ A1 \in Nat /\ c \in Nat
          /\ l \in Nat /\ l1 \in Nat /\ s \in Nat /\ s1 \in Nat
      BY <1>1, <1>4, <1>5, <3>1, <3>2
    <3> HIDE DEF l, l1, s, s1
    <3>4. L1 = (c + k) + A1
      BY <3>3
    <3>5. QED
      BY <3>1, <3>4
  <2>2. CASE ~Mine(w, r, q)
    BY <1>1, <1>2, <1>3, <1>4, <1>5, <2>2
  <2>3. QED
    BY <2>1, <2>2
<1>7. QED
  BY <1>0, <1>6 DEF L1, A1

\* The bound on the backlog holds on if what w adds to the queue is counted, still
\* to be added, its priming row or one that no counter shows, and if what it takes was there.
LEMMA BacklogStep ==
  ASSUME BenchTypeOK, BenchTypeOK', NEW w \in Worker, Alone(w), NEW k \in Nat, Grows(w, k),
         BacklogInvariant, NEW e \in Nat, Misses(w, e),
         \A q \in Queues : q # queueOf[w] => Count(backlog'[q]) <= Count(backlog[q]),
         layout.timed /\ w \in Producer =>
           Count(backlog'[queueOf[w]]) + Share(w) + (IF at[w] # "prime" THEN 1 ELSE 0)
             <= Count(backlog[queueOf[w]]) + k + e + Share(w)' + (IF at'[w] # "prime" THEN 1 ELSE 0),
         layout.timed /\ w \notin Producer =>
           Count(backlog'[queueOf[w]]) + k + Share(w)' <= Count(backlog[queueOf[w]]) + Share(w)
  PROVE  BacklogInvariant'
<1>l. /\ queueOf' = queueOf /\ Worker' = Worker /\ Queues' = Queues /\ Rows' = Rows
      /\ UNCHANGED layout
  BY SameLayout DEF Alone
<1> SUFFICES ASSUME NEW q \in Queues, layout.timed
             PROVE  Count(backlog'[q]) + counter'[<<"con", q>>]
                       + SumFunctionOnSet(n', Adding(Of("con", q))')
                      <= counter'[<<"pub", q>>] + SumFunctionOnSet(n', Adding(Of("pub", q))')
                           + Cardinality(Primed(q)') + uncounted'[q]
  BY <1>l, SameLayout DEF BacklogInvariant, Primed, Count
<1>0. layout \in Layouts /\ Numbers(Worker) /\ Shared(Worker, Counters) /\ Stored(Queues, Rows)
  BY BenchTypeIs
<1> DEFINE b  == Count(backlog[q])
           b1 == Count(backlog'[q])
           C  == SumFunctionOnSet(n, Adding(Of("con", q)))
           C1 == SumFunctionOnSet(n', Adding(Of("con", q))')
           P  == SumFunctionOnSet(n, Adding(Of("pub", q)))
           P1 == SumFunctionOnSet(n', Adding(Of("pub", q))')
           cc == counter[<<"con", q>>]
           cp == counter[<<"pub", q>>]
           d  == Cardinality(Primed(q))
           d1 == Cardinality(Primed(q)')
           u  == uncounted[q]
           u1 == uncounted'[q]
<1>1. u1 = u + (IF q = queueOf[w] THEN e ELSE 0) /\ u \in Nat
  BY <1>0 DEF Misses, Stored
<1>2. b + cc + C <= cp + P + d + u
  BY DEF BacklogInvariant, Primed
<1>3. /\ counter'[<<"con", q>>] = cc + (IF Mine(w, "con", q) THEN k ELSE 0)
      /\ counter'[<<"pub", q>>] = cp + (IF Mine(w, "pub", q) THEN k ELSE 0)
  BY DEF Grows
<1>4. /\ C1 + (IF Mine(w, "con", q) THEN Share(w) ELSE 0)
           = C + (IF Mine(w, "con", q) THEN Share(w)' ELSE 0)
      /\ P1 + (IF Mine(w, "pub", q) THEN Share(w) ELSE 0)
           = P + (IF Mine(w, "pub", q) THEN Share(w)' ELSE 0)
  BY AddingMoves
<1>5. /\ d1 + (IF Mine(w, "pub", q) /\ at[w] # "prime" THEN 1 ELSE 0)
           = d + (IF Mine(w, "pub", q) /\ at'[w] # "prime" THEN 1 ELSE 0)
      /\ d \in Nat /\ d1 \in Nat
  BY PrimedMoves
<1>6. C \in Nat /\ P \in Nat /\ C1 \in Nat /\ P1 \in Nat
  BY <1>l, SumsTyped, SumsTypedAfter
<1>7. b \in Nat /\ b1 \in Nat
  <2>1. backlog[q] \in Rows /\ backlog'[q] \in Rows
    BY <1>0, <1>l DEF Stored, BenchTypeOK
  <2>2. QED
    BY <1>0, <2>1, CountPlus
<1>8. Share(w) \in Nat /\ Share(w)' \in Nat /\ cc \in Nat /\ cp \in Nat
  <2>1. n' \in [Worker -> Nat]
    BY <1>l DEF BenchTypeOK
  <2>2. <<"con", q>> \in Counters /\ <<"pub", q>> \in Counters
    BY <1>0, CountersAre
  <2>3. QED
    BY <1>0, <2>1, <2>2 DEF Numbers, Shared, Share
<1>9. /\ Mine(w, "pub", q) <=> w \in Producer /\ queueOf[w] = q
      /\ Mine(w, "con", q) <=> w \notin Producer /\ queueOf[w] = q
  BY DEF Mine, Of, Role
<1> HIDE DEF b, b1, C, C1, P, P1, cc, cp, d, d1, u, u1
<1>10. b1 + counter'[<<"con", q>>] + C1 <= counter'[<<"pub", q>>] + P1 + d1 + u1
  <2>1. CASE queueOf[w] # q
    <3>1. b1 <= b
      BY <2>1 DEF b, b1
    <3>2. QED
      BY <1>1, <1>2, <1>3, <1>4, <1>5, <1>6, <1>7, <1>8, <1>9, <2>1, <3>1
  <2>2. CASE queueOf[w] = q /\ w \in Producer
    <3>1. b1 + Share(w) + (IF at[w] # "prime" THEN 1 ELSE 0)
            <= b + k + e + Share(w)' + (IF at'[w] # "prime" THEN 1 ELSE 0)
      BY <2>2 DEF b, b1
    <3>2. QED
      BY <1>1, <1>2, <1>3, <1>4, <1>5, <1>6, <1>7, <1>8, <1>9, <2>2, <3>1
  <2>3. CASE queueOf[w] = q /\ w \notin Producer
    <3>1. b1 + k + Share(w)' <= b + Share(w)
      BY <2>3 DEF b, b1
    <3>2. QED
      BY <1>1, <1>2, <1>3, <1>4, <1>5, <1>6, <1>7, <1>8, <1>9, <2>3, <3>1
  <2>4. QED
    BY <2>1, <2>2, <2>3
<1>11. QED
  BY <1>10 DEF b1, C1, P1, d1, u1

\* The others keep their counters.
LEMMA CounterSame ==
  ASSUME NEW w, Alone(w)
  PROVE  \A v \in Worker \ {w} : Counter(v)' = Counter(v)
BY SameLayout DEF Alone, Counter

\* The lock stays with the others if w leaves their counters and locks alone.
LEMMA LockStep ==
  ASSUME NEW w \in Worker, Alone(w), LockInvariant,
         at'[w] \in {"locked", "lockedWrong"} =>
           holder'[Counter(w)'] = w /\ seen'[w] = counter'[Counter(w)'],
         \A v \in Worker \ {w} : at[v] \in {"locked", "lockedWrong"} =>
           holder'[Counter(v)] = holder[Counter(v)] /\ counter'[Counter(v)] = counter[Counter(v)]
  PROVE  LockInvariant'
<1> SUFFICES ASSUME NEW v \in Worker', at'[v] \in {"locked", "lockedWrong"}
             PROVE  holder'[Counter(v)'] = v /\ seen'[v] = counter'[Counter(v)']
  BY DEF LockInvariant
<1>1. v \in Worker
  BY SameLayout DEF Alone
<1>2. CASE v = w
  BY <1>2
<1>3. CASE v # w
  <2>1. at'[v] = at[v] /\ seen'[v] = seen[v] /\ Counter(v)' = Counter(v)
    BY <1>1, <1>3, CounterSame DEF Alone
  <2>2. QED
    BY <1>1, <1>3, <2>1 DEF LockInvariant
<1>4. QED
  BY <1>2, <1>3

\* Mismatches: j are added to the counter when w, a consumer, becomes done.
LEMMA WrongStep ==
  ASSUME BenchTypeOK, BenchTypeOK', NEW w \in Worker, Alone(w), WrongInvariant, NEW j \in Nat,
         \A q \in Queues : counter'[<<"wrong", q>>]
                             = counter[<<"wrong", q>>] + (IF Mine(w, "con", q) THEN j ELSE 0),
         at[w] # "done",
         w \notin Producer => j = IF at'[w] = "done" THEN wrong'[w] ELSE 0,
         at'[w] \in {"addWrong", "lockedWrong"} => n'[w] = wrong'[w],
         w \notin Consumer => wrong'[w] = 0
  PROVE  WrongInvariant'
<1>l. Worker' = Worker /\ Queues' = Queues /\ UNCHANGED layout
  BY SameLayout DEF Alone
<1>1. ASSUME NEW v \in Worker
      PROVE  /\ at'[v] \in {"addWrong", "lockedWrong"} => n'[v] = wrong'[v]
             /\ v \notin Consumer => wrong'[v] = 0
  BY DEF Alone, WrongInvariant
<1>2. ASSUME NEW q \in Queues
      PROVE  counter'[<<"wrong", q>>] = SumFunctionOnSet(wrong', Tallied(q)')
  <2> DEFINE W  == SumFunctionOnSet(wrong, Tallied(q))
             W1 == SumFunctionOnSet(wrong', Tallied(q)')
  <2>1. counter[<<"wrong", q>>] = W
    BY DEF WrongInvariant, Tallied
  <2>2. W1 + 0 = W + (IF Mine(w, "con", q) /\ at'[w] = "done" THEN wrong'[w] ELSE 0)
    BY WrongMoves
  <2>3. W \in Nat
    <3>1. Tallied(q) \in SUBSET Of("con", q)
      BY DEF Tallied
    <3>2. QED
      BY <3>1, GroupIs, SumNat
  <2>4. W1 \in Nat
    <3> DEFINE T == Tallied(q)'
    <3>1. T \in SUBSET Of("con", q)
      BY <1>l, SameLayout DEF Tallied
    <3> HIDE DEF T
    <3>2. IsFiniteSet(T) /\ Naturals(wrong', T)
      BY <1>l, <3>1, GroupIs, GroupAfter
    <3>3. QED
      BY <3>2, SumNat DEF T
  <2>5. Mine(w, "con", q) => w \notin Producer
    BY DEF Mine, Of, Role
  <2>6. wrong'[w] \in Nat
    BY <1>l DEF BenchTypeOK
  <2> HIDE DEF W, W1
  <2>7. counter'[<<"wrong", q>>] = W + (IF Mine(w, "con", q) THEN j ELSE 0)
    BY <2>1
  <2>8. counter'[<<"wrong", q>>] = W1
    BY <2>2, <2>3, <2>4, <2>5, <2>6, <2>7
  <2>9. QED
    BY <2>8 DEF W1
<1>3. QED
  BY <1>l, <1>1, <1>2, SameLayout DEF WrongInvariant, Tallied

\* What holds of the workers, counters and queues.
WorkInvariant == LockInvariant /\ WrongInvariant /\ CountersAgree /\ BacklogInvariant

\* A step that leaves the counters alone leaves their locks to those who have them.
LEMMA QuietLock ==
  ASSUME NEW w \in Worker, Alone(w), LockInvariant, UNCHANGED <<counter, holder>>,
         at'[w] \notin {"locked", "lockedWrong"}
  PROVE  LockInvariant'
BY LockStep

\* Counters that stay grow by nothing.
LEMMA QuietGrows ==
  ASSUME BenchTypeOK, NEW w, UNCHANGED counter
  PROVE  Grows(w, 0)
<1>1. layout \in Layouts /\ Shared(Worker, Counters)
  BY BenchTypeIs
<1>2. \A r \in {"pub", "con"}, q \in Queues : counter[<<r, q>>] \in Nat
  BY <1>1, CountersAre DEF Shared
<1>3. QED
  BY <1>2 DEF Grows

\* Nothing is missed while the rows no counter shows stay what they are.
LEMMA QuietMisses ==
  ASSUME BenchTypeOK, NEW w, UNCHANGED uncounted
  PROVE  Misses(w, 0)
<1>1. uncounted \in [Queues -> Nat]
  BY BenchTypeIs DEF Stored
<1>2. QED
  BY <1>1 DEF Misses

\* The mismatch counter and w's mismatches stay in step when w adds none.
LEMMA QuietWrong ==
  ASSUME BenchTypeOK, BenchTypeOK', NEW w \in Worker, Alone(w), WrongInvariant,
         UNCHANGED counter, at[w] # "done", at'[w] = "done" => wrong'[w] = 0,
         at'[w] \in {"addWrong", "lockedWrong"} => n'[w] = wrong'[w],
         w \notin Consumer => wrong'[w] = 0
  PROVE  WrongInvariant'
<1>1. layout \in Layouts /\ Shared(Worker, Counters)
  BY BenchTypeIs
<1>2. \A q \in Queues : counter[<<"wrong", q>>] \in Nat
  BY <1>1, CountersAre DEF Shared
<1>3. ASSUME NEW q \in Queues
      PROVE  counter'[<<"wrong", q>>] = counter[<<"wrong", q>>] + (IF Mine(w, "con", q) THEN 0 ELSE 0)
  <2>1. counter[<<"wrong", q>>] \in Nat /\ (IF Mine(w, "con", q) THEN 0 ELSE 0) = 0
    BY <1>2
  <2>2. QED
    BY <2>1
<1>4. 0 \in Nat /\ 0 = IF at'[w] = "done" THEN wrong'[w] ELSE 0
  OBVIOUS
<1>5. QED
  BY <1>3, <1>4, WrongStep

\* The types before a step, in the form the proofs below use.
LEMMA Before ==
  ASSUME BenchTypeOK, NEW w \in Worker
  PROVE  /\ layout \in Layouts /\ queueOf[w] \in Queues
         /\ at \in [Worker -> At] /\ n \in [Worker -> Nat] /\ seen \in [Worker -> Nat]
         /\ local \in [Worker -> Nat] /\ wrong \in [Worker -> Nat]
         /\ Share(w) \in Nat /\ Stored(Queues, Rows)
         /\ \A q \in Queues : Count(backlog[q]) \in Nat
<1>1. layout \in Layouts /\ Places(Worker) /\ Numbers(Worker) /\ Stored(Queues, Rows)
  BY BenchTypeIs
<1>2. \A q \in Queues : Count(backlog[q]) \in Nat
  BY <1>1, CountPlus DEF Stored
<1>3. QED
  BY <1>1, <1>2, LayoutIs DEF Places, Numbers, Share

\* Queues still have natural numbers of rows after a step.
LEMMA BacklogAfter ==
  ASSUME BenchTypeOK, BenchTypeOK', UNCHANGED layout
  PROVE  \A q \in Queues : Count(backlog'[q]) \in Nat
<1>1. layout \in Layouts /\ backlog' \in [Queues -> Rows]
  BY SameLayout DEF BenchTypeOK
<1>2. QED
  BY <1>1, CountPlus

\* Steps that change neither counters, own counts nor queues.
LEMMA IdleKeeps ==
  ASSUME BenchTypeOK, BenchTypeOK', NEW w \in Worker, UNCHANGED layout, WorkInvariant,
         PrimeRetries(w) \/ PrimeRaises(w) \/ Finish(w)
  PROVE  WorkInvariant'
<1>0. /\ layout \in Layouts /\ queueOf[w] \in Queues
      /\ at \in [Worker -> At] /\ n \in [Worker -> Nat] /\ seen \in [Worker -> Nat]
      /\ local \in [Worker -> Nat] /\ wrong \in [Worker -> Nat]
      /\ Share(w) \in Nat /\ \A q \in Queues : Count(backlog[q]) \in Nat
  BY Before
<1>1. UNCHANGED <<counter, holder, local, wrong, seen, backlog, uncounted>>
  BY DEF PrimeRetries, PrimeRaises, Finish
<1>2. Alone(w)
  BY <1>0, <1>1 DEF PrimeRetries, PrimeRaises, Finish, Raise, Move, Alone
<1>3. /\ at[w] \in {"prime", "barrier", "loop"}
      /\ at'[w] \in {"prime", "raised", "done", "addWrong"}
      /\ at'[w] = "done" => wrong[w] = 0
      /\ at'[w] = "addWrong" => n'[w] = wrong[w]
      /\ at'[w] = "prime" => at[w] = "prime"
  BY <1>0 DEF PrimeRetries, PrimeRaises, Finish, Raise, Move
<1>4. LockInvariant'
  BY <1>1, <1>2, <1>3, QuietLock DEF WorkInvariant
<1>5. WrongInvariant'
  <2>1. w \notin Consumer => wrong'[w] = 0
    BY <1>1 DEF WorkInvariant, WrongInvariant
  <2>2. QED
    BY <1>1, <1>2, <1>3, <2>1, QuietWrong DEF WorkInvariant
<1>6. Grows(w, 0) /\ Misses(w, 0) /\ 0 \in Nat
  BY <1>1, QuietGrows, QuietMisses
<1>7. Share(w) = 0 /\ Share(w)' = 0
  BY <1>3 DEF Share, Busy
<1>8. CountersAgree'
  BY <1>0, <1>1, <1>2, <1>6, <1>7, AgreeStep DEF WorkInvariant
<1>9. BacklogInvariant'
  <2>1. \A q \in Queues : Count(backlog'[q]) <= Count(backlog[q])
    BY <1>0, <1>1
  <2>2. (IF at[w] # "prime" THEN 1 ELSE 0) <= (IF at'[w] # "prime" THEN 1 ELSE 0)
    BY <1>3
  <2>3. /\ Count(backlog'[queueOf[w]]) + Share(w) + (IF at[w] # "prime" THEN 1 ELSE 0)
             <= Count(backlog[queueOf[w]]) + 0 + 0 + Share(w)' + (IF at'[w] # "prime" THEN 1 ELSE 0)
        /\ Count(backlog'[queueOf[w]]) + 0 + Share(w)' <= Count(backlog[queueOf[w]]) + Share(w)
    BY <1>0, <1>1, <1>7, <2>2
  <2>4. QED
    BY <1>2, <1>6, <2>1, <2>3, BacklogStep DEF WorkInvariant
<1>10. QED
  BY <1>4, <1>5, <1>8, <1>9 DEF WorkInvariant

\* A call: what it posts is still to be added, its priming row or what it misses to
\* count, what it gets is still to be added, and the counters wait.
LEMMA CallStep ==
  ASSUME BenchTypeOK, BenchTypeOK', NEW w \in Worker, Alone(w), WorkInvariant,
         UNCHANGED <<counter, holder>>, NEW e \in Nat, Misses(w, e),
         at[w] \in {"prime", "loop", "retry"}, at'[w] \in {"barrier", "retry", "add", "done", "raised"},
         at'[w] = "done" => ~layout.timed,
         w \notin Consumer => wrong'[w] = wrong[w],
         layout.timed => local'[w] = local[w] + Share(w)',
         \A q \in Queues : q # queueOf[w] => Count(backlog'[q]) <= Count(backlog[q]),
         w \in Producer /\ layout.timed =>
           Count(backlog'[queueOf[w]])
             <= Count(backlog[queueOf[w]]) + e + Share(w)' + (IF at[w] = "prime" THEN 1 ELSE 0),
         w \notin Producer => Count(backlog'[queueOf[w]]) + Share(w)' <= Count(backlog[queueOf[w]])
  PROVE  WorkInvariant'
<1>0. /\ layout \in Layouts /\ queueOf[w] \in Queues /\ local \in [Worker -> Nat]
      /\ \A q \in Queues : Count(backlog[q]) \in Nat
  BY Before
<1>1. /\ Share(w) = 0 /\ Share(w)' \in Nat /\ local[w] \in Nat
      /\ Count(backlog'[queueOf[w]]) \in Nat
  <2>1. n' \in [Worker -> Nat]
    BY SameLayout DEF BenchTypeOK, Alone
  <2>2. QED
    BY <1>0, <2>1, BacklogAfter DEF Share, Busy, Alone
<1>2. LockInvariant'
  BY QuietLock DEF WorkInvariant
<1>3. WrongInvariant'
  <2>1. w \notin Consumer => wrong'[w] = 0
    BY DEF WorkInvariant, WrongInvariant
  <2>2. at'[w] = "done" => w \notin Consumer
    BY <1>0, LayoutIs, BenchAssumption
  <2>3. QED
    BY <2>1, <2>2, QuietWrong DEF WorkInvariant
<1>4. Grows(w, 0) /\ 0 \in Nat
  BY QuietGrows
<1>5. CountersAgree'
  <2>1. layout.timed => local'[w] + Share(w) = local[w] + 0 + Share(w)'
    BY <1>1
  <2>2. QED
    BY <1>4, <2>1, AgreeStep DEF WorkInvariant
<1>6. BacklogInvariant'
  <2>1. (IF at[w] # "prime" THEN 1 ELSE 0) + (IF at[w] = "prime" THEN 1 ELSE 0) = 1
        /\ (IF at[w] # "prime" THEN 1 ELSE 0) \in Nat /\ (IF at'[w] # "prime" THEN 1 ELSE 0) = 1
    OBVIOUS
  <2>2. layout.timed /\ w \in Producer =>
          Count(backlog'[queueOf[w]]) + Share(w) + (IF at[w] # "prime" THEN 1 ELSE 0)
            <= Count(backlog[queueOf[w]]) + 0 + e + Share(w)' + (IF at'[w] # "prime" THEN 1 ELSE 0)
    BY <1>0, <1>1, <2>1
  <2>3. layout.timed /\ w \notin Producer =>
          Count(backlog'[queueOf[w]]) + 0 + Share(w)' <= Count(backlog[queueOf[w]]) + Share(w)
    BY <1>0, <1>1
  <2>4. QED
    BY <1>4, <2>2, <2>3, BacklogStep DEF WorkInvariant
<1>7. QED
  BY <1>2, <1>3, <1>5, <1>6 DEF WorkInvariant

\* A worker's call keeps the invariant.
LEMMA CallKeeps ==
  ASSUME BenchTypeOK, BenchTypeOK', NEW w \in Worker, UNCHANGED layout, WorkInvariant,
         Prime(w) \/ Publish(w) \/ PublishOnce(w) \/ Consume(w)
           \/ PublishRetries(w) \/ CallRaises(w)
  PROVE  WorkInvariant'
<1>0. /\ layout \in Layouts /\ queueOf[w] \in Queues
      /\ at \in [Worker -> At] /\ n \in [Worker -> Nat] /\ seen \in [Worker -> Nat]
      /\ local \in [Worker -> Nat] /\ wrong \in [Worker -> Nat] /\ Stored(Queues, Rows)
      /\ \A q \in Queues : Count(backlog[q]) \in Nat
  BY Before
<1>1. \A q \in Queues : Count(backlog'[q]) \in Nat
  BY BacklogAfter
<1>2. UNCHANGED <<counter, holder>>
  BY DEF Prime, Publish, PublishOnce, Consume, PublishRetries, CallRaises, Fetched
<1>3. Alone(w)
  BY <1>0 DEF Prime, Publish, PublishOnce, Consume, PublishRetries, CallRaises, Attempts, Fetched,
     Raise, Move, Alone
<1>m. UNCHANGED uncounted => Misses(w, 0) /\ 0 \in Nat
  BY QuietMisses
<1>f. ASSUME NEW size \in Nat, NEW rows \in Filtered(w, size), Pull(w, rows)
      PROVE  /\ Count(rows) \in Nat
             /\ \A q \in Queues :
                  Count(backlog'[q]) + (IF q = queueOf[w] THEN Count(rows) ELSE 0) = Count(backlog[q])
  <2>1. rows \in Batches(size)
    BY DEF Filtered
  <2>2. rows \in Rows /\ Count(rows) \in Nat
    BY <1>0, <2>1, BatchIs
  <2>3. QED
    BY <1>0, <1>f, <2>2, PullIs
<1>g. ASSUME NEW size \in Nat, \E rows \in Filtered(w, size) : Pull(w, rows)
      PROVE  \A q \in Queues : Count(backlog'[q]) <= Count(backlog[q])
  <2>1. PICK rows \in Filtered(w, size) : Pull(w, rows)
    BY <1>g
  <2>2. QED
    BY <1>0, <1>1, <1>f, <2>1
<1>p. ASSUME NEW size \in Nat, PostSome(w, size)
      PROVE  /\ \A q \in Queues : q # queueOf[w] => Count(backlog'[q]) <= Count(backlog[q])
             /\ Count(backlog'[queueOf[w]]) <= Count(backlog[queueOf[w]]) + size
  <2>1. \A q \in Queues : Count(backlog'[q]) <= Count(backlog[q]) + (IF q = queueOf[w] THEN size ELSE 0)
    BY <1>0, <1>p, PostSomeIs
  <2>2. QED
    BY <1>0, <1>1, <2>1
<1>q. ASSUME NEW size \in Nat, NEW rows \in Batches(size), Post(w, rows), Lost(w, rows),
             at[w] \in {"loop", "retry"}, at'[w] \in {"retry", "raised"}, w \in Producer,
             UNCHANGED <<n, local, wrong>>
      PROVE  WorkInvariant'
  <2>1. /\ Count(rows) \in Nat /\ Misses(w, Count(rows))
        /\ \A q \in Queues :
             Count(backlog'[q]) = Count(backlog[q]) + (IF q = queueOf[w] THEN Count(rows) ELSE 0)
    BY <1>0, <1>q, LostIs
  <2>2. Share(w)' = 0 /\ local'[w] = local[w] + Share(w)'
    BY <1>0, <1>q DEF Share, Busy
  <2>3. /\ \A q \in Queues : q # queueOf[w] => Count(backlog'[q]) <= Count(backlog[q])
        /\ Count(backlog'[queueOf[w]])
             <= Count(backlog[queueOf[w]]) + Count(rows) + Share(w)' + (IF at[w] = "prime" THEN 1 ELSE 0)
    BY <1>0, <1>q, <2>1, <2>2
  <2>4. QED
    BY <1>2, <1>3, <1>q, <2>1, <2>2, <2>3, CallStep
<1>4. CASE Prime(w)
  <2>1. at[w] = "prime" /\ at'[w] = "barrier" /\ UNCHANGED <<n, local, wrong, uncounted>>
    BY <1>0, <1>4 DEF Prime, Move
  <2>2. Share(w)' = 0
    BY <2>1 DEF Share, Busy
  <2>3. CASE w \in Producer
    <3>1. /\ \A q \in Queues : q # queueOf[w] => Count(backlog'[q]) <= Count(backlog[q])
          /\ Count(backlog'[queueOf[w]]) <= Count(backlog[queueOf[w]]) + 1
      BY <1>4, <1>p, <2>3 DEF Prime
    <3>2. Count(backlog'[queueOf[w]])
            <= Count(backlog[queueOf[w]]) + 0 + Share(w)' + (IF at[w] = "prime" THEN 1 ELSE 0)
      BY <1>0, <2>1, <2>2, <3>1
    <3>3. local'[w] = local[w] + Share(w)'
      BY <1>0, <2>1, <2>2
    <3>4. QED
      BY <1>2, <1>3, <1>m, <2>1, <2>3, <3>1, <3>2, <3>3, CallStep
  <2>4. CASE w \notin Producer
    <3>1. \A q \in Queues : Count(backlog'[q]) <= Count(backlog[q])
      BY <1>0, <1>4, <1>g, <2>4, Numeric DEF Prime
    <3>2. Count(backlog'[queueOf[w]]) + Share(w)' <= Count(backlog[queueOf[w]])
      BY <1>0, <1>1, <2>2, <3>1
    <3>3. local'[w] = local[w] + Share(w)'
      BY <1>0, <2>1, <2>2
    <3>4. QED
      BY <1>2, <1>3, <1>m, <2>1, <2>4, <3>1, <3>2, <3>3, CallStep
  <2>5. QED
    BY <2>3, <2>4
<1>5. CASE Publish(w)
  <2>1. /\ at[w] \in {"loop", "retry"} /\ at'[w] = "add" /\ w \in Producer
        /\ UNCHANGED <<wrong, uncounted>>
        /\ n'[w] = BatchRows /\ local'[w] = local[w] + BatchRows
    BY <1>0, <1>5 DEF Publish, Attempts, Fetched, Move
  <2>2. Share(w)' = BatchRows
    BY <2>1 DEF Share, Busy
  <2>3. /\ \A q \in Queues : q # queueOf[w] => Count(backlog'[q]) <= Count(backlog[q])
        /\ Count(backlog'[queueOf[w]]) <= Count(backlog[queueOf[w]]) + BatchRows
    BY <1>0, <1>5, <1>p, Numeric DEF Publish
  <2>4. Count(backlog'[queueOf[w]])
          <= Count(backlog[queueOf[w]]) + 0 + Share(w)' + (IF at[w] = "prime" THEN 1 ELSE 0)
    BY <1>0, <2>1, <2>2, <2>3, Numeric
  <2>5. QED
    BY <1>2, <1>3, <1>m, <2>1, <2>2, <2>3, <2>4, CallStep
<1>6. CASE PublishOnce(w)
  <2>1. at[w] = "loop" /\ at'[w] = "done" /\ UNCHANGED <<wrong, uncounted>> /\ ~layout.timed
    BY <1>0, <1>6 DEF PublishOnce, Move
  <2>2. w \in Producer
    BY <1>0, <2>1, LayoutIs
  <2>3. \A q \in Queues : q # queueOf[w] => Count(backlog'[q]) <= Count(backlog[q])
    BY <1>0, <1>6, <1>p, Numeric DEF PublishOnce
  <2>4. QED
    BY <1>2, <1>3, <1>m, <2>1, <2>2, <2>3, CallStep
<1>7. CASE Consume(w)
  <2>1. PICK rows \in Filtered(w, ConsumeBatch) : Pull(w, rows) /\ Fetched(w, Count(rows))
    BY <1>7 DEF Consume
  <2>2. /\ at[w] = "loop" /\ at'[w] = "add" /\ w \in Consumer
        /\ n'[w] = Count(rows) /\ local'[w] = local[w] + Count(rows) /\ UNCHANGED uncounted
    BY <1>0, <1>7, <2>1 DEF Consume, Fetched, Move
  <2>3. Share(w)' = Count(rows) /\ w \notin Producer
    BY <2>2, BenchAssumption DEF Share, Busy
  <2>4. /\ Count(rows) \in Nat
        /\ \A q \in Queues :
             Count(backlog'[q]) + (IF q = queueOf[w] THEN Count(rows) ELSE 0) = Count(backlog[q])
    BY <1>0, <1>f, <2>1, Numeric
  <2>5. /\ \A q \in Queues : q # queueOf[w] => Count(backlog'[q]) <= Count(backlog[q])
        /\ Count(backlog'[queueOf[w]]) + Share(w)' <= Count(backlog[queueOf[w]])
    BY <1>0, <1>1, <2>3, <2>4
  <2>6. QED
    BY <1>2, <1>3, <1>m, <2>2, <2>3, <2>5, CallStep
<1>8. CASE PublishRetries(w)
  <2>1. /\ at[w] \in {"loop", "retry"} /\ at'[w] = "retry" /\ w \in Producer
        /\ UNCHANGED <<n, local, wrong>>
    BY <1>0, <1>8 DEF PublishRetries, Attempts, Move
  <2>2. PICK rows \in Batches(BatchRows - 1) : Post(w, rows) /\ Lost(w, rows)
    BY <1>8 DEF PublishRetries
  <2>3. QED
    BY <1>0, <1>q, <2>1, <2>2, Numeric
<1>9. CASE CallRaises(w)
  <2>1. at[w] \in {"loop", "retry"} /\ at'[w] = "raised" /\ UNCHANGED <<n, local, wrong>>
    BY <1>0, <1>9 DEF CallRaises, Raise, Move
  <2>2. Share(w)' = 0 /\ local'[w] = local[w] + Share(w)'
    BY <1>0, <2>1 DEF Share, Busy
  <2>3. CASE w \in Producer
    <3>1. PICK rows \in Batches(BatchRows) : Post(w, rows) /\ Lost(w, rows)
      BY <1>9, <2>3, BenchAssumption DEF CallRaises
    <3>2. QED
      BY <1>0, <1>q, <2>1, <2>3, <3>1, Numeric
  <2>4. CASE w \notin Producer
    <3>1. UNCHANGED uncounted /\ \A q \in Queues : Count(backlog'[q]) <= Count(backlog[q])
      BY <1>0, <1>9, <1>g, <2>4, Numeric DEF CallRaises
    <3>2. Count(backlog'[queueOf[w]]) + Share(w)' <= Count(backlog[queueOf[w]])
      BY <1>0, <1>1, <2>2, <3>1
    <3>3. QED
      BY <1>2, <1>3, <1>m, <2>1, <2>2, <2>4, <3>1, <3>2, CallStep
  <2>5. QED
    BY <2>3, <2>4
<1>10. QED
  BY <1>4, <1>5, <1>6, <1>7, <1>8, <1>9

\* A worker's own group is given by its role and its queue.
LEMMA MineIs ==
  ASSUME NEW w \in Worker, NEW r, NEW q
  PROVE  Mine(w, r, q) <=> Role(w) = r /\ queueOf[w] = q
BY DEF Mine, Of

\* The lock is taken from nobody.
LEMMA LockKeeps ==
  ASSUME BenchTypeOK, BenchTypeOK', NEW w \in Worker, UNCHANGED layout, WorkInvariant, Lock(w)
  PROVE  WorkInvariant'
<1>0. /\ layout \in Layouts /\ queueOf[w] \in Queues
      /\ at \in [Worker -> At] /\ n \in [Worker -> Nat] /\ seen \in [Worker -> Nat]
      /\ local \in [Worker -> Nat] /\ wrong \in [Worker -> Nat]
      /\ Share(w) \in Nat /\ \A q \in Queues : Count(backlog[q]) \in Nat
  BY Before
<1>1. /\ UNCHANGED <<n, local, wrong, counter, backlog, uncounted>>
      /\ holder[Counter(w)] = Nobody
      /\ holder' = [holder EXCEPT ![Counter(w)] = w]
      /\ seen' = [seen EXCEPT ![w] = counter[Counter(w)]]
  BY DEF Lock
<1>2. Alone(w)
  BY <1>0, <1>1 DEF Lock, Move, Alone
<1>3. \/ at[w] = "add" /\ at'[w] = "locked"
      \/ at[w] = "addWrong" /\ at'[w] = "lockedWrong"
  BY <1>0 DEF Lock, Move
<1>c. Counter(w)' = Counter(w) /\ Counter(w) \in Counters /\ holder \in [Counters -> Worker \cup {Nobody}]
  <2>1. queueOf' = queueOf
    BY SameLayout
  <2>2. Shared(Worker, Counters)
    BY BenchTypeIs
  <2>3. QED
    BY <1>0, <1>3, <2>1, <2>2, CountersAre DEF Counter, Shared
<1>4. LockInvariant'
  <2>1. holder'[Counter(w)'] = w /\ seen'[w] = counter'[Counter(w)']
    BY <1>0, <1>1, <1>c
  <2>2. ASSUME NEW v \in Worker \ {w}, at[v] \in {"locked", "lockedWrong"}
        PROVE  holder'[Counter(v)] = holder[Counter(v)] /\ counter'[Counter(v)] = counter[Counter(v)]
    <3>1. holder[Counter(v)] = v
      BY <2>2 DEF WorkInvariant, LockInvariant
    <3>2. v # Nobody
      BY <1>0, LayoutIs, BenchAssumption
    <3>3. QED
      BY <1>1, <1>c, <3>1, <3>2
  <2>3. QED
    BY <1>2, <2>1, <2>2, LockStep DEF WorkInvariant
<1>5. WrongInvariant'
  <2>1. /\ w \notin Consumer => wrong'[w] = 0
        /\ at'[w] \in {"addWrong", "lockedWrong"} => n'[w] = wrong'[w]
    BY <1>1, <1>3 DEF WorkInvariant, WrongInvariant
  <2>2. QED
    BY <1>1, <1>2, <1>3, <2>1, QuietWrong DEF WorkInvariant
<1>6. Grows(w, 0) /\ Misses(w, 0) /\ 0 \in Nat
  BY <1>1, QuietGrows, QuietMisses
<1>7. Share(w)' = Share(w)
  BY <1>1, <1>3 DEF Share, Busy
<1>8. CountersAgree'
  <2>1. local'[w] + Share(w) = local[w] + 0 + Share(w)'
    BY <1>0, <1>1, <1>7
  <2>2. QED
    BY <1>2, <1>6, <2>1, AgreeStep DEF WorkInvariant
<1>9. BacklogInvariant'
  <2>1. \A q \in Queues : Count(backlog'[q]) <= Count(backlog[q])
    BY <1>0, <1>1
  <2>2. (IF at[w] # "prime" THEN 1 ELSE 0) = 1 /\ (IF at'[w] # "prime" THEN 1 ELSE 0) = 1
    BY <1>3
  <2>3. /\ Count(backlog'[queueOf[w]]) + Share(w) + (IF at[w] # "prime" THEN 1 ELSE 0)
             <= Count(backlog[queueOf[w]]) + 0 + 0 + Share(w)' + (IF at'[w] # "prime" THEN 1 ELSE 0)
        /\ Count(backlog'[queueOf[w]]) + 0 + Share(w)' <= Count(backlog[queueOf[w]]) + Share(w)
    BY <1>0, <1>1, <1>7, <2>2
  <2>4. QED
    BY <1>2, <1>6, <2>1, <2>3, BacklogStep DEF WorkInvariant
<1>10. QED
  BY <1>4, <1>5, <1>8, <1>9 DEF WorkInvariant

\* Read and write under the lock are one addition.
LEMMA AddIs ==
  ASSUME BenchTypeOK, NEW w \in Worker, UNCHANGED layout, LockInvariant, WrongInvariant, Add(w)
  PROVE  /\ Grows(w, IF at[w] = "locked" THEN n[w] ELSE 0)
         /\ \A q \in Queues : counter'[<<"wrong", q>>] = counter[<<"wrong", q>>] +
              (IF Mine(w, "con", q) THEN (IF at[w] = "lockedWrong" THEN n[w] ELSE 0) ELSE 0)
<1>0. /\ layout \in Layouts /\ queueOf[w] \in Queues /\ n \in [Worker -> Nat] /\ at \in [Worker -> At]
  BY Before
<1>1. /\ at[w] \in {"locked", "lockedWrong"}
      /\ counter' = [counter EXCEPT ![Counter(w)] = counter[Counter(w)] + n[w]]
  BY DEF Add, Move, LockInvariant
<1>2. Counter(w) \in Counters /\ counter \in [Counters -> Nat]
      /\ \A r \in {"pub", "con", "wrong"}, q \in Queues : <<r, q>> \in Counters
  BY <1>0, CountersAre, BenchTypeIs DEF Shared
<1>3. \A r \in {"pub", "con", "wrong"}, q \in Queues : counter[<<r, q>>] \in Nat
  BY <1>2
<1>4. CASE at[w] = "locked"
  <2>1. Counter(w) = <<Role(w), queueOf[w]>> /\ Role(w) \in {"pub", "con"}
    BY <1>4 DEF Counter, Role
  <2>2. ASSUME NEW r \in {"pub", "con", "wrong"}, NEW q \in Queues
        PROVE  counter'[<<r, q>>] = counter[<<r, q>>] + (IF Mine(w, r, q) THEN n[w] ELSE 0)
    <3>1. <<r, q>> = Counter(w) <=> Mine(w, r, q)
      BY <2>1, MineIs
    <3>2. <<r, q>> \in Counters
      BY <1>2
    <3>3. CASE Mine(w, r, q)
      BY <1>1, <1>2, <3>1, <3>2, <3>3
    <3>4. CASE ~Mine(w, r, q)
      BY <1>1, <1>2, <3>1, <3>2, <3>4
    <3>5. QED
      BY <3>3, <3>4
  <2>3. ASSUME NEW q \in Queues
        PROVE  counter'[<<"wrong", q>>] = counter[<<"wrong", q>>]
    <3>1. <<"wrong", q>> # Counter(w)
      BY <2>1
    <3>2. QED
      BY <1>1, <1>2, <3>1
  <2>4. Grows(w, n[w])
    BY <2>2 DEF Grows
  <2>5. QED
    BY <1>3, <1>4, <2>3, <2>4
<1>5. CASE at[w] = "lockedWrong"
  <2>1. Counter(w) = <<"wrong", queueOf[w]>>
    BY <1>5 DEF Counter
  <2>2. ASSUME NEW r \in {"pub", "con"}, NEW q \in Queues
        PROVE  counter'[<<r, q>>] = counter[<<r, q>>] + (IF Mine(w, r, q) THEN 0 ELSE 0)
    <3>1. <<r, q>> # Counter(w)
      BY <2>1
    <3>2. counter[<<r, q>>] \in Nat /\ (IF Mine(w, r, q) THEN 0 ELSE 0) = 0
      BY <1>3
    <3>3. QED
      BY <1>1, <1>2, <3>1, <3>2
  <2>3. Grows(w, 0)
    BY <2>2 DEF Grows
  <2>4. ASSUME NEW q \in Queues
        PROVE  counter'[<<"wrong", q>>]
                 = counter[<<"wrong", q>>] + (IF Mine(w, "con", q) THEN n[w] ELSE 0)
    <3>1. w \in Producer => n[w] = 0
      BY <1>5, BenchAssumption DEF WrongInvariant
    <3>2. Mine(w, "con", q) <=> w \notin Producer /\ queueOf[w] = q
      BY MineIs DEF Role
    <3>3. CASE queueOf[w] = q
      <4>1. counter'[<<"wrong", q>>] = counter[<<"wrong", q>>] + n[w]
        BY <1>1, <1>2, <2>1, <3>3
      <4>2. QED
        BY <1>0, <3>1, <3>2, <3>3, <4>1
    <3>4. CASE queueOf[w] # q
      <4>1. <<"wrong", q>> # Counter(w) /\ <<"wrong", q>> \in Counters
        BY <1>2, <2>1, <3>4
      <4>2. counter'[<<"wrong", q>>] = counter[<<"wrong", q>>] /\ counter[<<"wrong", q>>] \in Nat
        BY <1>1, <1>2, <4>1
      <4>3. QED
        BY <3>2, <3>4, <4>2
    <3>5. QED
      BY <3>3, <3>4
  <2>5. QED
    BY <1>5, <2>3, <2>4
<1>6. QED
  BY <1>1, <1>4, <1>5

\* Adding under the lock keeps the invariant: what was read is still there.
LEMMA AddKeeps ==
  ASSUME BenchTypeOK, BenchTypeOK', NEW w \in Worker, UNCHANGED layout, WorkInvariant, Add(w)
  PROVE  WorkInvariant'
<1>0. /\ layout \in Layouts /\ queueOf[w] \in Queues
      /\ at \in [Worker -> At] /\ n \in [Worker -> Nat] /\ seen \in [Worker -> Nat]
      /\ local \in [Worker -> Nat] /\ wrong \in [Worker -> Nat]
      /\ Share(w) \in Nat /\ \A q \in Queues : Count(backlog[q]) \in Nat
  BY Before
<1>1. /\ UNCHANGED <<local, wrong, backlog, uncounted>>
      /\ counter' = [counter EXCEPT ![Counter(w)] = seen[w] + n[w]]
      /\ holder' = [holder EXCEPT ![Counter(w)] = Nobody]
  BY DEF Add
<1>2. Alone(w)
  BY <1>0, <1>1 DEF Add, Move, Alone
<1>3. \/ at[w] = "locked" /\ at'[w] = "loop"
      \/ at[w] = "lockedWrong" /\ at'[w] = "done"
  BY <1>0 DEF Add, Move
<1> DEFINE k == IF at[w] = "locked" THEN n[w] ELSE 0
           j == IF at[w] = "lockedWrong" THEN n[w] ELSE 0
<1>k. k \in Nat /\ j \in Nat
  BY <1>0
<1>a. /\ Grows(w, k)
      /\ \A q \in Queues : counter'[<<"wrong", q>>]
                             = counter[<<"wrong", q>>] + (IF Mine(w, "con", q) THEN j ELSE 0)
  BY AddIs DEF WorkInvariant
<1>s. Share(w) = k /\ Share(w)' = 0
  BY <1>3 DEF Share, Busy
<1>4. LockInvariant'
  <2>1. ASSUME NEW v \in Worker \ {w}, at[v] \in {"locked", "lockedWrong"}
        PROVE  holder'[Counter(v)] = holder[Counter(v)] /\ counter'[Counter(v)] = counter[Counter(v)]
    <3>1. holder[Counter(v)] = v /\ holder[Counter(w)] = w
      BY <1>3, <2>1 DEF WorkInvariant, LockInvariant
    <3>2. Counter(v) # Counter(w) /\ Counter(v) \in Counters
      BY <1>0, <2>1, <3>1, CountersAre
    <3>3. holder \in [Counters -> Worker \cup {Nobody}] /\ counter \in [Counters -> Nat]
      BY BenchTypeIs DEF Shared
    <3>4. QED
      BY <1>1, <3>2, <3>3
  <2>2. at'[w] \notin {"locked", "lockedWrong"}
    BY <1>3
  <2>3. QED
    BY <1>2, <2>1, <2>2, LockStep DEF WorkInvariant
<1>5. WrongInvariant'
  <2>1. /\ w \notin Consumer => wrong'[w] = 0
        /\ at[w] = "lockedWrong" => n[w] = wrong[w]
    BY <1>1 DEF WorkInvariant, WrongInvariant
  <2>2. j = (IF at'[w] = "done" THEN wrong'[w] ELSE 0)
    BY <1>1, <1>3, <2>1
  <2>3. at[w] # "done" /\ at'[w] \notin {"addWrong", "lockedWrong"}
    BY <1>3
  <2> HIDE DEF j
  <2>4. QED
    BY <1>2, <1>k, <1>a, <2>1, <2>2, <2>3, WrongStep DEF WorkInvariant
<1> HIDE DEF k, j
<1>6. CountersAgree'
  <2>1. local'[w] + Share(w) = local[w] + k + Share(w)'
    BY <1>0, <1>1, <1>k, <1>s
  <2>2. QED
    BY <1>2, <1>k, <1>a, <2>1, AgreeStep DEF WorkInvariant
<1>7. BacklogInvariant'
  <2>0. Misses(w, 0) /\ 0 \in Nat
    BY <1>1, QuietMisses
  <2>1. \A q \in Queues : Count(backlog'[q]) <= Count(backlog[q])
    BY <1>0, <1>1
  <2>2. (IF at[w] # "prime" THEN 1 ELSE 0) = 1 /\ (IF at'[w] # "prime" THEN 1 ELSE 0) = 1
    BY <1>3
  <2>3. /\ Count(backlog'[queueOf[w]]) + Share(w) + (IF at[w] # "prime" THEN 1 ELSE 0)
             <= Count(backlog[queueOf[w]]) + k + 0 + Share(w)' + (IF at'[w] # "prime" THEN 1 ELSE 0)
        /\ Count(backlog'[queueOf[w]]) + k + Share(w)' <= Count(backlog[queueOf[w]]) + Share(w)
    BY <1>0, <1>1, <1>k, <1>s, <2>2
  <2>4. QED
    BY <1>2, <1>k, <1>a, <2>0, <2>1, <2>3, BacklogStep DEF WorkInvariant
<1>8. QED
  BY <1>4, <1>5, <1>6, <1>7 DEF WorkInvariant

\* The barrier opens: nobody was adding, and nobody is.
LEMMA ReleaseKeeps ==
  ASSUME BenchTypeOK, BenchTypeOK', UNCHANGED layout, WorkInvariant, Release
  PROVE  WorkInvariant'
<1>l. /\ queueOf' = queueOf /\ Worker' = Worker /\ Queues' = Queues
      /\ \A r, q : Of(r, q)' = Of(r, q)
  BY SameLayout
<1>1. /\ \A w \in Worker : at[w] = "barrier" /\ at'[w] = "loop"
      /\ UNCHANGED <<n, local, wrong, seen, counter, holder, backlog, uncounted>>
  BY DEF Release
<1>2. \A r, q : Of(r, q) \subseteq Worker
  BY DEF Of
<1>3. LockInvariant'
  BY <1>l, <1>1 DEF LockInvariant
<1>4. ASSUME NEW r, NEW q
      PROVE  Adding(Of(r, q))' = Adding(Of(r, q)) /\ Tallied(q)' = Tallied(q) /\ Primed(q)' = Primed(q)
  BY <1>l, <1>1, <1>2 DEF Adding, Tallied, Primed
<1>5. WrongInvariant'
  <2>1. ASSUME NEW q \in Queues
        PROVE  counter'[<<"wrong", q>>] = SumFunctionOnSet(wrong', Tallied(q)')
    BY <1>1, <1>4 DEF WorkInvariant, WrongInvariant, Tallied
  <2>2. QED
    BY <1>l, <1>1, <2>1 DEF WorkInvariant, WrongInvariant, Tallied
<1>6. CountersAgree'
  <2> SUFFICES ASSUME layout.timed, NEW r \in {"pub", "con"}, NEW q \in Queues
               PROVE  SumFunctionOnSet(local', Of(r, q)')
                        = counter'[<<r, q>>] + SumFunctionOnSet(n', Adding(Of(r, q))')
    BY <1>l DEF CountersAgree
  <2>1. SumFunctionOnSet(local, Of(r, q)) = counter[<<r, q>>] + SumFunctionOnSet(n, Adding(Of(r, q)))
    BY DEF WorkInvariant, CountersAgree
  <2>2. QED
    BY <1>l, <1>1, <1>4, <2>1
<1>7. BacklogInvariant'
  <2> SUFFICES ASSUME NEW q \in Queues, layout.timed
               PROVE  Count(backlog'[q]) + counter'[<<"con", q>>]
                         + SumFunctionOnSet(n', Adding(Of("con", q))')
                        <= counter'[<<"pub", q>>] + SumFunctionOnSet(n', Adding(Of("pub", q))')
                             + Cardinality(Primed(q)') + uncounted'[q]
    BY <1>l DEF BacklogInvariant, Primed, Count
  <2>1. Count(backlog[q]) + counter[<<"con", q>>] + SumFunctionOnSet(n, Adding(Of("con", q)))
          <= counter[<<"pub", q>>] + SumFunctionOnSet(n, Adding(Of("pub", q)))
               + Cardinality(Primed(q)) + uncounted[q]
    BY DEF WorkInvariant, BacklogInvariant, Primed
  <2>2. QED
    BY <1>1, <1>4, <2>1
<1>8. QED
  BY <1>3, <1>5, <1>6, <1>7 DEF WorkInvariant

\* Main, monitor and clock leave the workers' part alone.
LEMMA OthersKeep ==
  ASSUME WorkInvariant, UNCHANGED <<layout, workerVars>>
  PROVE  WorkInvariant'
<1>1. UNCHANGED <<layout, at, n, seen, local, wrong, counter, holder, backlog, uncounted>>
  BY DEF workerVars
<1>2. /\ queueOf' = queueOf /\ Worker' = Worker /\ Queues' = Queues
      /\ \A r, q : Of(r, q)' = Of(r, q)
  BY <1>1, SameLayout
<1>3. LockInvariant'
  BY <1>1, <1>2 DEF WorkInvariant, LockInvariant, Counter
<1>4. WrongInvariant'
  BY <1>1, <1>2 DEF WorkInvariant, WrongInvariant
<1>5. CountersAgree'
  BY <1>1, <1>2 DEF WorkInvariant, CountersAgree, Adding
<1>6. BacklogInvariant'
  BY <1>1, <1>2 DEF WorkInvariant, BacklogInvariant, Adding, Count
<1>7. QED
  BY <1>3, <1>4, <1>5, <1>6 DEF WorkInvariant

\* A worker's step in whole.
LEMMA WorkerKeeps ==
  ASSUME BenchTypeOK, BenchTypeOK', UNCHANGED layout, WorkInvariant,
         (\E w \in Worker : Step(w) \/ Fault(w)) \/ Release
  PROVE  WorkInvariant'
<1>1. ASSUME NEW w \in Worker, Step(w) \/ Fault(w)
      PROVE  WorkInvariant'
  BY <1>1, IdleKeeps, CallKeeps, LockKeeps, AddKeeps DEF Step, Fault
<1>2. QED
  BY <1>1, ReleaseKeeps

\* Counters never shrink, and a worker that is done stays done.
LEMMA Monotone ==
  ASSUME BenchTypeOK, UNCHANGED layout, LockInvariant, WrongInvariant,
         (\E w \in Worker : Step(w) \/ Fault(w)) \/ Release
  PROVE  /\ \A q \in Queues : counter[<<"pub", q>>] <= counter'[<<"pub", q>>]
         /\ \E w \in Worker : at[w] # "done"
<1>0. layout \in Layouts /\ Shared(Worker, Counters) /\ Worker # {}
  BY BenchTypeIs, LayoutIs
<1>1. \A q \in Queues : counter[<<"pub", q>>] \in Nat
  BY <1>0, CountersAre DEF Shared
<1>2. ASSUME NEW w \in Worker, NEW k \in Nat, Grows(w, k)
      PROVE  \A q \in Queues : counter[<<"pub", q>>] <= counter'[<<"pub", q>>]
  <2> SUFFICES ASSUME NEW q \in Queues
               PROVE  counter[<<"pub", q>>] <= counter'[<<"pub", q>>]
    OBVIOUS
  <2>1. counter'[<<"pub", q>>] = counter[<<"pub", q>>] + (IF Mine(w, "pub", q) THEN k ELSE 0)
    BY <1>2 DEF Grows
  <2>2. counter[<<"pub", q>>] \in Nat /\ (IF Mine(w, "pub", q) THEN k ELSE 0) \in Nat
    BY <1>1
  <2>3. QED
    BY <2>1, <2>2
<1>3. ASSUME NEW w \in Worker, Add(w)
      PROVE  /\ \A q \in Queues : counter[<<"pub", q>>] <= counter'[<<"pub", q>>]
             /\ at[w] # "done"
  <2>1. (IF at[w] = "locked" THEN n[w] ELSE 0) \in Nat
    BY Before
  <2>2. Grows(w, IF at[w] = "locked" THEN n[w] ELSE 0)
    BY <1>3, AddIs
  <2>3. at[w] # "done"
    BY <1>3 DEF Add, Move
  <2>4. QED
    BY <1>2, <2>1, <2>2, <2>3
<1>4. ASSUME NEW w \in Worker, (Step(w) /\ ~Add(w)) \/ Fault(w)
      PROVE  UNCHANGED counter /\ at[w] # "done"
  BY <1>4 DEF Step, Fault, Prime, Publish, PublishOnce, Consume, Lock, Finish, PrimeRetries,
     PrimeRaises, PublishRetries, CallRaises, Attempts, Raise, Move, Fetched
<1>5. CASE Release
  BY <1>0, <1>1, <1>5 DEF Release
<1>6. QED
  BY <1>1, <1>3, <1>4, <1>5

(***************************************************************************)
(* Types and invariant together                                            *)
(***************************************************************************)
LEMMA BenchTypeStep ==
  ASSUME BenchTypeOK, [BenchNext]_benchVars
  PROVE  BenchTypeOK'
<1>0. /\ layout \in Layouts /\ Places(Worker) /\ Numbers(Worker) /\ Shared(Worker, Counters)
      /\ Stored(Queues, Rows) /\ Others(Queues)
  BY BenchTypeIs
<1>1. UNCHANGED layout
  BY DEF BenchNext, benchVars
<1>l. /\ Worker' = Worker /\ Queues' = Queues /\ Rows' = Rows /\ Counters' = Counters
  BY <1>1, SameLayout
<1>2. ASSUME /\ Places(Worker)' /\ Numbers(Worker)' /\ Shared(Worker, Counters)'
             /\ Stored(Queues, Rows)' /\ Others(Queues)'
      PROVE  BenchTypeOK'
  BY <1>0, <1>1, <1>2 DEF BenchTypeOK, Places, Numbers, Shared, Stored, Others, At
<1>3. ASSUME UNCHANGED workerVars
      PROVE  /\ Places(Worker)' /\ Numbers(Worker)' /\ Shared(Worker, Counters)'
             /\ Stored(Queues, Rows)'
  BY <1>0, <1>3, <1>l DEF workerVars, Places, Numbers, Shared, Stored
<1>4. ASSUME UNCHANGED <<clock, monitorVars, main>>
      PROVE  Others(Queues)'
  BY <1>0, <1>4, <1>l DEF monitorVars, Others
<1>5. CASE /\ (\E w \in Worker : Step(w) \/ Fault(w)) \/ Release
           /\ UNCHANGED <<layout, clock, monitorVars, main>>
  <2>1. ASSUME NEW w \in Worker, Step(w) \/ Fault(w) \/ Release
        PROVE  /\ Places(Worker)' /\ Numbers(Worker)' /\ Shared(Worker, Counters)'
               /\ Stored(Queues, Rows)'
    BY <1>1, <2>1, CallTyped, QuietTyped DEF Step, Fault
  <2>2. Worker # {}
    BY <1>0, LayoutIs
  <2>3. QED
    BY <1>2, <1>4, <1>5, <2>1, <2>2
<1>6. CASE MonitorStep /\ UNCHANGED <<layout, workerVars, clock, main>>
  <2>1. 1 \in Queues
    BY <1>0, LayoutIs
  <2>2. ASSUME NEW q \in Queues
        PROVE  counter[<<"pub", q>>] \in Nat /\ counter[<<"con", q>>] \in Nat
    BY <1>0, CountersAre DEF Shared
  <2>3. ReadOrder[1] = "pub" /\ ReadOrder[2] = "con"
    BY DEF ReadOrder
  <2>4. Others(Queues)'
    <3>1. CASE WakeUp \/ StopSampling
      BY <1>0, <1>6, <1>l, <3>1 DEF WakeUp, StopSampling, Others
    <3>2. CASE ReadFirst
      BY <1>0, <1>6, <1>l, <2>2, <2>3, <3>2 DEF ReadFirst, Others
    <3>3. CASE ReadSecond
      BY <1>0, <1>6, <1>l, <2>1, <3>3 DEF ReadSecond, Others
    <3>4. QED
      BY <1>6, <3>1, <3>2, <3>3 DEF MonitorStep
  <2>5. QED
    BY <1>2, <1>3, <1>6, <2>4
<1>7. CASE Tick /\ UNCHANGED <<layout, workerVars, monitorVars, main>>
  <2>1. Others(Queues)'
    BY <1>0, <1>7, <1>l DEF Tick, monitorVars, Others
  <2>2. QED
    BY <1>2, <1>3, <1>7, <2>1
<1>8. CASE (Join \/ Collect) /\ UNCHANGED <<layout, workerVars, clock, monitorVars>>
  <2>1. Others(Queues)'
    BY <1>0, <1>8, <1>l DEF Join, Collect, monitorVars, Others
  <2>2. QED
    BY <1>2, <1>3, <1>8, <2>1
<1>9. CASE UNCHANGED benchVars
  BY <1>2, <1>3, <1>4, <1>9 DEF benchVars
<1>10. QED
  BY <1>5, <1>6, <1>7, <1>8, <1>9 DEF BenchNext

\* The invariant is inductive.
LEMMA BenchStep ==
  ASSUME BenchTypeOK, BenchIInv, [BenchNext]_benchVars
  PROVE  BenchIInv'
<1>t. BenchTypeOK'
  BY BenchTypeStep
<1>0. layout \in Layouts /\ Others(Queues)
  BY BenchTypeIs
<1>1. UNCHANGED layout
  BY DEF BenchNext, benchVars
<1>l. Worker' = Worker /\ Queues' = Queues
  BY <1>1, SameLayout
<1>w. WorkInvariant
  BY DEF BenchIInv, WorkInvariant
<1>i. index \in Queues
  BY <1>0 DEF Others
<1>2. ASSUME WorkInvariant',
             monitor' = "second" => first' <= counter'[<<"pub", index'>>],
             main' = "report" => \A w \in Worker : at'[w] = "done"
      PROVE  BenchIInv'
  BY <1>2, <1>l DEF BenchIInv, WorkInvariant
<1>3. CASE /\ (\E w \in Worker : Step(w) \/ Fault(w)) \/ Release
           /\ UNCHANGED <<layout, clock, monitorVars, main>>
  <2>1. WorkInvariant'
    BY <1>t, <1>w, <1>1, <1>3, WorkerKeeps
  <2>2. /\ counter[<<"pub", index>>] <= counter'[<<"pub", index>>]
        /\ \E w \in Worker : at[w] # "done"
    BY <1>w, <1>i, <1>1, <1>3, Monotone DEF WorkInvariant
  <2>3. monitor' = monitor /\ index' = index /\ first' = first /\ main' = main
    BY <1>3 DEF monitorVars
  <2>4. first \in Nat /\ counter[<<"pub", index>>] \in Nat /\ counter'[<<"pub", index>>] \in Nat
    <3>1. Shared(Worker, Counters) /\ counter' \in [Counters' -> Nat] /\ Counters' = Counters
      BY <1>t, <1>1, BenchTypeIs, SameLayout DEF BenchTypeOK
    <3>2. QED
      BY <1>0, <1>i, <3>1, CountersAre DEF Shared, Others
  <2>5. monitor' = "second" => first' <= counter'[<<"pub", index'>>]
    BY <2>2, <2>3, <2>4 DEF BenchIInv
  <2>6. main' # "report"
    BY <2>2, <2>3 DEF BenchIInv
  <2>7. QED
    BY <1>2, <2>1, <2>5, <2>6
<1>4. CASE MonitorStep /\ UNCHANGED <<layout, workerVars, clock, main>>
  <2>1. WorkInvariant' /\ counter' = counter /\ at' = at /\ main' = main
    BY <1>w, <1>4, OthersKeep DEF workerVars
  <2>2. counter[<<"pub", index>>] \in Nat
    BY <1>0, <1>i, CountersAre, BenchTypeIs DEF Shared
  <2>3. monitor' = "second" => first' <= counter'[<<"pub", index'>>]
    BY <1>4, <2>1, <2>2 DEF MonitorStep, WakeUp, ReadFirst, ReadSecond, StopSampling, ReadOrder, BenchIInv
  <2>4. QED
    BY <1>2, <2>1, <2>3 DEF BenchIInv
<1>5. CASE Tick /\ UNCHANGED <<layout, workerVars, monitorVars, main>>
  <2>1. WorkInvariant'
    BY <1>w, <1>5, OthersKeep
  <2>2. QED
    BY <1>2, <1>5, <2>1 DEF workerVars, monitorVars, BenchIInv
<1>6. CASE (Join \/ Collect) /\ UNCHANGED <<layout, workerVars, clock, monitorVars>>
  <2>1. WorkInvariant'
    BY <1>w, <1>6, OthersKeep
  <2>2. main' = "report" => \A w \in Worker : at[w] = "done"
    BY <1>6 DEF Join, Collect
  <2>3. QED
    BY <1>2, <1>6, <2>1, <2>2 DEF workerVars, monitorVars, BenchIInv
<1>7. CASE UNCHANGED benchVars
  <2>1. WorkInvariant'
    BY <1>w, <1>7, OthersKeep DEF benchVars
  <2>2. QED
    BY <1>2, <1>7, <2>1 DEF benchVars, workerVars, monitorVars, BenchIInv
<1>8. QED
  BY <1>3, <1>4, <1>5, <1>6, <1>7 DEF BenchNext

\* It holds when the workers start.
LEMMA BenchStart ==
  ASSUME BenchInit
  PROVE  BenchTypeOK /\ BenchIInv
<1>0. layout \in Layouts /\ 1 \in Queues
  BY LayoutIs DEF BenchInit
<1>b. backlog \in [Queues -> Rows] /\ uncounted \in [Queues -> Nat]
      /\ \A q \in Queues : uncounted[q] = Count(backlog[q])
  <2>1. \A q \in Queues : backlog[q] \in Batches(layout.run.old)
    BY DEF BenchInit
  <2>2. \A q \in Queues : backlog[q] \in Rows /\ Count(backlog[q]) \in Nat
    BY <1>0, <2>1, BatchIs, Numeric
  <2>3. QED
    BY <2>2 DEF BenchInit
<1>1. BenchTypeOK
  BY <1>0, <1>b, Numeric DEF BenchInit, BenchTypeOK
<1>2. \A r, q : Of(r, q) \subseteq Worker
  BY DEF Of
<1>3. \A w \in Worker : /\ at[w] \in {"prime", "barrier"} /\ n[w] = 0 /\ local[w] = 0 /\ wrong[w] = 0
                        /\ layout.timed => at[w] = "prime"
  BY DEF BenchInit
<1>4. \A r \in {"pub", "con", "wrong"}, q \in Queues : counter[<<r, q>>] = 0
  BY <1>0, CountersAre DEF BenchInit
<1>5. ASSUME NEW r, NEW q
      PROVE  /\ SumFunctionOnSet(n, Adding(Of(r, q))) = 0
             /\ SumFunctionOnSet(wrong, Tallied(q)) = 0
             /\ SumFunctionOnSet(local, Of(r, q)) = 0
  <2>1. Adding(Of(r, q)) = {} /\ Tallied(q) = {}
    BY <1>2, <1>3 DEF Adding, Tallied
  <2>2. ASSUME NEW f, NEW S, IsFiniteSet(S), \A x \in S : f[x] = 0
        PROVE  SumFunctionOnSet(f, S) = 0
    <3> DEFINE z == [x \in S |-> 0]
    <3>1. Naturals(z, S) /\ \A x \in S : z[x] = z[x] + z[x] /\ f[x] = z[x]
      BY <2>2 DEF Naturals
    <3> HIDE DEF z
    <3>2. SumFunctionOnSet(z, S) = SumFunctionOnSet(z, S) + SumFunctionOnSet(z, S)
      BY <2>2, <3>1, SumPlus
    <3>3. SumFunctionOnSet(z, S) \in Nat
      BY <2>2, <3>1, SumNat
    <3>4. SumFunctionOnSet(f, S) = SumFunctionOnSet(z, S)
      BY <2>2, <3>1, SumSame
    <3>5. \A s \in Nat : s = s + s => s = 0
      OBVIOUS
    <3>6. QED
      BY <3>2, <3>3, <3>4, <3>5
  <2>3. IsFiniteSet(Of(r, q)) /\ \A x \in Of(r, q) : local[x] = 0
    BY <1>1, <1>2, <1>3, GroupIs
  <2>4. QED
    BY <2>1, <2>2, <2>3, SumEmpty
<1>6. LockInvariant
  BY <1>3 DEF LockInvariant
<1>7. WrongInvariant
  BY <1>3, <1>4, <1>5 DEF WrongInvariant, Tallied
<1>8. CountersAgree
  BY <1>4, <1>5 DEF CountersAgree
<1>9. BacklogInvariant
  <2> SUFFICES ASSUME NEW q \in Queues, layout.timed
               PROVE  Count(backlog[q]) + 0 + 0 <= 0 + 0 + Cardinality(Primed(q)) + uncounted[q]
    BY <1>4, <1>5 DEF BacklogInvariant, Primed
  <2>1. Primed(q) = {}
    BY <1>2, <1>3 DEF Primed
  <2>2. QED
    BY <1>b, <2>1, FS_EmptySet
<1>10. monitor # "second" /\ main # "report"
  BY DEF BenchInit
<1>11. QED
  BY <1>1, <1>6, <1>7, <1>8, <1>9, <1>10 DEF BenchIInv

(***************************************************************************)
(* The theorems                                                            *)
(***************************************************************************)

\* The inductive invariant of the harness holds for any workers, queues, filters
\* and sizes of batches, whatever interleaves, fails or is retried.
THEOREM BenchSafety == BenchSpec => [](BenchTypeOK /\ BenchIInv)
<1>1. BenchInit => BenchTypeOK /\ BenchIInv
  BY BenchStart
<1>2. BenchTypeOK /\ BenchIInv /\ [BenchNext]_benchVars => (BenchTypeOK /\ BenchIInv)'
  BY BenchTypeStep, BenchStep
<1>3. QED
  BY <1>1, <1>2, PTL DEF BenchSpec

\* Workers, counters, locks and monitor stay well formed.
THEOREM BenchTypeCorrect == BenchSpec => []BenchTypeOK
BY BenchSafety, PTL

\* The totals that main prints, from the workers' own counts, agree with the shared
\* counters of the curve, and no mismatch is lost or counted twice.
THEOREM TotalsAgreeAlways == BenchSpec => []TotalsAgree
<1>1. BenchTypeOK /\ BenchIInv => TotalsAgree
  <2> SUFFICES ASSUME BenchTypeOK, BenchIInv
               PROVE  TotalsAgree
    OBVIOUS
  <2>1. ASSUME main = "report", NEW q \in Queues
        PROVE  counter[<<"wrong", q>>] = SumFunctionOnSet(wrong, Of("con", q))
    <3>1. {w \in Of("con", q) : at[w] = "done"} = Of("con", q)
      BY <2>1 DEF BenchIInv, Of
    <3>2. QED
      BY <3>1 DEF BenchIInv, WrongInvariant
  <2>2. QED
    BY <2>1 DEF BenchIInv, TotalsAgree, MismatchesReported
<1>2. QED
  BY <1>1, BenchSafety, PTL

\* What the curve is evidence of: the queue holds no more than the counters show but
\* for priming rows, batches being added, and the rows of earlier runs and failed
\* calls, sent again or not; and no sample of the monitor overstates the counters.
THEOREM CurveHonestAlways == BenchSpec => []CurveHonest
<1>1. BenchTypeOK /\ BenchIInv => CurveHonest
  <2> SUFFICES ASSUME BenchTypeOK, BenchIInv
               PROVE  CurveHonest
    OBVIOUS
  <2>0. layout \in Layouts /\ Shared(Worker, Counters) /\ Stored(Queues, Rows) /\ Others(Queues)
    BY BenchTypeIs
  <2>1. ASSUME NEW q \in Queues, layout.timed
        PROVE  Count(backlog[q]) <= counter[<<"pub", q>>] - counter[<<"con", q>>]
                 + SumFunctionOnSet(n, Adding(Of("pub", q))) + Cardinality(Of("pub", q))
                 + uncounted[q]
    <3> DEFINE b == Count(backlog[q])
               C == SumFunctionOnSet(n, Adding(Of("con", q)))
               P == SumFunctionOnSet(n, Adding(Of("pub", q)))
               cc == counter[<<"con", q>>]
               cp == counter[<<"pub", q>>]
               d == Cardinality(Primed(q))
               all == Cardinality(Of("pub", q))
               u == uncounted[q]
    <3>1. b + cc + C <= cp + P + d + u
      BY <2>1 DEF BenchIInv, BacklogInvariant, Primed
    <3>2. C \in Nat /\ P \in Nat
      BY SumsTyped
    <3>3. d \in Nat /\ all \in Nat /\ d <= all
      <4>1. Primed(q) \in SUBSET Of("pub", q) /\ IsFiniteSet(Of("pub", q))
        BY GroupIs DEF Primed
      <4>2. QED
        BY <4>1, FS_Subset, FS_CardinalityType
    <3>4. b \in Nat /\ u \in Nat
      BY <2>0, CountPlus DEF Stored
    <3>5. cc \in Nat /\ cp \in Nat
      BY <2>0, CountersAre DEF Shared
    <3> HIDE DEF b, C, P, cc, cp, d, all, u
    <3>6. b <= cp - cc + P + all + u
      BY <3>1, <3>2, <3>3, <3>4, <3>5
    <3>7. QED
      BY <3>6 DEF b, C, P, cc, cp, d, all, u
  <2>2. ASSUME monitor = "second"
        PROVE  Sample["pub"] - Sample["con"] <= counter[<<"pub", index>>] - counter[<<"con", index>>]
    <3>1. Sample["pub"] = first /\ Sample["con"] = counter[<<"con", index>>]
      BY DEF Sample, ReadOrder
    <3>2. first \in Nat /\ counter[<<"pub", index>>] \in Nat /\ counter[<<"con", index>>] \in Nat
      BY <2>0, CountersAre DEF Shared, Others
    <3>3. first <= counter[<<"pub", index>>]
      BY <2>2 DEF BenchIInv
    <3>4. QED
      BY <3>1, <3>2, <3>3
  <2>3. QED
    BY <2>1, <2>2 DEF CurveHonest, CurveIsEvidence, SampleNotOverstated
<1>2. QED
  BY <1>1, BenchSafety, PTL
=============================================================================
