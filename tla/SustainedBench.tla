--------------------------- MODULE SustainedBench ---------------------------
(***************************************************************************)
(* The throughput harness: bench/sustained_bench.py (any producers and     *)
(* consumers on one queue), bench/multi_queue_bench.py (a pair of them per *)
(* queue), bench/filtered_bench.py (a filter for each consumer, and rows   *)
(* checked against it) and bench/parallel_bench.py (producers that publish *)
(* once).  Worker processes prime their handle, meet at a barrier, publish *)
(* or drain until their time is up, and add what they did to shared        *)
(* counters that a monitor samples.  The broker's queue is the number of   *)
(* rows of each value a consumer can still get; a call that counts a row   *)
(* leaves it confirmed.                                                    *)
(***************************************************************************)
EXTENDS Integers, FiniteSets, Functions

CONSTANTS
  Producer, Consumer, \* worker processes
  Layouts,            \* what the scripts start
  ConsumeBatch,       \* --consume-batch
  MaxAttempts,        \* max_attempts of execute_with_open_retry
  MaxBatches,         \* bound: batches a producer gets done in its time
  MaxWrong,           \* bound: rows the broker hands out against a filter
  Nobody

ASSUME BenchAssumption ==
  /\ Producer \cap Consumer = {} /\ Nobody \notin Producer \cup Consumer
  /\ {ConsumeBatch, MaxAttempts, MaxBatches} \subseteq Nat \ {0}
  /\ \A f \in Layouts :
       /\ DOMAIN f.queue \subseteq Producer \cup Consumer
       /\ IsFiniteSet(DOMAIN f.queue) /\ DOMAIN f.queue # {} /\ IsFiniteSet(f.values)
       /\ Range(f.queue) = 1..Cardinality(Range(f.queue))
       /\ ~f.timed => DOMAIN f.queue \subseteq Producer
       /\ f.run.batch \in Nat \ {0} /\ f.run.old \in Nat

VARIABLES
  layout,    \* the script's workers with their queue index (queue) and filter (wants),
             \* the values of its rows, whether its workers run for a time (timed), and
             \* what is said of this run of it (run)
  at,        \* where each worker is
  attempt,   \* retries of the call so far
  n,         \* rows of the worker's call, until they are added
  seen,      \* counter value read inside the lock
  local,     \* local_published, local_consumed
  wrong,     \* local_mismatch
  counter,   \* the shared counters, by role and queue
  holder,    \* who has the lock of a counter
  backlog,   \* broker: rows of a queue no consumer has got
  uncounted, \* ghost: of the rows a queue ever had, those no call's result counts
  clock,     \* "run" until stop_time, "tail" until hard_stop_time, "over"
  monitor,   \* where the monitor is
  index,     \* the queue it reads next
  first,     \* the count of that queue it has read first
  main       \* "join", "collect", "report"

workerVars  == <<at, attempt, n, seen, local, wrong, counter, holder, backlog, uncounted>>
monitorVars == <<monitor, index, first>>
benchVars   == <<layout, workerVars, clock, monitorVars, main>>

(***************************************************************************)
(* What the main() of each script starts, given its workers W              *)
(***************************************************************************)

\* A run of a script: its --batch-rows and, as bounds, how many rows earlier runs
\* have left in a queue and which workers' calls may fail after the barrier.
Run(batch, old, mayRaise) == [batch |-> batch, old |-> old, mayRaise |-> mayRaise]

\* sustained_bench.py: all workers on one queue, no filter.
Sustained(W, v, run) ==
  [queue |-> [w \in W |-> 1], values |-> {v}, timed |-> TRUE,
   wants |-> [w \in W \cap Consumer |-> {v}], run |-> run]

\* multi_queue_bench.py: a producer and a consumer for each queue.
MultiQueue(pairOf, v, run) ==
  [Sustained(DOMAIN pairOf, v, run) EXCEPT !.queue = pairOf]

\* filtered_bench.py: one queue, a filter for each consumer.
ByFilter(W, filterOf, run) ==
  [queue |-> [w \in W |-> 1], values |-> UNION Range(filterOf), timed |-> TRUE,
   wants |-> filterOf, run |-> run]

\* parallel_bench.py: publishers only, no timeline and no monitor.
Parallel(W, v, run) == [Sustained(W, v, run) EXCEPT !.timed = FALSE]

-----------------------------------------------------------------------------
queueOf    == layout.queue
BatchRows  == layout.run.batch
Worker     == DOMAIN queueOf
Queues     == Range(queueOf)
Rows       == [layout.values -> Nat]
Role(w)    == IF w \in Producer THEN "pub" ELSE "con"
Counters   == {"pub", "con", "wrong"} \X Queues

\* The counter a worker is adding to.
Counter(w) == <<IF at[w] \in {"addWrong", "lockedWrong"} THEN "wrong" ELSE Role(w), queueOf[w]>>

Count(rows)   == SumFunctionOnSet(rows, layout.values)
Batches(size) == {rows \in [layout.values -> 0..size] : Count(rows) <= size}

\* The queue is not emptied: it may hold what an earlier run has left.
BenchInit ==
  /\ layout \in Layouts
  /\ at = [w \in Worker |-> IF layout.timed THEN "prime" ELSE "barrier"]
  /\ attempt = [w \in Worker |-> 0]
  /\ n = [w \in Worker |-> 0]
  /\ seen = [w \in Worker |-> 0]
  /\ local = [w \in Worker |-> 0]
  /\ wrong = [w \in Worker |-> 0]
  /\ counter = [c \in Counters |-> 0]
  /\ holder = [c \in Counters |-> Nobody]
  /\ backlog \in [Queues -> Batches(layout.run.old)]
  /\ uncounted = [q \in Queues |-> Count(backlog[q])]
  /\ clock = "run"
  /\ monitor = (IF layout.timed THEN "sleep" ELSE "done") /\ index = 1 /\ first = 0
  /\ main = "join"

Move(w, from, to) == at[w] = from /\ at' = [at EXCEPT ![w] = to]

\* The rows of the worker's queue grow by what the broker accepts of those posted,
\* or shrink by what a call gets of those it asked for.
Post(w, rows) ==
  backlog' = [backlog EXCEPT ![queueOf[w]] = [v \in layout.values |-> @[v] + rows[v]]]
PostSome(w, size) == \E rows \in Batches(size) : Post(w, rows)
Pull(w, rows) ==
  /\ \A v \in layout.values : rows[v] <= backlog[queueOf[w]][v]
  /\ backlog' = [backlog EXCEPT ![queueOf[w]] = [v \in layout.values |-> @[v] - rows[v]]]

\* Rows of a call that the worker's filter does not let through.
Against(w, rows) == SumFunctionOnSet(rows, layout.values \ layout.wants[w])
Filtered(w, size) == {rows \in Batches(size) : Against(w, rows) + wrong[w] <= MaxWrong}

(***************************************************************************)
(* Worker processes                                                        *)
(***************************************************************************)

\* The call before the barrier opens the handle.  Its row is not counted.
Prime(w) ==
  /\ Move(w, "prime", "barrier")
  /\ IF w \in Producer THEN PostSome(w, 1) ELSE \E rows \in Filtered(w, 1) : Pull(w, rows)
  /\ attempt' = [attempt EXCEPT ![w] = 0]
  /\ UNCHANGED <<n, seen, local, wrong, counter, holder, uncounted>>

\* rc=100: another first open of the queue is under way.
PrimeRetries(w) ==
  /\ at[w] = "prime" /\ attempt[w] < MaxAttempts - 1
  /\ attempt' = [attempt EXCEPT ![w] = @ + 1]
  /\ UNCHANGED <<at, n, seen, local, wrong, counter, holder, backlog, uncounted>>

Raise(w, from) ==
  /\ w \in layout.run.mayRaise
  /\ Move(w, from, "raised")

\* rc=100 once too often, or any other error before the barrier.
PrimeRaises(w) ==
  /\ IF layout.timed THEN Raise(w, "prime") ELSE Raise(w, "barrier")
  /\ UNCHANGED <<attempt, n, seen, local, wrong, counter, holder, backlog, uncounted>>

\* barrier.wait() of the last of n_workers processes.
Release ==
  /\ \A w \in Worker : at[w] = "barrier"
  /\ at' = [w \in Worker |-> "loop"]
  /\ UNCHANGED <<attempt, n, seen, local, wrong, counter, holder, backlog, uncounted>>

TimeLeft(w) == clock = "run" \/ (w \in Consumer /\ clock = "tail")

\* fetchone() gives the rows of the call, which the worker adds to its own count.
Fetched(w, rows) ==
  /\ n' = [n EXCEPT ![w] = rows]
  /\ local' = [local EXCEPT ![w] = @ + rows]
  /\ UNCHANGED <<seen, counter, holder, uncounted>>

\* A producer's next batch, or the same one again.
Attempts(w, to) ==
  /\ w \in Producer /\ layout.timed
  /\ \/ TimeLeft(w) /\ local[w] < BatchRows * MaxBatches /\ Move(w, "loop", to)
     \/ Move(w, "retry", to)

Publish(w) ==
  /\ Attempts(w, "add")
  /\ PostSome(w, BatchRows)
  /\ attempt' = [attempt EXCEPT ![w] = 0]
  /\ Fetched(w, BatchRows) /\ UNCHANGED wrong

\* Of the rows posted by a call that fails nothing is counted.
Lost(w, rows) == uncounted' = [uncounted EXCEPT ![queueOf[w]] = @ + Count(rows)]

\* rc=100 in a batch: the rows before the one that failed are posted, and the whole
\* batch is sent again.
PublishRetries(w) ==
  /\ w \in layout.run.mayRaise /\ attempt[w] < MaxAttempts - 1
  /\ Attempts(w, "retry")
  /\ \E rows \in Batches(BatchRows - 1) : Post(w, rows) /\ Lost(w, rows)
  /\ attempt' = [attempt EXCEPT ![w] = @ + 1]
  /\ UNCHANGED <<n, seen, local, wrong, counter, holder>>

Consume(w) ==
  /\ w \in Consumer /\ TimeLeft(w)
  /\ Move(w, "loop", "add")
  /\ \E rows \in Filtered(w, ConsumeBatch) :
       /\ Pull(w, rows) /\ Fetched(w, Count(rows))
       /\ wrong' = [wrong EXCEPT ![w] = @ + Against(w, rows)]
  /\ UNCHANGED attempt

\* The one call of a worker without a time; its count goes into the result queue.
PublishOnce(w) ==
  /\ ~layout.timed
  /\ Move(w, "loop", "done")
  /\ PostSome(w, BatchRows)
  /\ local' = [local EXCEPT ![w] = BatchRows]
  /\ UNCHANGED <<attempt, n, seen, wrong, counter, holder, uncounted>>

\* A call fails for good: what it posted or took is not undone.
CallRaises(w) ==
  /\ (TimeLeft(w) /\ Raise(w, "loop")) \/ Raise(w, "retry")
  /\ \/ w \in Producer /\ \E rows \in Batches(BatchRows) : Post(w, rows) /\ Lost(w, rows)
     \/ w \in Consumer /\ (\E rows \in Filtered(w, ConsumeBatch) : Pull(w, rows)) /\ UNCHANGED uncounted
  /\ UNCHANGED <<attempt, n, seen, local, wrong, counter, holder>>

\* Mutant: no lock around the addition.
ReadUnlocked(w) ==
  /\ Move(w, "add", "locked")
  /\ seen' = [seen EXCEPT ![w] = counter[Counter(w)]]
  /\ UNCHANGED <<attempt, n, local, wrong, counter, holder, backlog, uncounted>>

\* counter.value += n inside get_lock(): read, then write.
Lock(w) ==
  /\ Move(w, "add", "locked") \/ Move(w, "addWrong", "lockedWrong")
  /\ holder[Counter(w)] = Nobody
  /\ holder' = [holder EXCEPT ![Counter(w)] = w]
  /\ seen' = [seen EXCEPT ![w] = counter[Counter(w)]]
  /\ UNCHANGED <<attempt, n, local, wrong, counter, backlog, uncounted>>

\* Mutant: the lock is kept.
AddKeepsLock(w) ==
  /\ Move(w, "locked", "loop") \/ Move(w, "lockedWrong", "done")
  /\ counter' = [counter EXCEPT ![Counter(w)] = seen[w] + n[w]]
  /\ n' = [n EXCEPT ![w] = 0] /\ seen' = [seen EXCEPT ![w] = 0]
  /\ UNCHANGED <<attempt, local, wrong, holder, backlog, uncounted>>

Add(w) ==
  /\ Move(w, "locked", "loop") \/ Move(w, "lockedWrong", "done")
  /\ counter' = [counter EXCEPT ![Counter(w)] = seen[w] + n[w]]
  /\ holder' = [holder EXCEPT ![Counter(w)] = Nobody]
  /\ n' = [n EXCEPT ![w] = 0] /\ seen' = [seen EXCEPT ![w] = 0]
  /\ UNCHANGED <<attempt, local, wrong, backlog, uncounted>>

\* The loop ends, mismatches are added up, and the local count goes into the
\* result queue.
Finish(w) ==
  /\ ~TimeLeft(w)
  /\ Move(w, "loop", IF wrong[w] = 0 THEN "done" ELSE "addWrong")
  /\ n' = [n EXCEPT ![w] = wrong[w]]
  /\ UNCHANGED <<attempt, seen, local, wrong, counter, holder, backlog, uncounted>>

Step(w) ==
  \/ Prime(w) \/ Publish(w) \/ PublishOnce(w) \/ Consume(w) \/ Lock(w) \/ Add(w) \/ Finish(w)

Fault(w) == PrimeRetries(w) \/ PrimeRaises(w) \/ PublishRetries(w) \/ CallRaises(w)

(***************************************************************************)
(* The monitor process                                                     *)
(***************************************************************************)

\* Mutant: the consumed count is read first.
ConsumedFirst == <<"con", "pub">>

\* The published count of a queue is read before the consumed one, neither lock
\* held.
ReadOrder == <<"pub", "con">>

WakeUp ==
  /\ monitor = "sleep" /\ clock # "over"
  /\ monitor' = "first"
  /\ UNCHANGED <<index, first>>

ReadFirst ==
  /\ monitor = "first"
  /\ first' = counter[<<ReadOrder[1], index>>]
  /\ monitor' = "second"
  /\ UNCHANGED index

\* The entry samples.append() gets for the queue: the two counts as they were read.
Sample == [role \in {"pub", "con"} |->
             IF role = ReadOrder[1] THEN first ELSE counter[<<ReadOrder[2], index>>]]

\* Mutant: the next sample starts after the last queue.
ReadSecondNoReset ==
  /\ monitor = "second"
  /\ index' = index + 1
  /\ monitor' = IF index + 1 \in Queues THEN "first" ELSE "sleep"
  /\ first' = 0

ReadSecond ==
  /\ monitor = "second"
  /\ index' = IF index + 1 \in Queues THEN index + 1 ELSE 1
  /\ monitor' = IF index + 1 \in Queues THEN "first" ELSE "sleep"
  /\ first' = 0

StopSampling ==
  /\ monitor = "sleep" /\ clock = "over"
  /\ monitor' = "done"
  /\ UNCHANGED <<index, first>>

MonitorStep == WakeUp \/ ReadFirst \/ ReadSecond \/ StopSampling

(***************************************************************************)
(* main(): the timeline, set before the workers start, and the end.        *)
(***************************************************************************)
Tick ==
  /\ layout.timed
  /\ \/ clock = "run" /\ clock' = "tail"
     \/ clock = "tail" /\ clock' = "over"

\* join() of every process, those that raised included.
Join ==
  /\ main = "join" /\ monitor = "done"
  /\ \A w \in Worker : at[w] \in {"done", "raised"}
  /\ main' = "collect"

\* One get() per worker: it blocks for good if one of them left no result.
Collect ==
  /\ main = "collect"
  /\ \A w \in Worker : at[w] = "done"
  /\ main' = "report"

BenchNext ==
  \/ /\ (\E w \in Worker : Step(w) \/ Fault(w)) \/ Release
     /\ UNCHANGED <<layout, clock, monitorVars, main>>
  \/ MonitorStep /\ UNCHANGED <<layout, workerVars, clock, main>>
  \/ Tick /\ UNCHANGED <<layout, workerVars, monitorVars, main>>
  \/ (Join \/ Collect) /\ UNCHANGED <<layout, workerVars, clock, monitorVars>>

\* Processes run, calls return and time passes.
BenchFairness ==
  /\ \A w \in Producer \cup Consumer :
       WF_benchVars(w \in Worker /\ Step(w) /\ UNCHANGED <<layout, clock, monitorVars, main>>)
  /\ WF_benchVars(Release /\ UNCHANGED <<layout, clock, monitorVars, main>>)
  /\ WF_benchVars(MonitorStep /\ UNCHANGED <<layout, workerVars, clock, main>>)
  /\ WF_benchVars(Tick /\ UNCHANGED <<layout, workerVars, monitorVars, main>>)
  /\ WF_benchVars((Join \/ Collect) /\ UNCHANGED <<layout, workerVars, clock, monitorVars>>)

BenchSpec == BenchInit /\ [][BenchNext]_benchVars /\ BenchFairness

-----------------------------------------------------------------------------
(***************************************************************************)
(* Properties                                                              *)
(***************************************************************************)

\* The type invariant of workers, counters, monitor and main.
BenchTypeOK ==
  /\ layout \in Layouts
  /\ at \in [Worker -> {"prime", "barrier", "loop", "retry", "add", "locked", "addWrong", "lockedWrong",
                        "done", "raised"}]
  /\ attempt \in [Worker -> 0..(MaxAttempts - 1)]
  /\ {n, seen, local, wrong} \subseteq [Worker -> Nat]
  /\ counter \in [Counters -> Nat]
  /\ holder \in [Counters -> Worker \cup {Nobody}]
  /\ backlog \in [Queues -> Rows] /\ uncounted \in [Queues -> Nat]
  /\ clock \in {"run", "tail", "over"}
  /\ monitor \in {"sleep", "first", "second", "done"} /\ index \in Queues /\ first \in Nat
  /\ main \in {"join", "collect", "report"}

Of(role, q)  == {w \in Worker : Role(w) = role /\ queueOf[w] = q}
Adding(W)    == {w \in W : at[w] \in {"add", "locked"}}

\* The shared counters and the workers' own counts agree but for the calls being
\* added, however the workers interleave, so the totals main prints are the ones
\* the curve ends in.
CountersAgree ==
  layout.timed => \A role \in {"pub", "con"}, q \in Queues :
    LET W == Of(role, q)
    IN  SumFunctionOnSet(local, W) = counter[<<role, q>>] + SumFunctionOnSet(n, Adding(W))

\* The script's claim that the curve is evidence of a bounded backlog, and what it
\* misses: the broker has no more rows left than the counters show, the batches being
\* added, one priming row per producer, and the rows no counter ever shows, which an
\* earlier run left or a call posted before it failed, to be sent again or not.
CurveIsEvidence ==
  layout.timed => \A q \in Queues :
    LET P == Of("pub", q)
    IN  Count(backlog[q]) <= counter[<<"pub", q>>] - counter[<<"con", q>>]
                          + SumFunctionOnSet(n, Adding(P)) + Cardinality(P) + uncounted[q]

\* The monitor reads two counters under no common lock: its backlog may come out
\* too low, but never higher than what the counters say when it is recorded.
SampleNotOverstated ==
  monitor = "second" =>
    Sample["pub"] - Sample["con"] <= counter[<<"pub", index>>] - counter[<<"con", index>>]

\* The mismatches main prints are all that the consumers saw, each counted once,
\* although a consumer adds its own only after its last call.
MismatchesReported ==
  main = "report" =>
    \A q \in Queues : counter[<<"wrong", q>>] = SumFunctionOnSet(wrong, Of("con", q))

\* The totals main prints, and the mismatches, are what the workers did.
TotalsAgree == CountersAgree /\ MismatchesReported

\* The curve bounds the backlog, and no sample of it overstates.
CurveHonest == CurveIsEvidence /\ SampleNotOverstated

\* The harness prints its report unless a worker raised.
RunReports == <>(main = "report" \/ \E w \in Worker : at[w] = "raised")

-----------------------------------------------------------------------------
(***************************************************************************)
(* The inductive invariant behind the safety properties                    *)
(***************************************************************************)

\* Between read and write a worker has the lock, and what it read is still there.
LockInvariant ==
  \A w \in Worker : at[w] \in {"locked", "lockedWrong"} =>
    holder[Counter(w)] = w /\ seen[w] = counter[Counter(w)]

\* Mismatches are a consumer's, and are in the counter once it is done.
WrongInvariant ==
  /\ \A w \in Worker :
       /\ at[w] \in {"addWrong", "lockedWrong"} => n[w] = wrong[w]
       /\ w \notin Consumer => wrong[w] = 0
  /\ \A q \in Queues :
       counter[<<"wrong", q>>] = SumFunctionOnSet(wrong, {w \in Of("con", q) : at[w] = "done"})

\* What a consumer got is no longer in the queue, and nothing is in the queue but
\* what a producer has counted, is adding, or sent before the barrier, and what no
\* counter shows.
BacklogInvariant ==
  layout.timed => \A q \in Queues :
    Count(backlog[q]) + counter[<<"con", q>>] + SumFunctionOnSet(n, Adding(Of("con", q)))
      <= counter[<<"pub", q>>] + SumFunctionOnSet(n, Adding(Of("pub", q)))
           + Cardinality({w \in Of("pub", q) : at[w] # "prime"}) + uncounted[q]

BenchIInv ==
  /\ LockInvariant /\ WrongInvariant /\ CountersAgree /\ BacklogInvariant
  /\ monitor = "second" => first <= counter[<<"pub", index>>]
  /\ main = "report" => \A w \in Worker : at[w] = "done"
=============================================================================
