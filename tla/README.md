# pg_blazingmq in TLA+

pg_blazingmq is a PostgreSQL extension in one C++ file (`pg_blazingmq.cpp`) that
links the BlazingMQ client into server processes. It publishes rows, pulls
messages, and runs background workers that call an SQL function per message.
These modules model all of that file that keeps state or talks to somebody, and
all nineteen scripts of `bench/` with their driver: the repository relies on their
numbers and verdicts. TLC checks the modules on small instances, and TLAPS proves
most of the safety properties, and that the system implements an abstract
at-least-once queue, for any instance.

## The system

| Component | State | Operations | Talks to |
|---|---|---|---|
| Session and handle cache (`get_session`, `get_queue`, exit hook) | `g_session`, `g_queues` per process; the GUC `blazingmq.broker_uri` | start on first use; open, reuse or reconfigure the one handle of a URI; tear down | broker, synchronously, with timeouts |
| Row mapping (`set_message_property`, `datum_to_dyn_value`, loop of `bmq_publish_row`) | properties and payload map under construction | one pass over the columns | none |
| Publish (`bmq_publish_row`, second half) | none of its own | pack, post | SDK, asynchronously |
| Pull (`bmq_consume`) | result set, count, event iterator, confirm batch | poll until full or late; copy and confirm each message; flush | SDK |
| Subscribe (`bmq_subscribe`) | DSM segment, worker registration | create and pin, register, wait for start, wait for ready | postmaster, worker |
| Unsubscribe (`bmq_unsubscribe`) | none | look the PID up, signal it | worker |
| Worker (`bmq_subscriber_main`) | session as above, iterator, shutdown flag | attach, connect, open, report ready; per message: callback, commit, confirm | caller, broker, database |
| Broker and SDK (external) | stored messages, deliveries, windows | accept, push, confirm, redeliver after a session ends | all processes |
| Throughput harness (`sustained_bench.py`, `multi_queue_bench.py`, `filtered_bench.py`, `parallel_bench.py`) | shared counters, samples, per-process counts and mismatches | prime, meet at a barrier, publish or drain, add under a lock, sample, collect | PostgreSQL through SQL |
| Sidecar benchmarks (`nats_sidecar_*.py`, `measure_ctrl_plane_only.py`, `mq_bench_driver.cpp`) | child processes, filter acknowledgements, count of matches; results of the sweep | start, send the filter, subscribe, publish, profile, report, stop; keep or report the trial | NATS server, sidecar, driver, profiler |
| Core NATS scripts (`nats_queue_group.py`, `nats_selectivity.py`) | received ids, marker and result files | subscribe, flush, mark, wait for STOP or for the expected number, close, report | NATS server, the shell that starts them |
| Publish-then-drain scripts (`js_bench.py`, `bmq_bench.py`) | reference rows, stream or queues, dump file | create, publish, check the backlog, drain, compare, clean up | JetStream and a drainer process; PostgreSQL |

What is hard here: posts and confirms are asynchronous and lost with the
process; one event stream per session carries the messages of every open queue;
the broker stops at a window of unconfirmed messages; SDK calls fail or time out
between two updates of a local cache; caller and worker share a segment that
either may leave first; a worker may die between commit and confirm; signals
arrive at any point. The scripts run processes that hang, die or are still
subscribing when the first row comes, and an exception leaves one in the middle.
`PROJECT.json` lists these hazards with their lines.

What makes each part correct: the cache agrees with the broker and the filter a
call asked for is the one in force; the message built from a row is determined
by the row; a message is in one place, is confirmed only by a process that used
it, and never waits for a window that its own session keeps closed; readiness
means an open queue; every wait ends; a benchmark reports what happened, or does
not report.

## Modules

`Session` → `Broker` → `PullConsume` and `Subscriber` → `System` is a chain of
EXTENDS, so that an action is written once and the larger modules say what their
own variables do meanwhile. `RowMapping` stands alone: the rest of a publish does
not depend on how its message was built. `AtLeastOnce` is abstract.
The scripts are separate programs: `SustainedBench`, `SidecarTrial` over
`SidecarScripts`, `CoreBench` and `DrainBench` each model the ones that work
alike.

**Session.** One action per outcome of `get_session` and `get_queue`. `g_queues`
is the local cache, `handles` the broker's own table; both hold the filter per
process and queue, `None` for no entry. An open or reconfigure that times out
leaves it undecided whether the broker applied it, and the ghost `doubt` remembers
the expressions of such requests until one succeeds. After a timed-out reconfigure
`get_queue` goes on trusting its cache; after a timed-out open the session may have
a handle the cache does not know, and the broker refuses every later open of that
URI.
`EndCall` is a return or `ereport(ERROR)`. `Exit` is the exit hook, or the death
of the process, whose connection the broker notices.

**Broker** (external, but for `Post`, `PostFails` and `SessionStep`). Sets of
messages: `outbox` (posted, not arrived), `stored`, `held` per session, `inbox`
(pushed, not yet returned by `nextEvent`), `confirming` (confirm under way),
`confirmed`. Order is left out: no code here depends on it, and the repository's
own tests compare results as multisets. An event is any set of pushed messages,
chosen when `nextEvent` returns it, which allows every way the broker may group
them. A message that was there before a handle got its filter is delivered
regardless (`early`): filtering is not retroactive (README of the extension).
Posts refused at capacity vanish without a trace, as the handles are opened
without acknowledgements and the receive loops skip every event that is not a
PUSH.

**PullConsume.** `bmq_consume` from `get_queue` on: `poll` (the outer loop),
`iterate` (the inner one), `flush` (after both). The loop body is one action,
`Take`: nothing another process can see happens between putting the row and
confirming it, and a death in between has the effect of a death before. Its
alternatives are the outcomes of `confirmMessage`, `addMessageConfirmation` and
`confirmMessages`; a failed flush keeps the batch, a successful one resets it.
`TakeFails` is an error while copying or storing the row. `LeaveEvent` drops the
rest of an event when the result set is full. The deadline may pass at every turn
of the outer loop. `max_messages` and `batch_confirm` are chosen when the loop
starts, where they are first used.

**Subscriber.** Callers and workers are processes of `Session`; a worker and its
PID are one element of `Worker`, free again after the process. A segment is
pinned and never unpinned, so each serves one subscription and doubles as the
worker's generation (`segOf`). `StartupFails`, `CommitFails`, `Stop` and `Crash`
all end in `WorkerEnds`: detach, exit hook, end of the session, row gone from
`pg_stat_activity`. `Faults` says what may go wrong in an instance; the proofs
and the passing runs allow everything unless noted.

**RowMapping.** The loop over the columns, one action per kind of column, then the
steps of the network half and one action for each way out of the call, each with
its own release of the tuple descriptor: rejection, failed pack, failed post, the
two handlers, the common exit. A PostgreSQL ERROR from a conversion passes the
handlers by (`ConversionRaises`) and leaves the descriptor to the resource owner.
The result of `setPropertyAs...()` is not looked at, so the SDK may refuse a
property unnoticed (the ghost `refused`). Column values are opaque.

**AtLeastOnce** and **System.** The abstract queue: unsent, sent, lost, queued,
leased to one process, used by it, done. `System` composes everything and maps
`held` to leased or used by whether the process put the message into a result
set or committed its callback; it implements `AtLeastOnce`.

**SustainedBench.** The processes of the four scripts. What each `main` starts is
a layout: all workers on one queue (`Sustained`), a pair per queue (`MultiQueue`),
a filter per consumer (`ByFilter`), or publishers that make one call and have no
timeline (`Parallel`). `counter.value += n` is two actions, a read and a write
inside the lock. The monitor takes neither lock and reads one counter per action.
The clock has three phases, the run, the tail in which consumers go on, and after.
`Run` has the rows of a batch, the rows an earlier run left in the queue (the
default URI is used again) and the workers that may meet an error. A batch is one
statement: when a row of it fails the rows before are posted, the statement is sent
again whole, up to the retry limit, and is counted once. The ghost `uncounted` is
the rows no counter shows, of earlier runs and of failed statements.
The broker is the number of rows of each value left in each queue: it may refuse a
row, and a row that a consumer counted is taken to be confirmed. It may hand out
rows against a filter, which the consumer counts and adds after its last call. A
worker may raise at any call; `main` then waits for a result that does not come,
as the script does.

**SidecarScripts** and **SidecarTrial.** Eleven scripts repeat one shape of trial.
`SidecarScripts` says what each of them does at the points where they differ: how
its instances read rows and hear the filter, what it looks at before and after,
what runs beside, and which results its main loop keeps. `SidecarTrial` is the
shape: a trial with its `finally` block, the driver's control and subscribe modes,
and a sidecar and server that may refuse, drop, repeat, answer late or die. The
driver's modes that fail return without stopping their event loop, so the process
hangs and only the script's timeout ends the wait. A control driver that dies before
it prints leaves stdout empty, which `run_ctrl` does not tell from success
(`CtrlDies`; the ghost `unheard` names the instances). `stop()` passes over a process
that outlives `kill()`, and nobody stops a subscriber when a trial is left early:
both stay in `left` and act in later trials, a server by keeping the port, an
instance by answering and taking rows. No script catches what a trial
raises: the sweep is over (`Abort`), and results kept so far are not printed. The
ghosts `fault`, `again` and `counted` record what happened outside. The field
`wrong` of the subscriber's line is left out, since an instance that has the
filter forwards matches only.

**CoreBench.** Publisher and readers of the two core NATS scripts. A reader's
subscriptions reach the server one by one (`live`), its `flush` waits for them,
and the marker follows; the shell starts the publisher when all markers are
there. Data and STOP have their own callbacks, so that STOP may overtake rows,
which a closing connection then drops (`cut`). `subject_for` and
`expected_matches` keep their arithmetic.

**DrainBench.** The two scripts that publish, drain and compare. A message has an
identity in the model that the scripts do not see: they compare contents as a
multiset, after a normal form. `form` is that normal form, of a row in the reference
and of the same row as it comes back: `canon` keeps every column, `norm` the fifteen
it names, which on another table is none of them, and either may render a value that
came back differently. The reply to the stream's DELETE may be an error, which
nobody looks at (the ghost `kept`). An exception goes straight to `raised`, as there is no `finally`, and
`Rerun` starts the script again over what is left. `bmq_consume` is the set of
messages it may return by `PullConsume`: of any queue the session has open.

## Runs

Passing runs:

| Run | Instance | Shows |
|---|---|---|
| `publish_row` | all rows of up to 2 columns over 10 types, all attribute lists over 3 names; then 1 process, 2 broker URIs, 2 queues, 3 expressions (1 rejected) | loop result equals its declarative definition; errors precede the network; descriptor never released twice; cache and broker agree and the filter is in force but for timeouts; nothing survives a session |
| `pull` | 1 process, 1 queue, 1 filter, 3 messages of which one does not pass it, events of up to 2, window, capacity and threshold 2, up to 3 asked for, fair | leases accounted for, confirms only for rows, rows accounted for, window never closed by the batch; rows pass the filter; every call ends |
| `worker` | 2 callers (symmetric), 1 worker slot used up to twice, 2 segments, 1 message, all faults | effect before confirm; no second run in one process; segment there and mapped when used |
| `subscribe_liveness` | 1 caller, 1 worker slot, good and rejected filter, all faults, fair | ready means open; subscribe returns; a signalled worker ends |
| `system` | 1 backend with all functions, 1 worker, 2 messages, all faults | implements `AtLeastOnce`; a message is in one place; a worker's messages are accounted for |
| `throughput_bench` | 2 producers and 1 consumer on one queue; 1 pair with batches of 2 rows and 1 row of an earlier run; 2 pairs on 2 queues; 1 producer and 2 filtered consumers; or 2 publishers; 1 batch each, some may fail and be sent again, 1 row against a filter | totals, curve and backlog agree; a sample never overstates; every mismatch is reported; the report is printed |
| `sidecar_trial` | the 15 sweeps of 11 scripts, 1 or 2 instances, 2 rows that both match, 1 repeated delivery, 1 silent driver, 1 process that outlives `stop()`, any fault | a whole count is every row, a short one has a cause; filter before rows; everything stopped but a subscriber, whose trial is reported; every trial accounted for; the sweep ends |
| `measure_scripts` | 2 readers of 0 or 4 rows, each pattern over 2 regions and 2 symbols with 0 to 5 rows; 2 runs of each drain script with up to 2 rows of 2 contents, 1 repeated row, on a table whose rows are recognised, one whose rows look alike, one with a value rendered in two ways | union complete, STOP not missed, `match_ok` exact, readers end; PASS and FAIL sound, no foreign backlog drained, nothing left behind unless a DELETE was refused, runs end |

The bounds keep the proportions of the code: a threshold below the window (500
and 1000 in the code), more messages than a window where the window matters,
events larger than what a call asks for, more subscriptions than worker slots, a
process slot that is used again. Each hazard needs at most three messages (`pull_stall` four: two
stranded, one in the batch, one taken), two sessions or two lives of a process, and
the instances have them. In the benches
`MaxBatches` stands for the time a producer has, `mayRaise` names the workers
whose calls may fail, to be retried or for good (one of each kind: the others are
alike),
`MaxAttempts` is the retry limit of the script, 2 instead of its default (retries
only count), and `MaxWrong`, `MaxAgain`, `MaxUnheard` and `MaxLeft` bound what the outside does. A sweep
keeps two sizes or repetitions of its list, so that each trial has a successor.
Counts of 0 to 5 pass every boundary of a hierarchy of four subjects, and a second
run is enough to meet what a first one left. `MCPublish` explores the session after
the empty row only and `MCMeasure` one script at a time: neither part reads what
the other writes, so their product has nothing to show.

Runs that end in a violation, each of a sentence in the documentation (see
`findings` in `PROJECT.json`):

- `null_omitted`: a null in a named column of an eligible type rejects the row, where
  the comment in `set_message_property` says it is omitted.
- `pull_stall`: messages of an event beyond `max_messages` are stranded, and a later
  batched pull, its batch still below the threshold, waits in front of a window that
  nothing reopens. What is stranded is always less than a window, since the message
  taken from the same event is confirmed; so a pull without `batch_confirm` goes on.
  The run excludes `TakeFails`, which strands messages as well.
- `pull_other_queue`: a pull returns messages of other open queues.
- `worker_redelivery`: a failed message is not delivered again while the worker
  lives.

Other places where the code and its documents differ, visible in the actions but
without a run of their own:

- `Reconfigure`: another expression reconfigures the cached handle; the SQL
  comment (`pg_blazingmq--0.5.sql:38-41`) and `pg_blazingmq.cpp:133-138` call it
  an error, the README of the extension describes the code.
- `ReuseSession`: `blazingmq.broker_uri` is read at the first use only.
- `Promote`: a property whose `setPropertyAs...()` fails is missing from the message
  and nobody hears of it; by `README.md:26-32` of the extension a column that is
  selected is promoted or an error.
- `PublishRetries`: `sustained_bench.py` calls its curve evidence of a bounded backlog,
  but the rows of a batch that is sent again, and those an earlier run left, are in
  the queue and in no counter.
- `CtrlDies`: `run_ctrl` ignores the return code of the driver, so that a filter nobody
  got counts as sent.
- `AddToBatch`: the batch is also sent at the threshold, where
  `pg_blazingmq--0.5.sql:48-52` says only once, after the loop.
- `Warn`: the WARNING of `bmq_subscribe` says the worker "is still running and
  will keep trying" (`pg_blazingmq.cpp:766`, likewise `README.md:107-109`), but a
  worker whose session or queue could not be opened has exited, and
  `BGW_NEVER_RESTART` keeps it so.
- `CommitFails`: an error at commit is outside `PG_TRY` and ends the worker.
- `Pull` (`DrainBench`): the verify step of `bmq_bench.py` "uses a separate queue
  so it doesn't collide with the publish/receive queue above" (lines 110-111), but
  rows that the first pull left come in the second one. They are copies of the
  rows it waits for, so PASS may stand for a queue that delivered nothing.
- `Verify` (`DrainBench`): the FAIL of `js_bench.py` counts positions that differ
  in two sorted lists up to the shorter one: a dump that is a prefix of the
  reference fails with `mismatched_groups=0`.
- `Push`: a publisher's handle also reads, so the broker may give it the message
  it published, away from the worker that waits for it.

## Fairness

`PullFairSpec` assumes that a backend inside the receive loop takes steps: the
loop is ordinary code with a deadline. It assumes nothing of the broker.
`SubFairness` assumes that a caller in `bmq_subscribe` and a worker take steps
(`pg_usleep`, `nextEvent` with a one-second timeout and a session start with a
ten-second one all return), that callbacks end, and that the broker gets on. A
cancelled wait and a crash are never forced. `BenchFairness` assumes that the
processes of the harness run, that their SQL calls return and that time passes;
exceptions and retries are never forced. `TrialSpec` assumes that the
script takes steps, since it is sequential code in which every wait has a timeout,
and that a subscriber does once it runs: its loop has a deadline (60 to 120 s)
below the timeout of the script's `communicate` (70 to 130 s). It assumes nothing
of the control driver, sidecar, server and profiler. `CoreFairness` assumes only
the readers' own code, whose connect, flush and wait all have timeouts; the
publisher may never start. `DrainSpec` assumes that the script takes steps:
`js_req`, the poll loop and `wait` have timeouts, SQL statements are taken to
return. Of the drainer nothing is assumed.

## Proofs

TLAPS checks the following for every value of the constants: any number of
processes, queues, expressions and messages, any window, capacity, threshold and
event size, rows of any length, sweeps with any number of instances, and
measurements with any number of readers, workers, rows and runs. The assumptions are the
named ones of the modules, which TLC evaluates on every instance: markers are
distinct from values, backends from workers, the message set, the readers and the
workers of a layout are finite, numbers are natural or positive.

| Module | Proves | From |
|---|---|---|
| `SessionProofs` | `SessionTypeOK`, `CacheMatchesBroker`, `NoHandleWithoutSession`, `FilterInForce`; lemmas on the broker: what one of its steps, a post or the end of a session does to the types and to `OnePlace` | `SessionIInv` |
| `PullProofs` | `PullTypeOK`, `OnePlace`, `LeaseAccounted`, `ConfirmOnlyTaken`, `RowsAccounted`, `RowsPassFilter`, `WindowStaysOpen` | `PullIInv` |
| `SystemProofs` | of `Subscriber`: `SubTypeOK`, `SegmentMapped`, `ReadyMeansOpen`, `EffectBeforeConfirm`, `OncePerProcess`, `WorkAccounted` | `SubIInv` |
| | of `System`: `OnePlace`, `WorkAccounted`, `ImplementsAtLeastOnce` | `SysInv` |
| `RowProofs` | `RowTypeOK` with `PinInvariant`, `PayloadIsRow`, `PropsExact`, `RejectedBeforeSend` | `RowIInv` |
| `SidecarProofs` | `TrialTypeOK`, `VerdictSound`, `RuleBeforeRows`, `SweepSound` | `TrialIInv` |
| `MeasureProofs` | `MeasureTypeOK`, `StopNotMissed`, `ReportsExact`, `RunsApart`, `RunVerdictSound` | `CoreIInv`, `DrainIInv`, `VerdictIInv` |
| `BenchProofs` | `BenchTypeOK`, `TotalsAgree`, `CurveHonest` | `BenchIInv` |
| `SumProofs` | lemmas only: what the library's sum over a finite set is | |

**Session.** `FilterInForce` is not inductive: it speaks of a call that has
passed `get_queue`, and what it says follows from the cache entry, which an
earlier call may have written. `SessionIInv` therefore joins
`CacheMatchesBroker` and `NoHandleWithoutSession` with `EntryInvariant` (a call
past `get_session` has a session, a call past `get_queue` has a fitting entry).
Both properties are stated up to `doubt`: what a request that timed out asked for
may be in force, and nothing else.
The lemmas are stated for any set of program labels that includes those of
`Session`, so that the modules above it use them for their own processes.

**Pull.** None of the properties is inductive alone. `LeaseAccounted` needs
`OnePlace` (a confirm that arrives removes the message from one session only);
`ConfirmOnlyTaken` and `RowsAccounted` need `TakenInvariant`: a message a session
has put into a result set is never given to the same session again, or `received`
would count a row twice. `RowsAccounted` needs `LoopInvariant` (locals are empty
outside the loop) and, for `received <= max_messages`, the guard of the inner
loop. `RowsPassFilter` follows from `DeliveredInvariant` (a message got past the
broker's filter, or was there before it) together with `CacheMatchesBroker` and
the fitting cache entry, which `LoopInvariant` keeps for the whole call.
`WindowStaysOpen` needs `BatchInvariant`: after each message the batch is below
the threshold or holds one message. The theorem assumes what the code's constants
give, a threshold of 500 within a window of 1000 (`Threshold <= Window`,
`Window > 1`). The proof of a step has one case per action; actions that touch
one part only (`LoopStep`, `PlacesStep`, `RowsStep`, `DeliveredStep`) are grouped
by what they can disturb.

**Row.** `RowIInv` is the loop invariant: payload and properties are those of the
columns before `i`, less the properties the SDK refused, and none of these columns
was to be rejected; the broker is contacted only after the last column.
`PinInvariant` says which ends of the call have given the descriptor back.

**Subscriber.** The properties hold together or not at all. `CallerInvariant`
says that a segment is filled and pinned before anybody can have it and that a
waiting caller has its own mapped; `WorkerInvariant` that the worker of a segment
is the only one, starts without a session, opens what the segment names and sets
the flag no sooner than it serves. `ReadyMeansOpen` follows from the last two,
since a handle changes by its own process only. `EffectBeforeConfirm` needs
`CommitInvariant`: what a worker has committed took effect and is still held for
it or confirmed. That and `OnePlace` give `OncePerProcess`, because a message that
is held cannot be pushed again to the session that holds it.

**System.** `SysInv` gives each backend what `PullProofs` shows of the loop and each
worker what is shown of it in `Subscriber`; no worker pulls. `TableHolds` reads stage
and owner of a message off the place it is in, which is well defined by
`OnePlace`. Every action of `System` then moves at most one message in the table
(`OneMoves`) and is a step of `AtLeastOnce`, or moves none (`Stutter`); a commit or
a row put into the result set is `Use`, and the end of a session, which returns
many messages at once, is the abstract `End`. The theorem is about the safety part, which
is all that `AtLeastOnce` states.

**Sidecar.** `VerdictSound` compares a number with a set of rows, so the invariant
bounds the one by the other: each unit of the count is a matching row off the wire
or a repeated delivery (`CountInvariant`). `RuleBeforeRows` is about the moment of
publishing; `RuleInvariant` says where the filter is before, instance by instance:
taken, still to be sent, asked for, refused with a result the script looks at, or
not heard of (`unheard`). `LeftInvariant` says whose subscriber may be left running.
`BlankInvariant` is what keeps the trials of a sweep apart, and `AccountInvariant`
counts judged trials, a set that grows by at most one with each trial.

**Core NATS.** `StopNotMissed` follows from `MarkerInvariant`, the chain from
subscriptions over marker files to the publisher. `ReportsExact` needs
`RowsInvariant` (where each row that was routed is) and `ExpectedExact`: the
arithmetic of `expected_matches` is the number of matching rows below any count,
shown through the uniqueness of quotient and remainder.

**Drain.** `RunsApart` counts: `BacklogInvariant` says that what the run has
published is in the stream or lost and that nothing else there is of this run, so
a stream with as many messages as rows has as many foreign ones as rows are lost
(`BacklogCount`). A stream at the summary is one whose DELETE was refused (`kept`).
`PhaseInvariant` says which part of a script leaves what alone.

`RunVerdictSound` is about a comparison of normal forms, and rows may be equal, or
made so. It is conditional on the normal form knowing a row when it comes back
(`Recognised`) and, where rows came twice, knowing it from the others (`Distinct`).
`DumpInvariant` says that a drainer that got nothing twice has dumped exactly what
it acknowledged, once each, so that enough lines are all of them;
`PullInvariant` that the rows of the verify step are in its queue or lost, and that
a pull in time takes all. The comparison then rests on two facts about counts per
normal form: among distinct messages none is missing if no form is
(`NoneMissing`), and where forms are distinct they tell how often each message
came (`EachOnce`).

**Throughput harness.** The totals are sums over the workers, and each step of a
worker changes one summand. `LockInvariant` says that what a worker has read under
the lock is still in the counter when it writes, so counter and own counts move
together (`CountersAgree`, `WrongInvariant`). `BacklogInvariant` adds the queue: what
is left there, was counted as consumed or is being added by a consumer is at most
what producers have counted, are adding or sent before the barrier, and what no
counter shows (`uncounted`). The bound of
`CurveHonest` follows, since a producer past the barrier has sent one priming row
at most. The monitor reads the published count first, and it only grows.

**Sums.** The library folds over a set in the order CHOOSE gives, and its table of
partial sums is a recursive function. `SumProofs` shows that the table exists and is
unique, that any member may be taken first, and how a sum changes with one summand.
Induction over the subsets of a finite set is written as a smallest counterexample
(`SmallestSubset`), which follows from the well-founded order of strict inclusion
without an operator parameter.

Each inductive invariant was checked by TLC on the instances above before it was
proved.

Every safety invariant of the runs is proved. Model-checked only: every liveness
property, since the prover does not reason about fairness and ENABLED, and the
four violations. No module has a RECURSIVE operator.

## Not modelled

Message order, broker restarts and fail-over, duplicate delivery by the broker
itself and session reconnects inside the SDK are left out of `Broker`. Argument
checks that raise before there is state are not actions. The catalog is left
out: a callback that does not exist is one that fails. Memory below the C++
objects, message formats and log texts are left out. `pg_blazingmq_link_check`
keeps no state. The SQL scripts declare functions, `vendor/` is a third-party
library. Of the scripts, command lines, rates, averages, per-instance statistics
and printing are left out, as is Ctrl-C. The shell that drives the core NATS
scripts is not in the repository; how it waits for markers is taken from their
comments.

## Plan

1. Session, Broker, PullConsume, Subscriber, RowMapping, System, the modules of
   the scripts and the runs above: done.
2. Proofs: every safety invariant of the runs and the refinement are done. Next,
   that the properties of `PullConsume` and of `Subscriber` hold in `System` as
   well, from `SysInv`. Liveness stays with TLC.
3. Extensions: FIFO order per queue and handle where a session reads it in
   order; a broker that loses its connection and delivers again within a session.
