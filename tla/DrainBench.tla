----------------------------- MODULE DrainBench -----------------------------
(***************************************************************************)
(* The two scripts that publish rows and then drain them to compare what   *)
(* came back with what was published: bench/js_bench.py over a JetStream   *)
(* stream, with a drainer process that writes a dump file, and             *)
(* bench/bmq_bench.py over bmq_publish_row() and bmq_consume().  Neither   *)
(* cleans up after an exception, and the names may be given, so a run can  *)
(* meet what an earlier one left.  A row is known by its contents only:    *)
(* two rows may be equal, and the comparison sees a normal form of them,   *)
(* which may make more rows equal or a row differ from itself.  Stream,    *)
(* queues and drainer are external.                                        *)
(***************************************************************************)
EXTENDS Integers, Sequences, FiniteSets, Bags, Functions

CONSTANTS
  Content,   \* contents of a row
  Forms,     \* what the comparison may make of contents, see form
  Limit,     \* --limit
  MaxRuns,   \* bound: runs under the same names
  MaxAgain   \* bound: rows a run's drainer gets twice

ASSUME DrainAssumption ==
  /\ {Limit, MaxRuns, MaxAgain} \subseteq Nat /\ MaxRuns > 0
  /\ Forms # {} /\ \A f \in Forms : DOMAIN f.ref = Content /\ DOMAIN f.got = Content

VARIABLES
  tool,      \* "js_bench" or "bmq_bench"
  form,      \* canon() and norm: the normal form of contents in the reference and
             \* of the same contents as they come back
  run,       \* number of the run
  stage,     \* where it is
  source,    \* the rows of its query, at most Limit
  posted,    \* rows of it that have been published
  stream,    \* the stream exists
  held,      \* messages in the stream, or in the queue --queue-uri
  other,     \* messages in the queue of the verify step
  unread,    \* messages the drainer's consumer has not been acknowledged
  drainer,   \* the drainer: "off", "on", "killed" and not reaped
  files,     \* dump and log are there
  dump,      \* the rows to compare, as a bag of messages
  torn,      \* the last line of the dump is incomplete
  verdict,   \* "none", "PASS", "FAIL"
  lost,      \* ghost: messages of the run that were published and not stored
  again,     \* ghost: rows the drainer got again
  late,      \* ghost: a deadline or a timeout ended a phase
  mixed,     \* ghost: the rows to compare were taken with others around
  kept       \* ghost: the stream's DELETE was refused

ghosts    == <<lost, again, late, mixed, kept>>
queueVars == <<stream, held, other, unread>>
drainVars == <<tool, form, run, stage, source, posted, queueVars, drainer, files, dump, torn,
               verdict, ghosts>>

Js == tool = "js_bench"

\* The messages of the run: those of the measured phase or those of the verify step.
Message(phase, i) == [run |-> run, phase |-> phase, row |-> i, what |-> source[i]]
Own(phase)        == {Message(phase, i) : i \in DOMAIN source}
Compared          == Own(IF Js THEN "measure" ELSE "verify")

\* Lines of a dump, and how often each normal form is in it.
Lines(b)       == SumFunction(b)
Contents(b, f) == [c \in {f[m.what] : m \in DOMAIN b} |->
                     SumFunctionOnSet(b, {m \in DOMAIN b : f[m.what] = c})]

\* What the query may give.
SourceTable == UNION {[1..n -> Content] : n \in 0..Limit}

\* js_bench's canon() keeps every column, bmq_bench's norm those it names, which is
\* none of them on another table.  Either may leave a value that JSON renders in
\* two ways different from itself.
DrainInit ==
  /\ tool \in {"js_bench", "bmq_bench"} /\ run = 1
  /\ form \in {f \in Forms : tool = "js_bench" => IsInjective(f.ref) /\ IsInjective(f.got)}
  /\ stage = "create" /\ source \in SourceTable /\ posted = 0
  /\ stream = FALSE /\ held = {} /\ other = {} /\ unread = {}
  /\ drainer = "off" /\ files = FALSE /\ dump = EmptyBag /\ torn = FALSE /\ verdict = "none"
  /\ lost = {} /\ again = 0 /\ late = FALSE /\ mixed = FALSE /\ kept = FALSE

\* An exception ends the run; no finally block cleans up.
Raise ==
  /\ stage' = "raised"
  /\ UNCHANGED <<tool, form, run, source, posted, files, dump, torn, verdict, ghosts>>

(***************************************************************************)
(* Publish                                                                 *)
(***************************************************************************)

\* The stream is created, which does nothing to one that is there already; the
\* rows are fixed, in a temporary table or by one query.
Create ==
  /\ stage = "create"
  /\ stage' = "publish"
  /\ stream' = Js
  /\ UNCHANGED <<tool, form, run, source, posted, held, other, unread, drainer, files, dump, torn,
                 verdict, ghosts>>

\* An error reply, or none although the request was carried out.
CreateRaises ==
  /\ stage = "create"
  /\ Raise
  /\ stream' \in {stream, Js}
  /\ UNCHANGED <<held, other, unread, drainer>>

\* A row is published; js_bench looks at no acknowledgement.
PublishRow ==
  /\ stage \in {"publish", "republish"} /\ posted < Len(source)
  /\ posted' = posted + 1
  /\ LET m == Message(IF stage = "publish" THEN "measure" ELSE "verify", posted + 1)
     IN  \/ lost' = lost \cup {m} /\ UNCHANGED <<held, other>>
         \/ stage = "publish" /\ held' = held \cup {m} /\ UNCHANGED <<other, lost>>
         \/ stage = "republish" /\ other' = other \cup {m} /\ UNCHANGED <<held, lost>>
  /\ UNCHANGED <<tool, form, run, stage, source, stream, unread, drainer, files, dump, torn,
                 verdict, again, late, mixed, kept>>

\* The statement, or the flush after it, fails.
PublishRaises ==
  /\ stage \in {"publish", "republish"}
  /\ Raise
  /\ UNCHANGED <<queueVars, drainer>>

Published ==
  /\ stage \in {"publish", "republish"} /\ posted = Len(source)
  /\ stage' = (IF Js THEN "info" ELSE IF stage = "publish" THEN "receive" ELSE "pull")
  /\ posted' = 0
  /\ UNCHANGED <<tool, form, run, source, queueVars, drainer, files, dump, torn, verdict, ghosts>>

(***************************************************************************)
(* js_bench: check the backlog, drain it, compare the dump                 *)
(***************************************************************************)

\* Mutant: a backlog that is too large is taken for a valid one.
BacklogAtLeast == Cardinality(held) >= Len(source)

\* persisted == row_count
BacklogValid == Cardinality(held) = Len(source)

\* The drainer starts with a consumer and a dump file of its own.
StartDrain ==
  /\ stage = "info" /\ BacklogValid
  /\ stage' = "drain"
  /\ drainer' = "on" /\ files' = TRUE /\ unread' = held
  /\ mixed' = ~(held \subseteq Compared)
  /\ UNCHANGED <<tool, form, run, source, posted, stream, held, other, dump, torn, verdict, lost,
                 again, late, kept>>

\* Not a valid backlog, or no reply.
InfoRaises ==
  /\ stage = "info"
  /\ Raise
  /\ UNCHANGED <<queueVars, drainer>>

\* last_count >= row_count
Enough == Lines(dump) >= Len(source)

\* The poll loop ends with enough lines or at its deadline.
PollEnds ==
  /\ stage = "drain"
  /\ stage' = "stop"
  /\ \/ Enough /\ UNCHANGED late
     \/ late' = TRUE
  /\ UNCHANGED <<tool, form, run, source, posted, queueVars, drainer, files, dump, torn, verdict,
                 lost, again, mixed, kept>>

\* terminate(), or kill(), and wait(): it may be cut off in the middle of a line.
StopDrainer ==
  /\ stage = "stop"
  /\ stage' = "verify" /\ drainer' = "off"
  /\ torn' \in IF unread = {} THEN {FALSE} ELSE BOOLEAN
  /\ UNCHANGED <<tool, form, run, source, posted, queueVars, files, dump, verdict, ghosts>>

\* Not even kill() ends it in five seconds.
StopRaises ==
  /\ stage = "stop"
  /\ drainer' = "killed"
  /\ Raise
  /\ UNCHANGED queueVars

\* Mutant: only the number of rows is compared.
SameNumber == Lines(dump) = Len(source)

\* dumped_set == ref_set, sorted lists of normal forms; or no group of equal normal
\* forms differs.
SameRows == Contents(dump, form.got) = Contents(SetToBag(Compared), form.ref)

Verify ==
  /\ stage = "verify" /\ ~torn
  /\ stage' = "cleanup"
  /\ verdict' = IF SameRows THEN "PASS" ELSE "FAIL"
  /\ UNCHANGED <<tool, form, run, source, posted, queueVars, drainer, files, dump, torn, ghosts>>

\* A line that does not parse, or no file because nothing was written.
VerifyRaises ==
  /\ stage = "verify"
  /\ torn \/ dump = EmptyBag
  /\ Raise
  /\ UNCHANGED <<queueVars, drainer>>

\* The reply to the DELETE is not looked at: it may be an error.
Cleanup ==
  /\ stage = "cleanup"
  /\ stage' = "summary" /\ files' = FALSE
  /\ \/ stream' = FALSE /\ held' = {} /\ unread' = {} /\ UNCHANGED kept
     \/ kept' = TRUE /\ UNCHANGED <<stream, held, unread>>
  /\ UNCHANGED <<tool, form, run, source, posted, other, drainer, dump, torn, verdict,
                 lost, again, late, mixed>>

CleanupRaises ==
  /\ stage = "cleanup"
  /\ \/ UNCHANGED <<stream, held, unread>>
     \/ stream' = FALSE /\ held' = {} /\ unread' = {}
  /\ Raise
  /\ UNCHANGED <<other, drainer>>

\* External: a line for the next message; without its acknowledgement it comes again.
DrainOne(m) ==
  /\ drainer = "on" /\ m \in unread
  /\ dump' = dump (+) SetToBag({m})
  /\ \/ unread' = unread \ {m} /\ UNCHANGED again
     \/ again < MaxAgain /\ again' = again + 1 /\ UNCHANGED unread
  /\ UNCHANGED <<tool, form, run, stage, source, posted, stream, held, other, drainer, files, torn,
                 verdict, lost, late, mixed, kept>>

(***************************************************************************)
(* bmq_bench: receive, publish again to another queue, pull and compare    *)
(***************************************************************************)

\* External: bmq_consume() takes messages of every queue the session has open, the
\* limit of them or what comes before the timeout.
Taken(from) == {S \in SUBSET from : Cardinality(S) <= Limit}

\* The number is printed and not looked at.
Receive ==
  /\ stage = "receive" /\ source # <<>>
  /\ \E S \in Taken(held) :
       held' = held \ S /\ late' = (late \/ (S # held /\ Cardinality(S) < Limit))
  /\ stage' = "republish"
  /\ UNCHANGED <<tool, form, run, source, posted, stream, other, unread, drainer, files, dump,
                 torn, verdict, lost, again, mixed, kept>>

Pull ==
  /\ stage = "pull"
  /\ \E S \in Taken(held \cup other) :
       /\ held' = held \ S /\ other' = other \ S
       /\ dump' = SetToBag(S)
       /\ late' = (late \/ (S # held \cup other /\ Cardinality(S) < Limit))
  /\ mixed' = ~(held \cup other \subseteq Compared)
  /\ stage' = "compare"
  /\ UNCHANGED <<tool, form, run, source, posted, stream, unread, drainer, files, torn, verdict,
                 lost, again, kept>>

\* The three numbers agree and no group of equal rows differs.
Compare ==
  /\ stage = "compare"
  /\ verdict' = IF /\ Lines(dump) = Len(source) /\ Len(source) = Limit
                   /\ SameRows
                THEN "PASS" ELSE "FAIL"
  /\ stage' = "summary"
  /\ UNCHANGED <<tool, form, run, source, posted, queueVars, drainer, files, dump, torn, ghosts>>

\* A call fails, or the average size of no row at all cannot be printed, or norm's
\* casts do not fit the rows: what the call has confirmed is gone.
ConsumeRaises ==
  /\ stage \in {"receive", "pull"}
  /\ \E S \in Taken(held \cup other) : held' = held \ S /\ other' = other \ S
  /\ Raise
  /\ UNCHANGED <<stream, unread, drainer>>

-----------------------------------------------------------------------------
\* The script is run again under the same names.  Its query may give other rows.
Rerun ==
  /\ stage \in {"summary", "raised"} /\ run < MaxRuns
  /\ run' = run + 1 /\ stage' = "create"
  /\ source' \in SourceTable /\ posted' = 0 /\ unread' = {} /\ drainer' = "off"
  /\ files' = FALSE /\ dump' = EmptyBag /\ torn' = FALSE /\ verdict' = "none"
  /\ lost' = {} /\ again' = 0 /\ late' = FALSE /\ mixed' = FALSE /\ kept' = FALSE
  /\ UNCHANGED <<tool, form, stream, held, other>>

Script ==
  \/ Create \/ CreateRaises \/ PublishRow \/ PublishRaises \/ Published
  \/ StartDrain \/ InfoRaises \/ PollEnds \/ StopDrainer \/ StopRaises \/ Verify \/ VerifyRaises
  \/ Cleanup \/ CleanupRaises
  \/ Receive \/ Pull \/ Compare \/ ConsumeRaises

DrainNext == Script \/ (\E m \in unread : DrainOne(m)) \/ Rerun

\* The script is sequential: requests, the poll loop and wait() have timeouts, and a
\* statement returns.  Of the drainer nothing is assumed.
DrainSpec == DrainInit /\ [][DrainNext]_drainVars /\ WF_drainVars(Script)

-----------------------------------------------------------------------------
(***************************************************************************)
(* Properties                                                              *)
(***************************************************************************)

\* The type invariant of the script, the queues and the drainer.
DrainTypeOK ==
  /\ tool \in {"js_bench", "bmq_bench"} /\ form \in Forms
  /\ run \in 1..MaxRuns /\ source \in SourceTable /\ posted \in 0..Len(source)
  /\ stage \in {"create", "publish", "info", "drain", "stop", "verify", "cleanup", "receive",
                "republish", "pull", "compare", "summary", "raised"}
  /\ stream \in BOOLEAN /\ files \in BOOLEAN /\ torn \in BOOLEAN
  /\ late \in BOOLEAN /\ mixed \in BOOLEAN /\ kept \in BOOLEAN
  /\ drainer \in {"off", "on", "killed"} /\ verdict \in {"none", "PASS", "FAIL"}
  /\ \A m \in held \cup other \cup unread \cup lost \cup BagToSet(dump) :
       m.run \in 1..run /\ m.what \in Content /\ m.row \in 1..Limit
  /\ (held # {} => stream \/ ~Js) /\ unread \subseteq held /\ IsABag(dump)
  /\ again \in 0..MaxAgain

\* The comparison knows a row when it comes back, and knows it from the others.
Recognised == \A i \in DOMAIN source : form.got[source[i]] = form.ref[source[i]]
Distinct   == \A i, j \in DOMAIN source : form.ref[source[i]] = form.ref[source[j]] => i = j

\* PASS means that each row of this run came back, once, unless messages of
\* another run or queue were there too, or a row came twice in place of another
\* that has the same normal form (on a table without norm's columns they all
\* have), or the normal form does not make a row equal to itself.
PassMeansDelivered ==
  verdict = "PASS" /\ Recognised /\ ~mixed /\ (again = 0 \/ Distinct) => dump = SetToBag(Compared)

\* FAIL means that something went wrong on the way, that the query gave bmq_bench
\* fewer rows than --limit, or that the normal form left a row different from
\* itself.
FailMeansFault ==
  verdict = "FAIL" =>
    mixed \/ lost # {} \/ again > 0 \/ late \/ (~Js /\ Len(source) < Limit) \/ ~Recognised

\* The verdict on a run is sound both ways.
RunVerdictSound == PassMeansDelivered /\ FailMeansFault

\* js_bench drains a backlog with rows of an earlier run in it only if it has lost
\* as many of its own, whatever that run left and where it stopped.
BacklogIsOwn ==
  Js /\ stage \in {"drain", "stop", "verify", "cleanup"} =>
    Cardinality(held \ Compared) = Cardinality(lost)

\* A run with a summary leaves no file or drainer, no stream unless its DELETE was
\* refused, and without that or a fault no message either; one that raised leaves
\* no drainer that still writes.
LeavesNothing ==
  /\ stage \in {"summary", "raised"} => drainer # "on"
  /\ stage = "summary" => (stream => kept) /\ ~files
  /\ stage = "summary" /\ ~mixed /\ ~late /\ ~kept => held = {} /\ other = {}

\* A run neither takes what another left for its own nor leaves something itself
\* that it could know of.
RunsApart == BacklogIsOwn /\ LeavesNothing

\* Every run ends, with a summary or an exception, also when the drainer writes
\* nothing.
RunEnds == <>[](stage \in {"summary", "raised"})

-----------------------------------------------------------------------------
(***************************************************************************)
(* The inductive invariant behind RunsApart                                *)
(***************************************************************************)

\* Which script is where, and what it leaves alone.
PhaseInvariant ==
  /\ stage \in {"info", "drain", "stop", "verify", "cleanup"} => Js
  /\ stage \in {"receive", "republish", "pull", "compare"} => ~Js
  /\ Js /\ stage = "publish" => stream
  /\ stage = "create" => posted = 0
  /\ drainer = "on" => stage \in {"drain", "stop"}
  /\ ~Js => ~stream /\ ~files /\ unread = {}
  /\ Js => other = {}
  /\ stage = "summary" => (stream => kept) /\ ~files

\* What the run of js_bench has published so far.
SentSoFar ==
  IF stage \in {"create", "publish"} THEN {Message("measure", i) : i \in 1..posted} ELSE Compared

\* Each of these is in the stream or lost, and nothing in the stream but these is
\* of the run; so a backlog of the right size has a row of an earlier run for
\* each row that was lost.
BacklogInvariant ==
  /\ IsFiniteSet(held) /\ IsFiniteSet(other)
  /\ Js /\ stage \notin {"summary", "raised"} =>
       lost \subseteq SentSoFar /\ held \cap Compared = SentSoFar \ lost
  /\ BacklogIsOwn

\* A run of bmq_bench that met only its own messages and waited for all of them
\* leaves none; js_bench deletes the stream, if the server lets it.
EmptyInvariant ==
  /\ ~Js /\ stage \in {"compare", "summary"} /\ ~mixed /\ ~late => held = {} /\ other = {}
  /\ Js /\ stage = "summary" /\ ~kept => held = {}

DrainIInv == PhaseInvariant /\ BacklogInvariant /\ EmptyInvariant

(***************************************************************************)
(* The inductive invariant behind RunVerdictSound                          *)
(***************************************************************************)

\* A drainer that got nothing twice has written each message it acknowledged, and
\* the poll loop waits for all of them or notices.
DumpInvariant ==
  /\ stage \in {"create", "publish", "info"} => dump = EmptyBag /\ again = 0
  /\ stage \in {"drain", "stop", "verify"} =>
       /\ Cardinality(held) = Len(source) /\ BagToSet(dump) \subseteq held
       /\ mixed \/ held \subseteq Compared
       /\ again = 0 => dump = SetToBag(held \ unread)
  /\ stage \in {"stop", "verify"} => late \/ again > 0 \/ unread = {}

\* The verify step of bmq_bench publishes each row to its own queue or loses it, and
\* pulls some of them, or all.
PullInvariant ==
  /\ stage = "receive" => posted = 0
  /\ stage = "republish" => {Message("verify", i) : i \in 1..posted} \ lost \subseteq other
  /\ stage = "pull" => Compared \ lost \subseteq other
  /\ stage = "compare" =>
       /\ dump = SetToBag(BagToSet(dump)) /\ (mixed \/ BagToSet(dump) \subseteq Compared)
       /\ mixed \/ lost # {} \/ late \/ dump = SetToBag(Compared)

VerdictIInv ==
  /\ DumpInvariant /\ PullInvariant /\ RunVerdictSound
  /\ verdict # "none" => stage \in {"cleanup", "summary", "raised"}
=============================================================================
