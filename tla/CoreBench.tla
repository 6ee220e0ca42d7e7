----------------------------- MODULE CoreBench ------------------------------
(***************************************************************************)
(* The two scripts on core NATS whose publisher and readers are processes  *)
(* of their own: bench/nats_queue_group.py (readers that share the rows of *)
(* one subject) and bench/nats_selectivity.py (one reader with a pattern). *)
(* A subscription is not retroactive, so a reader leaves a marker file     *)
(* once the server has its subscriptions, and the shell that drives the    *)
(* scripts starts the publisher when all markers are there.  Server, shell *)
(* and client library are external.                                        *)
(***************************************************************************)
EXTENDS Integers, FiniteSets

CONSTANTS
  Reader,            \* the consumers of the queue group
  REGIONS, SYMBOLS,  \* size of the subject hierarchy
  GroupCounts,       \* values of --count, for the queue group
  PatternCounts      \* and for the patterns

ASSUME CoreAssumption ==
  /\ {REGIONS, SYMBOLS} \subseteq Nat \ {0}
  /\ Reader # {} /\ IsFiniteSet(Reader)
  /\ GroupCounts \cup PatternCounts \subseteq Nat

VARIABLES
  script,    \* "group", or the pattern of the one subscriber
  count,     \* --count
  at,        \* where each reader is
  live,      \* subscriptions of a reader that the server knows
  ready,     \* readers with a marker file
  publisher, \* where the publisher is
  sent,      \* rows it has published
  routed,    \* rows the server has passed on
  box,       \* rows on their way to a reader
  stop,      \* the STOP message of a reader: "none", "coming", "seen"
  got,       \* received_ids; their number is received
  cut,       \* ghost: rows a reader was sent and did not get
  early      \* ghost: readers that ended their wait by a timeout, or died

readerVars    == <<at, live, ready, box, stop, got, cut, early>>
publisherVars == <<publisher, sent, routed>>
coreVars      == <<script, count, readerVars, publisherVars>>

Pattern == {"trades.>", "trades.r0.>", "trades.r0.s0"}
Group   == script = "group"
Started == IF Group THEN Reader ELSE {CHOOSE c \in Reader : TRUE}
Subs    == IF Group THEN 2 ELSE 1
Rows    == 0..(count - 1)

TOTAL_SUBJECTS == REGIONS * SYMBOLS

\* The region and symbol of row i.
subject_for(i) == <<i % REGIONS, (i \div REGIONS) % SYMBOLS>>

\* External: the server's match of a row's subject against the pattern.
Matches(i) ==
  \/ script \in {"group", "trades.>"}
  \/ script = "trades.r0.>" /\ subject_for(i)[1] = 0
  \/ script = "trades.r0.s0" /\ subject_for(i) = <<0, 0>>

\* len(range(0, count, step)): the multiples of step below count.
expected_matches ==
  LET range(step) == Cardinality({i \in Rows : i % step = 0})
  IN  CASE script = "trades.>" -> count
        [] script = "trades.r0.>" -> range(REGIONS)
        [] script = "trades.r0.s0" -> range(TOTAL_SUBJECTS)

CoreInit ==
  /\ \/ script = "group" /\ count \in GroupCounts
     \/ script \in Pattern /\ count \in PatternCounts
  /\ at = [c \in Reader |-> IF c \in Started THEN "connect" ELSE "done"]
  /\ live = [c \in Reader |-> 0]
  /\ ready = {} /\ publisher = "off" /\ sent = 0 /\ routed = 0
  /\ box = [c \in Reader |-> {}]
  /\ stop = [c \in Reader |-> "none"]
  /\ got = [c \in Reader |-> {}]
  /\ cut = {} /\ early = {}

Move(c, from, to) == at[c] = from /\ at' = [at EXCEPT ![c] = to]

(***************************************************************************)
(* A reader: run_consumer() and run_subscriber()                           *)
(***************************************************************************)

\* The subscriptions go out; the server takes them one after the other.
Subscribe(c) ==
  /\ Move(c, "connect", "flush")
  /\ UNCHANGED <<live, ready, box, stop, got, cut, early>>

\* Mutant: the flush comes between the two subscriptions.
ReadyHalfway(c) ==
  /\ live[c] >= 1
  /\ Move(c, "flush", "wait")
  /\ ready' = ready \cup {c}
  /\ UNCHANGED <<live, box, stop, got, cut, early>>

\* Mutant: the marker is written without a flush.
ReadyUnflushed(c) ==
  /\ Move(c, "flush", "wait")
  /\ ready' = ready \cup {c}
  /\ UNCHANGED <<live, box, stop, got, cut, early>>

\* flush() returns when the server has them all; then the marker is written.
Ready(c) ==
  /\ live[c] = Subs
  /\ Move(c, "flush", "wait")
  /\ ready' = ready \cup {c}
  /\ UNCHANGED <<live, box, stop, got, cut, early>>

\* flush() and connect() raise when there is no answer in time.
FlushRaises(c) ==
  /\ Move(c, "connect", "raised") \/ Move(c, "flush", "raised")
  /\ live' = [live EXCEPT ![c] = 0]
  /\ early' = early \cup {c}
  /\ UNCHANGED <<ready, box, stop, got, cut>>

\* STOP has been seen, or the reader has the matches it expects.
WaitEnds(c) ==
  /\ Move(c, "wait", "closing")
  /\ IF Group THEN stop[c] = "seen" ELSE Cardinality(got[c]) >= expected_matches
  /\ UNCHANGED <<live, ready, box, stop, got, cut, early>>

\* Mutant: the wait has no timeout.
WaitForStop(c) == FALSE /\ UNCHANGED readerVars

\* The 120 s of wait_for(), or the settle timeout.  Both run from the marker on.
WaitTimeout(c) ==
  /\ Move(c, "wait", "closing")
  /\ early' = early \cup {c}
  /\ UNCHANGED <<live, ready, box, stop, got, cut>>

\* After the grace period the connection is closed, rows still on their way are
\* dropped with it, and the result is written.
Report(c) ==
  /\ Move(c, "closing", "done")
  /\ live' = [live EXCEPT ![c] = 0]
  /\ cut' = cut \cup box[c] /\ box' = [box EXCEPT ![c] = {}]
  /\ UNCHANGED <<ready, stop, got, early>>

\* unsubscribe() or close() raises, on a connection that is gone: no result.
CloseRaises(c) ==
  /\ Move(c, "closing", "raised")
  /\ live' = [live EXCEPT ![c] = 0]
  /\ cut' = cut \cup box[c] /\ box' = [box EXCEPT ![c] = {}]
  /\ early' = early \cup {c}
  /\ UNCHANGED <<ready, stop, got>>

ReaderStep(c) ==
  \/ Subscribe(c) \/ Ready(c) \/ FlushRaises(c) \/ WaitEnds(c) \/ WaitTimeout(c)
  \/ Report(c) \/ CloseRaises(c)

\* on_msg() or handler(), and on_stop(): callbacks of two subscriptions, so STOP
\* may overtake rows.
OnMsg(c, r) ==
  /\ at[c] \in {"wait", "closing"} /\ r \in box[c]
  /\ box' = [box EXCEPT ![c] = @ \ {r}]
  /\ got' = [got EXCEPT ![c] = @ \cup {r}]
  /\ UNCHANGED <<at, live, ready, stop, cut, early>>

OnStop(c) ==
  /\ at[c] \in {"wait", "closing"} /\ stop[c] = "coming"
  /\ stop' = [stop EXCEPT ![c] = "seen"]
  /\ UNCHANGED <<at, live, ready, box, got, cut, early>>

(***************************************************************************)
(* The publisher                                                           *)
(***************************************************************************)

\* External: the shell has seen every marker.
StartPublisher ==
  /\ publisher = "off" /\ ready = Started
  /\ publisher' = "publishing"
  /\ UNCHANGED <<sent, routed>>

\* Mutant: the loop runs once too often.
PublishOneMore ==
  /\ publisher = "publishing" /\ sent <= count
  /\ sent' = sent + 1
  /\ UNCHANGED <<publisher, routed>>

PublishOne ==
  /\ publisher = "publishing" /\ sent < count
  /\ sent' = sent + 1
  /\ UNCHANGED <<publisher, routed>>

\* flush() after the last row: the server has passed on all of them.
Flush ==
  /\ publisher = "publishing" /\ sent = count /\ routed = count
  /\ publisher' = IF Group THEN "flushed" ELSE "closed"
  /\ UNCHANGED <<sent, routed>>

PublisherRaises ==
  /\ publisher \in {"publishing", "flushed"}
  /\ publisher' = "raised"
  /\ UNCHANGED <<sent, routed>>

\* STOP goes to every reader with both subscriptions; flush() and close() follow.
PublishStop ==
  /\ publisher = "flushed"
  /\ publisher' = "closed"
  /\ stop' = [c \in Reader |-> IF live[c] = 2 THEN "coming" ELSE stop[c]]
  /\ UNCHANGED <<sent, routed, at, live, ready, box, got, cut, early>>

(***************************************************************************)
(* External: the server and the network                                    *)
(***************************************************************************)
ServerSubscribes(c) ==
  /\ at[c] \in {"flush", "wait"} /\ live[c] < Subs
  /\ live' = [live EXCEPT ![c] = @ + 1]
  /\ UNCHANGED <<at, ready, box, stop, got, cut, early>>

\* A row goes to one member of the group, or to the subscriber if it matches; a
\* row that nobody is subscribed to is gone.
Route ==
  /\ routed < sent
  /\ routed' = routed + 1
  /\ LET to == {c \in Reader : live[c] > 0 /\ Matches(routed)}
     IN  \/ to = {} /\ UNCHANGED box
         \/ \E c \in to : box' = [box EXCEPT ![c] = @ \cup {routed}]
  /\ UNCHANGED <<publisher, sent, at, live, ready, stop, got, cut, early>>

\* A reader that is too slow loses rows.
Drop(c, r) ==
  /\ r \in box[c]
  /\ box' = [box EXCEPT ![c] = @ \ {r}] /\ cut' = cut \cup {r}
  /\ UNCHANGED <<at, live, ready, stop, got, early>>

CoreNext ==
  /\ \/ /\ \E c \in Reader : ReaderStep(c) \/ OnStop(c) \/ ServerSubscribes(c)
                               \/ \E r \in Rows : OnMsg(c, r) \/ Drop(c, r)
        /\ UNCHANGED publisherVars
     \/ (StartPublisher \/ PublishOne \/ Flush \/ PublisherRaises) /\ UNCHANGED readerVars
     \/ PublishStop \/ Route
  /\ UNCHANGED <<script, count>>

\* Only the readers' own code is assumed to run: each of its waits has a timeout.
CoreFairness ==
  \A c \in Reader : WF_coreVars(ReaderStep(c) /\ UNCHANGED <<script, count, publisherVars>>)

CoreSpec == CoreInit /\ [][CoreNext]_coreVars /\ CoreFairness

-----------------------------------------------------------------------------
(***************************************************************************)
(* Properties                                                              *)
(***************************************************************************)

\* The type invariant of readers, publisher and what is under way between them.
CoreTypeOK ==
  /\ script \in Pattern \cup {"group"} /\ count \in Nat
  /\ at \in [Reader -> {"connect", "flush", "wait", "closing", "done", "raised"}]
  /\ live \in [Reader -> 0..Subs] /\ ready \subseteq Started /\ early \subseteq Started
  /\ publisher \in {"off", "publishing", "flushed", "closed", "raised"}
  /\ sent \in 0..count /\ routed \in 0..sent
  /\ box \in [Reader -> SUBSET (0..(routed - 1))] /\ got \in [Reader -> SUBSET (0..(routed - 1))]
  /\ stop \in [Reader -> {"none", "coming", "seen"}]
  /\ cut \subseteq 0..(routed - 1)

\* Unless a reader gave up or lost a row, the readers' results are every row that
\* was meant for them: what the marker is written so late for.
UnionComplete ==
  early = {} /\ cut = {} /\ (\A c \in Reader : at[c] = "done")
    => UNION {got[c] : c \in Reader} = {r \in Rows : Matches(r)}

\* Once the publisher has sent STOP, every reader that still waits has seen it or
\* will: none of them spends its 120 s on a message it cannot get.
StopNotMissed ==
  Group /\ publisher = "closed" => \A c \in Reader : at[c] = "wait" => stop[c] # "none"

\* match_ok is true exactly when the subscriber has every matching row, for every
\* count and pattern, and whatever was lost or timed out.
MatchOkExact ==
  ~Group => \A c \in Started :
    at[c] = "done" =>
      (Cardinality(got[c]) = expected_matches <=> got[c] = {r \in Rows : Matches(r)})

\* What the readers report is exact, for both scripts.
ReportsExact == UnionComplete /\ MatchOkExact

\* Every reader ends, with its result or an exception, even when the publisher
\* never starts or dies before STOP.
ReadersEnd == <>(\A c \in Reader : at[c] \in {"done", "raised"})

-----------------------------------------------------------------------------
(***************************************************************************)
(* The inductive invariant behind the safety properties                    *)
(***************************************************************************)

\* Who runs: a reader that the script did not start is over.
StartedInvariant == \A c \in Reader \ Started : at[c] = "done"

\* The server has both subscriptions of a reader from its marker to its end, and
\* the publisher runs only behind all the markers.
MarkerInvariant ==
  /\ \A c \in Reader : at[c] \in {"wait", "closing"} => live[c] = Subs
  /\ \A c \in Reader : at[c] = "done" => live[c] = 0 /\ box[c] = {}
  /\ \A c \in ready :
       at[c] \in {"wait", "closing", "done"} \/ (at[c] = "raised" /\ c \in early)
  /\ publisher # "off" => ready = Started
  /\ publisher = "off" => sent = 0

\* STOP goes out once, behind the last row.
StopInvariant ==
  /\ \A c \in Reader : stop[c] # "none" => Group /\ publisher = "closed"
  /\ publisher = "flushed" => Group
  /\ publisher \in {"flushed", "closed"} => routed = count

\* Where a row is: with a reader whose pattern it matches; and while no reader has
\* given up, no row of the group is lost without a trace, since a reader that
\* stops waiting has seen STOP or has every match.
RowsInvariant ==
  /\ \A c \in Reader : box[c] \cup got[c] \subseteq {r \in Rows : Matches(r)}
  /\ early = {} => \A c \in Started : at[c] \in {"closing", "done"} =>
       IF Group THEN stop[c] = "seen" ELSE Cardinality(got[c]) >= expected_matches
  /\ Group /\ early = {} => \A r \in 0..(routed - 1) :
       r \in cut \/ \E c \in Reader : r \in box[c] \cup got[c]

CoreIInv ==
  StartedInvariant /\ MarkerInvariant /\ StopInvariant /\ StopNotMissed /\ RowsInvariant
=============================================================================
