---------------------------- MODULE SidecarTrial ----------------------------
(***************************************************************************)
(* A sweep of sidecar benchmark trials and the driver processes it runs    *)
(* (bench/mq_bench_driver.cpp).  A trial starts a server and several       *)
(* instances of the sidecar, gives each instance the filter, lets a        *)
(* subscriber count what they forward while rows are published, judges the *)
(* count and stops everything; the main loop keeps the result and goes on. *)
(* Sidecar and NATS server are external: core delivery is at most once, to *)
(* one instance per row, and not retroactive; a durable consumer delivers  *)
(* a row again until it is acknowledged.                                   *)
(***************************************************************************)
EXTENDS SidecarScripts, Sequences, FiniteSets

CONSTANTS
  MsgCount,  \* rows to publish, 1..MsgCount
  Matching,  \* rows the filter matches; there are EXPECTED of them
  MaxAgain,  \* bound: deliveries of a trial that are not acknowledged
  MaxLeft,   \* bound: kinds of process that have outlived their stop() and still run
  MaxUnheard \* bound: instances of a trial that go through without an answer of their own

ASSUME TrialAssumption ==
  /\ MsgCount \in Nat /\ Matching \subseteq 1..MsgCount 
  /\ MaxAgain \in Nat /\ MaxLeft \in Nat /\ MaxUnheard \in Nat

VARIABLES
  sweep,    \* the trials of the script's main loop
  k,        \* the one under way
  kept,     \* results main has kept
  bad,      \* trials it has reported as failed, stalled or incorrect
  stage,    \* where the trial is
  outcome,  \* how it ended: "whole" or "short" count, "done", "failed" (None), "raised"
  warned,   \* it printed that an instance or the publisher failed
  server,   \* the server runs
  up,       \* instances that run
  aide,     \* the process beside: "off", "on", "signalled"
  left,     \* what of earlier trials still runs: "instance", "server", "sub"
  rule,     \* instances that have the filter
  todo,     \* instances still to be sent it
  driver,   \* the control driver: "off", "waiting", "hung"
  target,   \* the instances it has written to
  asked,    \* instances with an unanswered control message
  acks,     \* answers the driver has got
  errs,
  unheard,  \* ghost: instances that went through without an answer of their own
  sub,      \* the subscriber: "off", "connecting", "counting", "settling", "printed", "hung", "died"
  total,    \* what it has counted
  sent,     \* rows published
  wire,     \* rows published and not yet taken
  counted,  \* ghost: the rows behind total
  again,    \* ghost: deliveries that were not acknowledged
  fault     \* ghost: something outside the script went wrong

mainVars    == <<sweep, k, kept, bad>>
procVars    == <<server, up, aide, left>>
controlVars == <<rule, todo, driver, target, asked, acks, errs, unheard>>
dataVars    == <<sub, total, sent, wire, counted, again>>
trialVars   == <<mainVars, stage, outcome, warned, procVars, controlVars, dataVars, fault>>

trial    == sweep[k]
Instance == 1..trial.n
Own      == trial.sidecar.subject = "own"
Durable  == trial.sidecar.input = "durable"
Expected == Cardinality(Matching)

TrialInit ==
  /\ sweep \in Sweeps /\ k = 1
  /\ kept = 0 /\ bad = 0
  /\ stage = "server" /\ outcome = "none" /\ warned = FALSE
  /\ server = FALSE /\ up = {} /\ aide = "off" /\ left = {}
  /\ rule = {} /\ todo = {} /\ driver = "off" /\ target = {} /\ asked = {} /\ acks = {} /\ errs = {}
  /\ unheard = {}
  /\ sub = "off" /\ total = 0 /\ sent = 0 /\ wire = {} /\ counted = {} /\ again = 0
  /\ fault = FALSE

\* A process of an earlier trial may keep the port, so that the server of this one
\* exits at once: whoever connects finds the other.
Serving == server \/ "server" \in left

\* The trial leaves its try block and the finally block follows.  What only the
\* block looked at is forgotten, but a subscriber that still runs: nobody stops it.
LeaveTo(how) ==
  /\ stage' = "stop" /\ outcome' = how
  /\ rule' = {} /\ todo' = {} /\ driver' = "off" /\ target' = {} /\ asked' = {} /\ acks' = {}
  /\ errs' = {} /\ unheard' = {}
  /\ sub' = "off" /\ total' = 0 /\ sent' = 0 /\ wire' = {} /\ counted' = {} /\ again' = 0
  /\ left' = IF sub \in {"connecting", "counting", "settling", "hung"} THEN left \cup {"sub"} ELSE left
  /\ warned' = FALSE /\ fault' = FALSE
  /\ UNCHANGED <<mainVars, server, up>>

Leave(how) == LeaveTo(how) /\ UNCHANGED aide

(***************************************************************************)
(* The trial up to the subscriber                                          *)
(***************************************************************************)
StartServer ==
  /\ stage = "server"
  /\ stage' = "instances" /\ server' = ("server" \notin left)
  /\ UNCHANGED <<mainVars, outcome, warned, up, aide, left, controlVars, dataVars, fault>>

\* The profile of the idle server cannot be fetched.
BaselineRaises ==
  /\ stage = "instances" /\ trial.beside = "blockprofile"
  /\ Leave("raised")

StartInstances ==
  /\ stage = "instances"
  /\ stage' = "setup" /\ up' = Instance /\ todo' = Instance
  /\ UNCHANGED <<mainVars, outcome, warned, server, aide, left, rule, driver, target, asked, acks,
                 errs, unheard, dataVars, fault>>

\* The script that creates a stream goes on when the server refuses it: the rows
\* reach the instance on the subject itself, and the publisher may fail.
Setup ==
  /\ stage = "setup"
  /\ trial.setup = "poll" => up = Instance
  /\ stage' = "control"
  /\ UNCHANGED <<mainVars, outcome, warned, procVars, controlVars, dataVars, fault>>

\* An instance exited early, or what creates the stream failed or hangs.
SetupFails ==
  /\ stage = "setup"
  /\ \/ trial.setup = "poll" /\ up # Instance /\ Leave("failed")
     \/ trial.setup = "stream" /\ (Leave("failed") \/ Leave("raised"))

\* Who hears the next control message: one instance, in order, or all of them.
Recipients == IF Own THEN {i \in todo : \A j \in todo : i <= j} ELSE todo

\* The driver sends the filter; an instance that does not run misses it.
SendRule ==
  /\ stage = "control" /\ driver = "off" /\ todo # {}
  /\ asked' = asked \cup (Recipients \cap up) /\ todo' = todo \ Recipients
  /\ driver' = "waiting" /\ target' = Recipients
  /\ UNCHANGED <<mainVars, stage, outcome, warned, procVars, rule, acks, errs, unheard, dataVars, fault>>

\* The driver exits, and what it has heard is forgotten; of `lost` it heard nothing.
DriverEnds(lost) ==
  /\ driver' = "off" /\ target' = {} /\ acks' = {} /\ errs' = {}
  /\ unheard' = unheard \cup lost /\ fault' = (fault \/ lost # {})

\* The last filter is out.
ControlDone(warn, lost) ==
  \/ /\ trial.rows /\ DriverEnds(lost)
     /\ stage' = "subscribe" /\ warned' = warn
     /\ UNCHANGED <<mainVars, outcome, procVars, rule, todo, asked, dataVars>>
  \/ ~trial.rows /\ Leave("done")

\* The next filter, if there is one.
NextFilter(warn, lost) ==
  \/ todo = {} /\ ControlDone(warn, lost)
  \/ /\ todo # {} /\ DriverEnds(lost)
     /\ warned' = warn
     /\ UNCHANGED <<mainVars, stage, outcome, procVars, rule, todo, asked, dataVars>>

\* Mutant: the reply of an instance is not looked at.
CtrlRepliesUnchecked ==
  /\ Own /\ driver = "waiting" /\ acks \cup errs # {}
  /\ NextFilter(warned, {})

\* do_ctrl prints the reply and exits; an error in it ends the trial or is printed.
CtrlReplies ==
  /\ Own /\ driver = "waiting" /\ acks \cup errs # {}
  /\ \/ errs # {} /\ trial.onRefusal = "abort" /\ Leave("failed")
     \/ (errs # {} => trial.onRefusal = "warn") /\ NextFilter(warned \/ errs # {}, {})

\* run_ctrl looks at stdout alone: a driver that dies before it prints its reply
\* leaves it empty, no error is found there, and the script goes on.
CtrlDies ==
  /\ Own /\ driver = "waiting" /\ Cardinality(unheard) < MaxUnheard
  /\ NextFilter(warned, target)

\* No reply in time: do_ctrl returns without ioc.stop(), so the process stays.
CtrlHangs ==
  /\ Own /\ driver = "waiting"
  /\ driver' = "hung"
  /\ UNCHANGED <<mainVars, stage, outcome, warned, procVars, rule, todo, target, asked, acks, errs,
                 unheard, dataVars, fault>>

\* do_ctrl_bcast exits when all have answered or its time is up, and the trial
\* warns of errors, and if not all acknowledged.
BcastReplies ==
  /\ ~Own /\ driver = "waiting"
  /\ ControlDone(acks # Instance \/ errs # {}, {})

\* The inbox or the publish failed: nothing on stdout.
BcastFails ==
  /\ ~Own /\ driver = "waiting"
  /\ Leave("failed")

\* subprocess.run(timeout=...) kills the driver and raises.
ControlTimeout ==
  /\ driver \in {"waiting", "hung"}
  /\ Leave("raised")

\* The subscriber starts, then what watches the rows.
StartSub ==
  /\ stage = "subscribe"
  /\ stage' = "publish" /\ sub' = "connecting"
  /\ aide' = IF trial.beside \in {"mpstat", "perf"} THEN "on" ELSE aide
  /\ UNCHANGED <<mainVars, outcome, warned, server, up, left, controlVars, total, sent, wire,
                 counted, again, fault>>

(***************************************************************************)
(* The trial from the publish on                                           *)
(***************************************************************************)
\* Mutant: a row is published again.
PublishOneAgain ==
  /\ stage = "publish" /\ sent < MsgCount
  /\ \E c \in {sent, sent + 1} : sent' = c /\ wire' = wire \cup {sent + 1}
  /\ UNCHANGED <<mainVars, stage, outcome, warned, procVars, controlVars, sub, total, counted,
                 again, fault>>

PublishOne ==
  /\ stage = "publish" /\ sent < MsgCount
  /\ sent' = sent + 1 /\ wire' = wire \cup {sent + 1}
  /\ UNCHANGED <<mainVars, stage, outcome, warned, procVars, controlVars, sub, total, counted,
                 again, fault>>

Published ==
  /\ stage = "publish" /\ sent = MsgCount
  /\ stage' = "wait"
  /\ UNCHANGED <<mainVars, outcome, warned, procVars, controlVars, dataVars, fault>>

\* The publisher exits non-zero or runs into its timeout.
PublishFails ==
  /\ stage = "publish"
  /\ \/ trial.onPublish = "abort" /\ Leave("failed")
     \/ /\ trial.onPublish # "abort"
        /\ stage' = "wait" /\ warned' = (warned \/ trial.onPublish = "warn") /\ fault' = TRUE
        /\ UNCHANGED <<mainVars, outcome, procVars, controlVars, dataVars>>
     \/ Leave("raised")

\* communicate() returns what the subscriber printed, if anything.
Report ==
  /\ stage = "wait" /\ sub \in {"printed", "died"}
  /\ stage' = "finish"
  /\ UNCHANGED <<mainVars, outcome, warned, procVars, controlVars, dataVars, fault>>

\* Mutant: communicate() without a timeout.
WaitForever == FALSE /\ UNCHANGED trialVars

\* The timeout is longer than the subscriber's own deadline: only one that never
\* subscribed runs into it.
WaitTimeout ==
  /\ stage = "wait" /\ sub \in {"connecting", "hung"}
  /\ Leave("raised")

\* Mutant: enough matches are a whole count.
WholeButOne == sub = "printed" /\ total + 1 >= Expected

\* The line has a total and it is EXPECTED.
Whole == sub = "printed" /\ total = Expected

Verdict == IF Whole THEN "whole" ELSE "short"

\* Before the verdict the process beside ends.  perf may not even end when it is
\* terminated, and the server's profile may not come: both raise, and the count
\* the subscriber printed is lost.
Finish ==
  /\ stage = "finish"
  /\ \/ trial.beside \in {"none", "blockprofile"} /\ Leave(Verdict)
     \/ trial.beside \in {"perf", "blockprofile"} /\ Leave("raised")
     \/ trial.beside = "perf" /\ LeaveTo(Verdict) /\ aide' = "off"
     \/ trial.beside = "mpstat" /\ LeaveTo(Verdict) /\ aide' \in {"off", "signalled"}

(***************************************************************************)
(* The finally block                                                       *)
(***************************************************************************)

\* It does not wait for the process beside to end.
StopAide ==
  /\ stage = "stop" /\ aide = "on"
  /\ aide' = "signalled"
  /\ UNCHANGED <<mainVars, stage, outcome, warned, server, up, left, controlVars, dataVars, fault>>

\* stop() passes over a process that outlives both terminate() and kill().
Outlives(x) == Cardinality(left \ {"sub"}) < MaxLeft /\ left' = left \cup {x}

\* The instances one after the other, then the server.
StopInstance ==
  /\ stage = "stop" /\ aide # "on" /\ up # {}
  /\ up' = up \ {CHOOSE i \in up : \A j \in up : i <= j}
  /\ UNCHANGED left \/ Outlives("instance")
  /\ UNCHANGED <<mainVars, stage, outcome, warned, server, aide, controlVars, dataVars, fault>>

StopServer ==
  /\ stage = "stop" /\ aide # "on" /\ up = {}
  /\ server' = FALSE /\ stage' = "returned"
  /\ UNCHANGED left \/ (server /\ Outlives("server"))
  /\ UNCHANGED <<mainVars, outcome, warned, up, aide, controlVars, dataVars, fault>>

(***************************************************************************)
(* The main loop                                                           *)
(***************************************************************************)

Good ==
  \/ outcome = "whole" \/ outcome = "done"
  \/ outcome = "short" /\ trial.judge = "report"

\* Mutant: a trial that returned None is passed over.
CountedSilently ==
  /\ kept' = IF trial.judge # "nothing" /\ Good THEN kept + 1 ELSE kept
  /\ bad' = IF trial.judge # "nothing" /\ ~Good /\ outcome # "failed" THEN bad + 1 ELSE bad

\* The result is kept, or reported as a failure.
Counted ==
  /\ kept' = IF trial.judge # "nothing" /\ Good THEN kept + 1 ELSE kept
  /\ bad' = IF trial.judge # "nothing" /\ ~Good THEN bad + 1 ELSE bad

\* The next trial, or the summary.
NextTrial ==
  /\ stage = "returned" /\ outcome # "raised"
  /\ Counted
  /\ outcome' = "none"
  /\ \/ k < Len(sweep) /\ k' = k + 1 /\ stage' = "server"
     \/ k = Len(sweep) /\ k' = k /\ stage' = "summary"
  /\ UNCHANGED <<sweep, warned, procVars, controlVars, dataVars, fault>>

\* No main loop catches what a trial raises: the sweep ends without a summary.
Abort ==
  /\ stage = "returned" /\ outcome = "raised"
  /\ stage' = "aborted"
  /\ UNCHANGED <<mainVars, outcome, warned, procVars, controlVars, dataVars, fault>>

Script ==
  \/ StartServer \/ BaselineRaises \/ StartInstances \/ Setup \/ SetupFails
  \/ SendRule \/ CtrlReplies \/ BcastReplies \/ BcastFails \/ ControlTimeout
  \/ StartSub \/ PublishOne \/ Published \/ PublishFails \/ Report \/ WaitTimeout \/ Finish
  \/ StopAide \/ StopInstance \/ StopServer \/ NextTrial \/ Abort

(***************************************************************************)
(* The subscriber: do_sub and do_subfield                                  *)
(***************************************************************************)
SubscribeOk ==
  /\ sub = "connecting" /\ Serving
  /\ sub' = "counting"
  /\ UNCHANGED <<mainVars, stage, outcome, warned, procVars, controlVars, total, sent, wire,
                 counted, again, fault>>

Enough == total >= Expected

\* The loop ends with enough matches or at the deadline; a settle window follows.
Settle ==
  /\ sub = "counting"
  /\ sub' = "settling"
  /\ fault' = (fault \/ ~Enough)
  /\ UNCHANGED <<mainVars, stage, outcome, warned, procVars, controlVars, total, sent, wire,
                 counted, again>>

PrintTotal ==
  /\ sub = "settling"
  /\ sub' = "printed"
  /\ UNCHANGED <<mainVars, stage, outcome, warned, procVars, controlVars, total, sent, wire,
                 counted, again, fault>>

SubStep == SubscribeOk \/ Settle \/ PrintTotal

\* As in do_ctrl, an error is no way out of the process; a crash is.
SubFails ==
  /\ \/ sub = "connecting" /\ sub' = "hung"
     \/ sub \in {"connecting", "counting", "settling"} /\ sub' = "died"
  /\ fault' = TRUE
  /\ UNCHANGED <<mainVars, stage, outcome, warned, procVars, controlVars, total, sent, wire,
                 counted, again>>

(***************************************************************************)
(* External: the sidecar's instances, the server and the system            *)
(***************************************************************************)

\* The driver hears one answer of one instance, or all of them; a late answer
\* finds no driver, or that of another instance.
Hears(i) == driver = "waiting" /\ i \in target /\ (Own => acks \cup errs = {})

\* An instance takes the filter, or refuses it.
Answer(i) ==
  /\ Serving /\ i \in asked \cap up
  /\ asked' = asked \ {i}
  /\ \/ rule' = rule \cup {i} /\ acks' = (IF Hears(i) THEN acks \cup {i} ELSE acks) /\ UNCHANGED errs
     \/ errs' = (IF Hears(i) THEN errs \cup {i} ELSE errs) /\ UNCHANGED <<rule, acks>>
  /\ UNCHANGED <<mainVars, stage, outcome, warned, procVars, todo, driver, target, unheard, dataVars,
                 fault>>

\* An instance of an earlier trial listens on the same subject, and answers for i.
LeftAnswers(i) ==
  /\ Serving /\ "instance" \in left /\ Hears(i)
  /\ \/ /\ Cardinality(unheard) < MaxUnheard
        /\ acks' = acks \cup {i} /\ unheard' = unheard \cup {i} /\ UNCHANGED errs
     \/ errs' = errs \cup {i} /\ UNCHANGED <<acks, unheard>>
  /\ UNCHANGED <<mainVars, stage, outcome, warned, procVars, rule, todo, driver, target, asked,
                 dataVars, fault>>

Subscribed == sub \in {"counting", "settling"}

\* A row goes to one instance, which forwards it if its filter matches.  The
\* subscriber counts what comes while it is subscribed.  The acknowledgement of a
\* durable consumer may be lost, and the row comes again.
Take(r, filtered) ==
  /\ Serving /\ r \in wire
  /\ \/ wire' = wire \ {r} /\ UNCHANGED again
     \/ Durable /\ again < MaxAgain /\ again' = again + 1 /\ UNCHANGED wire
  /\ LET match   == r \in Matching /\ filtered
         arrives == match /\ Subscribed
     IN  /\ total' = IF arrives THEN total + 1 ELSE total
         /\ counted' = IF arrives THEN counted \cup {r} ELSE counted
         /\ fault' = (fault \/ (match /\ ~arrives) \/ again' # again)
  /\ UNCHANGED <<mainVars, stage, outcome, warned, procVars, controlVars, sub, sent>>

Deliver(r, i) == i \in up /\ Take(r, i \in rule)

\* An instance of an earlier trial is in the same group and has the same filter; if
\* it has lost it, the row is as good as dropped.
LeftTakes(r) == "instance" \in left /\ Take(r, TRUE)

\* A server of an earlier trial still holds rows its consumer did not acknowledge.
OldRow ==
  /\ "server" \in left /\ Durable /\ Subscribed /\ again < MaxAgain
  /\ again' = again + 1 /\ total' = total + 1 /\ fault' = TRUE
  /\ UNCHANGED <<mainVars, stage, outcome, warned, procVars, controlVars, sub, sent, wire, counted>>

\* The server drops what a slow or absent reader does not take.
DropRow(r) ==
  /\ r \in wire
  /\ wire' = wire \ {r} /\ fault' = TRUE
  /\ UNCHANGED <<mainVars, stage, outcome, warned, procVars, controlVars, sub, total, sent,
                 counted, again>>

InstanceDies(i) ==
  /\ i \in up /\ stage # "stop"
  /\ up' = up \ {i} /\ fault' = TRUE
  /\ UNCHANGED <<mainVars, stage, outcome, warned, server, aide, left, controlVars, dataVars>>

ServerDies ==
  /\ server /\ stage # "stop"
  /\ server' = FALSE /\ fault' = TRUE
  /\ UNCHANGED <<mainVars, stage, outcome, warned, up, aide, left, controlVars, dataVars>>

AideEnds ==
  /\ aide = "signalled"
  /\ aide' = "off"
  /\ UNCHANGED <<mainVars, stage, outcome, warned, server, up, left, controlVars, dataVars, fault>>

\* What was left behind ends at last.
LeftEnds(x) ==
  /\ x \in left
  /\ left' = left \ {x}
  /\ UNCHANGED <<mainVars, stage, outcome, warned, server, up, aide, controlVars, dataVars, fault>>

Outside ==
  \/ \E i \in Instance : Answer(i) \/ LeftAnswers(i) \/ InstanceDies(i)
  \/ \E r \in 1..MsgCount : DropRow(r) \/ LeftTakes(r) \/ \E i \in Instance : Deliver(r, i)
  \/ OldRow \/ CtrlHangs \/ CtrlDies \/ SubFails \/ ServerDies \/ AideEnds
  \/ \E x \in {"instance", "server", "sub"} : LeftEnds(x)

TrialNext == Script \/ SubStep \/ Outside

\* The script is sequential code whose waits all have a timeout, and the
\* subscriber's loop has a deadline.
TrialSpec ==
  TrialInit /\ [][TrialNext]_trialVars /\ WF_trialVars(Script) /\ WF_trialVars(SubStep)

-----------------------------------------------------------------------------
(***************************************************************************)
(* Properties                                                              *)
(***************************************************************************)

\* The type invariant of the sweep, its drivers and what they start.
TrialTypeOK ==
  /\ kept \in Nat /\ bad \in Nat
  /\ stage \in {"server", "instances", "setup", "control", "subscribe", "publish", "wait", "finish",
                "stop", "returned", "summary", "aborted"}
  /\ outcome \in {"none", "whole", "short", "done", "failed", "raised"}
  /\ warned \in BOOLEAN /\ server \in BOOLEAN /\ fault \in BOOLEAN
  /\ aide \in {"off", "on", "signalled"}
  /\ up \subseteq Instance /\ rule \subseteq Instance /\ todo \subseteq Instance
  /\ asked \subseteq Instance /\ acks \subseteq Instance /\ errs \subseteq Instance
  /\ target \subseteq Instance /\ unheard \subseteq Instance
  /\ left \subseteq {"instance", "server", "sub"}
  /\ driver \in {"off", "waiting", "hung"}
  /\ sub \in {"off", "connecting", "counting", "settling", "printed", "hung", "died"}
  /\ sent \in 0..MsgCount /\ wire \subseteq 1..sent
  /\ again \in 0..MaxAgain /\ total \in 0..(Expected + again)
  /\ counted \subseteq Matching

\* A verdict of "whole" is sound: whatever failed, died or was dropped, every
\* matching row was counted, unless a durable consumer delivered one twice or the
\* server is one of an earlier trial with rows of its own, which a count cannot tell
\* from a row that is missing.
WholeMeansAll == stage = "finish" /\ Whole /\ again = 0 => counted = Matching

\* A verdict of "short" is sound too: a trial in which nothing outside failed, no
\* deadline passed and no match came before the subscription counts every row.
ShortMeansFault == stage = "finish" /\ ~warned /\ ~fault => Whole

\* The verdict on a trial is sound both ways.
VerdictSound == WholeMeansAll /\ ShortMeansFault

\* No row is published, but for a warning, while an instance that will get rows
\* lacks the filter: it would drop matches without a trace.  What slips through is
\* the instance whose control driver died with nothing on stdout, which run_ctrl
\* takes for success, and the one an instance of an earlier trial answered for: no
\* refusal that reached the script, no late answer and no missing one of the others.
RuleBeforeRows ==
  stage \in {"publish", "wait"} /\ ~warned => up \subseteq rule \cup unheard

\* However a trial ends, every process it started has been through stop() when the
\* next one starts its server or the script ends, and what ran beside it has been
\* told to stop; only what outlived a kill, and a subscriber, can be among the rest.
TrialsApart ==
  stage \in {"server", "summary", "aborted"} => up = {} /\ ~server /\ aide # "on"

\* The subscriber nobody stops is that of a trial main reports as failed, or of one
\* that raised: no result that is kept had a subscriber left running.
SubReported == "sub" \in left => bad > 0 \/ outcome \in {"failed", "raised"}

\* The summary accounts for every trial main judges, once: kept or reported.
AllAccounted ==
  stage = "summary" =>
    kept + bad = Cardinality({j \in 1..Len(sweep) : sweep[j].judge # "nothing"})

\* A sweep stops what a trial started, reports the trial it left something of, and
\* leaves no trial out of its summary.
SweepSound == TrialsApart /\ SubReported /\ AllAccounted

\* The sweep ends, with a summary or an exception, although its drivers may hang.
SweepEnds == <>(stage \in {"summary", "aborted"})

-----------------------------------------------------------------------------
(***************************************************************************)
(* The inductive invariant behind the safety properties                    *)
(***************************************************************************)
Between == {"server", "returned", "summary", "aborted"}
Idle    == Between \cup {"instances", "stop"}
NoRows  == Idle \cup {"setup", "control", "subscribe"}

\* A sweep has trials, and each of them a number of instances; a trial that main does
\* not judge does not end for a failed publisher.
SweepInvariant ==
  /\ Len(sweep) \in Nat \ {0} /\ k \in 1..Len(sweep)
  /\ \A j \in 1..Len(sweep) :
       sweep[j].n \in Nat /\ (sweep[j].judge = "nothing" => sweep[j].onPublish # "abort")

\* What runs when: nothing between two trials, and nothing beside before the rows.
ProcessInvariant ==
  /\ stage \in Between \cup {"instances"} => up = {}
  /\ stage \in Between => ~server
  /\ stage \in NoRows \ {"stop"} => aide # "on"

\* Nothing of one trial is seen by the next: its control plane is blank until the
\* instances start and its data plane until the subscriber does.
BlankInvariant ==
  /\ stage \in Idle \cup {"setup"} =>
       rule = {} /\ driver = "off" /\ asked = {} /\ unheard = {}
  /\ stage \in Idle => todo = {}
  /\ stage = "setup" => todo = Instance
  /\ driver # "off" => stage = "control"
  /\ driver = "off" => target = {} /\ acks = {} /\ errs = {}
  /\ stage \in NoRows =>
       sub = "off" /\ total = 0 /\ sent = 0 /\ wire = {} /\ counted = {} /\ again = 0

\* Where the filter is while it goes out: an instance that runs has it, is still to
\* be sent it, is the one the driver waits for, or went through unheard; and what the
\* driver has heard comes from the one it has written to.
RuleInvariant ==
  /\ acks \subseteq rule \cup unheard
  /\ stage \in {"subscribe", "publish", "wait", "finish"} /\ ~warned => up \subseteq rule \cup unheard
  /\ stage = "control" /\ Own =>
       /\ \A i, j \in target : i = j
       /\ acks \cup errs \subseteq target
       /\ ~warned => up \subseteq rule \cup todo \cup unheard \cup target

\* The count against the rows behind it: each unit of it is a matching row that is
\* off the wire, or a delivery that was not acknowledged; and what the absence of a
\* fault says of the subscriber.
CountInvariant ==
  /\ counted \subseteq 1..sent
  /\ total <= Cardinality(counted \ wire) + again
  /\ stage = "finish" => sub \in {"printed", "died"}
  /\ ~fault => again = 0 /\ sub # "died" /\ (sub \in {"settling", "printed"} => Enough)

Judged(m) == {j \in 1..m : sweep[j].judge # "nothing"}

\* What main has kept and reported so far is what it has judged so far.
AccountInvariant ==
  /\ kept + bad = Cardinality(Judged(IF stage = "summary" THEN k ELSE k - 1))
  /\ stage = "summary" => k = Len(sweep)

\* A trial that left its subscriber behind is on its way to be reported.
LeftInvariant ==
  /\ "sub" \in left =>
       \/ bad > 0
       \/ /\ outcome \in {"failed", "raised"} /\ stage \in {"stop", "returned", "aborted"}
          /\ outcome = "failed" => trial.judge # "nothing"
  /\ stage \notin {"stop", "returned", "aborted"} => outcome = "none"

TrialIInv ==
  /\ SweepInvariant /\ ProcessInvariant /\ BlankInvariant /\ RuleInvariant
  /\ CountInvariant /\ AccountInvariant /\ LeftInvariant
=============================================================================
