--------------------------- MODULE SidecarProofs ---------------------------
(***************************************************************************)
(* Proofs about the sweeps of sidecar trials, for any number of instances, *)
(* rows and repeated deliveries: the verdict on a trial, the filter before *)
(* the rows, and what a trial leaves to the next one.                      *)
(***************************************************************************)
EXTENDS SidecarTrial, FiniteSetTheorems, TLAPS

(***************************************************************************)
(* The scripts                                                             *)
(***************************************************************************)

\* A trial with a number of instances, which a failed publisher ends only if main
\* judges it.
TrialOK(t) == t.n \in Nat /\ (t.judge = "nothing" => t.onPublish # "abort")

\* A list of such trials.
TrialList(s) == Len(s) \in Nat \ {0} /\ \A j \in 1..Len(s) : TrialOK(s[j])

\* The lists of one, two and three trials.
LEMMA ListOf ==
  ASSUME NEW a, NEW b, NEW c, TrialOK(a), TrialOK(b), TrialOK(c)
  PROVE  TrialList(<<a>>) /\ TrialList(<<a, b>>) /\ TrialList(<<a, b, c>>)
BY DEF TrialList

\* A script's trial has as many instances as it is given.
LEMMA TrialInstances ==
  ASSUME NEW n \in Nat, NEW s, NEW mode
  PROVE  /\ TrialOK(ScalingCppTrial(n)) /\ TrialOK(RealDataTrial(n))
         /\ TrialOK(RealDataExtTrial(n)) /\ TrialOK(BcastTrial(n))
         /\ TrialOK(MeasureOld(n)) /\ TrialOK(MeasureNew(n))
         /\ TrialOK(WarmUp(s)) /\ TrialOK(JsTrial(n)) /\ TrialOK(N1Trial)
         /\ TrialOK(IsoTrial(n, mode)) /\ TrialOK(CleanTrial(n, mode))
         /\ TrialOK(PerfTrial(mode)) /\ TrialOK(MutexTrial)
BY NAssumption DEF TrialOK, Basic, ScalingCppTrial, RealDataTrial, RealDataExtTrial, BcastTrial,
   MeasureOld, MeasureNew, WarmUp, JsTrial, N1Trial, IsoTrial, CleanTrial, PerfTrial, MutexTrial

\* Every sweep of every script has trials, and each of them a number of instances.
LEMMA SweepsTyped ==
  ASSUME NEW s \in Sweeps
  PROVE  TrialList(s)
<1>0. N \in Nat /\ 1 \in Nat
  BY NAssumption
<1>1. TrialList(ScalingCpp) /\ TrialList(RealData) /\ TrialList(RealDataExt) /\ TrialList(Bcast)
  BY <1>0, ListOf, TrialInstances, Zenon DEF ScalingCpp, RealData, RealDataExt, Bcast
<1>2. TrialList(CtrlPlane) /\ TrialList(JsIntegration) /\ TrialList(JsStress)
      /\ TrialList(JsThroughput) /\ TrialList(N1Repro)
  BY <1>0, ListOf, TrialInstances, Zenon
     DEF CtrlPlane, JsIntegration, JsStress, JsThroughput, JsLoad, N1Repro, N1Load
<1>3. TrialList(PerfProfile) /\ TrialList(MutexProfile)
  BY <1>0, ListOf, TrialInstances, Zenon DEF PerfProfile, MutexProfile
<1>4. \A mode : TrialList(StorageIsolation(mode)) /\ TrialList(ThroughputClean(mode))
  BY <1>0, ListOf, TrialInstances, Zenon DEF StorageIsolation, ThroughputClean
<1>5. QED
  BY <1>1, <1>2, <1>3, <1>4, Zenon DEF Sweeps

(***************************************************************************)
(* The steps.  All but two kinds of step leave the main loop alone; what a *)
(* trial leaves its try block with is the same wherever it leaves it.      *)
(***************************************************************************)

\* What does not touch the main loop does not touch the trial it runs.
LEMMA SameTrial ==
  ASSUME UNCHANGED mainVars
  PROVE  /\ UNCHANGED <<sweep, k, kept, bad>>
         /\ trial' = trial /\ Instance' = Instance /\ (Own' <=> Own)
BY DEF mainVars, trial, Instance, Own

\* The rows are finitely many.
LEMMA MatchingFinite == IsFiniteSet(Matching) /\ Expected \in Nat
<1>1. 1 \in Int /\ MsgCount \in Int /\ Matching \subseteq 1..MsgCount
  BY TrialAssumption
<1>2. IsFiniteSet(1..MsgCount)
  BY <1>1, FS_Interval, Zenon
<1>3. IsFiniteSet(Matching)
  BY <1>1, <1>2, FS_Subset, Zenon
<1>4. QED
  BY <1>3, FS_CardinalityType, Zenon DEF Expected

\* The type invariant in the parts that steps touch.
ScriptTyped ==
  /\ kept \in Nat /\ bad \in Nat
  /\ stage \in {"server", "instances", "setup", "control", "subscribe", "publish", "wait", "finish",
                "stop", "returned", "summary", "aborted"}
  /\ outcome \in {"none", "whole", "short", "done", "failed", "raised"}
  /\ warned \in BOOLEAN /\ server \in BOOLEAN /\ fault \in BOOLEAN
  /\ aide \in {"off", "on", "signalled"}
  /\ left \subseteq {"instance", "server", "sub"}

ControlTyped ==
  /\ up \subseteq Instance /\ rule \subseteq Instance /\ todo \subseteq Instance
  /\ asked \subseteq Instance /\ acks \subseteq Instance /\ errs \subseteq Instance
  /\ target \subseteq Instance /\ unheard \subseteq Instance
  /\ driver \in {"off", "waiting", "hung"}

DataTyped ==
  /\ sub \in {"off", "connecting", "counting", "settling", "printed", "hung", "died"}
  /\ sent \in 0..MsgCount /\ wire \subseteq 1..sent
  /\ again \in 0..MaxAgain /\ total \in 0..(Expected + again)
  /\ counted \subseteq Matching

\* These are the type invariant.
LEMMA TypeIs == TrialTypeOK <=> ScriptTyped /\ ControlTyped /\ DataTyped
BY DEF TrialTypeOK, ScriptTyped, ControlTyped, DataTyped

\* A step that leaves rows and subscriber alone keeps their types.
LEMMA DataTypeKept ==
  ASSUME DataTyped, UNCHANGED dataVars
  PROVE  DataTyped'
BY DEF DataTyped, dataVars, Expected

\* A subscriber that runs is left behind.
SubRuns == sub \in {"connecting", "counting", "settling", "hung"}

\* Leaving the try block, by whatever way, from a well-formed state; with a
\* subscriber that runs, only as a trial that failed or raised.
LEMMA LeaveInv ==
  ASSUME TrialTypeOK, TrialIInv, NEW how \in {"whole", "short", "done", "failed", "raised"},
         LeaveTo(how), aide' \in {"off", "on", "signalled"},
         stage \notin {"stop", "returned", "summary", "aborted"},
         SubRuns => how = "raised" \/ (how = "failed" /\ trial.judge # "nothing")
  PROVE  TrialTypeOK' /\ TrialIInv'
<1>1. UNCHANGED <<sweep, k, kept, bad>> /\ trial' = trial /\ Instance' = Instance /\ (Own' <=> Own)
  BY SameTrial DEF LeaveTo
<1>2. TrialTypeOK'
  <2>1. Expected' = Expected
    BY DEF Expected
  <2>2. /\ sent' \in 0..MsgCount /\ wire' \subseteq 1..sent' /\ again' \in 0..MaxAgain
        /\ total' \in 0..(Expected' + again')
    <3>1. sent' = 0 /\ wire' = {} /\ again' = 0 /\ total' = 0
      BY DEF LeaveTo
    <3>2. QED
      BY <2>1, <3>1, MatchingFinite, TrialAssumption
  <2>3. QED
    BY <1>1, <2>2 DEF LeaveTo, TrialTypeOK
<1>3. SweepInvariant'
  BY <1>1 DEF TrialIInv, SweepInvariant
<1>4. ProcessInvariant' /\ BlankInvariant' /\ RuleInvariant'
  BY <1>1 DEF LeaveTo, ProcessInvariant, BlankInvariant, RuleInvariant, Between, Idle, NoRows
<1>5. CountInvariant'
  <2>1. counted' \ wire' = {} /\ Cardinality({}) = 0
    BY FS_EmptySet DEF LeaveTo
  <2>2. sub' = "off" /\ stage' = "stop" /\ counted' = {} /\ total' = 0 /\ again' = 0
    BY DEF LeaveTo
  <2>3. total' <= Cardinality(counted' \ wire') + again'
    BY <2>1, <2>2
  <2>4. QED
    BY <2>2, <2>3 DEF CountInvariant
<1>6. AccountInvariant'
  BY <1>1 DEF LeaveTo, TrialIInv, AccountInvariant, Judged
<1>7. LeftInvariant'
  <2>1. stage' = "stop" /\ outcome' = how /\ ("sub" \in left => bad > 0)
    BY DEF LeaveTo, TrialIInv, LeftInvariant
  <2>2. "sub" \in left' => "sub" \in left \/ SubRuns
    BY DEF LeaveTo, SubRuns
  <2>3. QED
    BY <1>1, <2>1, <2>2 DEF LeftInvariant
<1>8. QED
  BY <1>2, <1>3, <1>4, <1>5, <1>6, <1>7 DEF TrialIInv

\* What is left behind, in a step inside a trial.
LEMMA LeftKept ==
  ASSUME TrialIInv, UNCHANGED <<mainVars, outcome>>, "sub" \in left' => "sub" \in left,
         \/ stage' = stage
         \/ stage = "stop" /\ stage' = "returned"
         \/ stage' \notin {"stop", "returned", "aborted"} /\ stage \notin {"stop", "returned", "aborted"}
  PROVE  LeftInvariant'
BY SameTrial DEF TrialIInv, LeftInvariant

\* The parts of the invariant that speak of the main loop alone.
LEMMA MainKept ==
  ASSUME TrialIInv, UNCHANGED mainVars, stage # "summary", stage' # "summary"
  PROVE  SweepInvariant' /\ AccountInvariant'
BY SameTrial DEF TrialIInv, SweepInvariant, AccountInvariant, Judged

\* A step that touches neither the rows nor the subscriber.
LEMMA CountKept ==
  ASSUME TrialIInv, UNCHANGED dataVars, fault => fault',
         stage' = "finish" => sub \in {"printed", "died"}
  PROVE  CountInvariant'
BY DEF TrialIInv, CountInvariant, dataVars, Enough, Expected

\* The steps by which a trial starts its processes, and those by which they end.
LEMMA ProcessStep ==
  ASSUME TrialTypeOK, TrialIInv,
         \/ StartServer \/ StartInstances \/ Setup \/ StopAide \/ StopInstance \/ StopServer
         \/ ServerDies \/ AideEnds \/ (\E i \in Instance : InstanceDies(i)) \/ (\E x : LeftEnds(x))
  PROVE  TrialTypeOK' /\ ProcessInvariant' /\ BlankInvariant' /\ RuleInvariant' /\ CountInvariant'
<1> USE DEF TrialIInv
<1>1. UNCHANGED mainVars /\ trial' = trial /\ Instance' = Instance /\ (Own' <=> Own)
  BY SameTrial DEF StartServer, StartInstances, Setup, StopAide, StopInstance, StopServer,
     ServerDies, AideEnds, InstanceDies, LeftEnds
<1>2. CountInvariant'
  BY CountKept DEF StartServer, StartInstances, Setup, StopAide, StopInstance, StopServer,
     ServerDies, AideEnds, InstanceDies, LeftEnds, CountInvariant
<1>3. TrialTypeOK'
  <2>1. ScriptTyped'
    <3>1. left' \subseteq {"instance", "server", "sub"}
      BY TypeIs DEF ScriptTyped, StartServer, StartInstances, Setup, StopAide, StopInstance,
         StopServer, ServerDies, AideEnds, InstanceDies, LeftEnds, Outlives, procVars
    <3>2. server' \in BOOLEAN
      <4>1. server \in BOOLEAN /\ ("server" \notin left) \in BOOLEAN
        BY DEF TrialTypeOK
      <4>2. QED
        BY <4>1 DEF StartServer, StartInstances, Setup, StopAide, StopInstance, StopServer,
           ServerDies, AideEnds, InstanceDies, LeftEnds, procVars
    <3>3. /\ stage' \in {stage, "instances", "setup", "control", "returned"}
          /\ fault' \in {fault, TRUE} /\ aide' \in {aide, "signalled", "off"}
          /\ outcome' = outcome /\ warned' = warned
      BY DEF StartServer, StartInstances, Setup, StopAide, StopInstance, StopServer,
         ServerDies, AideEnds, InstanceDies, LeftEnds, procVars
    <3>4. QED
      BY <1>1, <3>1, <3>2, <3>3, TypeIs DEF ScriptTyped, mainVars
  <2>2. ControlTyped'
    BY <1>1, TypeIs DEF ControlTyped, StartServer, StartInstances, Setup, StopAide, StopInstance,
       StopServer, ServerDies, AideEnds, InstanceDies, LeftEnds, controlVars, procVars
  <2>3. DataTyped'
    BY TypeIs, DataTypeKept DEF StartServer, StartInstances, Setup, StopAide, StopInstance,
       StopServer, ServerDies, AideEnds, InstanceDies, LeftEnds
  <2>4. QED
    BY <2>1, <2>2, <2>3, TypeIs, PTL
<1>4. ProcessInvariant'
  BY <1>1 DEF ProcessInvariant, StartServer, StartInstances, Setup, StopAide, StopInstance,
     StopServer, ServerDies, AideEnds, InstanceDies, LeftEnds, procVars, Between, Idle, NoRows
<1>5. BlankInvariant'
  BY <1>1 DEF BlankInvariant, StartServer, StartInstances, Setup, StopAide, StopInstance,
     StopServer, ServerDies, AideEnds, InstanceDies, LeftEnds, controlVars, dataVars, Between, Idle, NoRows
<1>6. RuleInvariant'
  BY <1>1, TypeIs DEF RuleInvariant, BlankInvariant, ControlTyped, StartServer, StartInstances, Setup,
     StopAide, StopInstance, StopServer, ServerDies, AideEnds, InstanceDies, LeftEnds, controlVars, procVars,
     Between, Idle, NoRows
<1>7. QED
  BY <1>2, <1>3, <1>4, <1>5, <1>6

\* The last filter is out and the rows follow.
RowsFollow(warn, lost) ==
  /\ trial.rows /\ DriverEnds(lost)
  /\ stage' = "subscribe" /\ warned' = warn
  /\ UNCHANGED <<mainVars, outcome, procVars, rule, todo, asked, dataVars>>

\* A driver has ended that is not the last one.
MoreFilters(warn, lost) ==
  /\ todo # {} /\ DriverEnds(lost)
  /\ warned' = warn
  /\ UNCHANGED <<mainVars, stage, outcome, procVars, rule, todo, asked, dataVars>>

\* A driver ends and the trial goes on: its instance answered, which is a warning if
\* it refused, or went through unheard; or all the instances are done at once.
DriverGoes(warn, lost) ==
  /\ driver = "waiting" /\ lost \subseteq target /\ (warned => warn \/ ~Own)
  /\ Own => (warn \/ lost = target \/ (acks # {} /\ errs = {}))
  /\ ~Own => (warn \/ acks = Instance)
  /\ \/ MoreFilters(warn, lost) /\ Own
     \/ RowsFollow(warn, lost) /\ (Own => todo = {})

CtrlStep ==
  \/ SendRule \/ CtrlHangs \/ \E i \in Instance : Answer(i) \/ LeftAnswers(i)
  \/ \E warn \in BOOLEAN : \E lost \in SUBSET Instance : DriverGoes(warn, lost)

\* The filter goes to one instance at a time, or to all.
LEMMA OneRecipient ==
  ASSUME TrialTypeOK, TrialIInv, Own, NEW i \in Recipients, NEW j \in Recipients
  PROVE  i = j
<1>1. todo \subseteq 1..trial.n /\ trial.n \in Nat
  BY DEF TrialTypeOK, TrialIInv, SweepInvariant, Instance, trial
<1>2. i \in Nat /\ j \in Nat /\ i <= j /\ j <= i
  BY <1>1 DEF Recipients
<1>3. QED
  BY <1>2

\* The end of a driver leaves no instance behind that lacks the filter unseen.
LEMMA DriverGone ==
  ASSUME TrialTypeOK, TrialIInv, NEW warn \in BOOLEAN, NEW lost \in SUBSET Instance,
         DriverGoes(warn, lost)
  PROVE  RuleInvariant'
<1>1. UNCHANGED mainVars /\ (Own' <=> Own) /\ Instance' = Instance
  BY SameTrial DEF DriverGoes, MoreFilters, RowsFollow
<1>2. /\ target' = {} /\ acks' = {} /\ errs' = {} /\ driver' = "off" /\ unheard' = unheard \cup lost
      /\ rule' = rule /\ todo' = todo /\ up' = up /\ warned' = warn /\ stage = "control"
      /\ stage' \in {"control", "subscribe"}
      /\ stage' = "subscribe" => (Own => todo = {})
      /\ stage' = "control" => Own
  BY DEF DriverGoes, MoreFilters, RowsFollow, DriverEnds, procVars, TrialIInv, BlankInvariant
<1>3. acks \subseteq rule \cup unheard
      /\ (Own => \A i, j \in target : i = j) /\ (Own => acks \cup errs \subseteq target)
      /\ (Own /\ ~warned => up \subseteq rule \cup todo \cup unheard \cup target)
  BY <1>2 DEF TrialIInv, RuleInvariant
<1>4. ASSUME Own, ~warn
      PROVE  up \subseteq rule \cup unheard' \cup todo
  <2>1. ~warned /\ (lost = target \/ acks # {})
    BY <1>4 DEF DriverGoes
  <2>2. target \subseteq rule \cup unheard \cup lost
    <3>1. CASE lost = target
      BY <3>1
    <3>2. CASE acks # {}
      BY <1>3, <1>4, <3>2
    <3>3. QED
      BY <2>1, <3>1, <3>2
  <2>3. QED
    BY <1>2, <1>3, <1>4, <2>1, <2>2
<1>5. ASSUME ~Own, ~warn
      PROVE  up \subseteq rule \cup unheard'
  BY <1>2, <1>3, <1>5 DEF DriverGoes, TrialTypeOK
<1>6. QED
  BY <1>1, <1>2, <1>4, <1>5 DEF RuleInvariant

\* The steps of the control plane that stay in the try block.
LEMMA ControlStep ==
  ASSUME TrialTypeOK, TrialIInv, CtrlStep
  PROVE  TrialTypeOK' /\ ProcessInvariant' /\ BlankInvariant' /\ RuleInvariant' /\ CountInvariant'
<1> USE DEF TrialIInv
<1>1. UNCHANGED mainVars /\ trial' = trial /\ Instance' = Instance /\ (Own' <=> Own)
      /\ UNCHANGED <<procVars, dataVars, outcome>>
  BY SameTrial DEF CtrlStep, SendRule, CtrlHangs, Answer, LeftAnswers, DriverGoes, MoreFilters,
     RowsFollow
<1>2. stage' # "finish" \/ stage' = stage
  BY DEF CtrlStep, SendRule, CtrlHangs, Answer, LeftAnswers, DriverGoes, MoreFilters, RowsFollow
<1>3. CountInvariant'
  <2>1. fault => fault'
    BY DEF CtrlStep, SendRule, CtrlHangs, Answer, LeftAnswers, DriverGoes, MoreFilters, RowsFollow,
       DriverEnds
  <2>2. QED
    BY <1>1, <1>2, <2>1, CountKept DEF CountInvariant
<1>4. stage = "control" \/ \E i \in Instance : Answer(i)
  BY DEF BlankInvariant, CtrlStep, SendRule, CtrlHangs, DriverGoes, LeftAnswers, Hears
<1>5. TrialTypeOK'
  <2>1. ScriptTyped'
    <3>1. fault' \in BOOLEAN /\ warned' \in BOOLEAN
      <4>1. fault \in BOOLEAN /\ warned \in BOOLEAN
        BY DEF TrialTypeOK
      <4>2. ASSUME NEW warn \in BOOLEAN, NEW lost, DriverGoes(warn, lost)
            PROVE  fault' \in BOOLEAN /\ warned' \in BOOLEAN
        BY <4>2 DEF DriverGoes, MoreFilters, RowsFollow, DriverEnds
      <4>3. QED
        BY <4>1, <4>2 DEF CtrlStep, SendRule, CtrlHangs, Answer, LeftAnswers
    <3>2. stage' \in {stage, "subscribe"}
      BY DEF CtrlStep, SendRule, CtrlHangs, Answer, LeftAnswers, DriverGoes, MoreFilters, RowsFollow
    <3>3. QED
      BY <1>1, <3>1, <3>2, TypeIs DEF ScriptTyped, mainVars, procVars
  <2>2. ControlTyped'
    BY <1>1, TypeIs DEF ControlTyped, CtrlStep, SendRule, CtrlHangs, Answer, LeftAnswers, DriverGoes,
       MoreFilters, RowsFollow, DriverEnds, procVars, Recipients
  <2>3. DataTyped'
    BY <1>1, TypeIs, DataTypeKept
  <2>4. QED
    BY <2>1, <2>2, <2>3, TypeIs, PTL
<1>6. ProcessInvariant'
  BY <1>1, <1>4 DEF ProcessInvariant, CtrlStep, SendRule, CtrlHangs, Answer, LeftAnswers, DriverGoes,
     MoreFilters, RowsFollow, procVars, Between, Idle, NoRows
<1>7. BlankInvariant'
  <2>1. CASE SendRule \/ CtrlHangs
    BY <1>1, <1>4, <2>1 DEF BlankInvariant, SendRule, CtrlHangs, dataVars, Between, Idle, NoRows
  <2>2. ASSUME NEW i \in Instance, Answer(i) \/ LeftAnswers(i)
        PROVE  BlankInvariant'
    BY <1>1, <1>4, <2>2 DEF BlankInvariant, Answer, LeftAnswers, Hears, dataVars, Between, Idle, NoRows
  <2>3. ASSUME NEW warn \in BOOLEAN, NEW lost \in SUBSET Instance, DriverGoes(warn, lost)
        PROVE  BlankInvariant'
    BY <1>1, <2>3 DEF BlankInvariant, DriverGoes, MoreFilters, RowsFollow, DriverEnds, dataVars,
       Between, Idle, NoRows
  <2>4. QED
    BY <2>1, <2>2, <2>3 DEF CtrlStep
<1>8. RuleInvariant'
  <2>1. CASE SendRule
    <3>1. Own => \A i, j \in target' : i = j
      BY <2>1, OneRecipient DEF SendRule
    <3>2. stage = "control" /\ acks = {} /\ errs = {} /\ target = {}
      BY <2>1 DEF SendRule, BlankInvariant
    <3>3. QED
      BY <1>1, <2>1, <3>1, <3>2 DEF SendRule, RuleInvariant, procVars
  <2>2. CASE CtrlHangs
    BY <1>1, <1>4, <2>2 DEF CtrlHangs, RuleInvariant, procVars
  <2>3. ASSUME NEW i \in Instance, Answer(i)
        PROVE  RuleInvariant'
    <3>1. /\ stage' = stage /\ warned' = warned /\ up' = up /\ todo' = todo /\ driver' = driver
          /\ target' = target /\ unheard' = unheard
      BY <2>3 DEF Answer, procVars
    <3>2. \/ rule' = rule \cup {i} /\ errs' = errs
             /\ acks' = IF Hears(i) THEN acks \cup {i} ELSE acks
          \/ rule' = rule /\ acks' = acks
             /\ errs' = IF Hears(i) THEN errs \cup {i} ELSE errs
      BY <2>3 DEF Answer
    <3>3. Hears(i) => i \in target
      BY DEF Hears
    <3>4. QED
      BY <1>1, <3>1, <3>2, <3>3 DEF RuleInvariant
  <2>4. ASSUME NEW i \in Instance, LeftAnswers(i)
        PROVE  RuleInvariant'
    <3>1. /\ stage' = stage /\ warned' = warned /\ up' = up /\ todo' = todo /\ driver' = driver
          /\ target' = target /\ rule' = rule /\ i \in target
      BY <2>4 DEF LeftAnswers, procVars, Hears
    <3>2. \/ acks' = acks \cup {i} /\ unheard' = unheard \cup {i} /\ errs' = errs
          \/ errs' = errs \cup {i} /\ acks' = acks /\ unheard' = unheard
      BY <2>4 DEF LeftAnswers
    <3>3. QED
      BY <1>1, <3>1, <3>2 DEF RuleInvariant
  <2>5. QED
    BY <2>1, <2>2, <2>3, <2>4, DriverGone DEF CtrlStep
<1>9. QED
  BY <1>3, <1>5, <1>6, <1>7, <1>8

\* The publisher failed and the script goes on.
PublishSlips ==
  /\ stage = "publish" /\ trial.onPublish # "abort"
  /\ stage' = "wait" /\ warned' = (warned \/ trial.onPublish = "warn") /\ fault' = TRUE
  /\ UNCHANGED <<mainVars, outcome, procVars, controlVars, dataVars>>

RowStep ==
  \/ StartSub \/ PublishOne \/ Published \/ PublishSlips \/ Report
  \/ SubscribeOk \/ Settle \/ PrintTotal \/ SubFails
  \/ \E r \in 1..MsgCount : DropRow(r) \/ \E filtered \in BOOLEAN : Take(r, filtered)
  \/ OldRow

\* The counted rows that are off the wire are finitely many, and no more than match.
LEMMA OffWire ==
  ASSUME NEW c \in SUBSET Matching, NEW w
  PROVE  /\ IsFiniteSet(c \ w) /\ Cardinality(c \ w) \in Nat
         /\ Cardinality(c \ w) <= Expected
         /\ Cardinality(c \ w) = Expected => c = Matching
<1>1. c \ w \subseteq Matching
  OBVIOUS
<1>2. IsFiniteSet(c \ w) /\ Cardinality(c \ w) <= Cardinality(Matching)
      /\ (Cardinality(c \ w) = Cardinality(Matching) => c \ w = Matching)
  BY <1>1, MatchingFinite, FS_Subset, Zenon
<1>3. Cardinality(c \ w) \in Nat
  BY <1>2, FS_CardinalityType, Zenon
<1>4. QED
  BY <1>2, <1>3 DEF Expected

\* Counted rows and their number when a row leaves the wire, counted or not.
LEMMA OffWireGrows ==
  ASSUME NEW c \in SUBSET Matching, NEW w, NEW r \in w
  PROVE  /\ Cardinality(c \ w) <= Cardinality(c \ (w \ {r}))
         /\ r \in Matching => Cardinality((c \cup {r}) \ (w \ {r})) = Cardinality(c \ w) + 1
<1>1. IsFiniteSet(c \ w) /\ IsFiniteSet(c \ (w \ {r}))
  BY OffWire, Zenon
<1>2. Cardinality(c \ w) <= Cardinality(c \ (w \ {r}))
  <2>1. c \ w \subseteq c \ (w \ {r})
    OBVIOUS
  <2>2. QED
    BY <1>1, <2>1, FS_Subset, Zenon
<1>3. ASSUME r \in Matching
      PROVE  Cardinality((c \cup {r}) \ (w \ {r})) = Cardinality(c \ w) + 1
  <2>1. (c \cup {r}) \ (w \ {r}) = (c \ w) \cup {r} /\ r \notin c \ w
    OBVIOUS
  <2>2. Cardinality((c \ w) \cup {r}) = Cardinality(c \ w) + 1
    BY <1>1, <2>1, FS_AddElement, Zenon
  <2>3. QED
    BY <2>1, <2>2, Zenon
<1>4. QED
  BY <1>2, <1>3

\* The steps that touch the rows or the subscriber leave the rest alone.
LEMMA RowStepRest ==
  ASSUME TrialTypeOK, TrialIInv, RowStep
  PROVE  /\ UNCHANGED mainVars /\ trial' = trial /\ Instance' = Instance /\ (Own' <=> Own)
         /\ UNCHANGED <<outcome, server, up, left, controlVars>>
         /\ ScriptTyped' /\ ControlTyped'
         /\ ProcessInvariant' /\ BlankInvariant' /\ RuleInvariant'
<1> USE DEF TrialIInv
<1>1. UNCHANGED mainVars /\ UNCHANGED <<outcome, server, up, left, controlVars>>
  BY DEF RowStep, StartSub, PublishOne, Published, PublishSlips, Report, SubscribeOk, Settle,
     PrintTotal, SubFails, DropRow, Take, OldRow, procVars
<1>2. trial' = trial /\ Instance' = Instance /\ (Own' <=> Own)
  BY <1>1, SameTrial
<1>3. ScriptTyped'
  <2>1. fault \in BOOLEAN
    BY TypeIs DEF ScriptTyped
  <2>2. fault' \in BOOLEAN
    <3>1. CASE Settle
      BY <3>1 DEF Settle
    <3>2. ASSUME NEW r, NEW filtered, Take(r, filtered)
          PROVE  fault' \in BOOLEAN
      BY <3>2 DEF Take
    <3>3. QED
      BY <2>1, <3>1, <3>2 DEF RowStep, StartSub, PublishOne, Published, PublishSlips, Report,
         SubscribeOk, PrintTotal, SubFails, DropRow, OldRow
  <2>3. warned' \in BOOLEAN
    BY TypeIs DEF ScriptTyped, RowStep, StartSub, PublishOne, Published, PublishSlips, Report,
       SubscribeOk, Settle, PrintTotal, SubFails, DropRow, Take, OldRow
  <2>4. stage' \in {stage, "publish", "wait", "finish"} /\ aide' \in {aide, "on"}
    BY DEF RowStep, StartSub, PublishOne, Published, PublishSlips, Report,
       SubscribeOk, Settle, PrintTotal, SubFails, DropRow, Take, OldRow, procVars
  <2>5. QED
    BY <1>1, <2>2, <2>3, <2>4, TypeIs DEF ScriptTyped, mainVars
<1>4. ControlTyped'
  BY <1>1, <1>2, TypeIs DEF ControlTyped, controlVars
<1>5. ProcessInvariant'
  BY <1>1 DEF ProcessInvariant, BlankInvariant, RowStep, StartSub, PublishOne, Published,
     PublishSlips, Report, SubscribeOk, Settle, PrintTotal, SubFails, DropRow, Take, OldRow, procVars,
     Between, Idle, NoRows
<1>6. BlankInvariant'
  <2>1. stage \in NoRows => stage = "subscribe" /\ stage' = "publish"
    <3>1. ASSUME stage \in NoRows
          PROVE  StartSub
      BY <3>1 DEF BlankInvariant, RowStep, PublishOne, Published, PublishSlips, Report, SubscribeOk,
         Settle, PrintTotal, SubFails, DropRow, Take, OldRow, Subscribed, NoRows, Idle, Between
    <3>2. QED
      BY <3>1 DEF StartSub
  <2>2. stage' \in {stage, "publish", "wait", "finish"}
    BY DEF RowStep, StartSub, PublishOne, Published, PublishSlips, Report, SubscribeOk, Settle,
       PrintTotal, SubFails, DropRow, Take, OldRow
  <2>3. stage' \notin NoRows /\ stage' # "setup" /\ stage' # "control"
    BY <2>1, <2>2 DEF NoRows, Idle, Between
  <2>4. driver = "off" /\ target = {} /\ acks = {} /\ errs = {}
    BY <2>1, <2>2, <2>3 DEF BlankInvariant, NoRows
  <2>5. QED
    BY <1>1, <2>3, <2>4 DEF BlankInvariant, controlVars, NoRows, Idle
<1>7. RuleInvariant'
  BY <1>1, <1>2 DEF RuleInvariant, RowStep, StartSub, PublishOne, Published, PublishSlips,
     Report, SubscribeOk, Settle, PrintTotal, SubFails, DropRow, Take, OldRow, controlVars, procVars
<1>8. QED
  BY <1>1, <1>2, <1>3, <1>4, <1>5, <1>6, <1>7

\* The bound on the count is that on the rows behind it.
LEMMA CountBound ==
  ASSUME NEW t \in Nat, NEW c \in Nat, NEW e \in Nat, NEW a \in Nat, c <= e, t <= c + a
  PROVE  t \in 0..(e + a)
OBVIOUS

\* A delivery: the count, the rows behind it and the fault.
LEMMA DeliverCounts ==
  ASSUME TrialTypeOK, TrialIInv, NEW r \in 1..MsgCount, NEW filtered \in BOOLEAN, Take(r, filtered)
  PROVE  DataTyped' /\ CountInvariant'
<1> USE DEF TrialIInv
<1>1. DataTyped /\ CountInvariant /\ Expected \in Nat /\ MaxAgain \in Nat /\ MsgCount \in Nat
      /\ Expected' = Expected
  BY TypeIs, MatchingFinite, TrialAssumption DEF Expected
<1>2. r \in wire /\ r \in 1..sent /\ sub' = sub /\ sent' = sent /\ stage' = stage
  BY <1>1 DEF Take, DataTyped
<1>3. \/ wire' = wire \ {r} /\ again' = again
      \/ again < MaxAgain /\ again' = again + 1 /\ wire' = wire
  BY DEF Take
<1> DEFINE arrives == r \in Matching /\ filtered /\ sub \in {"counting", "settling"}
<1>4. /\ total' = IF arrives THEN total + 1 ELSE total
      /\ counted' = IF arrives THEN counted \cup {r} ELSE counted
  BY DEF Take, Subscribed
<1>5. counted \subseteq Matching /\ counted' \subseteq Matching /\ counted' \subseteq 1..sent'
  BY <1>1, <1>2, <1>4 DEF DataTyped, CountInvariant
<1>6. /\ Cardinality(counted \ wire) \in Nat /\ Cardinality(counted' \ wire') \in Nat
      /\ Cardinality(counted' \ wire') <= Expected
  BY <1>5, OffWire
<1>7. total' <= Cardinality(counted' \ wire') + again'
  <2>1. CASE wire' = wire \ {r} /\ again' = again
    <3>1. CASE arrives
      <4>1. Cardinality(counted' \ wire') = Cardinality(counted \ wire) + 1
        BY <1>2, <1>4, <1>5, <2>1, <3>1, OffWireGrows
      <4>2. QED
        BY <1>1, <1>4, <1>6, <2>1, <3>1, <4>1 DEF DataTyped, CountInvariant
    <3>2. CASE ~arrives
      <4>1. Cardinality(counted \ wire) <= Cardinality(counted' \ wire')
        BY <1>2, <1>4, <1>5, <2>1, <3>2, OffWireGrows
      <4>2. QED
        BY <1>1, <1>4, <1>6, <2>1, <3>2, <4>1 DEF DataTyped, CountInvariant
    <3>3. QED
      BY <3>1, <3>2
  <2>2. CASE again' = again + 1 /\ wire' = wire
    <3>1. counted' \ wire' = counted \ wire
      BY <1>2, <1>4, <2>2
    <3>2. total' <= total + 1 /\ total' \in Nat /\ total \in Nat /\ again \in Nat
      BY <1>1, <1>4 DEF DataTyped
    <3>3. total <= Cardinality(counted \ wire) + again
      BY <1>1 DEF CountInvariant
    <3>4. QED
      BY <1>6, <2>2, <3>1, <3>2, <3>3
  <2>3. QED
    BY <1>3, <2>1, <2>2
<1>8. ~fault' => ~fault /\ again' = again
  BY DEF Take
<1>9. total' \in Nat /\ total' >= total /\ again' \in 0..MaxAgain /\ wire' \subseteq wire
  BY <1>1, <1>3, <1>4 DEF DataTyped
<1>10. DataTyped'
  <2>1. total' \in 0..(Expected' + again')
    <3>1. again' \in Nat /\ total' \in Nat /\ Expected \in Nat
      BY <1>1, <1>9
    <3>2. total' \in 0..(Expected + again')
      BY <1>6, <1>7, <3>1, CountBound, Zenon
    <3>3. QED
      BY <1>1, <3>2, Zenon
  <2>2. wire' \subseteq 1..sent' /\ sent' \in 0..MsgCount
    BY <1>1, <1>2, <1>9 DEF DataTyped
  <2>3. QED
    BY <1>1, <1>2, <1>5, <1>9, <2>1, <2>2 DEF DataTyped
<1>11. CountInvariant'
  BY <1>1, <1>2, <1>5, <1>7, <1>8, <1>9 DEF CountInvariant, Enough, DataTyped
<1>12. QED
  BY <1>10, <1>11

\* The other steps of the rows and the subscriber.
LEMMA RowCounts ==
  ASSUME TrialTypeOK, TrialIInv, RowStep
  PROVE  DataTyped' /\ CountInvariant'
<1> USE DEF TrialIInv
<1>1. DataTyped /\ CountInvariant /\ Expected \in Nat /\ MaxAgain \in Nat /\ MsgCount \in Nat
      /\ Expected' = Expected /\ counted \subseteq Matching
  BY TypeIs, MatchingFinite, TrialAssumption DEF Expected, DataTyped
<1>2. CASE StartSub \/ Published \/ PublishSlips \/ Report
  BY <1>1, <1>2 DEF StartSub, Published, PublishSlips, Report, DataTyped, CountInvariant,
     BlankInvariant, NoRows, Enough, dataVars
<1>3. CASE SubscribeOk \/ Settle \/ PrintTotal \/ SubFails
  BY <1>1, <1>3 DEF SubscribeOk, Settle, PrintTotal, SubFails, DataTyped, CountInvariant, Enough
<1>4. CASE PublishOne
  <2>1. counted' \ wire' = counted \ wire
    BY <1>1, <1>4 DEF PublishOne, CountInvariant, DataTyped
  <2>2. QED
    BY <1>1, <1>4, <2>1 DEF PublishOne, DataTyped, CountInvariant, Enough
<1>5. ASSUME NEW r \in 1..MsgCount, DropRow(r)
      PROVE  DataTyped' /\ CountInvariant'
  <2>1. /\ r \in wire /\ wire' = wire \ {r} /\ fault' = TRUE
        /\ UNCHANGED <<sub, total, sent, counted, again, stage>>
    BY <1>5 DEF DropRow
  <2>2. /\ Cardinality(counted \ wire) <= Cardinality(counted' \ wire')
        /\ Cardinality(counted \ wire) \in Nat /\ Cardinality(counted' \ wire') \in Nat
    BY <1>1, <2>1, OffWire, OffWireGrows
  <2>3. QED
    BY <1>1, <2>1, <2>2 DEF DataTyped, CountInvariant
<1>6. CASE OldRow
  <2>1. /\ again < MaxAgain /\ again' = again + 1 /\ total' = total + 1 /\ fault' = TRUE
        /\ UNCHANGED <<sub, sent, wire, counted, stage>>
    BY <1>6 DEF OldRow
  <2>2. Cardinality(counted \ wire) \in Nat /\ Cardinality(counted \ wire) <= Expected
    BY <1>1, OffWire
  <2>3. /\ total \in Nat /\ again \in Nat /\ total <= Cardinality(counted \ wire) + again
        /\ counted \subseteq 1..sent /\ wire \subseteq 1..sent /\ sent \in 0..MsgCount
        /\ stage = "finish" => sub \in {"printed", "died"}
    BY <1>1 DEF DataTyped, CountInvariant
  <2>4. CountInvariant'
    BY <2>1, <2>2, <2>3 DEF CountInvariant
  <2>5. total' \in 0..(Expected' + again') /\ again' \in 0..MaxAgain
    BY <1>1, <2>1, <2>2, <2>3
  <2>6. QED
    BY <1>1, <2>1, <2>3, <2>4, <2>5 DEF DataTyped
<1>7. QED
  BY <1>2, <1>3, <1>4, <1>5, <1>6, DeliverCounts DEF RowStep

ProcStep ==
  \/ StartServer \/ StartInstances \/ Setup \/ StopAide \/ StopInstance \/ StopServer
  \/ ServerDies \/ AideEnds \/ (\E i \in Instance : InstanceDies(i)) \/ (\E x : LeftEnds(x))

Leaves ==
  \E how \in {"whole", "short", "done", "failed", "raised"} :
    /\ LeaveTo(how) /\ aide' \in {"off", "on", "signalled"}
    /\ stage \notin {"stop", "returned", "summary", "aborted"}
    /\ SubRuns => how = "raised" \/ (how = "failed" /\ trial.judge # "nothing")

\* The filter of one driver, and the next one or the end of the control plane.
LEMMA FilterStep ==
  ASSUME TrialTypeOK, TrialIInv, Own, driver = "waiting", NEW warn \in BOOLEAN, warned => warn,
         NEW lost \in SUBSET target, warn \/ lost = target \/ (acks # {} /\ errs = {}),
         NextFilter(warn, lost), ~(todo = {} /\ ~trial.rows /\ Leave("done"))
  PROVE  CtrlStep
<1>1. lost \in SUBSET Instance
  BY DEF TrialTypeOK
<1>2. DriverGoes(warn, lost)
  BY DEF NextFilter, ControlDone, DriverGoes, MoreFilters, RowsFollow
<1>3. QED
  BY <1>1, <1>2 DEF CtrlStep

\* Every step is one of these.
LEMMA StepKinds ==
  ASSUME TrialTypeOK, TrialIInv, TrialNext
  PROVE  ProcStep \/ CtrlStep \/ RowStep \/ Leaves \/ NextTrial \/ Abort
<1>0. /\ aide \in {"off", "on", "signalled"} /\ (driver # "off" => stage = "control")
      /\ SubRuns => stage \in {"publish", "wait"}
      /\ trial.judge = "nothing" => trial.onPublish # "abort"
      /\ warned \in BOOLEAN
  BY DEF TrialTypeOK, TrialIInv, BlankInvariant, NoRows, Idle, Between, SubRuns, CountInvariant,
     SweepInvariant, trial
<1>1. ASSUME NEW how \in {"whole", "short", "done", "failed", "raised"}, Leave(how),
             stage \notin {"stop", "returned", "summary", "aborted"},
             SubRuns => how = "raised" \/ (how = "failed" /\ trial.judge # "nothing")
      PROVE  Leaves
  BY <1>0, <1>1 DEF Leave, Leaves
<1>2. CASE BaselineRaises \/ SetupFails \/ BcastFails \/ ControlTimeout \/ WaitTimeout
  BY <1>0, <1>1, <1>2 DEF BaselineRaises, SetupFails, BcastFails, ControlTimeout, WaitTimeout
<1>3. CASE CtrlReplies
  <2>1. CASE errs # {} /\ trial.onRefusal = "abort" /\ Leave("failed")
    BY <1>0, <1>1, <1>3, <2>1 DEF CtrlReplies
  <2>2. CASE todo = {} /\ ~trial.rows /\ Leave("done")
    BY <1>0, <1>1, <1>3, <2>2 DEF CtrlReplies
  <2>3. CASE NextFilter(warned \/ errs # {}, {}) /\ ~(todo = {} /\ ~trial.rows /\ Leave("done"))
    <3>1. (warned \/ errs # {}) \in BOOLEAN /\ {} \in SUBSET target /\ Own /\ driver = "waiting"
          /\ (warned => (warned \/ errs # {}))
          /\ ((warned \/ errs # {}) \/ {} = target \/ (acks # {} /\ errs = {}))
      BY <1>3 DEF CtrlReplies
    <3>2. QED
      BY <2>3, <3>1, FilterStep
  <2>4. QED
    BY <1>3, <2>1, <2>2, <2>3 DEF CtrlReplies
<1>4. CASE CtrlDies
  <2>1. CASE todo = {} /\ ~trial.rows /\ Leave("done")
    BY <1>0, <1>1, <1>4, <2>1 DEF CtrlDies
  <2>2. CASE ~(todo = {} /\ ~trial.rows /\ Leave("done"))
    BY <1>0, <1>4, <2>2, FilterStep DEF CtrlDies
  <2>3. QED
    BY <2>1, <2>2
<1>5. CASE BcastReplies
  <2>1. CASE ~trial.rows /\ Leave("done")
    BY <1>0, <1>1, <1>5, <2>1 DEF BcastReplies
  <2>2. CASE ~(~trial.rows /\ Leave("done"))
    <3>1. DriverGoes(acks # Instance \/ errs # {}, {})
      BY <1>5, <2>2 DEF BcastReplies, ControlDone, DriverGoes, RowsFollow
    <3>2. (acks # Instance \/ errs # {}) \in BOOLEAN /\ {} \in SUBSET Instance
      OBVIOUS
    <3>3. QED
      BY <3>1, <3>2 DEF CtrlStep
  <2>3. QED
    BY <2>1, <2>2
<1>6. CASE PublishFails
  BY <1>0, <1>1, <1>6 DEF PublishFails, RowStep, PublishSlips
<1>7. CASE Finish
  BY <1>0, <1>1, <1>7 DEF Finish, Verdict, Leaves
<1>8. ASSUME NEW r \in 1..MsgCount, LeftTakes(r) \/ \E i \in Instance : Deliver(r, i)
      PROVE  RowStep
  <2>1. \A i : (i \in rule) \in BOOLEAN
    OBVIOUS
  <2>2. QED
    BY <1>8, <2>1 DEF RowStep, LeftTakes, Deliver
<1>9. CASE \/ StartServer \/ StartInstances \/ Setup \/ StopAide \/ StopInstance \/ StopServer
           \/ SendRule \/ StartSub \/ PublishOne \/ Published \/ Report \/ NextTrial \/ Abort
           \/ SubStep \/ Outside
  BY <1>4, <1>8, <1>9 DEF ProcStep, CtrlStep, RowStep, SubStep, Outside
<1>10. QED
  BY <1>2, <1>3, <1>5, <1>6, <1>7, <1>9 DEF TrialNext, Script

\* The main loop goes on to the next trial or the summary: it has judged one more.
LEMMA MainStep ==
  ASSUME TrialTypeOK, TrialIInv, NextTrial
  PROVE  TrialTypeOK' /\ TrialIInv'
<1>1. /\ Len(sweep) \in Nat \ {0} /\ k \in 1..Len(sweep) /\ sweep' = sweep
      /\ \/ k < Len(sweep) /\ k' = k + 1 /\ stage' = "server"
         \/ k = Len(sweep) /\ k' = k /\ stage' = "summary"
      /\ stage = "returned" /\ outcome' = "none"
      /\ UNCHANGED <<warned, server, up, aide, left, rule, todo, driver, target, asked, acks, errs,
                      unheard, fault>>
      /\ UNCHANGED <<sub, total, sent, wire, counted, again>>
  BY DEF NextTrial, TrialIInv, SweepInvariant, procVars, controlVars, dataVars
<1>2. /\ up = {} /\ ~server /\ aide # "on" /\ rule = {} /\ todo = {} /\ driver = "off"
      /\ target = {} /\ asked = {} /\ acks = {} /\ errs = {} /\ unheard = {}
      /\ sub = "off" /\ total = 0 /\ sent = 0 /\ wire = {} /\ counted = {} /\ again = 0
  BY <1>1 DEF TrialIInv, ProcessInvariant, BlankInvariant, Between, Idle, NoRows
<1>3. kept' \in Nat /\ bad' \in Nat
      /\ kept' + bad' = IF trial.judge # "nothing" THEN kept + bad + 1 ELSE kept + bad
  BY DEF TrialTypeOK, NextTrial, Counted
<1>4. TrialTypeOK'
  <2>1. ScriptTyped'
    BY <1>1, <1>3, TypeIs DEF ScriptTyped
  <2>2. ControlTyped'
    BY <1>1, <1>2 DEF ControlTyped
  <2>3. DataTyped'
    BY <1>1, TypeIs, DataTypeKept DEF dataVars
  <2>4. QED
    BY <2>1, <2>2, <2>3, TypeIs, PTL
<1>5. SweepInvariant'
  BY <1>1 DEF TrialIInv, SweepInvariant
<1>6. ProcessInvariant' /\ BlankInvariant' /\ RuleInvariant'
  BY <1>1, <1>2 DEF ProcessInvariant, BlankInvariant, RuleInvariant, Between, Idle, NoRows
<1>7. CountInvariant'
  BY <1>1, CountKept DEF dataVars
<1>8. AccountInvariant'
  <2>1. k - 1 \in Nat /\ k \in Nat
    BY <1>1
  <2>2. kept + bad = Cardinality(Judged(k - 1))
    BY <1>1 DEF TrialIInv, AccountInvariant
  <2>3. IsFiniteSet(Judged(k - 1))
    <3>1. IsFiniteSet(1..(k - 1))
      <4>1. 1 \in Int /\ k - 1 \in Int
        BY <2>1
      <4>2. QED
        BY <4>1, FS_Interval, Zenon
    <3>2. Judged(k - 1) \subseteq 1..(k - 1)
      BY DEF Judged
    <3>3. QED
      BY <3>1, <3>2, FS_Subset, Zenon
  <2>4. Judged(k) = (IF trial.judge # "nothing" THEN Judged(k - 1) \cup {k} ELSE Judged(k - 1))
        /\ k \notin Judged(k - 1)
    BY <2>1 DEF Judged, trial
  <2>5. Cardinality(Judged(k - 1)) \in Nat
        /\ Cardinality(Judged(k - 1) \cup {k}) = Cardinality(Judged(k - 1)) + 1
    BY <2>3, <2>4, FS_AddElement, FS_CardinalityType, Zenon
  <2>6. kept' + bad' = Cardinality(Judged(k))
    BY <1>3, <2>2, <2>4, <2>5
  <2>7. (IF stage' = "summary" THEN k' ELSE k' - 1) = k
    BY <1>1, <2>1
  <2>8. Judged(IF stage = "summary" THEN k ELSE k - 1)' = Judged(k)
    BY <1>1, <2>7 DEF Judged
  <2>9. QED
    BY <1>1, <2>6, <2>8 DEF AccountInvariant
<1>9. LeftInvariant'
  <2>1. "sub" \in left => bad > 0 \/ (outcome = "failed" /\ trial.judge # "nothing")
    BY DEF TrialIInv, LeftInvariant, NextTrial
  <2>2. "sub" \in left => bad' > 0
    BY <2>1 DEF TrialTypeOK, NextTrial, Counted, Good
  <2>3. QED
    BY <1>1, <2>2 DEF LeftInvariant
<1>10. QED
  BY <1>4, <1>5, <1>6, <1>7, <1>8, <1>9 DEF TrialIInv

\* An exception ends the sweep: nothing but the stage changes.
LEMMA AbortStep ==
  ASSUME TrialTypeOK, TrialIInv, Abort
  PROVE  TrialTypeOK' /\ TrialIInv'
<1>1. /\ UNCHANGED mainVars /\ trial' = trial /\ Instance' = Instance /\ (Own' <=> Own)
      /\ stage = "returned" /\ stage' = "aborted"
      /\ UNCHANGED <<outcome, warned, procVars, controlVars, dataVars, fault>>
  BY SameTrial DEF Abort
<1>2. TrialTypeOK'
  <2>1. ScriptTyped' /\ ControlTyped'
    BY <1>1, TypeIs DEF ScriptTyped, ControlTyped, mainVars, procVars, controlVars
  <2>2. DataTyped'
    BY <1>1, TypeIs, DataTypeKept
  <2>3. QED
    BY <2>1, <2>2, TypeIs, PTL
<1>3. SweepInvariant' /\ AccountInvariant'
  BY <1>1, MainKept
<1>4. ProcessInvariant' /\ BlankInvariant' /\ RuleInvariant'
  BY <1>1 DEF TrialIInv, ProcessInvariant, BlankInvariant, RuleInvariant, procVars, controlVars,
     dataVars, Between, Idle, NoRows
<1>5. CountInvariant'
  BY <1>1, CountKept
<1>6. LeftInvariant'
  BY <1>1 DEF Abort, TrialIInv, LeftInvariant, mainVars, procVars
<1>7. QED
  BY <1>2, <1>3, <1>4, <1>5, <1>6 DEF TrialIInv

\* A step inside a trial is not one of the main loop, and leaves no subscriber behind.
LEMMA InsideTrial ==
  ASSUME TrialTypeOK, TrialIInv, ProcStep \/ CtrlStep \/ RowStep
  PROVE  UNCHANGED mainVars /\ (stage = "summary" <=> stage' = "summary") /\ LeftInvariant'
<1>1. CASE ProcStep
  <2>1. UNCHANGED <<mainVars, outcome>> /\ (stage = "summary" <=> stage' = "summary")
    BY <1>1 DEF ProcStep, StartServer, StartInstances, Setup, StopAide, StopInstance, StopServer,
       ServerDies, AideEnds, InstanceDies, LeftEnds
  <2>2. "sub" \in left' => "sub" \in left
    BY <1>1 DEF ProcStep, StartServer, StartInstances, Setup, StopAide, StopInstance, StopServer,
       ServerDies, AideEnds, InstanceDies, LeftEnds, Outlives, procVars
  <2>3. \/ stage' = stage
        \/ stage = "stop" /\ stage' = "returned"
        \/ stage' \notin {"stop", "returned", "aborted"} /\ stage \notin {"stop", "returned", "aborted"}
    BY <1>1 DEF ProcStep, StartServer, StartInstances, Setup, StopAide, StopInstance, StopServer,
       ServerDies, AideEnds, InstanceDies, LeftEnds
  <2>4. QED
    BY <2>1, <2>2, <2>3, LeftKept
<1>2. CASE CtrlStep
  <2>1. UNCHANGED <<mainVars, outcome, left>>
        /\ (stage' = stage \/ (stage = "control" /\ stage' = "subscribe"))
    BY <1>2 DEF CtrlStep, SendRule, CtrlHangs, Answer, LeftAnswers, DriverGoes, MoreFilters,
       RowsFollow, TrialIInv, BlankInvariant, procVars
  <2>2. QED
    BY <2>1, LeftKept
<1>3. CASE RowStep
  <2>1. UNCHANGED <<mainVars, outcome, left>>
    BY <1>3, RowStepRest
  <2>2. \/ stage' = stage
        \/ stage \in {"subscribe", "publish", "wait"} /\ stage' \in {"publish", "wait", "finish"}
    BY <1>3 DEF RowStep, StartSub, PublishOne, Published, PublishSlips, Report, SubscribeOk, Settle,
       PrintTotal, SubFails, DropRow, Take, OldRow
  <2>3. QED
    BY <2>1, <2>2, LeftKept
<1>4. QED
  BY <1>1, <1>2, <1>3

\* The invariant is inductive.
LEMMA TrialStep ==
  ASSUME TrialTypeOK, TrialIInv, [TrialNext]_trialVars
  PROVE  TrialTypeOK' /\ TrialIInv'
<1>1. CASE ProcStep \/ CtrlStep \/ RowStep
  <2>1. UNCHANGED mainVars /\ (stage = "summary" <=> stage' = "summary") /\ LeftInvariant'
    BY <1>1, InsideTrial
  <2>2. TrialTypeOK' /\ ProcessInvariant' /\ BlankInvariant' /\ RuleInvariant' /\ CountInvariant'
    <3>1. CASE ProcStep
      BY <3>1, ProcessStep DEF ProcStep
    <3>2. CASE CtrlStep
      BY <3>2, ControlStep
    <3>3. CASE RowStep
      BY <3>3, RowStepRest, RowCounts, TypeIs, PTL
    <3>4. QED
      BY <1>1, <3>1, <3>2, <3>3
  <2>3. SweepInvariant' /\ AccountInvariant'
    BY <2>1, SameTrial DEF TrialIInv, SweepInvariant, AccountInvariant, Judged
  <2>4. QED
    BY <2>1, <2>2, <2>3 DEF TrialIInv
<1>2. CASE Leaves
  BY <1>2, LeaveInv DEF Leaves
<1>3. CASE NextTrial \/ Abort
  BY <1>3, MainStep, AbortStep
<1>4. CASE UNCHANGED trialVars
  <2>1. UNCHANGED mainVars /\ trial' = trial /\ Instance' = Instance /\ (Own' <=> Own)
        /\ UNCHANGED <<stage, outcome, warned, procVars, controlVars, dataVars, fault>>
    BY <1>4, SameTrial DEF trialVars
  <2>2. TrialTypeOK'
    <3>1. ScriptTyped' /\ ControlTyped'
      BY <2>1, TypeIs DEF ScriptTyped, ControlTyped, mainVars, procVars, controlVars
    <3>2. DataTyped'
      BY <2>1, TypeIs, DataTypeKept
    <3>3. QED
      BY <3>1, <3>2, TypeIs, PTL
  <2>3. SweepInvariant' /\ AccountInvariant'
    BY <2>1 DEF TrialIInv, SweepInvariant, AccountInvariant, Judged, mainVars
  <2>4. ProcessInvariant' /\ BlankInvariant' /\ RuleInvariant'
    BY <2>1 DEF TrialIInv, ProcessInvariant, BlankInvariant, RuleInvariant, procVars, controlVars,
       dataVars, Between, Idle, NoRows
  <2>5. CountInvariant'
    BY <2>1, CountKept DEF TrialIInv, CountInvariant
  <2>6. LeftInvariant'
    BY <2>1 DEF TrialIInv, LeftInvariant, mainVars, procVars
  <2>7. QED
    BY <2>2, <2>3, <2>4, <2>5, <2>6 DEF TrialIInv
<1>5. QED
  BY <1>1, <1>2, <1>3, <1>4, StepKinds

\* It holds before the first trial.
LEMMA TrialStart ==
  ASSUME TrialInit
  PROVE  TrialTypeOK /\ TrialIInv
<1>1. TrialList(sweep) /\ k = 1
  BY SweepsTyped DEF TrialInit
<1>2. /\ kept = 0 /\ bad = 0 /\ stage = "server" /\ outcome = "none" /\ warned = FALSE
      /\ server = FALSE /\ up = {} /\ aide = "off" /\ left = {} /\ fault = FALSE
      /\ rule = {} /\ todo = {} /\ driver = "off" /\ target = {} /\ asked = {} /\ acks = {} /\ errs = {}
      /\ unheard = {}
      /\ sub = "off" /\ total = 0 /\ sent = 0 /\ wire = {} /\ counted = {} /\ again = 0
  BY DEF TrialInit
<1>3. TrialTypeOK
  <2>1. total \in 0..(Expected + again)
    <3>1. 0 \in Nat /\ 0 <= 0 /\ 0 <= 0 + 0 /\ 0 <= Expected
      BY MatchingFinite
    <3>2. QED
      BY <1>2, <3>1, MatchingFinite, CountBound, Zenon
  <2>2. ScriptTyped /\ ControlTyped
    BY <1>2 DEF ScriptTyped, ControlTyped
  <2>3. DataTyped
    BY <1>2, <2>1, TrialAssumption DEF DataTyped
  <2>4. QED
    BY <2>2, <2>3, TypeIs
<1>4. SweepInvariant
  BY <1>1 DEF TrialList, TrialOK, SweepInvariant
<1>5. ProcessInvariant /\ BlankInvariant /\ RuleInvariant
  BY <1>2 DEF ProcessInvariant, BlankInvariant, RuleInvariant, Between, Idle, NoRows
<1>6. CountInvariant
  <2>1. counted \ wire = {} /\ Cardinality({}) = 0
    BY <1>2, FS_EmptySet
  <2>2. QED
    BY <1>2, <2>1 DEF CountInvariant
<1>7. AccountInvariant
  <2>1. Judged(0) = {} /\ Cardinality({}) = 0
    BY FS_EmptySet DEF Judged
  <2>2. QED
    BY <1>1, <1>2, <2>1 DEF AccountInvariant
<1>8. LeftInvariant
  BY <1>2 DEF LeftInvariant
<1>9. QED
  BY <1>3, <1>4, <1>5, <1>6, <1>7, <1>8 DEF TrialIInv

(***************************************************************************)
(* The theorems                                                            *)
(***************************************************************************)

\* The inductive invariant of the sweep holds for any sizes of the trials, any rows
\* and any number of deliveries that are repeated.
THEOREM TrialSafety == TrialSpec => [](TrialTypeOK /\ TrialIInv)
<1>1. TrialInit => TrialTypeOK /\ TrialIInv
  BY TrialStart
<1>2. TrialTypeOK /\ TrialIInv /\ [TrialNext]_trialVars => (TrialTypeOK /\ TrialIInv)'
  BY TrialStep
<1>3. QED
  BY <1>1, <1>2, PTL DEF TrialSpec

\* No order of answers, deliveries, failures and timeouts leaves the sweep, its
\* drivers or what they count ill formed.
THEOREM TrialTypeCorrect == TrialSpec => []TrialTypeOK
BY TrialSafety, PTL

\* The verdict of run_trial on what the subscriber printed is sound both ways: a
\* whole count is every matching row, and a short one has a cause outside.
THEOREM VerdictSoundAlways == TrialSpec => []VerdictSound
<1>1. TrialTypeOK /\ TrialIInv => VerdictSound
  <2> SUFFICES ASSUME TrialTypeOK, TrialIInv
               PROVE  VerdictSound
    OBVIOUS
  <2>1. /\ counted \subseteq Matching /\ total \in Nat /\ again \in Nat /\ Expected \in Nat
        /\ total <= Cardinality(counted \ wire) + again
        /\ stage = "finish" => sub \in {"printed", "died"}
        /\ ~fault => again = 0 /\ sub # "died" /\ (sub \in {"settling", "printed"} => Enough)
    BY MatchingFinite, TrialAssumption DEF TrialTypeOK, TrialIInv, CountInvariant
  <2>2. /\ Cardinality(counted \ wire) \in Nat /\ Cardinality(counted \ wire) <= Expected
        /\ Cardinality(counted \ wire) = Expected => counted = Matching
    BY <2>1, OffWire
  <2>3. WholeMeansAll
    BY <2>1, <2>2 DEF WholeMeansAll, Whole
  <2>4. ShortMeansFault
    BY <2>1, <2>2 DEF ShortMeansFault, Whole, Enough
  <2>5. QED
    BY <2>3, <2>4 DEF VerdictSound
<1>2. QED
  BY <1>1, TrialSafety, PTL

\* No script publishes rows, without a warning, before every instance that runs has
\* taken the filter, but for those whose own answer the script never had: the driver
\* died with nothing on stdout, or an instance of an earlier trial answered instead.
\* A refusal, a late answer or a dead instance does not pass.
THEOREM RuleBeforeRowsAlways == TrialSpec => []RuleBeforeRows
<1>1. TrialIInv => RuleBeforeRows
  BY DEF TrialIInv, RuleInvariant, RuleBeforeRows
<1>2. QED
  BY <1>1, TrialSafety, PTL

\* However its trials end, a sweep has put every instance and server it started
\* through stop() before the next trial, the only subscribers it leaves running are
\* those of trials it reports as failed or that raised, and its summary accounts for
\* every trial the main loop judges.
THEOREM SweepSoundAlways == TrialSpec => []SweepSound
<1>1. TrialIInv => SweepSound
  <2>1. TrialIInv => TrialsApart /\ AllAccounted
    BY DEF TrialIInv, ProcessInvariant, AccountInvariant, Judged, Between, Idle, NoRows,
       TrialsApart, AllAccounted
  <2>2. TrialIInv => SubReported
    BY DEF TrialIInv, LeftInvariant, SubReported
  <2>3. QED
    BY <2>1, <2>2 DEF SweepSound
<1>2. QED
  BY <1>1, TrialSafety, PTL
=============================================================================
