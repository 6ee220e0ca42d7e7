----------------------------- MODULE MCMeasure ------------------------------
(***************************************************************************)
(* The four scripts of CoreBench and DrainBench, one at a time: while a    *)
(* script of one module runs, those of the other are over.                 *)
(***************************************************************************)
EXTENDS CoreBench, DrainBench

\* Three tables: one whose rows the comparison takes for what they are, one of
\* which norm keeps nothing, one with a value that JSON renders in two ways.
First    == CHOOSE c \in Content : TRUE
Same     == [c \in Content |-> c]
AllOne   == [c \in Content |-> First]
Rendered == [c \in Content |-> IF c = First THEN <<c>> ELSE c]
AnyTable == {[ref |-> Same, got |-> Same], [ref |-> AllOne, got |-> AllOne],
             [ref |-> Same, got |-> Rendered]}

CoreOver ==
  /\ script = "group" /\ count = 0 /\ at = [c \in Reader |-> "done"]
  /\ live = [c \in Reader |-> 0] /\ stop = [c \in Reader |-> "none"]
  /\ box = [c \in Reader |-> {}] /\ got = [c \in Reader |-> {}]
  /\ ready = {} /\ publisher = "closed" /\ sent = 0 /\ routed = 0 /\ cut = {} /\ early = {}

DrainOver ==
  /\ tool = "js_bench" /\ form = CHOOSE f \in Forms : TRUE
  /\ run = MaxRuns /\ stage = "summary" /\ source = <<>> /\ posted = 0
  /\ stream = FALSE /\ held = {} /\ other = {} /\ unread = {} /\ drainer = "off" /\ files = FALSE
  /\ dump = EmptyBag /\ torn = FALSE /\ verdict = "PASS"
  /\ lost = {} /\ again = 0 /\ late = FALSE /\ mixed = FALSE /\ kept = FALSE

MCInit == (CoreInit /\ DrainOver) \/ (CoreOver /\ DrainInit)
MCNext == (CoreNext /\ UNCHANGED drainVars) \/ (DrainNext /\ UNCHANGED coreVars)
MCSpec ==
  /\ MCInit /\ [][MCNext]_<<coreVars, drainVars>>
  /\ CoreFairness /\ WF_drainVars(Script)

\* The type invariant of both modules.
MeasureTypeOK == CoreTypeOK /\ DrainTypeOK

\* Every script ends: the readers of the one kind, the runs of the other.
ScriptsEnd == ReadersEnd /\ RunEnds
=============================================================================
