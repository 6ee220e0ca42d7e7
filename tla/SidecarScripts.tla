--------------------------- MODULE SidecarScripts ---------------------------
(***************************************************************************)
(* The sidecar benchmarks as data.  Eleven scripts run the same kind of    *)
(* trial on a fresh server and differ in how they start the sidecar, which *)
(* answers they look at, what they run beside it and what their main loop  *)
(* keeps.  Each script has a definition for the processes it starts and    *)
(* stops (...Sidecar), one for its trial and one for its sweep;            *)
(* SidecarTrial runs them.                                                 *)
(*                                                                         *)
(*   input      rows reach an instance as a member of a core queue group   *)
(*              ("group") or of a shared JetStream consumer ("durable")    *)
(*   subject    the filter goes out on a subject per instance ("own") or   *)
(*              on one that all instances hear ("shared")                  *)
(*   n          instances of the trial                                     *)
(*   setup      before the filter goes out: "none", "poll" that every      *)
(*              instance still runs, "stream" creates the input stream     *)
(*   onRefusal  an instance refuses its filter: "abort" or "warn"          *)
(*   rows       there is a data plane                                      *)
(*   onPublish  the publisher fails: "abort", "warn" or "ignore"           *)
(*   beside     "none", "mpstat" or "perf" runs during the rows, or the    *)
(*              server's "blockprofile" is fetched before and after        *)
(*   judge      main keeps a trial that returned a "report", only one with *)
(*              a "whole" count, or looks at "nothing"                     *)
(***************************************************************************)
EXTENDS Naturals

CONSTANT N  \* the largest number of instances of a trial

ASSUME NAssumption == N \in Nat \ {0}

\* The trial most scripts start from.
Basic(sidecar, n) ==
  [sidecar |-> sidecar, n |-> n, setup |-> "none", onRefusal |-> "abort", rows |-> TRUE,
   onPublish |-> "abort", beside |-> "none", judge |-> "report"]

Input(mode) == IF mode = "plain" THEN "group" ELSE "durable"

(***************************************************************************)
(* Scaling of the filtered throughput                                      *)
(***************************************************************************)
ScalingCppSidecar  == [input |-> "group", subject |-> "own"]
ScalingCppTrial(n) == [Basic(ScalingCppSidecar, n) EXCEPT !.onPublish = "ignore"]
ScalingCpp         == <<ScalingCppTrial(1), ScalingCppTrial(N)>>

RealDataSidecar  == [input |-> "group", subject |-> "own"]
RealDataTrial(n) == Basic(RealDataSidecar, n)
RealData         == <<RealDataTrial(1), RealDataTrial(N)>>

RealDataExtSidecar  == [input |-> "group", subject |-> "own"]
RealDataExtTrial(n) == [Basic(RealDataExtSidecar, n) EXCEPT !.beside = "mpstat"]
RealDataExt         == <<RealDataExtTrial(N), RealDataExtTrial(N)>>

BcastSidecar  == [input |-> "group", subject |-> "shared"]
BcastTrial(n) == [Basic(BcastSidecar, n) EXCEPT !.onRefusal = "warn"]
Bcast         == <<BcastTrial(1), BcastTrial(N)>>

(***************************************************************************)
(* The control plane alone                                                 *)
(***************************************************************************)
CtrlOldSidecar == [input |-> "group", subject |-> "own"]
CtrlNewSidecar == [input |-> "group", subject |-> "shared"]
MeasureOld(n)  == [Basic(CtrlOldSidecar, n) EXCEPT !.rows = FALSE]
MeasureNew(n)  == [Basic(CtrlNewSidecar, n) EXCEPT !.rows = FALSE, !.onRefusal = "warn"]
CtrlPlane      == <<MeasureOld(N), MeasureNew(N)>>

(***************************************************************************)
(* JetStream input, after the teardown of a large trial                    *)
(***************************************************************************)

\* The large trial is there for its teardown: nothing it returns is looked at.
WarmUp(sidecar) ==
  [Basic(sidecar, N) EXCEPT !.onRefusal = "warn", !.onPublish = "warn", !.judge = "nothing"]

JsPlainSidecar == [input |-> "group", subject |-> "own"]
JsSidecar      == [input |-> "durable", subject |-> "own"]
JsLoad         == WarmUp(JsPlainSidecar)
JsTrial(n)     == [Basic(JsSidecar, n) EXCEPT !.setup = "poll", !.judge = "whole"]
JsIntegration  == <<JsTrial(N)>>
JsStress       == <<JsLoad, JsTrial(1)>>
JsThroughput   == <<JsTrial(1), JsTrial(N)>>

\* Here the sidecar reads the subject itself; only the publisher uses the stream.
N1Sidecar == [input |-> "group", subject |-> "own"]
N1Load    == WarmUp(N1Sidecar)
N1Trial   == [Basic(N1Sidecar, 1) EXCEPT !.setup = "stream", !.judge = "whole"]
N1Repro   == <<N1Load, N1Trial>>

(***************************************************************************)
(* Core input against JetStream input                                      *)
(***************************************************************************)
IsoSidecar(mode)  == [input |-> Input(mode), subject |-> "own"]
IsoTrial(n, mode) ==
  [Basic(IsoSidecar(mode), n) EXCEPT !.setup = "poll", !.judge = "whole"]
StorageIsolation(mode) == <<IsoTrial(N, mode), IsoTrial(N, mode)>>

CleanSidecar(mode)  == [input |-> Input(mode), subject |-> "own"]
CleanTrial(n, mode) ==
  [Basic(CleanSidecar(mode), n) EXCEPT !.setup = "poll", !.judge = "whole"]
ThroughputClean(mode) == <<CleanTrial(1, mode), CleanTrial(N, mode)>>

PerfSidecar(mode) == [input |-> Input(mode), subject |-> "own"]
PerfTrial(mode) ==
  [Basic(PerfSidecar(mode), N) EXCEPT !.setup = "poll", !.beside = "perf", !.judge = "whole"]
\* Its third mode, js-file, is the same trial here as js-memory.
PerfProfile == <<PerfTrial("plain"), PerfTrial("js-memory")>>

MutexSidecar == [input |-> "durable", subject |-> "own"]
MutexTrial ==
  [Basic(MutexSidecar, N) EXCEPT !.setup = "poll", !.beside = "blockprofile", !.judge = "whole"]
MutexProfile == <<MutexTrial>>

-----------------------------------------------------------------------------
\* Every sweep, with at most two sizes of its list and, of its repetitions, two.
Sweeps ==
  {ScalingCpp, RealData, RealDataExt, Bcast, CtrlPlane,
   JsIntegration, JsStress, JsThroughput, N1Repro, PerfProfile, MutexProfile}
    \cup {StorageIsolation(mode) : mode \in {"plain", "js_file", "js_memory"}}
    \cup {ThroughputClean(mode) : mode \in {"plain", "js"}}
=============================================================================
