------------------------------ MODULE MCBench -------------------------------
(***************************************************************************)
(* An instance of SustainedBench for TLC.                                  *)
(***************************************************************************)
EXTENDS SustainedBench

CONSTANTS w1, w2, w3, w4, v1, v2

\* Two producers and a consumer; a pair whose batches may be sent twice, on a queue
\* with a row of an earlier run; two pairs; a producer and two consumers that want
\* different values; two publishers.
AllScripts ==
  {Sustained({w1, w2, w3}, v1, Run(1, 0, {w1, w2})),
   Sustained({w1, w2}, v1, Run(2, 1, {w1})),
   MultiQueue([w \in {w1, w2, w3, w4} |-> IF w \in {w1, w2} THEN 1 ELSE 2], v1, Run(1, 0, {})),
   ByFilter({w1, w2, w4}, [w \in {w2, w4} |-> IF w = w2 THEN {v1} ELSE {v2}], Run(1, 0, {w2})),
   Parallel({w1, w3}, v1, Run(2, 1, {w1}))}
=============================================================================
