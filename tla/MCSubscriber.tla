---------------------------- MODULE MCSubscriber ----------------------------
(***************************************************************************)
(* Instances of Subscriber for TLC: one queue, messages that pass every    *)
(* filter.                                                                 *)
(***************************************************************************)
EXTENDS Subscriber, TLC

CONSTANT q1

OneQueue == [m \in Msg |-> q1]
AllPass  == [m \in Msg |-> Expr]

\* Callers, segments and messages are each interchangeable.
Interchangeable == Permutations(Backend) \cup Permutations(Seg) \cup Permutations(Msg)
=============================================================================
