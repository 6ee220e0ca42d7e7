------------------------------ MODULE MCSystem ------------------------------
(***************************************************************************)
(* An instance of System for TLC: one queue without filters.               *)
(***************************************************************************)
EXTENDS System

CONSTANT q1

OneQueue == [m \in Msg |-> q1]
AllPass  == [m \in Msg |-> Expr]
=============================================================================
