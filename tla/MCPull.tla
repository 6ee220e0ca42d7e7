------------------------------- MODULE MCPull -------------------------------
(***************************************************************************)
(* Instances of PullConsume for TLC.                                       *)
(***************************************************************************)
EXTENDS PullConsume, TLC

CONSTANTS q1, q2, m1

\* Every message goes to one queue, or the first one to a queue of its own.
OneQueue  == [m \in Msg |-> q1]
TwoQueues == [m \in Msg |-> IF m = m1 THEN q1 ELSE q2]

\* The first message passes no filter, the others pass every one.
FirstFiltered == [m \in Msg |-> IF m = m1 THEN {} ELSE Expr]

\* Without expressions all messages of a queue are interchangeable.
Messages == Permutations(Msg)

\* The pulls in which no copy of a payload fails: a message leaves its event by
\* being taken, or with the rest of the event when the result set is full.
NoCopyFails == PullInit /\ [][PullNext /\ \A p \in Proc : ~TakeFails(p)]_pullAll
=============================================================================
