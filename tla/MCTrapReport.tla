---------------------------- MODULE MCTrapReport ----------------------------
(* Instances of TrapReport for TLC: the process of p0 writes the traffic and *)
(* says hello, that of p2 answers.                                           *)
EXTENDS TrapReport

CONSTANTS p0, p2

TwoAndOne == [p \in {p0, p2} |-> IF p = p0 THEN 2 ELSE 1]
=============================================================================
