-------------------------- MODULE MCPidNegotiation --------------------------
(* Instances of PidNegotiation for TLC. *)
EXTENDS PidNegotiation

\* One link with two paths.
PairLinks == {<<1, 2>>}
PairPid == [l \in PairLinks |-> <<99, 100>>]
PairRequests == [l \in PairLinks |-> 3]

\* One responder with two links, whose PIDs are one step apart.
JoinLinks == {<<1, 3>>, <<2, 3>>}
JoinPid == [l \in JoinLinks |-> IF l = <<1, 3>> THEN <<98>> ELSE <<99>>]
JoinRequests == [l \in JoinLinks |-> IF l = <<1, 3>> THEN 2 ELSE 1]
=============================================================================
