--------------------------- MODULE MCBorderRouter ---------------------------
(* Instances of BorderRouter for TLC. *)
EXTENDS BorderRouter

\* The routers that ship are configured with 'PID1' and 'PID2'.
TwoNames == [r \in {1, 2} |-> 1346978864 + r]
=============================================================================
