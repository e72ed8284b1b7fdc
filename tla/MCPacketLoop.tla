----------------------------- MODULE MCPacketLoop ----------------------------
(* Symmetry of PacketLoop for TLC: lcores and buffers are interchangeable. *)
EXTENDS PacketLoop, TLC

Symmetry == Permutations(Mbufs) \cup Permutations(Lcores)
=============================================================================
