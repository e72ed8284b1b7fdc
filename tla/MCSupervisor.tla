---------------------------- MODULE MCSupervisor ----------------------------
(* A host with two ports and the loopback interface between them. *)
EXTENDS Supervisor

CONSTANTS lo, p1, p2

MCInterfaces == <<p1, lo, p2>>
=============================================================================
