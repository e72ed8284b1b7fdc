------------------------------- MODULE LunXun -------------------------------
(***************************************************************************)
(* The round robin over the three paths (lunxun of RM/main.c), which every *)
(* lcore calls for every GET.  Its state, k2 and flag2, is shared without  *)
(* a lock, so an lcore's loads and stores interleave with the others'.     *)
(*                                                                         *)
(* A definition marked "Mistake" is a wrong version of the one after it;   *)
(* with it in place a property must fail.                                  *)
(***************************************************************************)
EXTENDS Naturals, FiniteSets

CONSTANT Lcores

VARIABLES
    k2, flag2,    \* the shared state
    pc,           \* where an lcore is in lunxun
    reg,          \* what it loaded: <<k2, flag2>>
    k,            \* what it chose; 0 when no branch assigned k
    last,         \* history: the path chosen last, 3 before the first, 0 once
                  \* calls overlapped
    overlapped    \* history: two lcores were inside lunxun at a time

vars == <<k2, flag2, pc, reg, k, last, overlapped>>

Inside(c) == pc[c] \in {"flag2", "store", "reset"}

Init ==
    /\ k2 = 0 /\ flag2 = 0
    /\ pc = [c \in Lcores |-> "out"]
    /\ reg = [c \in Lcores |-> <<0, 0>>]
    /\ k = [c \in Lcores |-> 0]
    /\ last = 3
    /\ overlapped = FALSE

\* A GET comes in: get_packets_forward, ADD_PID.
Get(c) ==
    /\ pc[c] = "out"
    /\ pc' = [pc EXCEPT ![c] = "k2"]
    /\ UNCHANGED <<k2, flag2, reg, k, last, overlapped>>

\* k2 is loaded.
LoadK2(c) ==
    /\ pc[c] = "k2"
    /\ reg' = [reg EXCEPT ![c] = <<k2, 0>>]
    /\ pc' = [pc EXCEPT ![c] = "flag2"]
    /\ overlapped' = (overlapped \/ \E d \in Lcores \ {c} : Inside(d))
    /\ UNCHANGED <<k2, flag2, k, last>>

\* flag2 is loaded.
LoadFlag2(c) ==
    /\ pc[c] = "flag2"
    /\ reg' = [reg EXCEPT ![c] = <<@[1], flag2>>]
    /\ pc' = [pc EXCEPT ![c] = "store"]
    /\ UNCHANGED <<k2, flag2, k, last, overlapped>>

\* A branch chooses the path and stores its variable.
Choose(c, choice) ==
    /\ pc[c] = "store"
    /\ k' = [k EXCEPT ![c] = choice]
    /\ last' = IF overlapped THEN 0 ELSE choice
    /\ UNCHANGED <<reg, overlapped>>

StoreFirst(c) ==
    /\ reg[c] = <<0, 0>>
    /\ Choose(c, 1)
    /\ k2' = 1
    /\ pc' = [pc EXCEPT ![c] = "send"]
    /\ UNCHANGED flag2

StoreSecond(c) ==
    /\ reg[c] = <<1, 0>>
    /\ Choose(c, 2)
    /\ flag2' = 1
    /\ pc' = [pc EXCEPT ![c] = "send"]
    /\ UNCHANGED k2

\* The third branch stores both, one after the other.
StoreThird(c) ==
    /\ reg[c] = <<1, 1>>
    /\ Choose(c, 3)
    /\ k2' = 0
    /\ pc' = [pc EXCEPT ![c] = "reset"]
    /\ UNCHANGED flag2

\* Mistake: flag2 is not reset.
ResetNothing(c) ==
    /\ pc[c] = "reset"
    /\ pc' = [pc EXCEPT ![c] = "send"]
    /\ UNCHANGED <<k2, flag2, reg, k, last, overlapped>>

ResetFlag2(c) ==
    /\ pc[c] = "reset"
    /\ flag2' = 0
    /\ pc' = [pc EXCEPT ![c] = "send"]
    /\ UNCHANGED <<k2, reg, k, last, overlapped>>

\* No branch: k keeps what was on the stack.
StoreNothing(c) ==
    /\ reg[c] = <<0, 1>>
    /\ Choose(c, 0)
    /\ pc' = [pc EXCEPT ![c] = "send"]
    /\ UNCHANGED <<k2, flag2>>

\* The PID is written into the packet and the packet sent to the port of
\* the same number.
Send(c) ==
    /\ pc[c] = "send"
    /\ pc' = [pc EXCEPT ![c] = "out"]
    /\ reg' = [reg EXCEPT ![c] = <<0, 0>>]
    /\ k' = [k EXCEPT ![c] = 0]
    /\ UNCHANGED <<k2, flag2, last, overlapped>>

\* The call of lunxun.
Lunxun(c) ==
    \/ LoadK2(c)
    \/ LoadFlag2(c)
    \/ StoreFirst(c)
    \/ StoreSecond(c)
    \/ StoreThird(c)
    \/ ResetFlag2(c)
    \/ StoreNothing(c)

-----------------------------------------------------------------------------
(* Properties *)

\* As long as no two lcores were in lunxun at a time, it chooses the paths in
\* turn: 1, 2, 3, 1, ...  After that k2 = 0 with flag2 = 1, which no branch
\* handles, may come about.
InTurn ==
    [][ \A c \in Lcores : ~overlapped /\ pc[c] = "store" /\ pc[c]' # "store" =>
          k[c]' = (last % 3) + 1 ]_vars
=============================================================================
