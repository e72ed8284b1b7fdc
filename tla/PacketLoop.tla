----------------------------- MODULE PacketLoop -----------------------------
(***************************************************************************)
(* The packet loop with the round robin it calls: DataPlane, in which an   *)
(* lcore that received a GET goes through LunXun before it forwards it.    *)
(***************************************************************************)
EXTENDS DataPlane

VARIABLES
    k2, flag2, at, reg, k, last, overlapped   \* the variables of LunXun; at is its pc

L == INSTANCE LunXun WITH pc <- at

robin == <<k2, flag2, at, reg, k, last, overlapped>>
loopVars == <<vars, robin>>

LoopInit == Init /\ L!Init

\* Everything but GETs leaves the round robin alone.
Other ==
    /\ \/ \E c \in Lcores : Reflect(c) \/ Drain(c) \/ Free(c) \/ Ignore(c) \/ SendReply(c)
       \/ \E c \in Lcores : \E m \in Mbufs : \E kind \in Kinds \ {"get"} : Rx(c, m, kind)
       \/ \E m \in Mbufs : NicDone(m)
    /\ UNCHANGED robin

\* A GET is received, given one of the paths, and sent to the port of that
\* number.  If no branch chose a path, the port can be any.
RxGet(c, m) == Rx(c, m, "get") /\ L!Get(c)
ChoosePath(c) == L!Lunxun(c) /\ UNCHANGED vars
ForwardGet(c) == Forward(c) /\ L!Send(c)
ForwardNoPath(c) == ForwardNowhere(c) /\ at[c] = "send" /\ k[c] = 0 /\ UNCHANGED robin

LoopNext ==
    /\ ~crashed
    /\ \/ Other
       \/ \E c \in Lcores : \E m \in Mbufs : RxGet(c, m)
       \/ \E c \in Lcores : ChoosePath(c)
       \/ \E c \in Lcores : ForwardGet(c) \/ ForwardNoPath(c)

LoopSpec == LoopInit /\ [][LoopNext]_loopVars

-----------------------------------------------------------------------------
(* Properties *)

\* GETs are given the three paths in turn, as long as no two lcores were in
\* lunxun at a time.
PathsInTurn == L!InTurn
=============================================================================
