----------------------------- MODULE MCTimerList -----------------------------
(***************************************************************************)
(* Requests with one timer, and requests that start port 0 and have a      *)
(* second timer of any kind.                                               *)
(***************************************************************************)
EXTENDS TimerList

MCBatches ==
    LET any == TimerMessage \cup {Unknown}
        starts == {x \in TimerMessage : x.id = 0 /\ x.flag = 0}
    IN  {<<x>> : x \in any} \cup {<<x, y>> : x \in starts, y \in any}
=============================================================================
