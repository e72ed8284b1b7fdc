--------------------------- MODULE TrafficCounters ---------------------------
(***************************************************************************)
(* The traffic counters of a port (get_port_info.c).                       *)
(*                                                                         *)
(* The capture thread counts a frame in two critical sections: first as a  *)
(* frame, by direction, then, if it is a GET or DATA packet, as such.  The *)
(* main thread of the process resets all counters, sleeps and copies them, *)
(* each in a critical section of the same mutex.  A critical section is    *)
(* one step.  Bytes are counted with the packets and are left out.         *)
(*                                                                         *)
(* A definition marked "Mistake" is a wrong version of the one after it;   *)
(* with it in place a property must fail.                                  *)
(***************************************************************************)
EXTENDS Integers

CONSTANT MaxFrames       \* bound: frames

ASSUME CountersAssumption == MaxFrames \in Nat

Kinds == {"get", "data", "other"}
Directions == {"rx", "tx"}

\* struct STATS_INFO, reset: all frames, and GETs and DATA of them, by
\* direction.
Zero == [k \in Kinds |-> [d \in Directions |-> 0]]

VARIABLES
    stats_info,  \* the counters; "other" counts every frame
    recorded,    \* port_info->stats_info
    frame,       \* the frame between its two critical sections
    phase,       \* where the main thread is
    frames       \* number of frames

counterVars == <<stats_info, recorded, frame, phase, frames>>

None == [kind |-> "other", dir |-> "rx"]

Total(c, k) == c[k]["rx"] + c[k]["tx"]

-----------------------------------------------------------------------------
CountersInit ==
    /\ stats_info = Zero
    /\ recorded = Zero
    /\ frame = None
    /\ phase = "reset"
    /\ frames = 0

Count(k, d) == stats_info' = [stats_info EXCEPT ![k][d] = @ + 1]

\* A frame from the interface: received, unless it carries the own address.
ethdump_parseEthHead(kind, dir) ==
    /\ frame = None
    /\ frames < MaxFrames
    /\ Count("other", dir)
    /\ frame' = IF kind = "other" THEN None ELSE [kind |-> kind, dir |-> dir]
    /\ frames' = frames + 1
    /\ UNCHANGED <<recorded, phase>>

\* Its type.
ethdump_parseFrame ==
    /\ frame # None
    /\ Count(frame.kind, frame.dir)
    /\ frame' = None
    /\ UNCHANGED <<recorded, phase, frames>>

\* Mistake: only the frames are reset.
ResetFrames ==
    /\ phase = "reset"
    /\ stats_info' = [stats_info EXCEPT !["other"] = Zero["other"]]
    /\ phase' = "sleep"
    /\ UNCHANGED <<recorded, frame, frames>>

Reset ==
    /\ phase = "reset"
    /\ stats_info' = Zero
    /\ phase' = "sleep"
    /\ UNCHANGED <<recorded, frame, frames>>

\* After sleep(INTERVAL).
record_counter ==
    /\ phase = "sleep"
    /\ recorded' = stats_info
    /\ phase' = "report"
    /\ UNCHANGED <<stats_info, frame, frames>>

\* The rest of the cycle, which is PortMonitor's.
CycleEnd ==
    /\ phase = "report"
    /\ phase' = "reset"
    /\ UNCHANGED <<stats_info, recorded, frame, frames>>

CountersNext ==
    \/ \E kind \in Kinds, dir \in Directions : ethdump_parseEthHead(kind, dir)
    \/ ethdump_parseFrame
    \/ Reset
    \/ record_counter
    \/ CycleEnd

CountersSpec == CountersInit /\ [][CountersNext]_counterVars

-----------------------------------------------------------------------------
(* Properties *)

\* In what is recorded, GETs and DATA packets exceed the frames by one at the
\* most, over both directions: one frame at a time can straddle the reset.
OneStraddles == Total(recorded, "get") + Total(recorded, "data") <= Total(recorded, "other") + 1
=============================================================================
