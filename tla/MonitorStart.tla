---------------------------- MODULE MonitorStart ----------------------------
(***************************************************************************)
(* The start of the monitor (main of main.c of the monitoring tools up to  *)
(* the first fork, get_host_info, get_port_index and get_dest_ip).         *)
(*                                                                         *)
(* main looks the ports of the host up, writes what it finds to files in   *)
(* the log directory, and prepares the shared region, the clock of the     *)
(* timers and the thread that takes requests.  Supervisor continues with   *)
(* the processes.                                                          *)
(*                                                                         *)
(* The call of get_dest_ip is commented out in this commit (ReadPortList   *)
(* is FALSE): port_type stays 0 and set_timer_id finds no port.  With the  *)
(* call the timers that the listener takes can start and end processes.    *)
(*                                                                         *)
(* Names, addresses and the parameters of the adapters are left out.       *)
(***************************************************************************)
EXTENDS Integers, Sequences, SequencesExt

CONSTANTS
    Interfaces,    \* as SIOCGIFCONF lists them
    Loopback,      \* those of them whose MAC address is all zeros
    ReadPortList   \* main calls get_dest_ip

ASSUME StartAssumption ==
    /\ Interfaces \in Seq(Range(Interfaces))
    /\ Interfaces # <<>> /\ IsInjective(Interfaces)
    /\ Loopback \subseteq Range(Interfaces)
    /\ ReadPortList \in BOOLEAN

Ports == Range(Interfaces) \ Loopback

VARIABLES
    pc,            \* where main is; "exit": it ended itself, "dead": it was
                   \* ended, "hung": it is in a loop without end
    interfaceNum,  \* interfaces that are still to be looked at
    port_info,     \* the ports found
    port_count,    \* of host_info
    log_dir,       \* files can be written to the log directory
    timed          \* ports that set_timer_id finds

startVars == <<pc, interfaceNum, port_info, port_count, log_dir, timed>>

InitStart ==
    /\ pc = "options"
    /\ interfaceNum = Len(Interfaces)
    /\ port_info = <<>>
    /\ port_count = 0
    /\ log_dir \in BOOLEAN
    /\ timed = {}

-----------------------------------------------------------------------------
\* -n gives the name of the host; the log directory is made.
Options ==
    /\ pc = "options"
    /\ pc' = "index"
    /\ UNCHANGED <<interfaceNum, port_info, port_count, log_dir, timed>>

\* -h, or no name.
Usage ==
    /\ pc = "options"
    /\ pc' = "exit"
    /\ UNCHANGED <<interfaceNum, port_info, port_count, log_dir, timed>>

\* Mistake: the count of the host grows with each port.
NextInterfaceCounted ==
    /\ pc = "index" /\ interfaceNum > 0
    /\ interfaceNum' = interfaceNum - 1
    /\ IF Interfaces[interfaceNum] \in Loopback
       THEN UNCHANGED <<pc, port_info, port_count>>
       ELSE /\ port_info' = Append(port_info, Interfaces[interfaceNum])
            /\ port_count' = port_count + 1
            /\ pc' = IF log_dir THEN pc ELSE "dead"
    /\ UNCHANGED <<log_dir, timed>>

\* get_port_index takes the interfaces from the last one to the first.  The
\* description of a port is written even if its file could not be opened.
NextInterface ==
    /\ pc = "index" /\ interfaceNum > 0
    /\ interfaceNum' = interfaceNum - 1
    /\ IF Interfaces[interfaceNum] \in Loopback
       THEN UNCHANGED <<pc, port_info>>
       ELSE /\ port_info' = Append(port_info, Interfaces[interfaceNum])
            /\ pc' = IF log_dir THEN pc ELSE "dead"
    /\ UNCHANGED <<port_count, log_dir, timed>>

\* The socket or one of the ioctl calls fails: get_port_index returns with the
\* ports found so far, and main goes on.
IndexFails ==
    /\ pc = "index" /\ interfaceNum > 0
    /\ pc' = "log"
    /\ UNCHANGED <<interfaceNum, port_info, port_count, log_dir, timed>>

IndexDone ==
    /\ pc = "index" /\ interfaceNum = 0
    /\ port_count' = Len(port_info)
    /\ pc' = "log"
    /\ UNCHANGED <<interfaceNum, port_info, log_dir, timed>>

\* The description of the host is written.
HostInfo ==
    /\ pc = "log"
    /\ pc' = IF log_dir THEN "list" ELSE "exit"
    /\ UNCHANGED <<interfaceNum, port_info, port_count, log_dir, timed>>

\* The ports of port.lst get a type; set_timer_id looks at the ports up to
\* the first one without.
get_dest_ip(listed) ==
    /\ pc = "list"
    /\ ReadPortList
    /\ timed' = {port_info[k] : k \in {n \in 1..port_count :
                    \A m \in 1..n : port_info[m] \in listed}}
    /\ pc' = "arm"
    /\ UNCHANGED <<interfaceNum, port_info, port_count, log_dir>>

\* No call, or no port.lst.
NoPortList ==
    /\ pc = "list"
    /\ pc' = "arm"
    /\ UNCHANGED <<interfaceNum, port_info, port_count, log_dir, timed>>

\* share_handle, init_mul_timer and the thread.  From here on sig_func runs
\* once a second.
Arm ==
    /\ pc = "arm"
    /\ pc' = "fork"
    /\ UNCHANGED <<interfaceNum, port_info, port_count, log_dir, timed>>

\* The lock is set up in a region that could not be mapped, or there is no
\* thread.
ArmFails(end) ==
    /\ pc = "arm"
    /\ end \in {"dead", "exit"}
    /\ pc' = end
    /\ UNCHANGED <<interfaceNum, port_info, port_count, log_dir, timed>>

Start ==
    \/ Options \/ Usage
    \/ NextInterface \/ IndexFails \/ IndexDone
    \/ HostInfo
    \/ \E listed \in SUBSET Ports : get_dest_ip(listed)
    \/ NoPortList
    \/ Arm
    \/ \E end \in {"dead", "exit"} : ArmFails(end)
=============================================================================
