----------------------------- MODULE PortMonitor -----------------------------
(***************************************************************************)
(* The process that watches one port (get_port_info.c, trap.c) and the     *)
(* trap file it keeps for the resource manager.                            *)
(*                                                                         *)
(* Every cycle the process probes the link and compares the bandwidth in   *)
(* use with two thresholds.  What is wrong is a set of trap bits, which is *)
(* never assigned: each change toggles a bit.  The bits are written to the *)
(* trap file, which outlives the process, and a hello tells the RM to ask  *)
(* for it.  A probe opens a socket that only one of its error paths        *)
(* closes, so the process runs out of descriptors and dies of the failed   *)
(* fopen that follows.  Its parent may start it again.                     *)
(*                                                                         *)
(* Any call may also fail for reasons outside the process: other threads   *)
(* and processes hold descriptors or locks, memory is short, the disk is   *)
(* full.  trouble says that such a reason is there.                        *)
(*                                                                         *)
(* A definition marked "Mistake" is a wrong version of the one after it;   *)
(* with it in place a property must fail.                                  *)
(***************************************************************************)
EXTENDS Naturals, FiniteSets

CONSTANTS
    MaxFd,        \* descriptors the process may hold
    MaxHello,     \* hellos under way: further ones are dropped
    Errors,       \* how ETHTOOL_GLINK may fail: "EOPNOTSUPP", "other"
    LogFiles,     \* files a connected cycle holds open: 2 for port 0, which
                  \* also writes traffic_temp, 1 for the others
    RetValues,    \* what the uninitialised ret of get_port_info may hold
    SendsHello    \* FALSE for the port with address 10.10.11.1

ASSUME MonitorAssumption ==
    /\ MaxFd \in Nat \ {0}
    /\ MaxHello \in Nat
    /\ Errors \subseteq {"EOPNOTSUPP", "other"}
    /\ LogFiles \in {1, 2}
    /\ RetValues \subseteq Nat /\ RetValues # {}
    /\ SendsHello \in BOOLEAN

\* TRAP_CONNECTION, TRAP_BANDWIDTH_HIGH, TRAP_BANDWIDTH_LOW.  The comment in
\* trap.h has 1 for up and 0 for down; the code toggles the first bit to 1
\* when the link is lost and back to 0 when it returns, and so does the model.
TrapBits == {"CONNECTION", "HIGH", "LOW"}

\* efficiency_bandwidth against BAND_THRES_LOW and BAND_THRES_HIGH.  It is a
\* float and neither threshold is one, so it equals neither.  A port whose
\* adapter tells no speed skips the comparison, as one does that always
\* stays between.
Levels == {"below", "between", "above"}

\* dead: ended by a signal of its own making.  gone: it ended itself or was
\* killed, which the parent does not answer.
Ended == {"dead", "gone"}
PCs == {"check", "report", "down", "rewrite", "wait", "up"} \cup Ended

VARIABLES
    link,         \* environment: the cable is plugged in
    trouble,      \* environment: calls may fail, the process may be killed
    pc,           \* where the main thread is
    capture,      \* the capture thread: "starting", "running"
    check_flag,   \* result of the last check_port
    bandwidth_trap_flag,
    trap_state,   \* pts.trap_state
    ret,          \* never assigned
    fds,          \* descriptors that are held and never closed
    file,         \* trap_type in log/temp_trap_<ip>
    hello,        \* trap hellos on their way to the RM
    probe_refused,\* history: the last probe got no socket although the
                  \* process had descriptors left
    write_refused \* history: the last report was not written although the
                  \* process had descriptors left

environment == <<link, trouble>>
trap == <<bandwidth_trap_flag, trap_state>>
vars == <<environment, pc, capture, check_flag, trap, ret, fds, file, hello,
          probe_refused, write_refused>>

-----------------------------------------------------------------------------
\* trap_port_set: exclusive or.
Toggle(S, b) == IF b \in S THEN S \ {b} ELSE S \cup {b}

\* Mistake: or instead of exclusive or.
SetAll(S, B) == S \cup B
ToggleAll(S, B) == (S \ B) \cup (B \ S)

\* The process has a descriptor left.
FdFree == fds < MaxFd

\* What check_port returns (flag), whether its socket stays open (left), and
\* whether there was none for a reason outside.  -1, no socket to be had, is
\* 2 here: it counts as connected just the same.
check_port ==
    IF FdFree
    THEN {[flag |-> IF link THEN 1 ELSE 0, left |-> 1, refused |-> FALSE]}
           \cup {[flag |-> 0, left |-> IF err = "other" THEN 0 ELSE 1,
                  refused |-> FALSE] : err \in Errors}
           \cup (IF trouble THEN {[flag |-> 2, left |-> 0, refused |-> TRUE]} ELSE {})
    ELSE {[flag |-> 2, left |-> 0, refused |-> FALSE]}

\* The switch on bandwidth_trap_flag: the bits to toggle, the next flag.
Bandwidth(flag, level) ==
    CASE flag = 0 /\ level = "above" -> <<{"HIGH"}, 1>>
      [] flag = 0 /\ level = "below" -> <<{"LOW"}, 2>>
      [] flag = 1 /\ level = "between" -> <<{"HIGH"}, 0>>
      [] flag = 1 /\ level = "below" -> <<{"HIGH", "LOW"}, 2>>
      [] flag = 2 /\ level = "between" -> <<{"LOW"}, 0>>
      [] flag = 2 /\ level = "above" -> <<{"LOW", "HIGH"}, 1>>
      [] OTHER -> <<{}, flag>>

\* Where the process is after opening n files at a time and using them: an
\* fopen that fails is not checked.
AfterFiles(n, next) ==
    (IF fds' + n <= MaxFd THEN {next} ELSE {"dead"})
      \cup (IF trouble THEN {"dead"} ELSE {})

\* The ways write_trap_file can end.  If the lock is not given or the write
\* is short the file stays open; a short write may have covered the bits.
write_trap_file ==
    IF FdFree
    THEN {[written |-> TRUE, file |-> trap_state, left |-> 0, refused |-> FALSE]}
           \cup (IF trouble THEN [written : {FALSE}, file : {file, trap_state},
                                  left : {0, 1}, refused : {TRUE}] ELSE {})
    ELSE {[written |-> FALSE, file |-> file, left |-> 0, refused |-> FALSE]}

\* A raw packet to the RM; the port with address 10.10.11.1 sends none.  The
\* socket for the MAC address stays open if its ioctl fails.
send_trap_hello ==
    /\ hello' \in (IF SendsHello /\ hello < MaxHello THEN {hello + 1} ELSE {hello})
                    \cup (IF trouble THEN {hello} ELSE {})
    /\ fds' \in {fds} \cup (IF SendsHello /\ trouble THEN {fds + 1} ELSE {})

\* Mistake: the file is kept open, so that it can always be written.
trap_send_proc_always ==
    /\ file' = trap_state
    /\ write_refused' = FALSE
    /\ UNCHANGED <<hello, fds>>

\* trap_send_proc: the file, then the hello; no hello if the file could not
\* be written.
trap_send_proc ==
    \E w \in write_trap_file :
        /\ file' = w.file
        /\ write_refused' = w.refused
        /\ IF w.written THEN send_trap_hello
                        ELSE hello' = hello /\ fds' = fds + w.left

-----------------------------------------------------------------------------
\* The process begins: the variables of get_port_info and its capture thread.
\* If there is no thread, the process ends.
Start ==
    /\ pc' \in {"check"} \cup (IF trouble THEN {"gone"} ELSE {})
    /\ capture' = "starting"
    /\ check_flag' = 0
    /\ bandwidth_trap_flag' = 0
    /\ trap_state' = {}
    /\ ret' \in RetValues
    /\ fds' = 0
    /\ probe_refused' = FALSE
    /\ write_refused' = FALSE

Init ==
    /\ link \in BOOLEAN
    /\ trouble \in BOOLEAN
    /\ pc \in {"check"} \cup (IF trouble THEN {"gone"} ELSE {})
    /\ capture = "starting"
    /\ check_flag = 0
    /\ bandwidth_trap_flag = 0
    /\ trap_state = {}
    /\ ret \in RetValues
    /\ fds = 0
    /\ file = {}
    /\ hello = 0
    /\ probe_refused = FALSE
    /\ write_refused = FALSE

\* The result of a probe.
Probe(r) ==
    /\ check_flag' = r.flag
    /\ fds' = fds + r.left
    /\ probe_refused' = r.refused

\* A connected port: the bandwidth machine and the log files.
CheckConnected(level) ==
    /\ pc = "check"
    /\ \E r \in check_port : r.flag # 0 /\ Probe(r)
    /\ LET b == Bandwidth(bandwidth_trap_flag, level)
       IN  /\ trap_state' = ToggleAll(trap_state, b[1])
           /\ bandwidth_trap_flag' = b[2]
    /\ pc' \in AfterFiles(LogFiles, "report")
    /\ UNCHANGED <<environment, capture, ret, file, hello, write_refused>>

\* The report of every connected cycle.
Report ==
    /\ pc = "report"
    /\ trap_send_proc
    /\ pc' = "check"
    /\ UNCHANGED <<environment, capture, check_flag, trap, ret, probe_refused>>

\* A disconnected port.
CheckDisconnected ==
    /\ pc = "check"
    /\ \E r \in check_port : r.flag = 0 /\ Probe(r)
    /\ trap_state' = Toggle(trap_state, "CONNECTION")
    /\ pc' = "down"
    /\ UNCHANGED <<environment, capture, bandwidth_trap_flag, ret, file, hello, write_refused>>

\* Mistake: a log file that cannot be opened is skipped.
ReportDownSkip ==
    /\ pc = "down"
    /\ trap_send_proc
    /\ pc' = "rewrite"
    /\ UNCHANGED <<environment, capture, check_flag, trap, ret, probe_refused>>

\* The report that the port is down, then the log file.
ReportDown ==
    /\ pc = "down"
    /\ trap_send_proc
    /\ pc' \in AfterFiles(1, "rewrite")
    /\ UNCHANGED <<environment, capture, check_flag, trap, ret, probe_refused>>

\* Mistake: the loop ends on failure instead of success.
RewriteUntilFailure ==
    /\ pc = "rewrite"
    /\ ret # 0
    /\ pc' = "wait"
    /\ UNCHANGED <<environment, capture, check_flag, trap, ret, fds, file, hello,
                   probe_refused, write_refused>>

\* do { } while(ret), with the database access commented out.
Rewrite ==
    /\ pc = "rewrite"
    /\ ret = 0
    /\ pc' = "wait"
    /\ UNCHANGED <<environment, capture, check_flag, trap, ret, fds, file, hello,
                   probe_refused, write_refused>>

\* while(!check_flag): one probe a second.
WaitUp ==
    /\ pc = "wait"
    /\ \E r \in check_port :
         /\ Probe(r)
         /\ pc' = IF r.flag = 0 THEN "wait" ELSE "up"
         /\ trap_state' = IF r.flag = 0 THEN trap_state
                                        ELSE Toggle(trap_state, "CONNECTION")
    /\ UNCHANGED <<environment, capture, bandwidth_trap_flag, ret, file, hello, write_refused>>

\* The report that the port is up again.
ReportUp ==
    /\ pc = "up"
    /\ trap_send_proc
    /\ pc' = "check"
    /\ UNCHANGED <<environment, capture, check_flag, trap, ret, probe_refused>>

\* The capture thread opens its socket; without one it ends the process.
CaptureStarts ==
    /\ capture = "starting" /\ pc \notin Ended
    /\ \/ /\ FdFree
          /\ fds' = fds + 1
          /\ capture' = "running"
          /\ pc' = pc
       \/ /\ trouble \/ ~FdFree
          /\ pc' = "gone"
          /\ UNCHANGED <<fds, capture>>
    /\ UNCHANGED <<environment, check_flag, trap, ret, file, hello, probe_refused, write_refused>>

\* A thread that answers the RM leaves a file or a socket open.
AnswerLeaves ==
    /\ pc \notin Ended
    /\ trouble /\ FdFree
    /\ fds' = fds + 1
    /\ UNCHANGED <<environment, pc, capture, check_flag, trap, ret, file, hello,
                   probe_refused, write_refused>>

\* Somebody kills the process.
Killed ==
    /\ pc \notin Ended
    /\ trouble
    /\ pc' = "gone"
    /\ UNCHANGED <<environment, capture, check_flag, trap, ret, fds, file, hello,
                   probe_refused, write_refused>>

\* The parent forks another child for one that died of a signal, a timer for
\* any that ended.
Restart ==
    /\ pc \in Ended
    /\ Start
    /\ UNCHANGED <<environment, file, hello>>

\* The hello reaches the RM or is lost.
HelloGone ==
    /\ hello > 0
    /\ hello' = hello - 1
    /\ UNCHANGED <<environment, pc, capture, check_flag, trap, ret, fds, file,
                   probe_refused, write_refused>>

\* Someone pulls or plugs the cable, or a trouble comes or goes.
Environment ==
    /\ \/ link' = ~link /\ trouble' = trouble
       \/ link' = link /\ trouble' = ~trouble
    /\ UNCHANGED <<pc, capture, check_flag, trap, ret, fds, file, hello,
                   probe_refused, write_refused>>

Process ==
    \/ \E level \in Levels : CheckConnected(level)
    \/ Report
    \/ CheckDisconnected
    \/ ReportDown
    \/ Rewrite
    \/ WaitUp
    \/ ReportUp

Next == Process \/ CaptureStarts \/ AnswerLeaves \/ Killed \/ Restart \/ HelloGone \/ Environment

Spec == Init /\ [][Next]_vars

\* The kernel keeps scheduling the two threads.  Nobody need start a process
\* that ended: the parent does not watch for ever (Supervisor).
LiveSpec == Spec /\ WF_vars(Process) /\ WF_vars(CaptureStarts)

-----------------------------------------------------------------------------
(* Properties *)

\* Types of the variables.
TypeOK ==
    /\ link \in BOOLEAN /\ trouble \in BOOLEAN
    /\ pc \in PCs
    /\ capture \in {"starting", "running"}
    /\ check_flag \in 0..2
    /\ bandwidth_trap_flag \in 0..2
    /\ trap_state \subseteq TrapBits
    /\ ret \in RetValues
    /\ fds \in 0..MaxFd
    /\ file \subseteq TrapBits
    /\ hello \in 0..MaxHello
    /\ probe_refused \in BOOLEAN
    /\ write_refused \in BOOLEAN

\* The bits, although they are only ever toggled, never get out of step with
\* the program: HIGH and LOW say what the switch last decided, CONNECTION is
\* set exactly between the two toggles of the disconnected branch.
TrapStateExact ==
    pc \notin Ended =>
        /\ "HIGH" \in trap_state <=> bandwidth_trap_flag = 1
        /\ "LOW" \in trap_state <=> bandwidth_trap_flag = 2
        /\ "CONNECTION" \in trap_state <=> pc \in {"down", "rewrite", "wait"}

\* A process that waits for its link to come back, which reports nothing until
\* then, has the outage in the file the RM is given, unless the write was
\* refused from outside.  The process' own leak is no exception: if it left no
\* descriptor for the report, the process does not get to wait.
DownIsReported ==
    pc \in {"rewrite", "wait"} /\ ~write_refused =>
        file = trap_state /\ "CONNECTION" \in file

\* The file stops saying "disconnected" only after a probe that really saw
\* the link, or one that was refused a socket from outside, whose -1 counts as
\* connected.  Not because the process itself used its descriptors up, and not
\* because it ended and forgot its state.
NoFalseRecovery ==
    [][ "CONNECTION" \in file /\ "CONNECTION" \notin file'
          => check_flag = 1 \/ probe_refused ]_vars

\* A probe reports no link although there is one.
ProbeFails == link /\ pc \in {"check", "wait"} /\ check_flag' = 0

\* do { } while(ret) with another value than 0 never ends.
Spins == pc = "rewrite" /\ ret # 0

\* A link that stays up is reported up once the troubles are over, whatever
\* they left behind, unless probes keep failing, the process got into the loop
\* over ret with a value that keeps it there, or it ended and nobody starts it
\* again.
Recovers ==
    <>[](link /\ ~trouble) =>
        \/ []<>("CONNECTION" \notin file)
        \/ []<><<ProbeFails>>_vars
        \/ <>[]Spins
        \/ <>[](pc \in Ended)
=============================================================================
