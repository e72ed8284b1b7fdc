----------------------------- MODULE Supervisor -----------------------------
(***************************************************************************)
(* The parent of the port monitors (main, port_child_proc and              *)
(* port_kill_proc of main.c of the monitoring tools).                      *)
(*                                                                         *)
(* main forks one process per port and then waits for children that die or *)
(* stop; child_count tells it whether there is one to wait for.  Timers,   *)
(* which run in the signal handler between any two steps of main, start    *)
(* and end the process of a port.                                          *)
(*                                                                         *)
(* A definition marked "Mistake" is a wrong version of the one after it;   *)
(* with it in place a property must fail.                                  *)
(***************************************************************************)
EXTENDS MonitorStart, FiniteSets

CONSTANTS
    Faults,       \* what happens to children: "crashed", "exited", "killed"
                  \* (by somebody else), "stopped"
    Orders,       \* what timers order: "launch", "end"
    MaxFaults,    \* bound: faults
    MaxOrders     \* bound: orders

ASSUME SupervisorAssumption ==
    /\ Faults \subseteq {"crashed", "exited", "killed", "stopped"}
    /\ Orders \subseteq {"launch", "end"}
    /\ MaxFaults \in Nat
    /\ MaxOrders \in Nat

MaxForks == Cardinality(Ports) + MaxFaults + MaxOrders

\* What a child can end with, and what is left of it after a waitpid: "held"
\* is a stopped child whose stop was reported, "slain" one that was killed.
Ended == {"crashed", "exited", "killed"}
Collected == {"gone", "slain"}

VARIABLES
    proc,           \* the state of each process that was forked
    of,             \* the port it watches
    test,           \* ports for which main has forked
    port_child_pid, \* per port, 0 for none
    child_count,
    pid_child,      \* the child that waitpid returned
    status,         \* and what happened to it
    awaited,        \* argument of the second waitpid, 0 for any child
    faults, orders,
    uncounted,      \* history: port_kill_proc was called, or a stop reported
    doubled         \* history: a process was launched for a port whose slot had one

kernel == <<proc, of>>
slots == <<port_child_pid, child_count>>
found == <<pid_child, status, awaited>>
bounds == <<faults, orders>>
history == <<uncounted, doubled>>
vars == <<startVars, kernel, test, slots, found, bounds, history>>

\* pc changes, the rest of what the start has set stays.
Goto(label) ==
    /\ pc' = label
    /\ UNCHANGED <<interfaceNum, port_info, port_count, log_dir, timed>>

Pids == DOMAIN proc
Left == {p \in Pids : proc[p] \notin Collected}
Live(i) == {p \in Pids : of[p] = i /\ proc[p] \in {"running", "stopped", "held"}}
Collect(p) == [proc EXCEPT ![p] = IF @ = "killed" THEN "slain" ELSE "gone"]

-----------------------------------------------------------------------------
\* A process for port i.
Fork(i, states) ==
    /\ proc' = Append(states, "running")
    /\ of' = Append(of, i)
    /\ port_child_pid' = [port_child_pid EXCEPT ![i] = Len(proc) + 1]
    /\ doubled' = (doubled \/ port_child_pid[i] \in Left)

\* Mistake: not counted.
port_child_proc_silent(i) ==
    /\ Fork(i, proc)
    /\ child_count' = child_count

port_child_proc(i) ==
    /\ Fork(i, proc)
    /\ child_count' = child_count + 1

\* Mistake: the process is forgotten, not killed.
KilledNot(p) == proc

\* SIGKILL ends a process that has not ended yet.
Killed(p) == IF proc[p] \in Ended THEN proc ELSE [proc EXCEPT ![p] = "killed"]

Init ==
    /\ InitStart
    /\ proc = <<>>
    /\ of = <<>>
    /\ test = 0
    /\ port_child_pid = [i \in Ports |-> 0]
    /\ child_count = 0
    /\ pid_child = 0
    /\ status = "none"
    /\ awaited = 0
    /\ faults = 0
    /\ orders = 0
    /\ uncounted = FALSE
    /\ doubled = FALSE

-----------------------------------------------------------------------------
\* main starts a process for each port.
ForkPort ==
    /\ pc = "fork"
    /\ test < port_count
    /\ port_child_proc(port_info[test + 1])
    /\ test' = test + 1
    /\ UNCHANGED <<startVars, found, bounds, uncounted>>

\* exit_proc is made the handler of SIGINT, and main begins to wait.
Watch ==
    /\ pc = "fork"
    /\ test = port_count
    /\ Goto("wait")
    /\ UNCHANGED <<kernel, test, slots, found, bounds, history>>

\* Something happens to a child.
Fault(p, f) ==
    /\ pc \notin {"dead", "exit", "hung"}
    /\ proc[p] = "running"
    /\ faults < MaxFaults
    /\ proc' = [proc EXCEPT ![p] = f]
    /\ faults' = faults + 1
    /\ UNCHANGED <<startVars, of, test, slots, found, orders, history>>

\* while(!child_count), then waitpid for a child that ended or stopped.
Wait(p) ==
    /\ pc = "wait"
    /\ child_count # 0
    /\ proc[p] \in Ended \cup {"stopped"}
    /\ pid_child' = p
    /\ status' = proc[p]
    /\ proc' = IF proc[p] = "stopped" THEN [proc EXCEPT ![p] = "held"] ELSE Collect(p)
    /\ child_count' = child_count - 1
    /\ Goto("found")
    /\ uncounted' = (uncounted \/ proc[p] = "stopped")
    /\ UNCHANGED <<of, test, port_child_pid, awaited, bounds, doubled>>

\* There is no child left: waitpid fails at once, again and again.
WaitNone ==
    /\ pc = "wait"
    /\ child_count # 0
    /\ Left = {}
    /\ child_count > -MaxForks
    /\ child_count' = child_count - 1
    /\ UNCHANGED <<startVars, kernel, test, port_child_pid, found, bounds, history>>

Found(s) == pc = "found" /\ status = s
PortOfChild == {i \in Ports : port_child_pid[i] = pid_child}

\* A child that stopped is killed and its slot cleared.
Stopped ==
    /\ Found("stopped")
    /\ \E i \in PortOfChild :
         /\ proc' = Killed(pid_child)
         /\ port_child_pid' = [port_child_pid EXCEPT ![i] = 0]
         /\ child_count' = child_count - 1
    /\ Goto("killed")
    /\ UNCHANGED <<of, test, found, bounds, history>>

\* The waitpid that follows takes the pid from the slot: 0, for any child,
\* unless a timer has launched a process there in the meantime.
Await ==
    /\ pc = "killed"
    /\ awaited' = port_child_pid[of[pid_child]]
    /\ Goto("reap")
    /\ UNCHANGED <<kernel, test, slots, pid_child, status, bounds, history>>

\* It returns, and the port is started again.
Reap(p) ==
    /\ pc = "reap"
    /\ awaited \in {0, p}
    /\ proc[p] \in Ended
    /\ Fork(of[pid_child], Collect(p))
    /\ child_count' = child_count + 1
    /\ Goto("wait")
    /\ UNCHANGED <<test, found, bounds, uncounted>>

\* Mistake: the slot keeps the pid of the child.
ExitedKept ==
    /\ Found("exited")
    /\ PortOfChild # {}
    /\ Goto("wait")
    /\ UNCHANGED <<kernel, test, slots, found, bounds, history>>

\* A child that exits is not replaced.
Exited ==
    /\ Found("exited")
    /\ \E i \in PortOfChild : port_child_pid' = [port_child_pid EXCEPT ![i] = 0]
    /\ Goto("wait")
    /\ UNCHANGED <<kernel, test, child_count, found, bounds, history>>

\* Mistake: a child that crashed is taken for one that was killed.
CrashedIgnored ==
    /\ Found("crashed")
    /\ PortOfChild # {}
    /\ Goto("wait")
    /\ UNCHANGED <<kernel, test, slots, found, bounds, history>>

Crashed ==
    /\ Found("crashed")
    /\ \E i \in PortOfChild : port_child_proc(i)
    /\ Goto("wait")
    /\ UNCHANGED <<test, found, bounds, uncounted>>

\* A child killed with SIGKILL, or one that is in no slot any more.
NotMine ==
    /\ pc = "found"
    /\ status = "killed" \/ PortOfChild = {}
    /\ Goto("wait")
    /\ UNCHANGED <<kernel, test, slots, found, bounds, history>>

\* fork fails: main ends and its children go on.
ForkFails ==
    /\ \/ pc = "fork" /\ test < port_count
       \/ Found("crashed") /\ PortOfChild # {}
       \/ pc = "reap" /\ \E p \in Pids : awaited \in {0, p} /\ proc[p] \in Ended
    /\ Goto("exit")
    /\ UNCHANGED <<kernel, test, slots, found, bounds, history>>

\* SIGINT: the region is removed and main ends.
exit_proc ==
    /\ pc \in {"wait", "found", "killed", "reap"}
    /\ Goto("exit")
    /\ UNCHANGED <<kernel, test, slots, found, bounds, history>>

\* The handler of SIGALRM interrupts main anywhere after the clock is set.
Ordered(o, i) ==
    /\ o \in Orders
    /\ i \in timed
    /\ orders < MaxOrders
    /\ pc \in {"fork", "wait", "found", "killed", "reap"}
    /\ orders' = orders + 1
    /\ UNCHANGED <<test, found, faults>>

\* timer_proc_launch.
Launch(i) ==
    /\ Ordered("launch", i)
    /\ port_child_proc(i)
    /\ UNCHANGED <<startVars, uncounted>>

\* timer_proc_end: kill succeeds for a child that was not waited for.
End(i) ==
    /\ Ordered("end", i)
    /\ port_child_pid[i] \in Left
    /\ proc' = Killed(port_child_pid[i])
    /\ port_child_pid' = [port_child_pid EXCEPT ![i] = 0]
    /\ child_count' = child_count - 1
    /\ uncounted' = TRUE
    /\ UNCHANGED <<startVars, of, doubled>>

\* For a port without a process it is kill(0, SIGKILL): the whole process
\* group, main included.
EndNone(i) ==
    /\ Ordered("end", i)
    /\ port_child_pid[i] = 0
    /\ proc' = [p \in Pids |-> IF p \in Left THEN "gone" ELSE proc[p]]
    /\ Goto("dead")
    /\ UNCHANGED <<of, slots, history>>

\* For a child that was waited for kill fails for ever.
EndGone(i) ==
    /\ Ordered("end", i)
    /\ port_child_pid[i] # 0
    /\ port_child_pid[i] \notin Left
    /\ Goto("hung")
    /\ UNCHANGED <<kernel, slots, history>>

Main ==
    \/ Start /\ UNCHANGED <<kernel, test, slots, found, bounds, history>>
    \/ ForkPort
    \/ Watch
    \/ \E p \in Pids : Wait(p)
    \/ WaitNone
    \/ Stopped
    \/ Await
    \/ \E p \in Pids : Reap(p)
    \/ Exited
    \/ Crashed
    \/ NotMine

Next ==
    \/ Main
    \/ ForkFails
    \/ exit_proc
    \/ \E p \in Pids, f \in Faults : Fault(p, f)
    \/ \E i \in Ports : Launch(i) \/ End(i) \/ EndNone(i) \/ EndGone(i)

Spec == Init /\ [][Next]_vars

\* The kernel keeps scheduling main.
LiveSpec == Spec /\ WF_vars(Main)

-----------------------------------------------------------------------------
(* Properties *)

\* When main watches, it has started a process for every port of the host or,
\* if looking the ports up failed anywhere, for none: it never watches some of
\* the ports only.
AllOrNone == pc = "wait" => test \in {0, Cardinality(Ports)}

\* child_count is the number of children to wait for, over crashes, exits,
\* launches and foreign kills, until main itself kills or meets a stop.
CountExact == uncounted \/ pc = "dead" \/ child_count = Cardinality(Left)

\* A port has one process at most, unless one was launched for a port whose
\* slot already had one: an empty slot means that no process is left, and a
\* child is replaced only after it has ended.
OneProcess == doubled \/ \A i \in Ports : Cardinality(Live(i)) <= 1

\* What port_kill_proc is about to kill is still there: a slot names a child
\* that was collected only while main handles it, if somebody else killed it,
\* or after main itself killed or met a stop.
SlotTrue ==
    \A i \in Ports :
        LET p == port_child_pid[i]
        IN  \/ p = 0 \/ p \in Left
            \/ pc \in {"found", "hung"} /\ p = pid_child
            \/ proc[p] = "slain" \/ uncounted \/ pc \in {"dead", "exit"}

InSlot(p) == p \in Pids /\ port_child_pid[of[p]] = p

\* A child that crashes is replaced.
Restarted ==
    \A p \in 1..MaxForks :
        InSlot(p) /\ proc[p] = "crashed" ~> ~InSlot(p) \/ pc = "exit"

\* A child that crashes is replaced, as long as main does not end, kill or
\* meet a stop: the count tells it that there is a child to wait for, and no
\* other waitpid takes the crash away.
RestartedCounted ==
    \A p \in 1..MaxForks :
        InSlot(p) /\ proc[p] = "crashed"
            ~> ~InSlot(p) \/ uncounted \/ pc \in {"dead", "exit", "hung"}
=============================================================================
