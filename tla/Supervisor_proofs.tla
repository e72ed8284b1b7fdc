------------------------- MODULE Supervisor_proofs -------------------------
(***************************************************************************)
(* Proofs about MonitorStart and Supervisor.                               *)
(*                                                                         *)
(* The count of main and the slots of the ports are two records of the     *)
(* same children.  They agree because what waitpid returned stays what it  *)
(* was until main has handled it, whatever the timers do in between        *)
(* (FoundInv), because a slot belongs to one port (SlotInv), and because a *)
(* process that lives is in the slot of its port until a second one is     *)
(* launched over it (LiveInv).                                             *)
(***************************************************************************)
EXTENDS Supervisor, FiniteSetTheorems, TLAPS

PCs == {"options", "index", "log", "list", "arm", "fork", "wait", "found", "killed", "reap",
        "exit", "dead", "hung"}
Started == {"fork", "wait", "found", "killed", "reap"}
States == {"running", "crashed", "exited", "killed", "stopped", "held", "gone", "slain"}
Alive == {"running", "stopped", "held"}

StartTypeOK ==
    /\ pc \in PCs
    /\ interfaceNum \in 0..Len(Interfaces)
    /\ port_info \in Seq(Ports)
    /\ port_count \in 0..Len(port_info)
    /\ timed \in SUBSET Ports

\* The values of the variables.
TypeOK ==
    /\ StartTypeOK
    /\ proc \in Seq(States)
    /\ of \in Seq(Ports)
    /\ Len(of) = Len(proc)
    /\ test \in Nat
    /\ port_child_pid \in [Ports -> 0..Len(proc)]
    /\ child_count \in Int
    /\ pid_child \in 0..Len(proc)
    /\ status \in {"none", "crashed", "exited", "killed", "stopped"}
    /\ awaited \in 0..Len(proc)
    /\ uncounted \in BOOLEAN
    /\ doubled \in BOOLEAN

\* The ports among the interfaces that were looked at, from the last to n + 1.
Looked(n) == {Interfaces[k] : k \in (n + 1)..Len(Interfaces)} \ Loopback

\* Each of them was found once, and they are counted when all were looked at.
PortsInv ==
    /\ IsFiniteSet(Looked(interfaceNum))
    /\ Len(port_info) = Cardinality(Looked(interfaceNum))
    /\ port_count \in {0, Cardinality(Ports)}
    /\ test <= port_count
    /\ pc \in {"wait", "found", "killed", "reap"} => test = port_count

\* What waitpid returned stays what it was while main handles it.
FoundInv ==
    /\ pc \in {"found", "killed", "reap"} => pid_child # 0
    /\ pc = "found" => status # "none"
    /\ pc = "found" /\ status = "stopped" => uncounted
    /\ pc \in {"killed", "reap"} => uncounted
    /\ pc = "found" /\ status \in {"crashed", "exited"} => proc[pid_child] = "gone"
    /\ pc = "found" /\ status = "killed" => proc[pid_child] = "slain"

\* A slot holds a process of its port.
SlotInv == \A i \in Ports : port_child_pid[i] # 0 => of[port_child_pid[i]] = i

\* A process that lives is in its slot.
LiveInv == doubled \/ \A q \in Pids : proc[q] \in Alive => port_child_pid[of[q]] = q

Inv == TypeOK /\ PortsInv /\ FoundInv /\ SlotInv /\ LiveInv /\ CountExact /\ SlotTrue

-----------------------------------------------------------------------------
(* Facts about the operators of the two modules *)

\* Looking at one more interface finds a port that was not found before, or
\* the loopback.
LEMMA LookedStep ==
    ASSUME NEW n \in 1..Len(Interfaces), IsFiniteSet(Looked(n))
    PROVE  /\ Interfaces[n] \in Loopback => Looked(n - 1) = Looked(n)
           /\ Interfaces[n] \notin Loopback =>
                /\ Interfaces[n] \in Ports
                /\ Cardinality(Looked(n - 1)) = Cardinality(Looked(n)) + 1
           /\ IsFiniteSet(Looked(n - 1))
  <1> USE StartAssumption
  <1>1. Len(Interfaces) \in Nat /\ DOMAIN Interfaces = 1..Len(Interfaces)
    OBVIOUS
  <1>2. ((n - 1) + 1)..Len(Interfaces) = {n} \cup (n + 1)..Len(Interfaces)
    BY <1>1
  <1>3. {Interfaces[k] : k \in ((n - 1) + 1)..Len(Interfaces)}
          = {Interfaces[n]} \cup {Interfaces[k] : k \in (n + 1)..Len(Interfaces)}
    BY <1>2
  <1>4. CASE Interfaces[n] \in Loopback
    <2>1. Looked(n - 1) = Looked(n)
      BY <1>3, <1>4 DEF Looked
    <2> QED BY <1>4, <2>1
  <1>5. CASE Interfaces[n] \notin Loopback
    <2>1. Looked(n - 1) = Looked(n) \cup {Interfaces[n]}
      BY <1>3, <1>5 DEF Looked
    <2>2. Interfaces[n] \notin Looked(n)
      BY <1>1 DEF Looked, IsInjective
    <2>3. Interfaces[n] \in Ports
      BY <1>1, <1>5 DEF Ports, Range
    <2> QED BY <1>5, <2>1, <2>2, <2>3, FS_AddElement
  <1> QED BY <1>4, <1>5

LEMMA LookedAll == Looked(0) = Ports
  <1>1. DOMAIN Interfaces = (0 + 1)..Len(Interfaces)
    BY StartAssumption
  <1> QED BY <1>1 DEF Looked, Ports, Range

LEMMA LookedNone == Looked(Len(Interfaces)) = {}
  <1>1. Len(Interfaces) \in Nat
    BY StartAssumption
  <1>2. (Len(Interfaces) + 1)..Len(Interfaces) = {}
    BY <1>1
  <1> QED BY <1>2 DEF Looked

LEMMA LeftFinite ==
    ASSUME proc \in Seq(States)
    PROVE  Pids = 1..Len(proc) /\ IsFiniteSet(Left) /\ Cardinality(Left) \in Nat
  <1>1. Pids = 1..Len(proc) /\ Len(proc) \in Nat
    BY DEF Pids
  <1>2. IsFiniteSet(Pids)
    BY <1>1, FS_Interval
  <1>3. IsFiniteSet(Left)
    BY <1>2, FS_Subset DEF Left
  <1> QED BY <1>1, <1>3, FS_CardinalityType

\* A step that collects no process leaves the same number of them.
LEMMA LeftSame ==
    ASSUME proc \in Seq(States), proc' \in Seq(States), Len(proc') = Len(proc),
           \A q \in 1..Len(proc) : proc'[q] \in Collected <=> proc[q] \in Collected
    PROVE  Left' = Left
  <1>1. Pids = 1..Len(proc) /\ Pids' = Pids
    BY DEF Pids
  <1> QED BY <1>1 DEF Left

\* What a fork does to the list of processes.
LEMMA ForkResult ==
    ASSUME TypeOK, NEW i \in Ports, NEW states \in Seq(States), Len(states) = Len(proc),
           Fork(i, states)
    PROVE  /\ proc' \in Seq(States) /\ of' \in Seq(Ports)
           /\ Len(proc') = Len(proc) + 1 /\ Len(of') = Len(proc')
           /\ \A q \in 1..Len(proc) : proc'[q] = states[q] /\ of'[q] = of[q]
           /\ proc'[Len(proc')] = "running" /\ of'[Len(proc')] = i
           /\ port_child_pid' \in [Ports -> 0..Len(proc')]
           /\ port_child_pid'[i] = Len(proc')
           /\ \A j \in Ports \ {i} : port_child_pid'[j] = port_child_pid[j]
           /\ doubled' \in BOOLEAN
           /\ doubled' <=> doubled \/ port_child_pid[i] \in Left
  <1>1. Len(proc) \in Nat
    BY DEF TypeOK
  <1>2. "running" \in States
    BY DEF States
  <1>3. proc' = Append(states, "running") /\ of' = Append(of, i)
    BY DEF Fork
  <1>4. /\ proc' \in Seq(States) /\ Len(proc') = Len(proc) + 1
        /\ \A q \in 1..Len(proc) : proc'[q] = states[q]
        /\ proc'[Len(proc) + 1] = "running"
    BY <1>1, <1>2, <1>3
  <1>5. /\ of' \in Seq(Ports) /\ Len(of') = Len(proc) + 1
        /\ \A q \in 1..Len(proc) : of'[q] = of[q]
        /\ of'[Len(proc) + 1] = i
    BY <1>1, <1>3 DEF TypeOK
  <1>6. /\ port_child_pid' = [port_child_pid EXCEPT ![i] = Len(proc) + 1]
        /\ port_child_pid \in [Ports -> 0..Len(proc)]
    BY DEF Fork, TypeOK
  <1>7. port_child_pid' \in [Ports -> 0..Len(proc')]
    BY <1>1, <1>4, <1>6
  <1>8. doubled' = (doubled \/ port_child_pid[i] \in Left) /\ doubled \in BOOLEAN
    BY DEF Fork, TypeOK
  <1> QED BY <1>4, <1>5, <1>6, <1>7, <1>8

\* A fork puts the only new process into the slot of its port.  states is
\* proc, or proc with one ended process collected.
LEMMA ForkKeeps ==
    ASSUME TypeOK, SlotInv, LiveInv, NEW i \in Ports,
           NEW states \in Seq(States), Len(states) = Len(proc), Fork(i, states),
           \A q \in 1..Len(proc) : states[q] = proc[q] \/ states[q] \notin Alive
    PROVE  SlotInv' /\ LiveInv'
  <1>1. /\ Len(proc) \in Nat /\ DOMAIN proc = 1..Len(proc)
        /\ \A q \in 1..Len(proc) : of[q] \in Ports
        /\ port_child_pid \in [Ports -> 0..Len(proc)]
    BY DEF TypeOK
  <1>2. SlotInv'
    <2> SUFFICES ASSUME NEW j \in Ports, port_child_pid'[j] # 0
                 PROVE  of'[port_child_pid'[j]] = j
      BY DEF SlotInv
    <2>1. CASE j = i
      BY <2>1, ForkResult
    <2>2. CASE j # i
      <3>1. port_child_pid'[j] = port_child_pid[j] /\ port_child_pid[j] \in 1..Len(proc)
        BY <1>1, <2>2, ForkResult
      <3> QED BY <3>1, ForkResult DEF SlotInv
    <2> QED BY <2>1, <2>2
  <1>3. LiveInv'
    <2>1. SUFFICES ASSUME ~doubled', NEW q \in 1..Len(proc'), proc'[q] \in Alive
                   PROVE  port_child_pid'[of'[q]] = q
      <3>1. Pids' = 1..Len(proc')
        BY ForkResult DEF Pids
      <3> QED BY <3>1 DEF LiveInv
    <2>2. CASE q = Len(proc')
      BY <2>2, ForkResult
    <2>3. CASE q # Len(proc')
      <3>1. q \in 1..Len(proc)
        BY <1>1, <2>3, ForkResult
      <3>2. proc[q] \in Alive /\ of'[q] = of[q] /\ ~doubled
        BY <2>1, <3>1, ForkResult
      <3>3. port_child_pid[of[q]] = q
        BY <1>1, <3>1, <3>2 DEF LiveInv, Pids
      <3>4. q \in Left
        BY <1>1, <3>1, <3>2 DEF Left, Pids, Alive, Collected
      <3>5. of[q] # i
        BY <2>1, <3>3, <3>4, ForkResult
      <3> QED BY <1>1, <3>1, <3>2, <3>3, <3>5, ForkResult
    <2> QED BY <2>2, <2>3
  <1> QED BY <1>2, <1>3

\* port_child_proc counts the process it forks.
LEMMA ForkCounts ==
    ASSUME TypeOK, CountExact, NEW i \in Ports, port_child_proc(i), pc # "dead",
           uncounted' = uncounted
    PROVE  /\ CountExact' /\ child_count' \in Int
           /\ Left' = Left \cup {Len(proc')}
  <1>1. /\ Len(proc) \in Nat /\ DOMAIN proc = 1..Len(proc) /\ proc \in Seq(States)
        /\ child_count \in Int /\ Fork(i, proc) /\ child_count' = child_count + 1
    BY DEF TypeOK, port_child_proc
  <1>2. /\ proc' \in Seq(States) /\ Len(proc') = Len(proc) + 1
        /\ \A q \in 1..Len(proc) : proc'[q] = proc[q]
        /\ proc'[Len(proc')] = "running"
    BY <1>1, ForkResult
  <1>3. Pids' = 1..(Len(proc) + 1) /\ Pids = 1..Len(proc)
    BY <1>1, <1>2 DEF Pids
  <1>4. Left' = Left \cup {Len(proc')}
    BY <1>1, <1>2, <1>3 DEF Left, Collected
  <1>5. Len(proc') \notin Left
    BY <1>1, <1>2, <1>3 DEF Left
  <1>6. Cardinality(Left') = Cardinality(Left) + 1
    BY <1>1, <1>4, <1>5, LeftFinite, FS_AddElement
  <1>7. CountExact'
    BY <1>1, <1>6, LeftFinite DEF CountExact
  <1> QED BY <1>1, <1>4, <1>7

\* Slots other than that of the new process stay true.
LEMMA ForkSlots ==
    ASSUME TypeOK, SlotTrue, SlotInv, CountExact, NEW i \in Ports, port_child_proc(i),
           pc \notin {"dead", "exit"}, uncounted' = uncounted, pid_child' = pid_child,
           pc' # pc => pc' = "wait" /\ port_child_pid[i] = pid_child /\ pid_child # 0
    PROVE  SlotTrue'
  <1> SUFFICES ASSUME NEW j \in Ports, ~uncounted', pc' \notin {"dead", "exit"}, port_child_pid'[j] # 0
               PROVE  LET p == port_child_pid'[j]
                      IN  \/ p \in Left'
                          \/ pc' \in {"found", "hung"} /\ p = pid_child'
                          \/ proc'[p] = "slain"
    BY DEF SlotTrue
  <1>1. Fork(i, proc) /\ proc \in Seq(States) /\ port_child_pid[j] \in 0..Len(proc)
    BY DEF port_child_proc, TypeOK
  <1>2. CASE j = i
    BY <1>1, <1>2, ForkResult, ForkCounts
  <1>3. CASE j # i
    <2>1. port_child_pid'[j] = port_child_pid[j] /\ port_child_pid[j] \in 1..Len(proc)
      BY <1>1, <1>3, ForkResult
    <2>2. proc'[port_child_pid[j]] = proc[port_child_pid[j]]
      BY <1>1, <2>1, ForkResult
    <2>3. \/ port_child_pid[j] \in Left
          \/ pc \in {"found", "hung"} /\ port_child_pid[j] = pid_child
          \/ proc[port_child_pid[j]] = "slain"
          \/ pc \in {"dead", "exit"}
      BY <2>1 DEF SlotTrue
    <2>4. port_child_pid[j] = pid_child => port_child_pid[i] # pid_child
      BY <1>3, <2>1 DEF SlotInv
    <2>5. Left \subseteq Left'
      BY ForkCounts
    <2> QED BY <2>1, <2>2, <2>3, <2>4, <2>5
  <1> QED BY <1>2, <1>3

\* A step that touches no list of processes keeps what is true of them.
LEMMA Untouched ==
    ASSUME Inv, UNCHANGED <<kernel, slots, history>>, pc # "dead",
           pc' \in PCs, test' \in Nat, pid_child' = pid_child, status' = status,
           awaited' \in 0..Len(proc),
           interfaceNum' \in 0..Len(Interfaces), port_info' \in Seq(Ports),
           port_count' \in 0..Len(port_info'), timed' \in SUBSET Ports
    PROVE  TypeOK' /\ SlotInv' /\ LiveInv' /\ CountExact'
  <1> USE DEF Inv, kernel, slots, history
  <1>1. TypeOK'
    BY DEF TypeOK, StartTypeOK
  <1>2. Left' = Left /\ Pids' = Pids
    BY DEF Left, Pids
  <1> QED BY <1>1, <1>2 DEF SlotInv, LiveInv, CountExact

\* The start keeps the invariant.
LEMMA StartInv ==
    ASSUME Inv, Start, UNCHANGED <<kernel, test, slots, found, bounds, history>>
    PROVE  Inv'
  <1> USE StartAssumption DEF Inv, found
  <1>1. pc \notin {"wait", "found", "killed", "reap", "dead", "exit", "hung", "fork"}
    BY DEF Start, Options, Usage, NextInterface, IndexFails, IndexDone, HostInfo, get_dest_ip,
           NoPortList, Arm, ArmFails
  <1>2. pc' \in PCs \ {"wait", "found", "killed", "reap", "hung"}
    BY DEF Start, Options, Usage, NextInterface, IndexFails, IndexDone, HostInfo, get_dest_ip,
           NoPortList, Arm, ArmFails, PCs, TypeOK, StartTypeOK
  <1>3. Len(Interfaces) \in Nat /\ interfaceNum \in 0..Len(Interfaces)
    BY DEF TypeOK, StartTypeOK
  <1>4. /\ interfaceNum' \in 0..Len(Interfaces) /\ port_info' \in Seq(Ports)
        /\ port_count' \in 0..Len(port_info') /\ timed' \in SUBSET Ports
        /\ IsFiniteSet(Looked(interfaceNum'))
        /\ Len(port_info') = Cardinality(Looked(interfaceNum'))
        /\ port_count' \in {0, Cardinality(Ports)} /\ test <= port_count'
    <2>1. /\ port_info \in Seq(Ports) /\ port_count \in 0..Len(port_info) /\ timed \in SUBSET Ports
          /\ test \in Nat
      BY DEF TypeOK, StartTypeOK
    <2>2. CASE NextInterface
      <3>1. interfaceNum \in 1..Len(Interfaces) /\ interfaceNum' = interfaceNum - 1
        BY <1>3, <2>2 DEF NextInterface
      <3>2. UNCHANGED <<port_count, timed>>
        BY <2>2 DEF NextInterface
      <3>3. CASE Interfaces[interfaceNum] \in Loopback
        <4>1. port_info' = port_info
          BY <2>2, <3>3 DEF NextInterface
        <4> QED BY <1>3, <2>1, <3>1, <3>2, <3>3, <4>1, LookedStep DEF PortsInv
      <3>4. CASE Interfaces[interfaceNum] \notin Loopback
        <4>1. port_info' = Append(port_info, Interfaces[interfaceNum])
          BY <2>2, <3>4 DEF NextInterface
        <4>2. Interfaces[interfaceNum] \in Ports
          BY <3>1, <3>4, LookedStep DEF PortsInv
        <4>3. port_info' \in Seq(Ports) /\ Len(port_info') = Len(port_info) + 1
          BY <2>1, <4>1, <4>2
        <4> QED BY <1>3, <2>1, <3>1, <3>2, <3>4, <4>3, LookedStep DEF PortsInv
      <3> QED BY <3>3, <3>4
    <2>3. CASE IndexDone
      BY <1>3, <2>1, <2>3, LookedAll DEF IndexDone, PortsInv
    <2>4. ASSUME NEW listed \in SUBSET Ports, get_dest_ip(listed)
          PROVE  timed' \in SUBSET Ports /\ UNCHANGED <<interfaceNum, port_info, port_count>>
      <3>1. \A k \in 1..port_count : port_info[k] \in Ports
        BY <2>1
      <3> QED BY <2>4, <3>1 DEF get_dest_ip
    <2>5. CASE UNCHANGED <<interfaceNum, port_info, port_count>> /\ timed' \in SUBSET Ports
      BY <1>3, <2>1, <2>5 DEF PortsInv
    <2> QED
      BY <2>1, <2>2, <2>3, <2>4, <2>5
      DEF Start, Options, Usage, IndexFails, HostInfo, NoPortList, Arm, ArmFails
  <1>5. TypeOK' /\ SlotInv' /\ LiveInv' /\ CountExact'
    BY <1>1, <1>2, <1>4, Untouched DEF TypeOK
  <1>6. PortsInv'
    BY <1>2, <1>4 DEF PortsInv
  <1>7. FoundInv'
    BY <1>2 DEF FoundInv
  <1>8. SlotTrue'
    <2>1. Left' = Left /\ UNCHANGED <<proc, port_child_pid, uncounted>>
      BY DEF Left, Pids, kernel, slots, history
    <2> QED BY <1>1, <1>2, <2>1 DEF SlotTrue
  <1> QED BY <1>5, <1>6, <1>7, <1>8

-----------------------------------------------------------------------------
(* The steps of main *)

\* The types after a fork that changes nothing else but pc and test.
LEMMA ForkTypes ==
    ASSUME TypeOK, NEW i \in Ports, NEW states \in Seq(States), Len(states) = Len(proc),
           Fork(i, states), child_count' \in Int, test' \in Nat, pc' \in PCs,
           UNCHANGED <<interfaceNum, port_info, port_count, timed, pid_child, status, awaited,
                       uncounted>>
    PROVE  TypeOK'
  <1>1. StartTypeOK'
    BY DEF TypeOK, StartTypeOK
  <1>2. pid_child' \in 0..Len(proc') /\ awaited' \in 0..Len(proc')
    BY ForkResult, SMTT(30) DEF TypeOK
  <1> QED BY <1>1, <1>2, ForkResult DEF TypeOK

LEMMA ForkPortInv == ASSUME Inv, ForkPort PROVE Inv'
  <1> USE StartAssumption DEF Inv
  <1>1. /\ pc = "fork" /\ test' = test + 1 /\ test < port_count
        /\ port_child_proc(port_info[test + 1])
        /\ UNCHANGED <<pc, interfaceNum, port_info, port_count, timed, uncounted>>
        /\ UNCHANGED <<pid_child, status, awaited>>
    BY DEF ForkPort, startVars, found
  <1>2. port_info[test + 1] \in Ports
    BY <1>1 DEF TypeOK, StartTypeOK
  <1>3. PICK i \in Ports : port_child_proc(i)
    BY <1>1, <1>2
  <1>4. proc \in Seq(States) /\ Fork(i, proc)
    BY <1>3 DEF TypeOK, port_child_proc
  <1>5. SlotInv' /\ LiveInv'
    BY <1>4, ForkKeeps
  <1>6. CountExact' /\ child_count' \in Int
    BY <1>1, <1>3, ForkCounts
  <1>7. SlotTrue'
    BY <1>1, <1>3, ForkSlots
  <1>8. TypeOK'
    <2>1. test' \in Nat /\ pc' \in PCs
      BY <1>1 DEF TypeOK, StartTypeOK
    <2> QED BY <1>1, <1>4, <1>6, <2>1, ForkTypes
  <1>9. PortsInv' /\ FoundInv'
    BY <1>1 DEF PortsInv, FoundInv, TypeOK, StartTypeOK
  <1> QED BY <1>5, <1>6, <1>7, <1>8, <1>9

\* Only pc changes, and if main was handling a child, it has ended.
LEMMA GotoInv ==
    ASSUME Inv, NEW label \in {"wait", "exit", "hung"}, Goto(label),
           pc \in {"fork", "wait", "found", "killed", "reap"},
           pc \in {"killed", "reap"} => label # "wait",
           UNCHANGED <<kernel, test, slots, found, history>>,
           label = "wait" => test = port_count,
           label = "wait" /\ pc = "found" => status = "killed" \/ PortOfChild = {}
    PROVE  Inv'
  <1> USE DEF Inv, Goto, found
  <1>1. TypeOK' /\ SlotInv' /\ LiveInv' /\ CountExact'
    BY Untouched DEF TypeOK, StartTypeOK, PCs
  <1>2. PortsInv' /\ FoundInv'
    BY DEF PortsInv, FoundInv
  <1>3. Left' = Left /\ UNCHANGED <<proc, port_child_pid, uncounted>>
    BY DEF Left, Pids, kernel, slots, history
  <1>4. SlotTrue'
    BY <1>3 DEF SlotTrue, FoundInv, PortOfChild
  <1> QED BY <1>1, <1>2, <1>4

\* waitpid takes one child away, and the count with it; a stop is reported
\* without one.
LEMMA WaitInv == ASSUME Inv, NEW p \in Pids, Wait(p) PROVE Inv'
  <1> USE DEF Inv
  <1>1. /\ pc = "wait" /\ pc' = "found" /\ pid_child' = p /\ status' = proc[p]
        /\ UNCHANGED <<of, test, port_child_pid, awaited, doubled>>
        /\ UNCHANGED <<interfaceNum, port_info, port_count, timed>>
        /\ child_count' = child_count - 1
        /\ uncounted' = (uncounted \/ proc[p] = "stopped")
        /\ proc[p] \in {"crashed", "exited", "killed", "stopped"}
    BY DEF Wait, Goto, Ended
  <1>2. proc \in Seq(States) /\ Pids = 1..Len(proc) /\ Len(proc) \in Nat
    BY DEF TypeOK, Pids
  <1> DEFINE s == IF proc[p] = "stopped" THEN "held" ELSE IF proc[p] = "killed" THEN "slain" ELSE "gone"
  <1>3. proc' = [proc EXCEPT ![p] = s]
    BY DEF Wait, Collect
  <1>4. /\ proc' \in Seq(States) /\ Len(proc') = Len(proc) /\ proc'[p] = s
        /\ \A q \in Pids \ {p} : proc'[q] = proc[q]
    BY <1>2, <1>3 DEF States
  <1>5. Pids' = Pids
    BY <1>2, <1>4 DEF Pids
  <1>6. TypeOK'
    BY <1>1, <1>2, <1>4 DEF TypeOK, StartTypeOK, PCs
  <1>7. PortsInv' /\ SlotInv'
    BY <1>1 DEF PortsInv, SlotInv
  <1>8. FoundInv'
    <2>1. p # 0 /\ status' # "none"
      BY <1>1, <1>2
    <2>2. /\ status' \in {"crashed", "exited"} => proc'[p] = "gone"
          /\ status' = "killed" => proc'[p] = "slain"
      BY <1>1, <1>4
    <2> QED BY <1>1, <2>1, <2>2 DEF FoundInv
  <1>9. LiveInv'
    BY <1>1, <1>4, <1>5 DEF LiveInv, Alive
  <1>10. CASE proc[p] = "stopped"
    BY <1>1, <1>6, <1>7, <1>8, <1>9, <1>10 DEF CountExact, SlotTrue
  <1>11. CASE proc[p] # "stopped"
    <2>1. Left' = Left \ {p} /\ p \in Left
      BY <1>1, <1>4, <1>5, <1>11 DEF Left, Collected
    <2>2. Cardinality(Left') = Cardinality(Left) - 1
      BY <1>2, <2>1, LeftFinite, FS_RemoveElement
    <2>3. CountExact'
      BY <1>1, <1>2, <1>11, <2>2, LeftFinite DEF CountExact, TypeOK
    <2>4. SlotTrue'
      <3> SUFFICES ASSUME NEW i \in Ports, port_child_pid[i] # 0, port_child_pid[i] # p, ~uncounted
                   PROVE  port_child_pid[i] \in Left' \/ proc'[port_child_pid[i]] = "slain"
        BY <1>1 DEF SlotTrue
      <3>1. port_child_pid[i] \in Pids
        BY <1>2 DEF TypeOK
      <3> QED BY <1>1, <1>4, <2>1, <3>1 DEF SlotTrue
    <2> QED BY <1>6, <1>7, <1>8, <1>9, <2>3, <2>4
  <1> QED BY <1>10, <1>11

\* waitpid fails only when the count was not exact any more.
LEMMA WaitNoneInv == ASSUME Inv, WaitNone PROVE Inv'
  <1> USE DEF Inv
  <1>1. /\ pc = "wait" /\ child_count # 0 /\ Left = {} /\ child_count' = child_count - 1
        /\ UNCHANGED <<pc, interfaceNum, port_info, port_count, timed, proc, of, test>>
        /\ UNCHANGED <<port_child_pid, pid_child, status, awaited, uncounted, doubled>>
    BY DEF WaitNone, startVars, kernel, found, history
  <1>2. uncounted
    BY <1>1, FS_EmptySet DEF CountExact
  <1>3. TypeOK' /\ PortsInv' /\ FoundInv' /\ SlotInv'
    BY <1>1 DEF TypeOK, StartTypeOK, PortsInv, FoundInv, SlotInv
  <1>4. LiveInv' /\ CountExact' /\ SlotTrue'
    BY <1>1, <1>2 DEF LiveInv, CountExact, SlotTrue, Pids
  <1> QED BY <1>3, <1>4

\* What the signal does to a process that main or a timer kills.
LEMMA KilledResult ==
    ASSUME TypeOK, NEW p \in Pids, proc' = Killed(p)
    PROVE  /\ proc' \in Seq(States) /\ Len(proc') = Len(proc) /\ Pids' = Pids
           /\ proc'[p] \in Ended
           /\ \A q \in Pids \ {p} : proc'[q] = proc[q]
  <1>1. proc \in Seq(States) /\ Pids = 1..Len(proc)
    BY DEF TypeOK, Pids
  <1>2. /\ proc' \in Seq(States) /\ Len(proc') = Len(proc)
        /\ proc'[p] \in Ended /\ \A q \in Pids \ {p} : proc'[q] = proc[q]
    BY <1>1 DEF Killed, States, Ended
  <1> QED BY <1>1, <1>2 DEF Pids

\* A slot is cleared together with the process it holds.
LEMMA ClearedSlot ==
    ASSUME TypeOK, SlotInv, LiveInv, NEW i \in Ports, port_child_pid[i] # 0,
           port_child_pid' = [port_child_pid EXCEPT ![i] = 0],
           UNCHANGED <<of, doubled>>,
           proc' \in Seq(States), Len(proc') = Len(proc),
           proc'[port_child_pid[i]] \notin Alive,
           \A q \in Pids \ {port_child_pid[i]} : proc'[q] = proc[q]
    PROVE  SlotInv' /\ LiveInv' /\ port_child_pid' \in [Ports -> 0..Len(proc')]
  <1>1. Pids = 1..Len(proc) /\ Pids' = Pids /\ \A q \in Pids : of[q] \in Ports
    BY DEF TypeOK, Pids
  <1>2. SlotInv' /\ port_child_pid' \in [Ports -> 0..Len(proc')]
    BY DEF TypeOK, SlotInv
  <1>3. ASSUME ~doubled, NEW q \in Pids, proc'[q] \in Alive PROVE port_child_pid'[of[q]] = q
    <2>1. q # port_child_pid[i] /\ proc[q] \in Alive
      BY <1>3
    <2>2. port_child_pid[of[q]] = q
      BY <1>3, <2>1 DEF LiveInv
    <2>3. of[q] # i
      BY <2>1, <2>2
    <2> QED BY <1>1, <2>2, <2>3 DEF TypeOK
  <1> QED BY <1>1, <1>2, <1>3 DEF LiveInv

LEMMA StoppedInv == ASSUME Inv, Stopped PROVE Inv'
  <1> USE DEF Inv
  <1>1. /\ pc = "found" /\ status = "stopped" /\ pc' = "killed"
        /\ UNCHANGED <<interfaceNum, port_info, port_count, timed, of, test, pid_child, status>>
        /\ UNCHANGED <<awaited, uncounted, doubled>>
    BY DEF Stopped, Found, Goto, found, history
  <1>2. PICK i \in Ports : /\ port_child_pid[i] = pid_child
                           /\ proc' = Killed(pid_child)
                           /\ port_child_pid' = [port_child_pid EXCEPT ![i] = 0]
                           /\ child_count' = child_count - 1
    BY DEF Stopped, PortOfChild
  <1>3. uncounted /\ pid_child # 0
    BY <1>1 DEF FoundInv
  <1>4. pid_child \in Pids
    BY <1>3 DEF TypeOK, Pids
  <1>5. SlotInv' /\ LiveInv' /\ port_child_pid' \in [Ports -> 0..Len(proc')]
    BY <1>1, <1>2, <1>3, <1>4, KilledResult, ClearedSlot DEF Ended, Alive
  <1>6. TypeOK'
    BY <1>1, <1>2, <1>4, <1>5, KilledResult DEF TypeOK, StartTypeOK, PCs
  <1>7. PortsInv' /\ FoundInv'
    BY <1>1, <1>3 DEF PortsInv, FoundInv
  <1>8. CountExact' /\ SlotTrue'
    BY <1>1, <1>3 DEF CountExact, SlotTrue
  <1> QED BY <1>5, <1>6, <1>7, <1>8

LEMMA AwaitInv == ASSUME Inv, Await PROVE Inv'
  <1> USE DEF Inv
  <1>1. /\ pc = "killed" /\ pc' = "reap" /\ awaited' = port_child_pid[of[pid_child]]
        /\ UNCHANGED <<interfaceNum, port_info, port_count, timed, test, pid_child, status>>
        /\ UNCHANGED <<kernel, slots, history>>
    BY DEF Await, Goto
  <1>2. uncounted /\ pid_child # 0
    BY <1>1 DEF FoundInv
  <1>3. of[pid_child] \in Ports
    BY <1>2 DEF TypeOK
  <1>4. awaited' \in 0..Len(proc)
    BY <1>1, <1>3 DEF TypeOK
  <1>5. TypeOK' /\ SlotInv' /\ LiveInv' /\ CountExact'
    BY <1>1, <1>4, Untouched DEF TypeOK, StartTypeOK, PCs
  <1>6. PortsInv' /\ FoundInv' /\ SlotTrue'
    BY <1>1, <1>2 DEF PortsInv, FoundInv, SlotTrue, history
  <1> QED BY <1>5, <1>6

LEMMA ReapInv == ASSUME Inv, NEW p \in Pids, Reap(p) PROVE Inv'
  <1> USE DEF Inv
  <1>1. /\ pc = "reap" /\ pc' = "wait" /\ child_count' = child_count + 1
        /\ Fork(of[pid_child], Collect(p)) /\ proc[p] \in Ended
        /\ UNCHANGED <<interfaceNum, port_info, port_count, timed, test, pid_child, status>>
        /\ UNCHANGED <<awaited, uncounted>>
    BY DEF Reap, Goto, found
  <1>2. uncounted /\ pid_child # 0
    BY <1>1 DEF FoundInv
  <1>3. of[pid_child] \in Ports
    BY <1>2 DEF TypeOK
  <1>4. PICK i \in Ports : Fork(i, Collect(p))
    BY <1>1, <1>3
  <1>5. /\ Collect(p) \in Seq(States) /\ Len(Collect(p)) = Len(proc)
        /\ \A q \in 1..Len(proc) : Collect(p)[q] = proc[q] \/ Collect(p)[q] \notin Alive
    BY DEF Collect, States, TypeOK, Pids, Alive
  <1>6. PICK states \in Seq(States) :
          /\ Len(states) = Len(proc) /\ Fork(i, states)
          /\ \A q \in 1..Len(proc) : states[q] = proc[q] \/ states[q] \notin Alive
    BY <1>4, <1>5
  <1>7. SlotInv' /\ LiveInv'
    BY <1>6, ForkKeeps
  <1>8. TypeOK'
    <2>1. test' \in Nat /\ pc' \in PCs /\ child_count' \in Int
      BY <1>1 DEF TypeOK, PCs
    <2> QED BY <1>1, <1>6, <2>1, ForkTypes
  <1>9. PortsInv' /\ FoundInv'
    BY <1>1 DEF PortsInv, FoundInv
  <1>10. CountExact' /\ SlotTrue'
    BY <1>1, <1>2 DEF CountExact, SlotTrue
  <1> QED BY <1>7, <1>8, <1>9, <1>10

\* A child that exited leaves no slot behind.
LEMMA ExitedInv == ASSUME Inv, Exited PROVE Inv'
  <1> USE DEF Inv
  <1>1. /\ pc = "found" /\ status = "exited" /\ pc' = "wait"
        /\ UNCHANGED <<interfaceNum, port_info, port_count, timed, proc, of, test, pid_child>>
        /\ UNCHANGED <<status, awaited, child_count, uncounted, doubled>>
    BY DEF Exited, Found, Goto, kernel, found, history
  <1>2. PICK i \in Ports : /\ port_child_pid[i] = pid_child
                           /\ port_child_pid' = [port_child_pid EXCEPT ![i] = 0]
    BY DEF Exited, PortOfChild
  <1>3. pid_child # 0 /\ proc[pid_child] = "gone"
    BY <1>1 DEF FoundInv
  <1>4. SlotInv' /\ LiveInv' /\ port_child_pid' \in [Ports -> 0..Len(proc')]
    BY <1>1, <1>2, <1>3, ClearedSlot DEF Alive, TypeOK
  <1>5. TypeOK'
    BY <1>1, <1>4 DEF TypeOK, StartTypeOK, PCs
  <1>6. PortsInv' /\ FoundInv'
    BY <1>1 DEF PortsInv, FoundInv
  <1>7. Left' = Left
    BY <1>1 DEF Left, Pids
  <1>8. CountExact'
    BY <1>1, <1>7 DEF CountExact
  <1>9. SlotTrue'
    <2> SUFFICES ASSUME NEW j \in Ports, port_child_pid'[j] # 0, ~uncounted
                 PROVE  port_child_pid'[j] \in Left \/ proc[port_child_pid'[j]] = "slain"
      BY <1>1, <1>7 DEF SlotTrue
    <2>1. j # i /\ port_child_pid'[j] = port_child_pid[j]
      BY <1>2 DEF TypeOK
    <2>2. port_child_pid[j] # pid_child
      BY <1>2, <1>3, <2>1 DEF SlotInv
    <2> QED BY <1>1, <2>1, <2>2 DEF SlotTrue
  <1> QED BY <1>4, <1>5, <1>6, <1>8, <1>9

LEMMA CrashedInv == ASSUME Inv, Crashed PROVE Inv'
  <1> USE DEF Inv
  <1>1. /\ pc = "found" /\ pc' = "wait"
        /\ UNCHANGED <<interfaceNum, port_info, port_count, timed, test, pid_child, status>>
        /\ UNCHANGED <<awaited, uncounted>>
    BY DEF Crashed, Found, Goto, found
  <1>2. PICK i \in Ports : port_child_pid[i] = pid_child /\ port_child_proc(i)
    BY DEF Crashed, PortOfChild
  <1>3. pid_child # 0
    BY <1>1 DEF FoundInv
  <1>4. proc \in Seq(States) /\ Fork(i, proc)
    BY <1>2 DEF TypeOK, port_child_proc
  <1>5. SlotInv' /\ LiveInv'
    BY <1>4, ForkKeeps
  <1>6. CountExact' /\ child_count' \in Int
    BY <1>1, <1>2, ForkCounts
  <1>7. SlotTrue'
    BY <1>1, <1>2, <1>3, ForkSlots
  <1>8. TypeOK'
    <2>1. test' \in Nat /\ pc' \in PCs
      BY <1>1 DEF TypeOK, PCs
    <2> QED BY <1>1, <1>4, <1>6, <2>1, ForkTypes
  <1>9. PortsInv' /\ FoundInv'
    BY <1>1 DEF PortsInv, FoundInv
  <1> QED BY <1>5, <1>6, <1>7, <1>8, <1>9

-----------------------------------------------------------------------------
(* What happens to the children, and the timers *)

LEMMA FaultInv == ASSUME Inv, NEW p \in Pids, NEW f \in Faults, Fault(p, f) PROVE Inv'
  <1> USE DEF Inv
  <1>1. /\ pc \notin {"dead", "exit", "hung"} /\ proc[p] = "running"
        /\ proc' = [proc EXCEPT ![p] = f]
        /\ UNCHANGED <<pc, interfaceNum, port_info, port_count, timed, of, test>>
        /\ UNCHANGED <<port_child_pid, child_count, pid_child, status, awaited, uncounted, doubled>>
    BY DEF Fault, startVars, slots, found, history
  <1>2. proc \in Seq(States) /\ Pids = 1..Len(proc)
    BY DEF TypeOK, Pids
  <1>3. f \in {"crashed", "exited", "killed", "stopped"}
    BY SupervisorAssumption
  <1>4. /\ proc' \in Seq(States) /\ Len(proc') = Len(proc) /\ proc'[p] = f
        /\ \A q \in Pids \ {p} : proc'[q] = proc[q]
    BY <1>1, <1>2, <1>3 DEF States
  <1>5. Left' = Left /\ Pids' = Pids
    BY <1>1, <1>2, <1>3, <1>4 DEF Left, Pids, Collected
  <1>6. TypeOK' /\ PortsInv' /\ SlotInv' /\ CountExact'
    BY <1>1, <1>4, <1>5 DEF TypeOK, StartTypeOK, PortsInv, SlotInv, CountExact
  <1>7. pid_child # 0 => pid_child \in Pids
    BY <1>2 DEF TypeOK
  <1>8. FoundInv'
    <2>1. pc \in {"found"} /\ pid_child = p => status = "stopped"
      BY <1>1 DEF FoundInv, TypeOK
    <2> QED BY <1>1, <1>4, <1>7, <2>1 DEF FoundInv
  <1>9. LiveInv'
    BY <1>1, <1>4, <1>5 DEF LiveInv, Alive
  <1>10. SlotTrue'
    <2> SUFFICES ASSUME NEW i \in Ports, port_child_pid[i] # 0, proc[port_child_pid[i]] = "slain"
                 PROVE  proc'[port_child_pid[i]] = "slain"
      BY <1>1, <1>5 DEF SlotTrue
    <2>1. port_child_pid[i] \in Pids
      BY <1>2 DEF TypeOK
    <2> QED BY <1>1, <1>4, <2>1
  <1> QED BY <1>6, <1>8, <1>9, <1>10

LEMMA LaunchInv == ASSUME Inv, NEW i \in Ports, Launch(i) PROVE Inv'
  <1> USE DEF Inv
  <1>1. /\ pc \in Started /\ port_child_proc(i)
        /\ UNCHANGED <<pc, interfaceNum, port_info, port_count, timed, test, pid_child>>
        /\ UNCHANGED <<status, awaited, uncounted>>
    BY DEF Launch, Ordered, Started, startVars, found
  <1>2. proc \in Seq(States) /\ Fork(i, proc)
    BY <1>1 DEF TypeOK, port_child_proc
  <1>3. SlotInv' /\ LiveInv'
    BY <1>2, ForkKeeps
  <1>4. CountExact' /\ child_count' \in Int
    BY <1>1, ForkCounts DEF Started
  <1>5. SlotTrue'
    BY <1>1, ForkSlots DEF Started
  <1>6. TypeOK'
    <2>1. test' \in Nat /\ pc' \in PCs
      BY <1>1 DEF TypeOK, StartTypeOK
    <2> QED BY <1>1, <1>2, <1>4, <2>1, ForkTypes
  <1>7. PortsInv' /\ FoundInv'
    <2>1. pid_child # 0 => pid_child \in 1..Len(proc)
      BY DEF TypeOK
    <2>2. pid_child # 0 => proc'[pid_child] = proc[pid_child]
      BY <1>2, <2>1, ForkResult
    <2> QED BY <1>1, <2>2 DEF PortsInv, FoundInv
  <1> QED BY <1>3, <1>4, <1>5, <1>6, <1>7

LEMMA EndInv == ASSUME Inv, NEW i \in Ports, End(i) PROVE Inv'
  <1> USE DEF Inv
  <1>1. /\ port_child_pid[i] \in Left /\ proc' = Killed(port_child_pid[i]) /\ uncounted' = TRUE
        /\ port_child_pid' = [port_child_pid EXCEPT ![i] = 0] /\ child_count' = child_count - 1
        /\ UNCHANGED <<pc, interfaceNum, port_info, port_count, timed, of, test, pid_child>>
        /\ UNCHANGED <<status, awaited, doubled>>
    BY DEF End, Ordered, startVars, found
  <1>2. Pids = 1..Len(proc)
    BY DEF TypeOK, Pids
  <1>3. PICK p \in Pids : p = port_child_pid[i] /\ p # 0 /\ proc[p] \notin Collected
    BY <1>1, <1>2 DEF Left
  <1>4. /\ proc' \in Seq(States) /\ Len(proc') = Len(proc)
        /\ proc'[p] \in Ended /\ \A q \in Pids \ {p} : proc'[q] = proc[q]
    BY <1>1, <1>3, KilledResult
  <1>5. SlotInv' /\ LiveInv' /\ port_child_pid' \in [Ports -> 0..Len(proc')]
    BY <1>1, <1>3, <1>4, ClearedSlot DEF Ended, Alive
  <1>6. TypeOK'
    BY <1>1, <1>4, <1>5 DEF TypeOK, StartTypeOK
  <1>7. FoundInv'
    <2>1. pc = "found" /\ status # "stopped" => proc[pid_child] \in Collected /\ pid_child # 0
      BY DEF FoundInv, TypeOK, Collected
    <2>2. pc = "found" /\ status # "stopped" => proc'[pid_child] = proc[pid_child]
      BY <1>2, <1>3, <1>4, <2>1 DEF TypeOK
    <2> QED BY <1>1, <2>2 DEF FoundInv
  <1>8. PortsInv' /\ CountExact' /\ SlotTrue'
    BY <1>1 DEF PortsInv, CountExact, SlotTrue
  <1> QED BY <1>5, <1>6, <1>7, <1>8

LEMMA EndNoneInv == ASSUME Inv, NEW i \in Ports, EndNone(i) PROVE Inv'
  <1> USE DEF Inv
  <1>1. /\ proc' = [p \in Pids |-> IF p \in Left THEN "gone" ELSE proc[p]] /\ pc' = "dead"
        /\ UNCHANGED <<interfaceNum, port_info, port_count, timed, of, test, pid_child, status>>
        /\ UNCHANGED <<awaited, port_child_pid, child_count, uncounted, doubled>>
    BY DEF EndNone, Ordered, Goto, slots, found, history
  <1>2. proc \in Seq(States) /\ Pids = 1..Len(proc) /\ Len(proc) \in Nat
    BY DEF TypeOK, Pids
  <1>3. proc' \in Seq(States) /\ Len(proc') = Len(proc)
    BY <1>1, <1>2 DEF States
  <1>4. \A q \in Pids : proc'[q] \in Collected
    BY <1>1 DEF Left, Collected
  <1>5. Pids' = Pids
    BY <1>2, <1>3 DEF Pids
  <1>6. TypeOK'
    BY <1>1, <1>3 DEF TypeOK, StartTypeOK, PCs
  <1>7. LiveInv'
    BY <1>4, <1>5 DEF LiveInv, Alive, Collected
  <1>8. PortsInv' /\ FoundInv' /\ SlotInv' /\ CountExact' /\ SlotTrue'
    BY <1>1 DEF PortsInv, FoundInv, SlotInv, CountExact, SlotTrue
  <1> QED BY <1>6, <1>7, <1>8

-----------------------------------------------------------------------------
\* The invariant holds initially.
LEMMA InitInv == Init => Inv
  <1> SUFFICES ASSUME Init PROVE Inv
    OBVIOUS
  <1> USE StartAssumption DEF Init, InitStart
  <1>1. Len(Interfaces) \in Nat
    OBVIOUS
  <1>2. TypeOK
    <2>1. StartTypeOK
      BY <1>1 DEF StartTypeOK, PCs
    <2>2. proc \in Seq(States) /\ of \in Seq(Ports) /\ Len(proc) = 0 /\ Len(of) = 0
      OBVIOUS
    <2>3. port_child_pid \in [Ports -> 0..0]
      OBVIOUS
    <2>4. port_child_pid \in [Ports -> 0..Len(proc)]
      BY <2>2, <2>3
    <2>5. pid_child \in 0..Len(proc) /\ awaited \in 0..Len(proc)
      BY <2>2
    <2>6. test \in Nat /\ child_count \in Int
      OBVIOUS
    <2>7. uncounted \in BOOLEAN /\ doubled \in BOOLEAN
      OBVIOUS
    <2>8. status \in {"none", "crashed", "exited", "killed", "stopped"}
      OBVIOUS
    <2> HIDE DEF Init
    <2> QED BY <2>1, <2>2, <2>4, <2>5, <2>6, <2>7, <2>8 DEF TypeOK
  <1>3. PortsInv
    BY LookedNone, FS_EmptySet DEF PortsInv
  <1>4. Left = {}
    BY DEF Left, Pids
  <1>5. CountExact
    BY <1>4, FS_EmptySet DEF CountExact
  <1>6. FoundInv /\ SlotInv /\ LiveInv /\ SlotTrue
    BY DEF FoundInv, SlotInv, LiveInv, SlotTrue, Pids
  <1> QED BY <1>2, <1>3, <1>5, <1>6 DEF Inv

\* Every step of main, its children and the timers keeps the invariant.
LEMMA NextInv == Inv /\ [Next]_vars => Inv'
  <1> SUFFICES ASSUME Inv, [Next]_vars PROVE Inv'
    OBVIOUS
  <1>1. CASE Start /\ UNCHANGED <<kernel, test, slots, found, bounds, history>>
    BY <1>1, StartInv
  <1>2. CASE ForkPort
    BY <1>2, ForkPortInv
  <1>3. CASE Watch
    BY <1>3, GotoInv DEF Watch
  <1>4. ASSUME NEW p \in Pids, Wait(p) PROVE Inv'
    BY <1>4, WaitInv
  <1>5. CASE WaitNone
    BY <1>5, WaitNoneInv
  <1>6. CASE Stopped
    BY <1>6, StoppedInv
  <1>7. CASE Await
    BY <1>7, AwaitInv
  <1>8. ASSUME NEW p \in Pids, Reap(p) PROVE Inv'
    BY <1>8, ReapInv
  <1>9. CASE Exited
    BY <1>9, ExitedInv
  <1>10. CASE Crashed
    BY <1>10, CrashedInv
  <1>11. CASE NotMine
    <2>1. test = port_count
      BY <1>11 DEF NotMine, Inv, PortsInv
    <2> QED BY <1>11, <2>1, GotoInv DEF NotMine
  <1>12. CASE ForkFails
    BY <1>12, GotoInv DEF ForkFails, Found
  <1>13. CASE exit_proc
    BY <1>13, GotoInv DEF exit_proc
  <1>14. ASSUME NEW p \in Pids, NEW f \in Faults, Fault(p, f) PROVE Inv'
    BY <1>14, FaultInv
  <1>15. ASSUME NEW i \in Ports, Launch(i) PROVE Inv'
    BY <1>15, LaunchInv
  <1>16. ASSUME NEW i \in Ports, End(i) PROVE Inv'
    BY <1>16, EndInv
  <1>17. ASSUME NEW i \in Ports, EndNone(i) PROVE Inv'
    BY <1>17, EndNoneInv
  <1>18. ASSUME NEW i \in Ports, EndGone(i) PROVE Inv'
    BY <1>18, GotoInv DEF EndGone, Ordered
  <1>19. CASE UNCHANGED vars
    <2>1. /\ UNCHANGED <<pc, interfaceNum, port_info, port_count, timed, proc, of, test>>
          /\ UNCHANGED <<port_child_pid, child_count, pid_child, status, awaited>>
          /\ UNCHANGED <<uncounted, doubled>>
      BY <1>19 DEF vars, startVars, kernel, slots, found, history
    <2>2. Left' = Left /\ Pids' = Pids
      BY <2>1 DEF Left, Pids
    <2> QED
      BY <2>1, <2>2
      DEF Inv, TypeOK, StartTypeOK, PortsInv, FoundInv, SlotInv, LiveInv, CountExact, SlotTrue
  <1> QED
    BY <1>1, <1>2, <1>3, <1>4, <1>5, <1>6, <1>7, <1>8, <1>9, <1>10, <1>11, <1>12, <1>13, <1>14,
       <1>15, <1>16, <1>17, <1>18, <1>19
    DEF Next, Main

\* The inductive invariant of the supervisor holds in every state.
THEOREM Invariance == Spec => []Inv
  BY InitInv, NextInv, PTL DEF Spec

\* get_port_index counts the ports only when it has looked at all of them, so
\* main watches every port of the host or none, for any list of interfaces.
THEOREM WatchesAllOrNone == Spec => []AllOrNone
  <1>1. Inv => AllOrNone
    BY DEF Inv, PortsInv, AllOrNone
  <1> QED BY <1>1, Invariance, PTL

\* child_count is exact over any number of crashes, exits, launches and
\* foreign kills, until main itself kills or meets a stop.
THEOREM CountIsExact == Spec => []CountExact
  <1>1. Inv => CountExact
    BY DEF Inv
  <1> QED BY <1>1, Invariance, PTL

\* A process that lives is in the slot of its port, hence a port has at most
\* one, until one is launched over another.
THEOREM OneProcessPerPort == Spec => []OneProcess
  <1>1. Inv => OneProcess
    <2> SUFFICES ASSUME Inv, ~doubled, NEW i \in Ports
                 PROVE  Cardinality(Live(i)) <= 1
      BY DEF OneProcess
    <2>1. Live(i) \subseteq {port_child_pid[i]}
      BY DEF Inv, LiveInv, Live, Alive
    <2>2. IsFiniteSet({port_child_pid[i]}) /\ Cardinality({port_child_pid[i]}) = 1
      BY FS_Singleton
    <2> QED BY <2>1, <2>2, FS_Subset
  <1> QED BY <1>1, Invariance, PTL

\* A slot that names a collected child does so only while main handles it,
\* after a foreign kill, or after main killed or met a stop.
THEOREM SlotsTrue == Spec => []SlotTrue
  <1>1. Inv => SlotTrue
    BY DEF Inv
  <1> QED BY <1>1, Invariance, PTL
=============================================================================
