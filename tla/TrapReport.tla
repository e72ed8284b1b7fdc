----------------------------- MODULE TrapReport -----------------------------
(***************************************************************************)
(* How a port reports to the resource manager (trap.c and get_port_info.c  *)
(* of the monitoring tools, get_trap_message and data_trap_message of      *)
(* RM/main.c).                                                             *)
(*                                                                         *)
(* In every period the process of a port writes its trap state to a file   *)
(* and says hello; port 0 writes the traffic of the period to another file *)
(* before.  The RM reflects the hello; the process of the port that leads  *)
(* to the RM starts a thread, which reads both files and sends what is in  *)
(* them; the RM keeps the traffic.                                         *)
(*                                                                         *)
(* What a period wrote is identified by the number of the period.  Locks   *)
(* are those of fcntl: they belong to a process, not to a descriptor or a  *)
(* thread, and a process that unlocks or closes a file drops its lock.     *)
(* Every call on a trap file may fail at any time; a process may also stay *)
(* in a period for ever, as it does while its link is down.                *)
(*                                                                         *)
(* A definition marked "Mistake" is a wrong version of the one after it;   *)
(* with it in place a property must fail.                                  *)
(***************************************************************************)
EXTENDS Integers

CONSTANTS
    Ports,
    Port0,        \* writes the traffic
    TrapPort,     \* leads to the RM
    Silent,       \* ports that never say hello (address 10.10.11.1)
    Periods,      \* bound: periods of each port
    MaxThreads    \* bound: threads that answer at a time

ASSUME TrapReportAssumption ==
    /\ {Port0, TrapPort} \subseteq Ports
    /\ Silent \subseteq Ports
    /\ Periods \in [Ports -> Nat]
    /\ MaxThreads \in Nat

Threads == 1..MaxThreads
Missing == -1      \* no such file
Empty == 0         \* a file without contents
Unread == -2       \* what an answer says of a file that could not be read

VARIABLES
    main,         \* where a process is in its loop
    period,       \* number of its period
    traffic_temp, \* the traffic file
    temp_trap,    \* the trap file of a port
    lock,         \* lock[f][p] is the lock of process p on the trap file of f
    thread,       \* threads of TrapPort that answer
    hellos,       \* hellos on their way to the RM
    reflected,    \* and back
    answers,      \* answers on their way to the RM
    known,        \* pc4_port: traffic known to the RM
    measured,     \* history: the last period whose traffic was measured
    left,         \* history: locks <<file, process>> that a call that failed
                  \* left behind and that were not given back since
    crossed       \* history: two answers were under way at a time

files == <<traffic_temp, temp_trap, lock>>
network == <<hellos, reflected, answers>>
vars == <<main, period, traffic_temp, temp_trap, lock, thread, hellos, reflected,
          answers, known, measured, left, crossed>>

Idle == [at |-> "idle"]

-----------------------------------------------------------------------------
Init ==
    /\ main = [p \in Ports |-> "sleep"]
    /\ period = [p \in Ports |-> 0]
    /\ traffic_temp = Missing
    /\ temp_trap = [p \in Ports |-> Missing]
    /\ lock = [f \in Ports |-> [p \in Ports |-> "none"]]
    /\ thread = [t \in Threads |-> Idle]
    /\ hellos = {} /\ reflected = {} /\ answers = {}
    /\ known = Empty
    /\ measured = 0
    /\ left = {}
    /\ crossed = FALSE

At(p, here, next) == main[p] = here /\ main' = [main EXCEPT ![p] = next]

\* A period of p is over.  Port 0, if its link is up, opens the traffic file
\* for writing, which empties it.
Wake(p, up) ==
    /\ period[p] < Periods[p]
    /\ period' = [period EXCEPT ![p] = @ + 1]
    /\ IF p = Port0 /\ up
       THEN /\ At(p, "sleep", "traffic")
            /\ traffic_temp' = Empty
            /\ measured' = period[p] + 1
       ELSE /\ At(p, "sleep", "open")
            /\ UNCHANGED <<traffic_temp, measured>>
    /\ UNCHANGED <<temp_trap, lock, thread, network, known, left, crossed>>

\* Mistake: the traffic of the period before is written.
CloseTrafficOld(p) ==
    /\ At(p, "traffic", "open")
    /\ traffic_temp' = period[p] - 1
    /\ UNCHANGED <<period, temp_trap, lock, thread, network, known, measured, left, crossed>>

\* fclose writes what fprintf has formatted.
CloseTraffic(p) ==
    /\ At(p, "traffic", "open")
    /\ traffic_temp' = period[p]
    /\ UNCHANGED <<period, temp_trap, lock, thread, network, known, measured, left, crossed>>

-----------------------------------------------------------------------------
(* write_trap_file and send_trap_hello *)

\* The file is created if need be; its contents stay.
OpenTrap(p) ==
    /\ At(p, "open", "lock")
    /\ temp_trap' = [temp_trap EXCEPT ![p] = IF @ = Missing THEN Empty ELSE @]
    /\ UNCHANGED <<period, traffic_temp, lock, thread, network, known, measured, left, crossed>>

\* A lock of another process is waited for.
LockTrap(p) ==
    /\ At(p, "lock", "write")
    /\ \A q \in Ports \ {p} : lock[p][q] = "none"
    /\ lock' = [lock EXCEPT ![p][p] = "write"]
    /\ UNCHANGED <<period, traffic_temp, temp_trap, thread, network, known, measured, left, crossed>>

\* Mistake: the message is not written.
WriteTrapNot(p) ==
    /\ At(p, "write", "unlock")
    /\ UNCHANGED <<period, files, thread, network, known, measured, left, crossed>>

WriteTrap(p) ==
    /\ At(p, "write", "unlock")
    /\ temp_trap' = [temp_trap EXCEPT ![p] = period[p]]
    /\ UNCHANGED <<period, traffic_temp, lock, thread, network, known, measured, left, crossed>>

\* The file cannot be opened or the lock is not given: there is no hello.
ReportFails(p) ==
    /\ \E here \in {"open", "lock"} : At(p, here, "sleep")
    /\ UNCHANGED <<period, files, thread, network, known, measured, left, crossed>>

\* The write is short, or nothing is written: the file stays open and locked,
\* and there is no hello.  Over an older message the state may be covered.
WriteFails(p) ==
    /\ At(p, "write", "sleep")
    /\ temp_trap' \in {temp_trap, [temp_trap EXCEPT ![p] = IF @ > Empty THEN period[p] ELSE @]}
    /\ left' = left \cup {<<p, p>>}
    /\ UNCHANGED <<period, traffic_temp, lock, thread, network, known, measured, crossed>>

UnlockTrap(p) ==
    /\ At(p, "unlock", IF p \in Silent THEN "sleep" ELSE "hello")
    /\ lock' = [lock EXCEPT ![p][p] = "none"]
    /\ left' = left \ {<<p, p>>}
    /\ UNCHANGED <<period, traffic_temp, temp_trap, thread, network, known, measured, crossed>>

\* since, the period measured last, is history.
send_trap_hello(p) ==
    /\ At(p, "hello", "sleep")
    /\ hellos' = hellos \cup {[port |-> p, period |-> period[p], since |-> measured]}
    /\ UNCHANGED <<period, files, thread, reflected, answers, known, measured, left, crossed>>

-----------------------------------------------------------------------------
(* The resource manager *)

\* The RM marks the hello and sends it back.
get_trap_message(h) ==
    /\ h \in hellos
    /\ hellos' = hellos \ {h}
    /\ reflected' = reflected \cup {h}
    /\ UNCHANGED <<main, period, files, thread, answers, known, measured, left, crossed>>

\* Mistake: the traffic of the time of the hello is kept.
data_trap_message_early(a) ==
    /\ a \in answers
    /\ answers' = answers \ {a}
    /\ known' = a.hello.since
    /\ UNCHANGED <<main, period, files, thread, hellos, reflected, measured, left, crossed>>

\* The traffic of an answer replaces what was known.
data_trap_message(a) ==
    /\ a \in answers
    /\ answers' = answers \ {a}
    /\ known' = a.traffic
    /\ UNCHANGED <<main, period, files, thread, hellos, reflected, measured, left, crossed>>

Lose ==
    /\ \/ \E h \in hellos : hellos' = hellos \ {h} /\ UNCHANGED <<reflected, answers>>
       \/ \E h \in reflected : reflected' = reflected \ {h} /\ UNCHANGED <<hellos, answers>>
       \/ \E a \in answers : answers' = answers \ {a} /\ UNCHANGED <<hellos, reflected>>
    /\ UNCHANGED <<main, period, files, thread, known, measured, left, crossed>>

-----------------------------------------------------------------------------
(* thread_parse_trap *)

Busy == {t \in Threads : thread[t] # Idle}

\* The capture thread sees a reflected hello and starts a thread for it.
thread_parse_trap(t, h) ==
    /\ h \in reflected
    /\ thread[t] = Idle
    /\ reflected' = reflected \ {h}
    /\ thread' = [thread EXCEPT ![t] =
         [at |-> "open", hello |-> h, trap_type |-> Missing, traffic |-> Missing]]
    /\ crossed' = (crossed \/ Busy # {} \/ answers # {})
    /\ UNCHANGED <<main, period, files, hellos, answers, known, measured, left>>

Step(t, here, next) == thread[t].at = here /\ thread' = [thread EXCEPT ![t].at = next]

\* Mistake: the file is read without a lock.
ReadLockNot(t) ==
    /\ Step(t, "open", "read")
    /\ UNCHANGED <<main, period, files, network, known, measured, left, crossed>>

\* The lock of the process becomes a read lock, also if it was a write lock.
ReadLock(t) ==
    /\ Step(t, "open", "read")
    /\ LET f == thread[t].hello.port
       IN  /\ \A q \in Ports \ {TrapPort} : lock[f][q] # "write"
           /\ lock' = [lock EXCEPT ![f][TrapPort] = "read"]
    /\ UNCHANGED <<main, period, traffic_temp, temp_trap, network, known, measured, left, crossed>>

\* The message is read.  Of a file without one nothing is taken, and it stays
\* open and locked.
ReadTrap(t) ==
    /\ thread[t].at = "read"
    /\ LET found == temp_trap[thread[t].hello.port]
       IN  thread' = [thread EXCEPT
             ![t].at = IF found = Empty THEN "traffic" ELSE "unlock",
             ![t].trap_type = IF found = Empty THEN Missing ELSE found]
    /\ UNCHANGED <<main, period, files, network, known, measured, left, crossed>>

\* A call of read_trap_file fails: the answer goes out with a state of 0.  If
\* it was the read, the file stays open and locked.
ReadFails(t) ==
    /\ thread[t].at \in {"open", "read"}
    /\ thread' = [thread EXCEPT ![t].at = "traffic", ![t].trap_type = Unread]
    /\ left' = IF thread[t].at = "open" THEN left
               ELSE left \cup {<<thread[t].hello.port, TrapPort>>}
    /\ UNCHANGED <<main, period, files, network, known, measured, crossed>>

\* Mistake: the lock is kept.
ReadUnlockNot(t) ==
    /\ Step(t, "unlock", "traffic")
    /\ UNCHANGED <<main, period, files, network, known, measured, left, crossed>>

ReadUnlock(t) ==
    /\ Step(t, "unlock", "traffic")
    /\ lock' = [lock EXCEPT ![thread[t].hello.port][TrapPort] = "none"]
    /\ left' = left \ {<<thread[t].hello.port, TrapPort>>}
    /\ UNCHANGED <<main, period, traffic_temp, temp_trap, network, known, measured, crossed>>

\* send_trap_data: without a traffic file there is no answer.  (A file that
\* cannot be opened or a socket that is not to be had has the same effect as
\* the loss of the answer.)
ReadTraffic(t) ==
    /\ thread[t].at = "traffic"
    /\ thread' = [thread EXCEPT ![t] =
         IF traffic_temp = Missing THEN Idle ELSE [@ EXCEPT !.at = "send", !.traffic = traffic_temp]]
    /\ UNCHANGED <<main, period, files, network, known, measured, left, crossed>>

\* An empty file counts as no traffic.
send_trap_data(t) ==
    /\ thread[t].at = "send"
    /\ answers' = answers \cup
         {[hello |-> thread[t].hello, trap_type |-> thread[t].trap_type,
           traffic |-> thread[t].traffic]}
    /\ thread' = [thread EXCEPT ![t] = Idle]
    /\ UNCHANGED <<main, period, files, hellos, reflected, known, measured, left, crossed>>

-----------------------------------------------------------------------------
Main(p) ==
    \/ CloseTraffic(p) \/ OpenTrap(p) \/ LockTrap(p) \/ WriteTrap(p)
    \/ UnlockTrap(p) \/ send_trap_hello(p)

Parse(t) ==
    \/ \E h \in reflected : thread_parse_trap(t, h)
    \/ ReadLock(t) \/ ReadTrap(t) \/ ReadUnlock(t) \/ ReadTraffic(t) \/ send_trap_data(t)

Next ==
    \/ \E p \in Ports : Main(p) \/ ReportFails(p) \/ WriteFails(p) \/ \E up \in BOOLEAN : Wake(p, up)
    \/ \E t \in Threads : Parse(t) \/ ReadFails(t)
    \/ \E h \in hellos : get_trap_message(h)
    \/ \E a \in answers : data_trap_message(a)
    \/ Lose

Spec == Init /\ [][Next]_vars

\* Processes, threads and the RM keep running.  No call need fail, and no
\* period need end: a port whose link is down waits for it.
LiveSpec ==
    /\ Spec
    /\ \A p \in Ports : WF_vars(Main(p))
    /\ \A t \in Threads : WF_vars(Parse(t))
    /\ WF_vars(\E h \in hellos : get_trap_message(h))
    /\ WF_vars(\E a \in answers : data_trap_message(a))

-----------------------------------------------------------------------------
(* Properties *)

\* A thread that can read a trap file finds the state of its hello or a later
\* one there, never an empty file: the hello is sent after the file is written.
StateNotOlder == \A a \in answers : a.trap_type = Unread \/ a.trap_type >= a.hello.period

\* The traffic in an answer to port 0 is not older than the hello, unless the
\* file was read while it was empty: port 0 writes it before it says hello.
TrafficNotOlder ==
    \A a \in answers :
        a.hello.port = Port0 /\ a.traffic # Empty => a.traffic >= a.hello.since

\* What the RM knows does not go back to an older period, as long as one
\* answer at a time is under way and the traffic file was not empty.
NeverBack == [][known' # Empty => crossed \/ known' >= known]_vars

\* A trap file is not written while a thread of another process reads it, as
\* long as a single thread answers: the second one's unlock is the first one's.
Excluded ==
    \A p \in Ports \ {TrapPort} : main[p] = "unlock" \/ main[p] = "write" =>
        crossed \/ \A t \in Busy : thread[t].hello.port = p => thread[t].at \notin {"read", "unlock"}

\* The thread waits for a lock that a failed write left behind.
Barred(t) ==
    /\ thread[t] # Idle
    /\ thread[t].at = "open"
    /\ LET f == thread[t].hello.port IN f # TrapPort /\ <<f, f>> \in left

\* Every thread ends and every port gets its lock, also after calls that failed
\* and left locks behind: a wait is for ever only if such a lock is, because the
\* process that has it never again unlocks the file.
Answered ==
    /\ \A t \in Threads : []<>(thread[t] = Idle) \/ <>[]Barred(t)
    /\ \A p \in Ports :
         []<>(main[p] # "lock") \/ <>[](main[p] = "lock" /\ <<p, TrapPort>> \in left)
=============================================================================
