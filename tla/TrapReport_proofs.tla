------------------------- MODULE TrapReport_proofs -------------------------
(***************************************************************************)
(* Proofs about TrapReport.                                                *)
(*                                                                         *)
(* No answer is older than its hello because the files are written before  *)
(* the hello is sent and only move forward (FilesInv), so whatever is      *)
(* under way keeps its bounds (HelloOK, ThreadOK, AnswerOK).  What needs   *)
(* the process-wide locks of fcntl to hold, and what needs the answers to  *)
(* come one by one, holds while no two answers are under way (AloneInv,    *)
(* LockInv, KnownInv).                                                     *)
(***************************************************************************)
EXTENDS TrapReport, TLAPS

Hello == [port : Ports, period : Nat, since : Nat]
Thread == [at : {"open", "read", "unlock", "traffic", "send"}, hello : Hello,
           trap_type : Int, traffic : Int]
Answer == [hello : Hello, trap_type : Int, traffic : Int]

\* The values of the variables.
TypeOK ==
    /\ main \in [Ports -> {"sleep", "traffic", "open", "lock", "write", "unlock", "hello"}]
    /\ period \in [Ports -> Nat]
    /\ traffic_temp \in Int
    /\ temp_trap \in [Ports -> Int]
    /\ lock \in [Ports -> [Ports -> {"none", "read", "write"}]]
    /\ thread \in [Threads -> Thread \cup {Idle}]
    /\ hellos \in SUBSET Hello
    /\ reflected \in SUBSET Hello
    /\ answers \in SUBSET Answer
    /\ known \in Nat
    /\ measured \in Nat
    /\ crossed \in BOOLEAN

\* The traffic file holds what was measured last, or is empty while it is
\* written; a trap file is never ahead of its port, and holds the current
\* period once it is written.
FilesInv ==
    /\ traffic_temp \in {Missing, Empty, measured}
    /\ \A p \in Ports :
         /\ temp_trap[p] <= period[p]
         /\ main[p] # "sleep" => period[p] >= 1
         /\ main[p] = "traffic" => measured = period[p]
         /\ p = Port0 => measured <= period[p]
         /\ main[p] = "traffic" => p = Port0
         /\ main[p] \in {"unlock", "hello"} => temp_trap[p] = period[p]

\* The file of a port that said hello is at least as new as the hello.
HelloOK(h) ==
    /\ 1 <= h.period /\ h.period <= temp_trap[h.port]
    /\ h.since <= measured

\* What a thread has read is not older than its hello.
ThreadOK(r) ==
    /\ HelloOK(r.hello)
    /\ r.at \in {"unlock", "traffic", "send"} =>
         r.trap_type = Unread \/ r.trap_type >= r.hello.period
    /\ r.at = "send" => /\ 0 <= r.traffic /\ r.traffic <= measured
                        /\ r.traffic # Empty => r.traffic >= r.hello.since

AnswerOK(a) ==
    /\ a.trap_type = Unread \/ a.trap_type >= a.hello.period
    /\ 0 <= a.traffic /\ a.traffic <= measured
    /\ a.traffic # Empty => a.traffic >= a.hello.since

UnderWayInv ==
    /\ \A h \in hellos \cup reflected : HelloOK(h)
    /\ \A t \in Threads : thread[t] # Idle => ThreadOK(thread[t])
    /\ \A a \in answers : AnswerOK(a)

\* Unless two answers crossed there is at most one thread or answer.
AloneInv ==
    crossed \/ /\ \A t, u \in Threads : thread[t] # Idle /\ thread[u] # Idle => t = u
               /\ \A t \in Threads : thread[t] # Idle => answers = {}
               /\ \A a, b \in answers : a = b

\* Who holds a lock: the process that writes its file, and the process of
\* TrapPort while its only thread reads.  Its own file is not protected from
\* itself: its read lock becomes a write lock.
LockInv ==
    /\ \A p \in Ports \ {TrapPort} : main[p] \in {"write", "unlock"} => lock[p][p] = "write"
    /\ \A t \in Threads : thread[t] # Idle /\ thread[t].at \in {"read", "unlock"} =>
         \/ crossed
         \/ thread[t].hello.port = TrapPort
         \/ lock[thread[t].hello.port][TrapPort] = "read"

\* What is under way is not older than what the RM knows.
KnownInv ==
    /\ known <= measured
    /\ crossed \/ /\ \A t \in Threads : thread[t] # Idle /\ thread[t].at = "send" =>
                       thread[t].traffic = Empty \/ thread[t].traffic >= known
                  /\ \A a \in answers : a.traffic = Empty \/ a.traffic >= known

Inv == TypeOK /\ FilesInv /\ UnderWayInv /\ AloneInv /\ LockInv /\ Excluded /\ KnownInv

-----------------------------------------------------------------------------
\* What is under way keeps its bounds when the files only move forward.
LEMMA Forward ==
    ASSUME TypeOK, UnderWayInv, TypeOK',
           \A p \in Ports : temp_trap[p] >= 1 => temp_trap'[p] >= temp_trap[p],
           measured' >= measured
    PROVE  /\ \A h \in hellos \cup reflected : HelloOK(h)'
           /\ \A t \in Threads : thread[t] # Idle =>
                /\ thread[t] \in Thread
                /\ \A r \in Thread : r = thread[t] => ThreadOK(r)'
           /\ \A a \in answers : AnswerOK(a)'
  <1>1. ASSUME NEW h \in Hello, HelloOK(h) PROVE HelloOK(h)'
    BY <1>1, SMTT(30) DEF HelloOK, Hello, TypeOK
  <1>2. \A h \in hellos \cup reflected : HelloOK(h)'
    BY <1>1 DEF UnderWayInv, TypeOK
  <1>3. ASSUME NEW r \in Thread, ThreadOK(r) PROVE ThreadOK(r)'
    <2>1. r.hello \in Hello /\ r.traffic \in Int
      BY DEF Thread
    <2>2. HelloOK(r.hello)'
      BY <1>1, <1>3, <2>1 DEF ThreadOK
    <2> QED BY <1>3, <2>1, <2>2 DEF ThreadOK, TypeOK
  <1>4. ASSUME NEW t \in Threads, thread[t] # Idle
        PROVE  /\ thread[t] \in Thread
               /\ \A r \in Thread : r = thread[t] => ThreadOK(r)'
    <2>1. thread[t] \in Thread
      BY <1>4 DEF TypeOK
    <2>2. ThreadOK(thread[t])
      BY <1>4 DEF UnderWayInv
    <2> QED BY <1>3, <2>1, <2>2
  <1>5. ASSUME NEW a \in answers PROVE AnswerOK(a)'
    <2>1. a.traffic \in Int /\ AnswerOK(a)
      BY DEF UnderWayInv, TypeOK, Answer
    <2> QED BY <2>1 DEF AnswerOK, TypeOK
  <1> QED BY <1>2, <1>4, <1>5

\* A step that leaves the threads and the network alone, and the files no
\* older than they were, keeps what is under way as it should be.
LEMMA MainKeeps ==
    ASSUME TypeOK, UnderWayInv, AloneInv, KnownInv, TypeOK',
           \A p \in Ports : temp_trap[p] >= 1 => temp_trap'[p] >= temp_trap[p],
           measured' >= measured,
           UNCHANGED <<thread, reflected, answers, known, crossed>>,
           \A h \in hellos' : HelloOK(h)'
    PROVE  UnderWayInv' /\ AloneInv' /\ KnownInv'
  <1>1. UnderWayInv'
    <2>1. \A h \in (hellos \cup reflected)' : HelloOK(h)'
      BY Forward
    <2>2. ASSUME NEW t \in Threads, (thread[t] # Idle)' PROVE ThreadOK(thread[t])'
      BY <2>2, Forward
    <2>3. \A a \in answers' : AnswerOK(a)'
      BY Forward
    <2> QED BY <2>1, <2>2, <2>3 DEF UnderWayInv
  <1>2. AloneInv'
    BY DEF AloneInv
  <1>3. KnownInv'
    BY DEF KnownInv, TypeOK
  <1> QED BY <1>1, <1>2, <1>3

-----------------------------------------------------------------------------
LEMMA InitInv == Init => Inv
  <1> SUFFICES ASSUME Init PROVE Inv
    OBVIOUS
  <1> USE TrapReportAssumption
  <1>1. TypeOK
    <2>1. lock \in [Ports -> [Ports -> {"none", "read", "write"}]]
      BY DEF Init
    <2>2. thread \in [Threads -> Thread \cup {Idle}]
      BY DEF Init
    <2>3. Missing \in Int /\ Empty \in Nat
      BY DEF Missing, Empty
    <2> QED BY <2>1, <2>2, <2>3 DEF Init, TypeOK
  <1>2. FilesInv
    BY DEF Init, FilesInv, Missing
  <1>3. \A t \in Threads : thread[t] = Idle
    BY DEF Init
  <1>4. UnderWayInv /\ AloneInv /\ LockInv /\ KnownInv
    BY <1>3 DEF Init, UnderWayInv, AloneInv, LockInv, KnownInv, Empty
  <1>5. Excluded
    BY DEF Init, Excluded
  <1> QED BY <1>1, <1>2, <1>4, <1>5 DEF Inv

\* The process of a port keeps the invariant.
LEMMA WakeInv ==
    ASSUME Inv, NEW p \in Ports, NEW up \in BOOLEAN, Wake(p, up)
    PROVE  Inv'
  <1> USE TrapReportAssumption DEF Inv
  <1>1. TypeOK'
    BY DEF Wake, At, TypeOK, Empty, network
  <1>2. FilesInv'
    BY DEF Wake, At, TypeOK, FilesInv, Empty
  <1>3. measured' >= measured
    BY DEF Wake, TypeOK, FilesInv
  <1>4. UNCHANGED <<temp_trap, lock, thread, hellos, reflected, answers, known, crossed>>
    BY DEF Wake, network
  <1>5. UnderWayInv' /\ AloneInv' /\ KnownInv'
    <2>1. \A h \in hellos' : HelloOK(h)'
      BY <1>1, <1>3, <1>4, Forward DEF TypeOK
    <2> QED BY <1>1, <1>3, <1>4, <2>1, MainKeeps DEF TypeOK
  <1>6. LockInv'
    BY <1>4 DEF Wake, At, TypeOK, LockInv
  <1>7. Excluded'
    BY <1>4 DEF Wake, At, TypeOK, Excluded, Busy
  <1> QED BY <1>1, <1>2, <1>5, <1>6, <1>7

LEMMA CloseTrafficInv ==
    ASSUME Inv, NEW p \in Ports, CloseTraffic(p)
    PROVE  Inv'
  <1> USE TrapReportAssumption DEF Inv
  <1>1. TypeOK'
    BY DEF CloseTraffic, At, TypeOK, network
  <1>2. FilesInv'
    BY DEF CloseTraffic, At, TypeOK, FilesInv
  <1>3. UNCHANGED <<temp_trap, lock, thread, hellos, reflected, answers, known, measured, crossed>>
    BY DEF CloseTraffic, network
  <1>4. UnderWayInv' /\ AloneInv' /\ KnownInv'
    <2>1. \A h \in hellos' : HelloOK(h)'
      BY <1>1, <1>3, Forward DEF TypeOK
    <2> QED BY <1>1, <1>3, <2>1, MainKeeps DEF TypeOK
  <1>5. LockInv'
    BY <1>3 DEF CloseTraffic, At, TypeOK, LockInv
  <1>6. Excluded'
    BY <1>3 DEF CloseTraffic, At, TypeOK, Excluded, Busy
  <1> QED BY <1>1, <1>2, <1>4, <1>5, <1>6

LEMMA OpenTrapInv ==
    ASSUME Inv, NEW p \in Ports, OpenTrap(p)
    PROVE  Inv'
  <1> USE TrapReportAssumption DEF Inv
  <1>1. TypeOK'
    BY DEF OpenTrap, At, TypeOK, network, Empty
  <1>2. FilesInv'
    BY DEF OpenTrap, At, TypeOK, FilesInv, Empty
  <1>3. UNCHANGED <<lock, thread, hellos, reflected, answers, known, measured, crossed>>
    BY DEF OpenTrap, network
  <1>4. \A q \in Ports : temp_trap[q] >= 1 => temp_trap'[q] >= temp_trap[q]
    BY DEF OpenTrap, TypeOK, Missing
  <1>5. UnderWayInv' /\ AloneInv' /\ KnownInv'
    <2>1. \A h \in hellos' : HelloOK(h)'
      BY <1>1, <1>3, <1>4, Forward DEF TypeOK
    <2> QED BY <1>1, <1>3, <1>4, <2>1, MainKeeps DEF TypeOK
  <1>6. LockInv'
    BY <1>3 DEF OpenTrap, At, TypeOK, LockInv
  <1>7. Excluded'
    BY <1>3 DEF OpenTrap, At, TypeOK, Excluded, Busy
  <1> QED BY <1>1, <1>2, <1>5, <1>6, <1>7

\* The lock is granted only if no thread reads the file: its process would
\* hold a read lock.
LEMMA LockTrapInv ==
    ASSUME Inv, NEW p \in Ports, LockTrap(p)
    PROVE  Inv'
  <1> USE TrapReportAssumption DEF Inv
  <1>1. TypeOK'
    BY DEF LockTrap, At, TypeOK, network
  <1>2. FilesInv'
    BY DEF LockTrap, At, TypeOK, FilesInv
  <1>3. UNCHANGED <<temp_trap, thread, hellos, reflected, answers, known, measured, crossed>>
    BY DEF LockTrap, network
  <1>4. UnderWayInv' /\ AloneInv' /\ KnownInv'
    <2>1. \A h \in hellos' : HelloOK(h)'
      BY <1>1, <1>3, Forward DEF TypeOK
    <2> QED BY <1>1, <1>3, <2>1, MainKeeps DEF TypeOK
  <1>5. p # TrapPort => lock[p][TrapPort] = "none"
    BY DEF LockTrap
  <1>6. \A f, q \in Ports : lock'[f][q] = IF f = p /\ q = p THEN "write" ELSE lock[f][q]
    BY DEF LockTrap, TypeOK
  <1>7. LockInv'
    <2>1. \A q \in Ports \ {TrapPort} : main'[q] \in {"write", "unlock"} => lock'[q][q] = "write"
      BY <1>6 DEF LockTrap, At, TypeOK, LockInv
    <2>2. ASSUME NEW t \in Threads, thread[t] # Idle, thread[t].at \in {"read", "unlock"},
                 ~crossed, thread[t].hello.port # TrapPort
          PROVE  lock'[thread[t].hello.port][TrapPort] = "read"
      <3>1. thread[t].hello.port \in Ports
        BY <2>2 DEF TypeOK, Thread, Hello
      <3>2. lock[thread[t].hello.port][TrapPort] = "read"
        BY <2>2 DEF LockInv
      <3> QED BY <1>6, <2>2, <3>1, <3>2
    <2> QED BY <1>3, <2>1, <2>2 DEF LockInv
  <1>8. Excluded'
    <2>1. SUFFICES ASSUME NEW q \in Ports \ {TrapPort}, main'[q] \in {"write", "unlock"}, ~crossed,
                          NEW t \in Threads, thread[t] # Idle, thread[t].hello.port = q,
                          thread[t].at \in {"read", "unlock"}
                   PROVE  FALSE
      BY <1>3 DEF Excluded, Busy
    <2>2. CASE q = p
      BY <1>5, <2>1, <2>2 DEF LockInv
    <2>3. CASE q # p
      BY <2>1, <2>3 DEF LockTrap, At, TypeOK, Excluded, Busy
    <2> QED BY <2>2, <2>3
  <1> QED BY <1>1, <1>2, <1>4, <1>7, <1>8

LEMMA WriteTrapInv ==
    ASSUME Inv, NEW p \in Ports, WriteTrap(p)
    PROVE  Inv'
  <1> USE TrapReportAssumption DEF Inv
  <1>1. TypeOK'
    BY DEF WriteTrap, At, TypeOK, network
  <1>2. FilesInv'
    BY DEF WriteTrap, At, TypeOK, FilesInv
  <1>3. UNCHANGED <<lock, thread, hellos, reflected, answers, known, measured, crossed>>
    BY DEF WriteTrap, network
  <1>4. \A q \in Ports : temp_trap[q] >= 1 => temp_trap'[q] >= temp_trap[q]
    BY DEF WriteTrap, TypeOK, FilesInv
  <1>5. UnderWayInv' /\ AloneInv' /\ KnownInv'
    <2>1. \A h \in hellos' : HelloOK(h)'
      BY <1>1, <1>3, <1>4, Forward DEF TypeOK
    <2> QED BY <1>1, <1>3, <1>4, <2>1, MainKeeps DEF TypeOK
  <1>6. LockInv'
    BY <1>3 DEF WriteTrap, At, TypeOK, LockInv
  <1>7. Excluded'
    BY <1>3 DEF WriteTrap, At, TypeOK, Excluded, Busy
  <1> QED BY <1>1, <1>2, <1>5, <1>6, <1>7

LEMMA ReportFailsInv ==
    ASSUME Inv, NEW p \in Ports, ReportFails(p)
    PROVE  Inv'
  <1> USE TrapReportAssumption DEF Inv
  <1>0. main' = [main EXCEPT ![p] = "sleep"]
    BY DEF ReportFails, At
  <1>3. UNCHANGED <<period, traffic_temp, temp_trap, lock, thread, hellos, reflected, answers,
                    known, measured, crossed>>
    BY DEF ReportFails, network, files
  <1>1. TypeOK'
    BY <1>0, <1>3 DEF TypeOK
  <1>2. FilesInv'
    BY <1>0, <1>3 DEF TypeOK, FilesInv
  <1>4. UnderWayInv' /\ AloneInv' /\ KnownInv'
    <2>1. \A h \in hellos' : HelloOK(h)'
      BY <1>1, <1>3, Forward DEF TypeOK
    <2> QED BY <1>1, <1>3, <2>1, MainKeeps DEF TypeOK
  <1>5. LockInv'
    BY <1>0, <1>3 DEF TypeOK, LockInv
  <1>6. Excluded'
    BY <1>0, <1>3 DEF TypeOK, Excluded, Busy
  <1> QED BY <1>1, <1>2, <1>4, <1>5, <1>6

LEMMA WriteFailsInv ==
    ASSUME Inv, NEW p \in Ports, WriteFails(p)
    PROVE  Inv'
  <1> USE TrapReportAssumption DEF Inv
  <1>0. main' = [main EXCEPT ![p] = "sleep"] /\ main[p] = "write"
    BY DEF WriteFails, At
  <1>3. UNCHANGED <<period, traffic_temp, lock, thread, hellos, reflected, answers, known,
                    measured, crossed>>
    BY DEF WriteFails, network
  <1>t. \/ temp_trap' = temp_trap
        \/ temp_trap[p] > Empty /\ temp_trap' = [temp_trap EXCEPT ![p] = period[p]]
    BY DEF WriteFails, TypeOK
  <1>1. TypeOK'
    BY <1>0, <1>3, <1>t DEF TypeOK
  <1>2. FilesInv'
    BY <1>0, <1>3, <1>t DEF TypeOK, FilesInv
  <1>m. \A q \in Ports : temp_trap[q] >= 1 => temp_trap'[q] >= temp_trap[q]
    BY <1>t DEF TypeOK, FilesInv
  <1>4. UnderWayInv' /\ AloneInv' /\ KnownInv'
    <2>1. \A h \in hellos' : HelloOK(h)'
      BY <1>1, <1>3, <1>m, Forward DEF TypeOK
    <2> QED BY <1>1, <1>3, <1>m, <2>1, MainKeeps DEF TypeOK
  <1>5. LockInv'
    BY <1>0, <1>3 DEF TypeOK, LockInv
  <1>6. Excluded'
    BY <1>0, <1>3 DEF TypeOK, Excluded, Busy
  <1> QED BY <1>1, <1>2, <1>4, <1>5, <1>6

LEMMA UnlockTrapInv ==
    ASSUME Inv, NEW p \in Ports, UnlockTrap(p)
    PROVE  Inv'
  <1> USE TrapReportAssumption DEF Inv
  <1>1. main' = [main EXCEPT ![p] = main'[p]] /\ main'[p] \in {"sleep", "hello"} /\ main[p] = "unlock"
    BY DEF UnlockTrap, At, TypeOK
  <1>2. \A f, q \in Ports : lock'[f][q] = IF f = p /\ q = p THEN "none" ELSE lock[f][q]
    BY DEF UnlockTrap, TypeOK
  <1>3. UNCHANGED <<period, traffic_temp, temp_trap, thread, hellos, reflected, answers, known,
                    measured, crossed>>
    BY DEF UnlockTrap, network
  <1>4. TypeOK'
    <2>1. lock' \in [Ports -> [Ports -> {"none", "read", "write"}]]
      BY DEF UnlockTrap, TypeOK
    <2> QED BY <1>1, <1>3, <2>1 DEF TypeOK
  <1>5. FilesInv'
    BY <1>1, <1>3 DEF TypeOK, FilesInv
  <1>6. UnderWayInv' /\ AloneInv' /\ KnownInv'
    <2>1. \A h \in hellos' : HelloOK(h)'
      BY <1>3, <1>4, Forward DEF TypeOK
    <2> QED BY <1>3, <1>4, <2>1, MainKeeps DEF TypeOK
  <1>7. LockInv'
    <2>1. \A q \in Ports \ {TrapPort} : main'[q] \in {"write", "unlock"} => lock'[q][q] = "write"
      BY <1>1, <1>2 DEF TypeOK, LockInv
    <2>2. ASSUME NEW t \in Threads, thread[t] # Idle, thread[t].at \in {"read", "unlock"},
                 ~crossed, thread[t].hello.port # TrapPort
          PROVE  lock'[thread[t].hello.port][TrapPort] = "read"
      <3>1. thread[t].hello.port \in Ports
        BY <2>2 DEF TypeOK, Thread, Hello
      <3>2. lock[thread[t].hello.port][TrapPort] = "read"
        BY <2>2 DEF LockInv
      <3> QED BY <1>2, <2>2, <3>1, <3>2
    <2> QED BY <1>3, <2>1, <2>2 DEF LockInv
  <1>8. Excluded'
    BY <1>1, <1>3 DEF TypeOK, Excluded, Busy
  <1> QED BY <1>4, <1>5, <1>6, <1>7, <1>8

\* The hello carries the period the file was just written for.
LEMMA SendHelloInv ==
    ASSUME Inv, NEW p \in Ports, send_trap_hello(p)
    PROVE  Inv'
  <1> USE TrapReportAssumption DEF Inv
  <1> DEFINE h == [port |-> p, period |-> period[p], since |-> measured]
  <1>1. UNCHANGED <<period, traffic_temp, temp_trap, lock, thread, reflected, answers, known,
                    measured, crossed>>
    BY DEF send_trap_hello, files
  <1>2. main[p] = "hello" /\ main' = [main EXCEPT ![p] = "sleep"] /\ hellos' = hellos \cup {h}
    BY DEF send_trap_hello, At
  <1>3. h \in Hello
    BY DEF TypeOK, Hello
  <1>4. TypeOK'
    BY <1>1, <1>2, <1>3 DEF TypeOK
  <1>5. FilesInv'
    BY <1>1, <1>2 DEF TypeOK, FilesInv
  <1>6. ASSUME NEW g, g = h PROVE HelloOK(g)'
    BY <1>1, <1>2, <1>6 DEF TypeOK, FilesInv, HelloOK
  <1>7. UnderWayInv' /\ AloneInv' /\ KnownInv'
    <2>1. \A g \in hellos : HelloOK(g)'
      BY <1>1, <1>4, Forward DEF TypeOK
    <2>2. ASSUME NEW g \in hellos' PROVE HelloOK(g)'
      <3>1. CASE g \in hellos
        BY <2>1, <3>1
      <3>2. CASE g = h
        BY <1>6, <3>2
      <3> QED BY <1>2, <3>1, <3>2
    <2> QED BY <1>1, <1>4, <2>2, MainKeeps DEF TypeOK
  <1>8. LockInv'
    BY <1>1, <1>2 DEF TypeOK, LockInv
  <1>9. Excluded'
    BY <1>1, <1>2 DEF TypeOK, Excluded, Busy
  <1> QED BY <1>4, <1>5, <1>7, <1>8, <1>9

-----------------------------------------------------------------------------
\* The network and the RM keep the invariant: they move hellos and answers
\* and lose them, and the only answer under way is not older than what is
\* known.
LEMMA NetworkInv ==
    ASSUME Inv,
           UNCHANGED <<main, period, files, thread, measured, left, crossed>>,
           hellos' \in SUBSET hellos,
           reflected' \in SUBSET (hellos \cup reflected),
           \/ answers' \in SUBSET answers /\ known' = known
           \/ \E a \in answers : answers' = answers \ {a} /\ known' = a.traffic
    PROVE  Inv'
  <1> USE TrapReportAssumption DEF Inv
  <1>1. answers' \in SUBSET answers
    OBVIOUS
  <1>2. known' \in Nat /\ known' <= measured
    <2>1. ASSUME NEW a \in answers PROVE a.traffic \in Nat /\ a.traffic <= measured
      BY DEF UnderWayInv, AnswerOK, TypeOK, Answer
    <2> QED BY <2>1 DEF TypeOK, KnownInv
  <1>3. TypeOK'
    BY <1>1, <1>2 DEF TypeOK, files
  <1>4. FilesInv' /\ LockInv' /\ Excluded'
    BY DEF FilesInv, LockInv, Excluded, Busy, files
  <1>5. UnderWayInv'
    <2>1. \A h \in (hellos \cup reflected)' : HelloOK(h)'
      BY <1>3, Forward DEF TypeOK, files
    <2>2. ASSUME NEW t \in Threads, (thread[t] # Idle)' PROVE ThreadOK(thread[t])'
      BY <1>3, <2>2, Forward DEF TypeOK, files
    <2>3. \A a \in answers' : AnswerOK(a)'
      BY <1>1, <1>3, Forward DEF TypeOK, files
    <2> QED BY <2>1, <2>2, <2>3 DEF UnderWayInv
  <1>6. AloneInv'
    BY <1>1 DEF AloneInv
  <1>7. KnownInv'
    <2>1. CASE answers' \in SUBSET answers /\ known' = known
      BY <2>1 DEF KnownInv
    <2>2. ASSUME NEW a \in answers, answers' = answers \ {a}, known' = a.traffic, ~crossed
          PROVE  answers' = {} /\ \A t \in Threads : thread[t] = Idle
      BY <2>2 DEF AloneInv
    <2> QED BY <1>2, <2>1, <2>2 DEF KnownInv
  <1> QED BY <1>3, <1>4, <1>5, <1>6, <1>7

-----------------------------------------------------------------------------
(* The threads *)

\* A step of one thread t that leaves it idle or with the record r, all but
\* the lock of TrapPort on the file of its hello being left alone.
Moved(t, r) ==
    /\ thread' = [thread EXCEPT ![t] = r]
    /\ UNCHANGED <<main, period, traffic_temp, temp_trap, hellos, known, measured>>

\* What is left to show of a step of one thread: what it has read, and that
\* it stays alone.
LEMMA ThreadKeeps ==
    ASSUME Inv, NEW t \in Threads, NEW r \in Thread \cup {Idle}, Moved(t, r),
           reflected' \in SUBSET reflected,
           lock' \in [Ports -> [Ports -> {"none", "read", "write"}]],
           crossed' \in BOOLEAN, crossed => crossed',
           r # Idle => ThreadOK(r),
           answers' \in SUBSET Answer,
           \A a \in answers' : AnswerOK(a)
    PROVE  TypeOK' /\ FilesInv' /\ UnderWayInv'
  <1> USE TrapReportAssumption DEF Inv
  <1>1. TypeOK'
    BY DEF TypeOK, Moved
  <1>2. FilesInv'
    BY DEF FilesInv, Moved
  <1>3. UnderWayInv'
    <2>1. \A h \in (hellos \cup reflected)' : HelloOK(h)'
      BY <1>1, Forward DEF TypeOK, Moved
    <2>2. ASSUME NEW u \in Threads, (thread[u] # Idle)' PROVE ThreadOK(thread[u])'
      <3>1. CASE u = t
        <4>1. thread'[u] = r
          BY <3>1 DEF TypeOK, Moved
        <4>2. ThreadOK(r)
          BY <2>2, <4>1
        <4> QED BY <4>1, <4>2 DEF ThreadOK, HelloOK, Moved
      <3>2. CASE u # t
        <4>1. thread'[u] = thread[u]
          BY <3>2 DEF TypeOK, Moved
        <4> QED BY <1>1, <2>2, <4>1, Forward DEF TypeOK, Moved
      <3> QED BY <3>1, <3>2
    <2>3. \A a \in answers' : AnswerOK(a)'
      BY DEF AnswerOK, Moved
    <2> QED BY <2>1, <2>2, <2>3 DEF UnderWayInv
  <1> QED BY <1>1, <1>2, <1>3

\* The start of a thread is when two answers can cross.
LEMMA ParseInv ==
    ASSUME Inv, NEW t \in Threads, NEW h \in reflected, thread_parse_trap(t, h)
    PROVE  Inv'
  <1> USE TrapReportAssumption DEF Inv
  <1> DEFINE r == [at |-> "open", hello |-> h, trap_type |-> Missing, traffic |-> Missing]
  <1>1. /\ thread[t] = Idle /\ Moved(t, r)
        /\ UNCHANGED <<lock, answers>> /\ reflected' \in SUBSET reflected
        /\ crossed' = (crossed \/ Busy # {} \/ answers # {})
    BY DEF thread_parse_trap, Moved, files
  <1>2. r \in Thread /\ r # Idle
    BY DEF TypeOK, Thread, Idle, Missing
  <1>3. ThreadOK(r)
    BY DEF UnderWayInv, ThreadOK
  <1>4. TypeOK' /\ FilesInv' /\ UnderWayInv'
    BY <1>1, <1>2, <1>3, ThreadKeeps DEF TypeOK, UnderWayInv
  <1> HIDE DEF r
  <1>5. \A u \in Threads : thread'[u] = IF u = t THEN r ELSE thread[u]
    BY <1>1 DEF Moved, TypeOK
  <1>6. AloneInv'
    BY <1>1, <1>5 DEF AloneInv, Busy
  <1>7. r.at = "open"
    BY DEF r
  <1>8. LockInv'
    BY <1>1, <1>5, <1>7, ZenonT(60) DEF LockInv, Moved
  <1>9. Excluded'
    BY <1>1, <1>5, <1>7 DEF Excluded, Busy, Moved
  <1>10. KnownInv'
    BY <1>1, <1>5, <1>7 DEF KnownInv, Moved
  <1> QED BY <1>4, <1>6, <1>8, <1>9, <1>10

\* A busy thread that goes on: what else stays true.
LEMMA GoesOn ==
    ASSUME Inv, NEW t \in Threads, NEW r \in Thread, Moved(t, r), thread[t] # Idle,
           UNCHANGED <<answers, crossed>>,
           r.at = "send" => r.traffic \in {Empty, measured}
    PROVE  AloneInv' /\ KnownInv'
  <1> USE DEF Inv
  <1>1. \A u \in Threads : thread'[u] = IF u = t THEN r ELSE thread[u]
    BY DEF Moved, TypeOK
  <1>2. AloneInv'
    BY <1>1 DEF AloneInv
  <1>3. KnownInv'
    BY <1>1 DEF KnownInv, Moved, TypeOK
  <1> QED BY <1>2, <1>3

\* The file is not being written: its port would hold the lock.
LEMMA ReadLockInv ==
    ASSUME Inv, NEW t \in Threads, ReadLock(t)
    PROVE  Inv'
  <1> USE TrapReportAssumption DEF Inv
  <1> DEFINE r == [thread[t] EXCEPT !.at = "read"]
             f == thread[t].hello.port
  <1>1. /\ thread[t].at = "open" /\ Moved(t, r) /\ UNCHANGED <<reflected, answers, crossed>>
        /\ lock' = [lock EXCEPT ![f][TrapPort] = "read"]
        /\ \A q \in Ports \ {TrapPort} : lock[f][q] # "write"
    BY DEF ReadLock, Step, Moved, network, TypeOK
  <1>2. thread[t] \in Thread /\ thread[t] # Idle
    BY <1>1 DEF TypeOK, Idle
  <1>3. /\ r \in Thread /\ r # Idle /\ r.at = "read" /\ r.hello = thread[t].hello
        /\ f \in Ports
    BY <1>2 DEF Thread, Hello, Idle
  <1>4. ThreadOK(r)
    BY <1>2, <1>3 DEF UnderWayInv, ThreadOK
  <1>5. lock' \in [Ports -> [Ports -> {"none", "read", "write"}]]
    BY <1>1, <1>3 DEF TypeOK
  <1> HIDE DEF r
  <1>6. TypeOK' /\ FilesInv' /\ UnderWayInv'
    BY <1>1, <1>3, <1>4, <1>5, ThreadKeeps DEF TypeOK, UnderWayInv
  <1>7. AloneInv' /\ KnownInv'
    BY <1>1, <1>2, <1>3, GoesOn
  <1>8. \A u \in Threads : thread'[u] = IF u = t THEN r ELSE thread[u]
    BY <1>1 DEF Moved, TypeOK
  <1>9. \A g, q \in Ports : lock'[g][q] = IF g = f /\ q = TrapPort THEN "read" ELSE lock[g][q]
    BY <1>1, <1>3 DEF TypeOK
  <1>10. LockInv'
    <2>1. \A q \in Ports \ {TrapPort} : main'[q] \in {"write", "unlock"} => lock'[q][q] = "write"
      BY <1>1, <1>9 DEF Moved, LockInv
    <2>2. ASSUME NEW u \in Threads, thread'[u] # Idle, thread'[u].at \in {"read", "unlock"},
                 ~crossed, thread'[u].hello.port # TrapPort
          PROVE  lock'[thread'[u].hello.port][TrapPort] = "read"
      <3>1. CASE u = t
        BY <1>3, <1>8, <1>9, <3>1
      <3>2. CASE u # t
        BY <1>2, <1>8, <2>2, <3>2 DEF AloneInv
      <3> QED BY <3>1, <3>2
    <2> QED BY <1>1, <2>1, <2>2 DEF LockInv
  <1>11. Excluded'
    <2> SUFFICES ASSUME NEW q \in Ports \ {TrapPort}, main[q] \in {"write", "unlock"}, ~crossed,
                        NEW u \in Threads, thread'[u] # Idle, thread'[u].hello.port = q,
                        thread'[u].at \in {"read", "unlock"}
                 PROVE  FALSE
      BY <1>1 DEF Excluded, Busy, Moved
    <2>1. u = t
      BY <1>2, <1>8 DEF AloneInv
    <2>2. q = f
      BY <1>3, <1>8, <2>1
    <2> QED BY <1>1, <2>2 DEF LockInv
  <1> QED BY <1>6, <1>7, <1>10, <1>11

\* The file of a hello is never empty, and what is found there is not older.
LEMMA ReadTrapInv ==
    ASSUME Inv, NEW t \in Threads, ReadTrap(t)
    PROVE  Inv'
  <1> USE TrapReportAssumption DEF Inv
  <1> DEFINE found == temp_trap[thread[t].hello.port]
             r == [thread[t] EXCEPT !.at = IF found = Empty THEN "traffic" ELSE "unlock",
                                    !.trap_type = IF found = Empty THEN Missing ELSE found]
  <1>1. /\ thread[t].at = "read" /\ Moved(t, r) /\ UNCHANGED <<lock, reflected, answers, crossed>>
    BY DEF ReadTrap, Moved, network, files, TypeOK
  <1>2. thread[t] \in Thread /\ thread[t] # Idle
    BY <1>1 DEF TypeOK, Idle
  <1>3. /\ thread[t].hello.port \in Ports /\ thread[t].hello.period \in Nat
        /\ found \in Int
    BY <1>2 DEF Thread, Hello, TypeOK
  <1>4. found >= thread[t].hello.period /\ found # Empty
    BY <1>2, <1>3 DEF UnderWayInv, ThreadOK, HelloOK, Empty
  <1>5. /\ r \in Thread /\ r # Idle /\ r.at = "unlock" /\ r.hello = thread[t].hello
        /\ r.trap_type = found
    BY <1>2, <1>3, <1>4 DEF Thread, Idle
  <1>6. ThreadOK(r)
    BY <1>2, <1>4, <1>5 DEF UnderWayInv, ThreadOK
  <1> HIDE DEF r
  <1>7. TypeOK' /\ FilesInv' /\ UnderWayInv'
    BY <1>1, <1>5, <1>6, ThreadKeeps DEF TypeOK, UnderWayInv
  <1>8. AloneInv' /\ KnownInv'
    BY <1>1, <1>2, <1>5, GoesOn
  <1>9. \A u \in Threads : thread'[u] = IF u = t THEN r ELSE thread[u]
    BY <1>1 DEF Moved, TypeOK
  <1>10. LockInv'
    BY <1>1, <1>2, <1>5, <1>9 DEF LockInv, Moved
  <1>11. Excluded'
    BY <1>1, <1>2, <1>5, <1>9 DEF Excluded, Busy, Moved
  <1> QED BY <1>7, <1>8, <1>10, <1>11

\* A thread that cannot read goes on with no state.
LEMMA ReadFailsInv ==
    ASSUME Inv, NEW t \in Threads, ReadFails(t)
    PROVE  Inv'
  <1> USE TrapReportAssumption DEF Inv
  <1> DEFINE r == [thread[t] EXCEPT !.at = "traffic", !.trap_type = Unread]
  <1>1. /\ thread[t].at \in {"open", "read"} /\ Moved(t, r)
        /\ UNCHANGED <<lock, reflected, answers, crossed>>
    BY DEF ReadFails, Moved, network, files, TypeOK
  <1>2. thread[t] \in Thread /\ thread[t] # Idle
    BY <1>1 DEF TypeOK, Idle
  <1>3. /\ r \in Thread /\ r # Idle /\ r.at = "traffic" /\ r.hello = thread[t].hello
        /\ r.trap_type = Unread
    <2>1. Unread \in Int
      BY DEF Unread
    <2> QED BY <1>2, <2>1 DEF Thread, Idle
  <1>4. ThreadOK(r)
    BY <1>2, <1>3 DEF UnderWayInv, ThreadOK
  <1> HIDE DEF r
  <1>5. TypeOK' /\ FilesInv' /\ UnderWayInv'
    BY <1>1, <1>3, <1>4, ThreadKeeps DEF TypeOK, UnderWayInv
  <1>6. AloneInv' /\ KnownInv'
    BY <1>1, <1>2, <1>3, GoesOn
  <1>7. \A u \in Threads : thread'[u] = IF u = t THEN r ELSE thread[u]
    BY <1>1 DEF Moved, TypeOK
  <1>8. LockInv'
    BY <1>1, <1>2, <1>3, <1>7 DEF LockInv, Moved
  <1>9. Excluded'
    BY <1>1, <1>2, <1>3, <1>7 DEF Excluded, Busy, Moved
  <1> QED BY <1>5, <1>6, <1>8, <1>9

\* Only the thread that has read is without its lock afterwards.
LEMMA ReadUnlockInv ==
    ASSUME Inv, NEW t \in Threads, ReadUnlock(t)
    PROVE  Inv'
  <1> USE TrapReportAssumption DEF Inv
  <1> DEFINE r == [thread[t] EXCEPT !.at = "traffic"]
             f == thread[t].hello.port
  <1>1. /\ thread[t].at = "unlock" /\ Moved(t, r) /\ UNCHANGED <<reflected, answers, crossed>>
        /\ lock' = [lock EXCEPT ![f][TrapPort] = "none"]
    BY DEF ReadUnlock, Step, Moved, network, TypeOK
  <1>2. thread[t] \in Thread /\ thread[t] # Idle
    BY <1>1 DEF TypeOK, Idle
  <1>3. /\ r \in Thread /\ r # Idle /\ r.at = "traffic" /\ r.hello = thread[t].hello
        /\ r.trap_type = thread[t].trap_type /\ f \in Ports
    BY <1>2 DEF Thread, Hello, Idle
  <1>4. ThreadOK(r)
    BY <1>1, <1>2, <1>3 DEF UnderWayInv, ThreadOK
  <1>5. lock' \in [Ports -> [Ports -> {"none", "read", "write"}]]
    BY <1>1, <1>3 DEF TypeOK
  <1> HIDE DEF r
  <1>6. TypeOK' /\ FilesInv' /\ UnderWayInv'
    BY <1>1, <1>3, <1>4, <1>5, ThreadKeeps DEF TypeOK, UnderWayInv
  <1>7. AloneInv' /\ KnownInv'
    BY <1>1, <1>2, <1>3, GoesOn
  <1>8. \A u \in Threads : thread'[u] = IF u = t THEN r ELSE thread[u]
    BY <1>1 DEF Moved, TypeOK
  <1>9. \A g, q \in Ports : lock'[g][q] = IF g = f /\ q = TrapPort THEN "none" ELSE lock[g][q]
    BY <1>1, <1>3 DEF TypeOK
  <1>10. LockInv'
    <2>1. \A q \in Ports \ {TrapPort} : main'[q] \in {"write", "unlock"} => lock'[q][q] = "write"
      BY <1>1, <1>9 DEF Moved, LockInv
    <2>2. ASSUME NEW u \in Threads, thread'[u] # Idle, thread'[u].at \in {"read", "unlock"}
          PROVE  crossed
      BY <1>2, <1>3, <1>8, <2>2 DEF AloneInv
    <2> QED BY <1>1, <2>1, <2>2 DEF LockInv
  <1>11. Excluded'
    BY <1>1, <1>2, <1>3, <1>8 DEF Excluded, Busy, Moved
  <1> QED BY <1>6, <1>7, <1>10, <1>11

\* What is read is empty or what was measured last.
LEMMA ReadTrafficInv ==
    ASSUME Inv, NEW t \in Threads, ReadTraffic(t)
    PROVE  Inv'
  <1> USE TrapReportAssumption DEF Inv
  <1> DEFINE r == [thread[t] EXCEPT !.at = "send", !.traffic = traffic_temp]
  <1>1. /\ thread[t].at = "traffic" /\ UNCHANGED <<lock, reflected, answers, crossed>>
        /\ Moved(t, IF traffic_temp = Missing THEN Idle ELSE r)
    BY DEF ReadTraffic, Moved, network, files, TypeOK
  <1>2. thread[t] \in Thread /\ thread[t] # Idle
    BY <1>1 DEF TypeOK, Idle
  <1>3. CASE traffic_temp = Missing
    <2>1. Moved(t, Idle)
      BY <1>1, <1>3
    <2>2. TypeOK' /\ FilesInv' /\ UnderWayInv'
      BY <1>1, <2>1, ThreadKeeps DEF TypeOK, UnderWayInv
    <2>3. \A u \in Threads : thread'[u] = IF u = t THEN Idle ELSE thread[u]
      BY <2>1 DEF Moved, TypeOK
    <2>4. AloneInv'
      BY <1>1, <2>3 DEF AloneInv
    <2>5. KnownInv'
      BY <1>1, <2>1, <2>3 DEF KnownInv, Moved
    <2>6. LockInv'
      BY <1>1, <2>1, <2>3 DEF LockInv, Moved
    <2>7. Excluded'
      BY <1>1, <2>1, <2>3 DEF Excluded, Busy, Moved
    <2> QED BY <2>2, <2>4, <2>5, <2>6, <2>7
  <1>4. CASE traffic_temp # Missing
    <2>1. /\ r \in Thread /\ r # Idle /\ r.at = "send" /\ r.hello = thread[t].hello
          /\ r.trap_type = thread[t].trap_type /\ r.traffic = traffic_temp
      BY <1>2 DEF Thread, Idle, TypeOK
    <2>2. r.traffic \in {Empty, measured}
      BY <1>4, <2>1 DEF FilesInv
    <2>3. ThreadOK(r)
      BY <1>1, <1>2, <2>1, <2>2 DEF UnderWayInv, ThreadOK, HelloOK, TypeOK, Empty, Thread, Hello
    <2>4. Moved(t, r)
      BY <1>1, <1>4
    <2> HIDE DEF r
    <2>5. TypeOK' /\ FilesInv' /\ UnderWayInv'
      BY <1>1, <2>1, <2>3, <2>4, ThreadKeeps DEF TypeOK, UnderWayInv
    <2>6. AloneInv' /\ KnownInv'
      BY <1>1, <1>2, <2>1, <2>2, <2>4, GoesOn
    <2>7. \A u \in Threads : thread'[u] = IF u = t THEN r ELSE thread[u]
      BY <2>4 DEF Moved, TypeOK
    <2>8. LockInv'
      BY <1>1, <2>1, <2>4, <2>7 DEF LockInv, Moved
    <2>9. Excluded'
      BY <1>1, <2>1, <2>4, <2>7 DEF Excluded, Busy, Moved
    <2> QED BY <2>5, <2>6, <2>8, <2>9
  <1> QED BY <1>3, <1>4

\* The only thread becomes the only answer.
LEMMA SendDataInv ==
    ASSUME Inv, NEW t \in Threads, send_trap_data(t)
    PROVE  Inv'
  <1> USE TrapReportAssumption DEF Inv
  <1> DEFINE a == [hello |-> thread[t].hello, trap_type |-> thread[t].trap_type,
                   traffic |-> thread[t].traffic]
  <1>1. /\ thread[t].at = "send" /\ Moved(t, Idle) /\ UNCHANGED <<lock, reflected, crossed>>
        /\ answers' = answers \cup {a}
    BY DEF send_trap_data, Moved, files
  <1>2. thread[t] \in Thread /\ thread[t] # Idle
    BY <1>1 DEF TypeOK, Idle
  <1>3. a \in Answer /\ a.traffic = thread[t].traffic
    BY <1>2 DEF Thread, Answer
  <1>4. AnswerOK(a)
    BY <1>1, <1>2 DEF UnderWayInv, ThreadOK, AnswerOK
  <1> HIDE DEF a
  <1>5. TypeOK' /\ FilesInv' /\ UnderWayInv'
    BY <1>1, <1>3, <1>4, ThreadKeeps DEF TypeOK, UnderWayInv
  <1>6. \A u \in Threads : thread'[u] = IF u = t THEN Idle ELSE thread[u]
    BY <1>1 DEF Moved, TypeOK
  <1>7. AloneInv'
    BY <1>1, <1>2, <1>6 DEF AloneInv
  <1>8. KnownInv'
    BY <1>1, <1>2, <1>3, <1>6 DEF KnownInv, Moved
  <1>9. LockInv'
    BY <1>1, <1>6 DEF LockInv, Moved
  <1>10. Excluded'
    BY <1>1, <1>6 DEF Excluded, Busy, Moved
  <1> QED BY <1>5, <1>7, <1>8, <1>9, <1>10

-----------------------------------------------------------------------------
\* Every step of the processes, the threads, the network and the RM keeps the
\* invariant.
LEMMA NextInv == Inv /\ [Next]_vars => Inv'
  <1> SUFFICES ASSUME Inv, [Next]_vars PROVE Inv'
    OBVIOUS
  <1>1. ASSUME NEW p \in Ports, Main(p) PROVE Inv'
    BY <1>1, CloseTrafficInv, OpenTrapInv, LockTrapInv, WriteTrapInv, UnlockTrapInv, SendHelloInv
    DEF Main
  <1>2. ASSUME NEW p \in Ports, ReportFails(p) \/ WriteFails(p) PROVE Inv'
    BY <1>2, ReportFailsInv, WriteFailsInv
  <1>3. ASSUME NEW p \in Ports, NEW up \in BOOLEAN, Wake(p, up) PROVE Inv'
    BY <1>3, WakeInv
  <1>4. ASSUME NEW t \in Threads, Parse(t) \/ ReadFails(t) PROVE Inv'
    BY <1>4, ReadFailsInv, ParseInv, ReadLockInv, ReadTrapInv, ReadUnlockInv, ReadTrafficInv, SendDataInv
    DEF Parse
  <1>5. ASSUME NEW h \in hellos, get_trap_message(h) PROVE Inv'
    BY <1>5, NetworkInv DEF get_trap_message
  <1>6. ASSUME NEW a \in answers, data_trap_message(a) PROVE Inv'
    BY <1>6, NetworkInv DEF data_trap_message
  <1>7. CASE Lose
    BY <1>7, NetworkInv DEF Lose
  <1>8. CASE UNCHANGED vars
    <2>1. /\ UNCHANGED <<main, period, files, thread, measured, left, crossed>>
          /\ UNCHANGED <<hellos, reflected, answers, known>>
      BY <1>8 DEF vars, files
    <2> QED BY <2>1, NetworkInv
  <1> QED BY <1>1, <1>2, <1>3, <1>4, <1>5, <1>6, <1>7, <1>8 DEF Next

\* The inductive invariant holds in every state: files only move forward,
\* what is under way is not older than its hello, and while answers come one
\* by one the locks exclude readers from writers.
THEOREM Invariance == Spec => []Inv
  BY InitInv, NextInv, PTL DEF Spec

\* write_trap_file writes before send_trap_hello sends: however the threads,
\* the processes and the network interleave and calls fail, an answer carries a
\* trap state at least as new as its hello, unless the file could not be read.
THEOREM AnswersNotOlder == Spec => []StateNotOlder
  <1>1. Inv => StateNotOlder
    BY DEF Inv, UnderWayInv, AnswerOK, StateNotOlder
  <1> QED BY <1>1, Invariance, PTL

\* The same for the traffic, which port 0 writes before its hello, unless the
\* file was caught empty.
THEOREM AnswersTrafficNotOlder == Spec => []TrafficNotOlder
  <1>1. Inv => TrafficNotOlder
    BY DEF Inv, UnderWayInv, AnswerOK, TrafficNotOlder
  <1> QED BY <1>1, Invariance, PTL

\* As long as no two answers cross, the fcntl locks keep the writer of a trap
\* file and the thread that reads it apart, for any number of ports.
THEOREM ReadersExcluded == Spec => []Excluded
  <1>1. Inv => Excluded
    BY DEF Inv
  <1> QED BY <1>1, Invariance, PTL

\* As long as no two answers cross, data_trap_message never replaces the
\* traffic the RM knows by that of an older period.
THEOREM KnownNeverBack == Spec => NeverBack
  <1>1. Inv /\ [Next]_vars => [known' # Empty => crossed \/ known' >= known]_vars
    <2> SUFFICES ASSUME Inv, Next, known' # Empty, ~crossed
                 PROVE  known' >= known
      BY DEF vars
    <2>1. known \in Nat
      BY DEF Inv, TypeOK
    <2>2. ASSUME NEW a \in answers, data_trap_message(a) PROVE known' >= known
      BY <2>2 DEF Inv, KnownInv, data_trap_message
    <2>3. ASSUME known' = known PROVE known' >= known
      BY <2>1, <2>3
    <2>4. CASE \E p \in Ports : Main(p) \/ ReportFails(p) \/ WriteFails(p) \/ \E up \in BOOLEAN : Wake(p, up)
      BY <2>3, <2>4 DEF Main, CloseTraffic, OpenTrap, LockTrap, WriteTrap, UnlockTrap,
                        send_trap_hello, ReportFails, WriteFails, Wake
    <2>5. CASE \E t \in Threads : Parse(t) \/ ReadFails(t)
      BY <2>3, <2>5 DEF Parse, ReadFails, thread_parse_trap, ReadLock, ReadTrap, ReadUnlock, ReadTraffic,
                        send_trap_data
    <2>6. CASE (\E h \in hellos : get_trap_message(h)) \/ Lose
      BY <2>3, <2>6 DEF get_trap_message, Lose
    <2> QED BY <2>2, <2>4, <2>5, <2>6 DEF Next
  <1> QED BY <1>1, Invariance, PTL DEF Spec, NeverBack
=============================================================================
