------------------------ MODULE PortMonitor_proofs ------------------------
(***************************************************************************)
(* Proofs about the two threads of get_port_info.c: PortMonitor, the cycle *)
(* of the main thread, and TrafficCounters, the capture thread.            *)
(*                                                                         *)
(* That the file never announces a recovery nobody saw, unless a socket    *)
(* was refused, rests on two facts about descriptors: a probe that was not *)
(* refused returns -1 only when all of them are gone, and they are not     *)
(* given back, so that no file can be written from then on (ProbeInv).     *)
(*                                                                         *)
(* That recorded counters are off by one frame at the most rests on the    *)
(* running counters: they keep within one frame if the frame between its   *)
(* two critical sections is counted (Balanced).                            *)
(***************************************************************************)
EXTENDS PortMonitor, TrafficCounters, TLAPS

\* A failed probe that was not refused means that no descriptor is left, and a
\* process about to report that it is connected had a probe that did not see a
\* missing link.
ProbeInv ==
    /\ check_flag = 2 /\ ~probe_refused => fds = MaxFd
    /\ pc \in {"report", "up"} => check_flag \in {1, 2}

Inv == TypeOK /\ TrapStateExact /\ DownIsReported /\ ProbeInv

\* What check_port can return: it leaves at most one socket open, only if
\* there was room for it, and fails of its own only if there was none.
LEMMA CheckPortResult ==
    ASSUME TypeOK, NEW r \in check_port
    PROVE  /\ r.flag \in 0..2
           /\ fds + r.left \in 0..MaxFd
           /\ r.refused \in BOOLEAN
           /\ r.flag = 2 /\ ~r.refused => fds + r.left = MaxFd
  <1>1. CASE FdFree
    <2>0. \/ r = [flag |-> IF link THEN 1 ELSE 0, left |-> 1, refused |-> FALSE]
          \/ \E err \in Errors :
               r = [flag |-> 0, left |-> IF err = "other" THEN 0 ELSE 1, refused |-> FALSE]
          \/ r = [flag |-> 2, left |-> 0, refused |-> TRUE]
      BY <1>1 DEF check_port
    <2>1. r.flag \in 0..2 /\ r.left \in {0, 1}
      BY <2>0
    <2>2. r.flag = 2 => r.refused
      BY <2>0
    <2>3. r.refused \in BOOLEAN
      <3>1. CASE r = [flag |-> IF link THEN 1 ELSE 0, left |-> 1, refused |-> FALSE]
        BY <3>1, Zenon
      <3>2. CASE \E err \in Errors :
                   r = [flag |-> 0, left |-> IF err = "other" THEN 0 ELSE 1, refused |-> FALSE]
        <4>1. PICK err \in Errors :
                r = [flag |-> 0, left |-> IF err = "other" THEN 0 ELSE 1, refused |-> FALSE]
          BY <3>2
        <4>2. r.refused = FALSE
          BY <4>1
        <4> QED BY <4>2, Zenon
      <3>3. CASE r = [flag |-> 2, left |-> 0, refused |-> TRUE]
        BY <3>3, Zenon
      <3> QED BY <2>0, <3>1, <3>2, <3>3
    <2> QED BY <1>1, <2>1, <2>2, <2>3, MonitorAssumption DEF FdFree, TypeOK
  <1>2. CASE ~FdFree
    <2>1. r = [flag |-> 2, left |-> 0, refused |-> FALSE]
      BY <1>2 DEF check_port
    <2> QED BY <1>2, <2>1, MonitorAssumption DEF FdFree, TypeOK
  <1> QED BY <1>1, <1>2

\* A report keeps the types and gives no descriptor back.  It is written, with
\* a descriptor at hand; or refused, with a descriptor at hand; or there was
\* no descriptor, and nothing changes.
LEMMA ReportResult ==
    ASSUME TypeOK, trap_send_proc
    PROVE  /\ file' \subseteq TrapBits /\ hello' \in 0..MaxHello
           /\ fds' \in 0..MaxFd /\ fds' >= fds
           /\ write_refused' \in BOOLEAN
           /\ file' \in {file, trap_state}
           /\ file' # trap_state => write_refused' \/ fds = MaxFd
           /\ file' # file => FdFree
  <1>1. PICK w \in write_trap_file :
           /\ file' = w.file
           /\ write_refused' = w.refused
           /\ IF w.written THEN send_trap_hello
                           ELSE hello' = hello /\ fds' = fds + w.left
    BY DEF trap_send_proc
  <1>2. CASE FdFree
    <2>0. \/ w = [written |-> TRUE, file |-> trap_state, left |-> 0, refused |-> FALSE]
          \/ w \in [written : {FALSE}, file : {file, trap_state}, left : {0, 1}, refused : {TRUE}]
      BY <1>2 DEF write_trap_file
    <2>1. /\ w.file \in {file, trap_state}
          /\ w.left \in {0, 1}
          /\ w.file # trap_state => w.refused
      <3>1. CASE w = [written |-> TRUE, file |-> trap_state, left |-> 0, refused |-> FALSE]
        BY <3>1
      <3>2. CASE w \in [written : {FALSE}, file : {file, trap_state}, left : {0, 1}, refused : {TRUE}]
        BY <3>2
      <3> QED BY <2>0, <3>1, <3>2
    <2>b. w.refused \in BOOLEAN
      <3>1. CASE w = [written |-> TRUE, file |-> trap_state, left |-> 0, refused |-> FALSE]
        BY <3>1, Zenon
      <3>2. CASE w \in [written : {FALSE}, file : {file, trap_state}, left : {0, 1}, refused : {TRUE}]
        BY <3>2
      <3> QED BY <2>0, <3>1, <3>2
    <2>2. fds \in 0..MaxFd /\ fds + 1 \in 0..MaxFd
      BY <1>2, MonitorAssumption DEF FdFree, TypeOK
    <2>3. fds' \in {fds, fds + 1} /\ hello' \in 0..MaxHello
      BY <1>1, <2>1, <2>2, MonitorAssumption DEF send_trap_hello, TypeOK
    <2> QED BY <1>1, <1>2, <2>1, <2>b, <2>2, <2>3 DEF TypeOK
  <1>3. CASE ~FdFree
    <2>1. w = [written |-> FALSE, file |-> file, left |-> 0, refused |-> FALSE]
      BY <1>3 DEF write_trap_file
    <2>2. fds = MaxFd
      BY <1>3, MonitorAssumption DEF FdFree, TypeOK
    <2> QED BY <1>1, <1>3, <2>1, <2>2, MonitorAssumption DEF TypeOK
  <1> QED BY <1>2, <1>3

\* Descriptors below a limit that is not reached.
LEMMA RoomLeft ==
    ASSUME NEW a \in Int, NEW b \in Int, NEW m \in Int, b >= a, b + 1 <= m
    PROVE  a # m
  OBVIOUS

\* After opening files the process goes on, with room for them, or is dead.
LEMMA FilesResult ==
    ASSUME NEW n, NEW next, pc' \in AfterFiles(n, next)
    PROVE  /\ pc' \in {next, "dead"}
           /\ pc' # "dead" => fds' + n <= MaxFd
  BY DEF AfterFiles

\* The switch keeps HIGH and LOW in step with the flag it returns and touches
\* no other bit.
LEMMA BandwidthStep ==
    ASSUME NEW flag \in 0..2, NEW S \in SUBSET TrapBits, NEW level \in Levels,
           "HIGH" \in S <=> flag = 1,
           "LOW" \in S <=> flag = 2
    PROVE  LET b == Bandwidth(flag, level)
               T == ToggleAll(S, b[1])
           IN  /\ b[2] \in 0..2
               /\ T \in SUBSET TrapBits
               /\ "HIGH" \in T <=> b[2] = 1
               /\ "LOW" \in T <=> b[2] = 2
               /\ "CONNECTION" \in T <=> "CONNECTION" \in S
  <1>1. CASE flag = 0
    BY <1>1 DEF Bandwidth, ToggleAll, Levels, TrapBits
  <1>2. CASE flag = 1
    BY <1>2 DEF Bandwidth, ToggleAll, Levels, TrapBits
  <1>3. CASE flag = 2
    BY <1>3 DEF Bandwidth, ToggleAll, Levels, TrapBits
  <1> QED BY <1>1, <1>2, <1>3

\* The invariant holds initially.
LEMMA InitInv == Init => Inv
  <1> SUFFICES ASSUME Init PROVE Inv
    OBVIOUS
  <1>1. pc \in {"check", "gone"}
    BY DEF Init
  <1>b. probe_refused \in BOOLEAN /\ write_refused \in BOOLEAN
    BY Zenon DEF Init
  <1>2. TypeOK
    BY <1>1, <1>b, MonitorAssumption DEF Init, TypeOK, PCs, Ended, TrapBits
  <1>3. TrapStateExact /\ DownIsReported /\ ProbeInv
    BY <1>1 DEF Init, TrapStateExact, DownIsReported, ProbeInv, Ended
  <1> QED BY <1>2, <1>3 DEF Inv

\* Every step of the process, its parent and its surroundings keeps the
\* invariant.
LEMMA NextInv == Inv /\ [Next]_vars => Inv'
  <1> SUFFICES ASSUME Inv, [Next]_vars PROVE Inv'
    OBVIOUS
  <1> USE MonitorAssumption DEF Inv, environment, trap
  <1>1. ASSUME NEW level \in Levels, CheckConnected(level) PROVE Inv'
    <2>1. PICK r \in check_port : r.flag # 0 /\ Probe(r)
      BY <1>1 DEF CheckConnected
    <2>2. /\ check_flag' \in {1, 2}
          /\ fds' \in 0..MaxFd
          /\ probe_refused' \in BOOLEAN
          /\ check_flag' = 2 /\ ~probe_refused' => fds' = MaxFd
      BY <2>1, CheckPortResult DEF Probe
    <2>3. pc = "check" /\ pc' \in {"report", "dead"}
      BY <1>1, FilesResult DEF CheckConnected
    <2>4. /\ "HIGH" \in trap_state <=> bandwidth_trap_flag = 1
          /\ "LOW" \in trap_state <=> bandwidth_trap_flag = 2
          /\ "CONNECTION" \notin trap_state
      BY <2>3 DEF TrapStateExact, Ended
    <2>5. /\ bandwidth_trap_flag' \in 0..2
          /\ trap_state' \in SUBSET TrapBits
          /\ "HIGH" \in trap_state' <=> bandwidth_trap_flag' = 1
          /\ "LOW" \in trap_state' <=> bandwidth_trap_flag' = 2
          /\ "CONNECTION" \notin trap_state'
      BY <1>1, <2>4, BandwidthStep DEF CheckConnected, TypeOK
    <2>6. UNCHANGED <<link, trouble, capture, ret, file, hello, write_refused>>
      BY <1>1 DEF CheckConnected
    <2>7. TypeOK'
      BY <2>2, <2>3, <2>5, <2>6 DEF TypeOK, PCs, Ended
    <2>8. TrapStateExact'
      BY <2>3, <2>5 DEF TrapStateExact
    <2>9. DownIsReported' /\ ProbeInv'
      BY <2>2, <2>3 DEF DownIsReported, ProbeInv
    <2> QED BY <2>7, <2>8, <2>9
  <1>2. ASSUME pc \in {"report", "up"}, pc' = "check", trap_send_proc,
               UNCHANGED <<environment, capture, check_flag, trap, ret, probe_refused>>
        PROVE Inv'
    <2>1. TypeOK'
      BY <1>2, ReportResult DEF TypeOK, PCs
    <2>2. TrapStateExact' /\ DownIsReported'
      BY <1>2 DEF TrapStateExact, DownIsReported, Ended
    <2>3. ProbeInv'
      BY <1>2, <2>1, ReportResult DEF ProbeInv, TypeOK
    <2> QED BY <2>1, <2>2, <2>3
  <1>3. ASSUME CheckDisconnected PROVE Inv'
    <2>1. PICK r \in check_port : r.flag = 0 /\ Probe(r)
      BY <1>3 DEF CheckDisconnected
    <2>2. check_flag' = 0 /\ fds' \in 0..MaxFd /\ probe_refused' \in BOOLEAN
      BY <2>1, CheckPortResult DEF Probe
    <2>3. TypeOK'
      BY <1>3, <2>2 DEF CheckDisconnected, Toggle, TypeOK, PCs, TrapBits
    <2>4. TrapStateExact'
      BY <1>3 DEF CheckDisconnected, Toggle, TrapStateExact, Ended
    <2>5. DownIsReported' /\ ProbeInv'
      BY <1>3, <2>2 DEF CheckDisconnected, DownIsReported, ProbeInv
    <2> QED BY <2>3, <2>4, <2>5
  <1>4. ASSUME ReportDown PROVE Inv'
    <2>1. pc = "down" /\ pc' \in {"rewrite", "dead"} /\ (pc' # "dead" => fds' + 1 <= MaxFd)
      BY <1>4, FilesResult DEF ReportDown
    <2>2. UNCHANGED <<environment, capture, check_flag, trap, ret, probe_refused>>
      BY <1>4 DEF ReportDown
    <2>3. /\ file' \subseteq TrapBits /\ hello' \in 0..MaxHello
          /\ fds' \in 0..MaxFd /\ fds' >= fds
          /\ write_refused' \in BOOLEAN
          /\ file' # trap_state => write_refused' \/ fds = MaxFd
      BY <1>4, ReportResult DEF ReportDown
    <2>4. TypeOK'
      BY <2>1, <2>2, <2>3 DEF TypeOK, PCs, Ended
    <2>5. TrapStateExact'
      BY <2>1, <2>2 DEF TrapStateExact, Ended
    <2>6. ProbeInv'
      BY <2>1, <2>2, <2>3 DEF ProbeInv, TypeOK
    <2>7. DownIsReported'
      <3>1. "CONNECTION" \in trap_state
        BY <2>1 DEF TrapStateExact, Ended
      <3>2. ASSUME pc' = "rewrite", ~write_refused' PROVE file' = trap_state
        <4>1. fds' + 1 <= MaxFd
          BY <2>1, <3>2, Zenon
        <4>2. fds' >= fds /\ fds' \in Int /\ fds \in Int /\ MaxFd \in Int
          BY <2>3 DEF TypeOK
        <4>3. fds # MaxFd
          BY <4>1, <4>2, RoomLeft
        <4> QED BY <2>3, <3>2, <4>3
      <3> QED BY <2>1, <2>2, <3>1, <3>2 DEF DownIsReported
    <2> QED BY <2>4, <2>5, <2>6, <2>7
  <1>5. ASSUME Rewrite PROVE Inv'
    BY <1>5 DEF Rewrite, TypeOK, PCs, Ended, TrapStateExact, DownIsReported, ProbeInv
  <1>6. ASSUME WaitUp PROVE Inv'
    <2>1. PICK r \in check_port :
             /\ Probe(r)
             /\ pc' = IF r.flag = 0 THEN "wait" ELSE "up"
             /\ trap_state' = IF r.flag = 0 THEN trap_state
                                            ELSE Toggle(trap_state, "CONNECTION")
      BY <1>6 DEF WaitUp
    <2>2. /\ check_flag' = r.flag
          /\ check_flag' \in 0..2
          /\ fds' \in 0..MaxFd
          /\ probe_refused' \in BOOLEAN
          /\ check_flag' = 2 /\ ~probe_refused' => fds' = MaxFd
      BY <2>1, CheckPortResult DEF Probe
    <2>3. UNCHANGED <<link, trouble, capture, bandwidth_trap_flag, ret, file, hello, write_refused>>
          /\ pc = "wait"
      BY <1>6 DEF WaitUp
    <2>4. TypeOK'
      BY <2>1, <2>2, <2>3 DEF TypeOK, PCs, Toggle, TrapBits
    <2>5. TrapStateExact'
      BY <2>1, <2>3 DEF TrapStateExact, Toggle, Ended
    <2>6. DownIsReported' /\ ProbeInv'
      BY <2>1, <2>2, <2>3 DEF DownIsReported, ProbeInv
    <2> QED BY <2>4, <2>5, <2>6
  <1>7. ASSUME pc \notin Ended, pc' \in {pc, "gone"}, fds' \in {fds, fds + 1},
               fds' # fds => FdFree, capture' \in {"starting", "running"},
               UNCHANGED <<environment, check_flag, trap, ret, file, hello,
                           probe_refused, write_refused>>
        PROVE Inv'
    <2>1. fds' \in 0..MaxFd /\ (fds = MaxFd => fds' = MaxFd)
      BY <1>7 DEF FdFree, TypeOK
    <2>2. TypeOK'
      BY <1>7, <2>1 DEF TypeOK, PCs, Ended
    <2>3. TrapStateExact' /\ DownIsReported'
      BY <1>7 DEF TrapStateExact, DownIsReported, Ended
    <2>4. ProbeInv'
      BY <1>7, <2>1 DEF ProbeInv
    <2> QED BY <2>2, <2>3, <2>4
  <1>8. ASSUME Restart PROVE Inv'
    <2>1. pc' \in {"check", "gone"}
      BY <1>8 DEF Restart, Start
    <2>b. probe_refused' \in BOOLEAN /\ write_refused' \in BOOLEAN
      BY <1>8, Zenon DEF Restart, Start
    <2>2. TypeOK'
      BY <1>8, <2>1, <2>b DEF Restart, Start, TypeOK, PCs, Ended
    <2>3. TrapStateExact' /\ DownIsReported' /\ ProbeInv'
      BY <1>8, <2>1 DEF Restart, Start, TrapStateExact, DownIsReported, ProbeInv, Ended
    <2> QED BY <2>2, <2>3
  <1>9. ASSUME HelloGone PROVE Inv'
    BY <1>9 DEF HelloGone, TypeOK, TrapStateExact, DownIsReported, ProbeInv
  <1>10. ASSUME Environment PROVE Inv'
    <2>1. link' \in BOOLEAN /\ trouble' \in BOOLEAN
      BY <1>10 DEF Environment, TypeOK
    <2>2. TypeOK'
      BY <1>10, <2>1 DEF Environment, TypeOK
    <2>3. TrapStateExact' /\ DownIsReported' /\ ProbeInv'
      BY <1>10 DEF Environment, TrapStateExact, DownIsReported, ProbeInv
    <2> QED BY <2>2, <2>3
  <1>11. ASSUME UNCHANGED vars PROVE Inv'
    BY <1>11 DEF vars, TypeOK, TrapStateExact, DownIsReported, ProbeInv
  <1>12. ASSUME Report \/ ReportUp PROVE Inv'
    BY <1>2, <1>12 DEF Report, ReportUp
  <1>13. ASSUME CaptureStarts PROVE Inv'
    BY <1>7, <1>13 DEF CaptureStarts, TypeOK
  <1>14. ASSUME AnswerLeaves \/ Killed PROVE Inv'
    BY <1>7, <1>14 DEF AnswerLeaves, Killed, TypeOK
  <1> QED
    BY <1>1, <1>3, <1>4, <1>5, <1>6, <1>8, <1>9, <1>10, <1>11, <1>12, <1>13, <1>14
    DEF Next, Process

\* The inductive invariant.
THEOREM MonitorInvariance == Spec => []Inv
  BY InitInv, NextInv, PTL DEF Spec

\* The toggled bits never get out of step with the program, for every
\* descriptor limit, every way the probe fails and every call refused.
THEOREM BitsInStep == Spec => []TrapStateExact
  <1>1. Inv => TrapStateExact
    BY DEF Inv
  <1> QED BY <1>1, MonitorInvariance, PTL

\* A process that waits for its link has the outage in the file, unless the
\* write was refused from outside: its own leak never makes it wait in silence.
THEOREM DownReported == Spec => []DownIsReported
  <1>1. Inv => DownIsReported
    BY DEF Inv
  <1> QED BY <1>1, MonitorInvariance, PTL

\* The file stops saying "disconnected" only after a probe that saw the link or
\* was refused a socket from outside: the process' own leak never clears it.
THEOREM RecoverySeen == Spec => NoFalseRecovery
  <1> DEFINE Clears == "CONNECTION" \in file /\ "CONNECTION" \notin file'
  <1>1. Inv /\ [Next]_vars => [Clears => check_flag = 1 \/ probe_refused]_vars
    <2> SUFFICES ASSUME Inv, [Next]_vars, Clears PROVE check_flag = 1 \/ probe_refused
      OBVIOUS
    <2>1. trap_send_proc /\ (Report \/ ReportDown \/ ReportUp)
      BY DEF Next, Process, CheckConnected, Report, CheckDisconnected, ReportDown,
             Rewrite, WaitUp, ReportUp, CaptureStarts, AnswerLeaves, Killed, Restart,
             HelloGone, Environment, vars
    <2>2. FdFree /\ file' = trap_state
      BY <2>1, ReportResult DEF Inv
    <2>3. ~ReportDown
      BY <2>2 DEF ReportDown, Inv, TrapStateExact, Ended
    <2>4. check_flag \in {1, 2}
      BY <2>1, <2>3 DEF Report, ReportUp, Inv, ProbeInv
    <2>5. check_flag = 2 => probe_refused
      BY <2>2, MonitorAssumption DEF FdFree, Inv, ProbeInv, TypeOK
    <2> QED BY <2>4, <2>5
  <1> QED BY <1>1, MonitorInvariance, PTL DEF Spec, NoFalseRecovery

-----------------------------------------------------------------------------
(* The traffic counters *)

Counters == [Kinds -> [Directions -> Nat]]

\* Types without the bounds.
CountersTypeOK ==
    /\ stats_info \in Counters
    /\ recorded \in Counters
    /\ frame \in [kind : Kinds, dir : Directions]
    /\ frame # None => frame.kind \in {"get", "data"}

\* GETs and DATA packets counted.
Typed(c) == Total(c, "get") + Total(c, "data")

\* A frame between its two critical sections counts as if it had a type.
Straddling == IF frame = None THEN 0 ELSE 1

\* The counters keep within one frame, the pending one included: a reset takes
\* a pending frame from the frames and leaves its type to come.
Balanced == Typed(stats_info) + Straddling <= Total(stats_info, "other") + 1

CountersInv == CountersTypeOK /\ Balanced /\ OneStraddles

\* Counting a frame of kind k adds one to the total of k and nothing to
\* another.
LEMMA CountTotals ==
    ASSUME NEW k \in Kinds, NEW d \in Directions, stats_info \in Counters, Count(k, d)
    PROVE  /\ stats_info' \in Counters
           /\ Total(stats_info', k) = Total(stats_info, k) + 1
           /\ \A j \in Kinds : j # k => Total(stats_info', j) = Total(stats_info, j)
           /\ \A j \in Kinds : Total(stats_info, j) \in Nat
  <1>1. stats_info[k] \in [Directions -> Nat]
    BY DEF Counters
  <1>2. /\ stats_info'[k] = [stats_info[k] EXCEPT ![d] = @ + 1]
        /\ \A j \in Kinds : j # k => stats_info'[j] = stats_info[j]
    BY DEF Counters, Count
  <1>3. stats_info' \in Counters
    <2>1. stats_info' = [stats_info EXCEPT ![k] = [stats_info[k] EXCEPT ![d] = @ + 1]]
      BY DEF Count
    <2>2. [stats_info[k] EXCEPT ![d] = @ + 1] \in [Directions -> Nat]
      BY <1>1
    <2> QED BY <2>1, <2>2 DEF Counters
  <1>4. Total(stats_info', k) = Total(stats_info, k) + 1
    <2>1. CASE d = "rx"
      BY <1>1, <1>2, <2>1 DEF Total, Directions
    <2>2. CASE d = "tx"
      BY <1>1, <1>2, <2>2 DEF Total, Directions
    <2> QED BY <2>1, <2>2 DEF Directions
  <1>5. \A j \in Kinds : j # k => Total(stats_info', j) = Total(stats_info, j)
    BY <1>2 DEF Total
  <1>6. \A j \in Kinds : Total(stats_info, j) \in Nat
    BY DEF Total, Counters, Directions
  <1> QED BY <1>3, <1>4, <1>5, <1>6

\* After a reset every total is 0.
LEMMA ZeroTotals ==
    /\ Zero \in Counters
    /\ \A j \in Kinds : Total(Zero, j) = 0
  BY DEF Zero, Counters, Total, Directions

\* The invariant holds at the start.
LEMMA CountersInitInv == CountersInit => CountersInv
  <1> SUFFICES ASSUME CountersInit PROVE CountersInv
    OBVIOUS
  <1>1. CountersTypeOK
    BY ZeroTotals DEF CountersInit, CountersTypeOK, None, Kinds, Directions
  <1>2. Balanced /\ OneStraddles
    BY ZeroTotals DEF CountersInit, Balanced, OneStraddles, Typed, Straddling, Kinds
  <1> QED BY <1>1, <1>2 DEF CountersInv

\* Every critical section keeps the invariant.
LEMMA CountersNextInv == CountersInv /\ [CountersNext]_counterVars => CountersInv'
  <1> SUFFICES ASSUME CountersInv, [CountersNext]_counterVars PROVE CountersInv'
    OBVIOUS
  <1> USE DEF CountersInv
  <1>k. "get" \in Kinds /\ "data" \in Kinds /\ "other" \in Kinds
    BY DEF Kinds
  <1>1. ASSUME NEW kind \in Kinds, NEW dir \in Directions, ethdump_parseEthHead(kind, dir)
        PROVE  CountersInv'
    <2> USE <1>1 DEF ethdump_parseEthHead
    <2>0. /\ Count("other", dir)
          /\ stats_info \in Counters
      BY DEF CountersTypeOK
    <2>c. /\ stats_info' \in Counters
          /\ Total(stats_info', "other") = Total(stats_info, "other") + 1
          /\ \A j \in Kinds : j # "other" => Total(stats_info', j) = Total(stats_info, j)
          /\ \A j \in Kinds : Total(stats_info, j) \in Nat
      BY <1>k, <2>0, CountTotals
    <2>1. /\ stats_info' \in Counters
          /\ Total(stats_info', "other") = Total(stats_info, "other") + 1
          /\ Typed(stats_info') = Typed(stats_info)
          /\ Typed(stats_info) \in Nat /\ Total(stats_info, "other") \in Nat
      <3>1. /\ Total(stats_info, "get") \in Nat /\ Total(stats_info, "data") \in Nat
            /\ Total(stats_info', "get") = Total(stats_info, "get")
            /\ Total(stats_info', "data") = Total(stats_info, "data")
        BY <1>k, <2>c
      <3> QED BY <1>k, <2>c, <3>1 DEF Typed
    <2>2. CountersTypeOK'
      BY <2>1 DEF CountersTypeOK, None, Kinds, Directions
    <2>3. Straddling = 0 /\ Straddling' \in {0, 1}
      BY DEF Straddling
    <2>4. Balanced'
      BY <2>1, <2>3 DEF Balanced
    <2> QED BY <2>2, <2>4 DEF OneStraddles
  <1>2. CASE ethdump_parseFrame
    <2> USE <1>2 DEF ethdump_parseFrame
    <2>1. /\ stats_info' \in Counters
          /\ Total(stats_info', "other") = Total(stats_info, "other")
          /\ Typed(stats_info') = Typed(stats_info) + 1
          /\ Typed(stats_info) \in Nat /\ Total(stats_info, "other") \in Nat
      <3>0. /\ Count(frame.kind, frame.dir)
            /\ stats_info \in Counters
            /\ frame.kind \in Kinds /\ frame.dir \in Directions
            /\ frame.kind \in {"get", "data"}
        BY DEF CountersTypeOK
      <3>c. /\ stats_info' \in Counters
            /\ Total(stats_info', frame.kind) = Total(stats_info, frame.kind) + 1
            /\ \A j \in Kinds : j # frame.kind => Total(stats_info', j) = Total(stats_info, j)
            /\ \A j \in Kinds : Total(stats_info, j) \in Nat
        BY <3>0, CountTotals
      <3>n. /\ Total(stats_info, "get") \in Nat
            /\ Total(stats_info, "data") \in Nat
            /\ Total(stats_info, "other") \in Nat
            /\ Total(stats_info', "other") = Total(stats_info, "other")
        BY <1>k, <3>0, <3>c
      <3>1. CASE frame.kind = "get"
        <4>1. /\ Total(stats_info', "get") = Total(stats_info, "get") + 1
              /\ Total(stats_info', "data") = Total(stats_info, "data")
          BY <1>k, <3>1, <3>c
        <4> QED BY <3>c, <3>n, <4>1 DEF Typed
      <3>2. CASE frame.kind = "data"
        <4>1. /\ Total(stats_info', "data") = Total(stats_info, "data") + 1
              /\ Total(stats_info', "get") = Total(stats_info, "get")
          BY <1>k, <3>2, <3>c
        <4> QED BY <3>c, <3>n, <4>1 DEF Typed
      <3> QED BY <3>0, <3>1, <3>2
    <2>2. CountersTypeOK'
      BY <2>1 DEF CountersTypeOK, None, Kinds, Directions
    <2>3. Straddling = 1 /\ Straddling' = 0
      BY DEF Straddling
    <2>4. Balanced'
      BY <2>1, <2>3 DEF Balanced
    <2> QED BY <2>2, <2>4 DEF OneStraddles
  <1>3. CASE Reset
    <2>1. CountersTypeOK'
      BY <1>3, ZeroTotals DEF Reset, CountersTypeOK
    <2>2. Balanced'
      BY <1>3, <1>k, ZeroTotals DEF Reset, Balanced, Typed, Straddling
    <2> QED BY <1>3, <2>1, <2>2 DEF Reset, OneStraddles
  <1>4. CASE record_counter
    <2>1. CountersTypeOK' /\ Balanced'
      BY <1>4 DEF record_counter, CountersTypeOK, Balanced, Straddling
    <2>2. Straddling \in {0, 1} /\ Typed(stats_info) \in Nat /\ Total(stats_info, "other") \in Nat
      BY <1>k DEF CountersTypeOK, Typed, Straddling, Total, Counters, Directions
    <2>3. OneStraddles'
      BY <1>4, <2>2 DEF record_counter, OneStraddles, Balanced, Typed
    <2> QED BY <2>1, <2>3
  <1>5. CASE CycleEnd
    BY <1>5 DEF CycleEnd, CountersTypeOK, Balanced, Straddling, OneStraddles
  <1>6. CASE UNCHANGED counterVars
    BY <1>6 DEF counterVars, CountersTypeOK, Balanced, Straddling, OneStraddles
  <1> QED BY <1>1, <1>2, <1>3, <1>4, <1>5, <1>6 DEF CountersNext

\* get_port_info: in every record the GETs and DATA packets exceed the frames
\* by one at the most, however the reset falls between the critical sections.
THEOREM Straddles == CountersSpec => []OneStraddles
  <1>1. CountersInv => OneStraddles
    BY DEF CountersInv
  <1> QED BY <1>1, CountersInitInv, CountersNextInv, PTL DEF CountersSpec
=============================================================================
