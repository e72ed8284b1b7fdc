-------------------------- MODULE TxQueues_proofs --------------------------
(***************************************************************************)
(* Proofs about RmStartup and TxQueues.                                    *)
(*                                                                         *)
(* The start is sequential: each of its phases leaves behind what the next *)
(* ones rely on (ConfInv, PortsInv, StartedInv, LinkInv).  That it gives   *)
(* up only for a cause is the converse: on a command line that is well     *)
(* formed every check of the code comes out right.                         *)
(***************************************************************************)
EXTENDS TxQueues, FiniteSetTheorems, TLAPS

Entry == Nat \X Nat \X Nat
PCs == {"args", "config", "probe", "ports", "start", "links", "run", "exit", "dead"}
Sending == [how : {"idle", "lunxun", "table", "reply", "get", "announce"}, port : Nat, queue : Nat]

\* Phases from which a check of the command line is behind.
Checked == {"probe", "ports", "start", "links", "run", "dead"}
Probed == {"ports", "start", "links", "run", "dead"}
PortsDone == {"start", "links", "run", "dead"}

\* The values of the variables.
TypeOK ==
    /\ pc \in PCs
    /\ nb_ports \in Boards
    /\ lcores \in EnabledSets
    /\ mask \in SUBSET Nat
    /\ params \in Seq(Entry)
    /\ portid \in 0..nb_ports
    /\ n_rx = [p \in Board |-> n_rx[p]]
    /\ tx_queue_id \in [lcores -> [Board -> Nat]]
    /\ count \in Nat
    /\ delays \in Nat
    /\ print_flag \in BOOLEAN
    /\ refused \in BOOLEAN
    /\ failed \in BOOLEAN
    /\ sending \in [lcores -> Sending]
    /\ overlapped \in BOOLEAN

\* The entries of the command line are in the lists of their lcores, and
\* passed the checks.
ConfInv ==
    /\ pc \in Checked => check_lcore_params /\ lcore_conf = [l \in lcores |-> RxQueueList(l)]
    /\ pc \in Probed => check_port_config

\* An enabled port that was initialised has the queues the command line gives
\* it, one tx queue per lcore, and memory on the socket of every lcore.
PortDone(p) ==
    /\ n_rx[p] = get_port_n_rx_queues(p)
    /\ \A l \in lcores : /\ tx_queue_id[l][p] = TxQueue(l)
                         /\ TxQueue(l) < n_tx_queue
                         /\ SocketId(l) \in pool

PortsInv ==
    /\ pc \in {"args", "config", "probe"} => portid = 0
    /\ pc \in Probed => \A p \in Enabled : p < portid => PortDone(p)
    /\ pc \in PortsDone => portid = nb_ports

\* rx_set is what the lcores poll, and the ports that run have all their rx
\* queues in it.
StartedInv ==
    /\ pc \in {"start", "links", "run"} => rx_set = UNION {Polls(l) : l \in lcores}
    /\ pc \in {"links", "run"} =>
         /\ started = Enabled
         /\ \A p \in Enabled : \A q \in 0..(n_rx[p] - 1) : <<p, q>> \in rx_set

\* Rounds, delays and the flag go together, and only the flag ends them.
LinkInv ==
    /\ pc \in PCs \ {"links", "run", "dead"} => count = 0 /\ delays = 0 /\ ~print_flag
    /\ pc = "links" => /\ count <= MAX_CHECK_TIME /\ delays <= count
                       /\ count = MAX_CHECK_TIME => print_flag

\* An lcore that sends from a table is on a queue of its own.
SendInv ==
    /\ pc \notin {"run", "dead"} => \A l \in lcores : sending[l] = Idle
    /\ \A l \in lcores : sending[l].how = "table" =>
         sending[l].queue = TxQueue(l)

Inv ==
    /\ TypeOK /\ ConfInv /\ PortsInv /\ StartedInv /\ LinkInv /\ SendInv
    /\ GivesUpForCause /\ LinksPrinted /\ QueuesExist

-----------------------------------------------------------------------------
(* Facts about the operators of the two modules *)

LEMMA LcoresFinite ==
    ASSUME TypeOK
    PROVE  lcores \in SUBSET Nat /\ IsFiniteSet(lcores) /\ Cardinality(lcores) \in Nat
  <1>1. lcores \in SUBSET Nat /\ IsFiniteSet(lcores)
    BY StartupAssumption DEF TypeOK
  <1> QED BY <1>1, FS_CardinalityType

\* The tx queues are numbered from 0, one per lcore.
LEMMA TxQueueBound ==
    ASSUME TypeOK, NEW l \in lcores
    PROVE  TxQueue(l) \in Nat /\ TxQueue(l) < Cardinality(lcores)
  <1> DEFINE Below == {k \in lcores : k < l}
  <1>1. Below \subseteq lcores /\ l \notin Below /\ l \in Nat
    BY LcoresFinite
  <1>2. IsFiniteSet(Below) /\ Cardinality(Below) \in Nat
    BY <1>1, LcoresFinite, FS_Subset, FS_CardinalityType
  <1>3. Below # lcores
    BY <1>1
  <1>4. Cardinality(Below) < Cardinality(lcores)
    BY <1>1, <1>2, <1>3, LcoresFinite, FS_Subset
  <1> QED BY <1>2, <1>4 DEF TxQueue

LEMMA TxQueueOwn ==
    ASSUME TypeOK, NEW k \in lcores, NEW l \in lcores, TxQueue(k) = TxQueue(l)
    PROVE  k = l
  <1>1. ASSUME NEW a \in lcores, NEW b \in lcores, a < b PROVE TxQueue(a) < TxQueue(b)
    <2> DEFINE A == {j \in lcores : j < a}
               B == {j \in lcores : j < b}
    <2>1. A \subseteq B /\ a \in B /\ a \notin A
      BY <1>1, LcoresFinite
    <2>2. IsFiniteSet(B) /\ IsFiniteSet(A) /\ Cardinality(A) \in Nat /\ Cardinality(B) \in Nat
      BY LcoresFinite, FS_Subset, FS_CardinalityType
    <2>3. Cardinality(A) < Cardinality(B)
      BY <2>1, <2>2, FS_Subset
    <2> QED BY <2>3 DEF TxQueue
  <1>2. k \in Nat /\ l \in Nat /\ TxQueue(k) \in Nat /\ TxQueue(l) \in Nat
    BY LcoresFinite, TxQueueBound
  <1>3. ~(k < l) /\ ~(l < k)
    BY <1>1, <1>2
  <1> QED BY <1>2, <1>3

\* Queues numbered from 0 without gaps: the highest number gives their count.
LEMMA QueueCount ==
    ASSUME NEW p, NEW n \in Nat \ {0}, QueuesOf(p) = 0..(n - 1)
    PROVE  get_port_n_rx_queues(p) = n
  <1> DEFINE queues == 0..(n - 1)
             Highest(q) == q \in queues /\ \A r \in queues : r <= q
  <1>1. Highest(n - 1) /\ \A q : Highest(q) => q = n - 1
    OBVIOUS
  <1> HIDE DEF Highest
  <1>2. (CHOOSE q : Highest(q)) = n - 1
    BY <1>1
  <1>3. (CHOOSE q \in queues : \A r \in queues : r <= q) = n - 1
    BY <1>2 DEF Highest
  <1>4. 0 \in queues
    OBVIOUS
  <1>5. get_port_n_rx_queues(p) = 1 + (n - 1)
    BY <1>3, <1>4 DEF get_port_n_rx_queues
  <1> QED BY <1>5

\* What the checks compare depends on the input only.
LEMMA SameInput ==
    ASSUME UNCHANGED input
    PROVE  /\ Enabled' = Enabled /\ Board' = Board
           /\ (WellFormed <=> WellFormed') /\ (Fits <=> Fits')
           /\ (check_lcore_params <=> check_lcore_params')
           /\ (check_port_config <=> check_port_config')
           /\ n_tx_queue' = n_tx_queue
           /\ \A l : /\ RxQueueList(l)' = RxQueueList(l)
                     /\ TxQueue(l)' = TxQueue(l)
                     /\ SocketId(l)' = SocketId(l)
           /\ \A p : /\ QueuesOf(p)' = QueuesOf(p)
                     /\ get_port_n_rx_queues(p)' = get_port_n_rx_queues(p)
  <1> USE DEF input
  <1>1. Enabled' = Enabled /\ Board' = Board /\ n_tx_queue' = n_tx_queue
    BY DEF Enabled, Board, n_tx_queue
  <1>2. \A l : /\ RxQueueList(l)' = RxQueueList(l)
               /\ TxQueue(l)' = TxQueue(l)
               /\ SocketId(l)' = SocketId(l)
    BY DEF RxQueueList, TxQueue, SocketId
  <1>3. \A p : /\ QueuesOf(p)' = QueuesOf(p)
               /\ get_port_n_rx_queues(p)' = get_port_n_rx_queues(p)
    BY DEF QueuesOf, get_port_n_rx_queues
  <1>4. /\ check_lcore_params <=> check_lcore_params'
        /\ check_port_config <=> check_port_config'
    BY DEF check_lcore_params, check_port_config
  <1>5. Fits <=> Fits'
    BY <1>1 DEF Fits
  <1>6. WellFormed <=> WellFormed'
    BY <1>1, <1>2, <1>3 DEF WellFormed
  <1> QED BY <1>1, <1>2, <1>3, <1>4, <1>5, <1>6

\* What the lcores poll are the entries of the command line.
LEMMA PollsEntries ==
    ASSUME TypeOK, ConfInv, pc \in Checked
    PROVE  /\ \A l \in lcores : \A r \in Polls(l) : \E i \in DOMAIN params :
                r = <<params[i][1], params[i][2]>> /\ params[i][3] = l
           /\ \A i \in DOMAIN params :
                params[i][3] \in lcores /\ <<params[i][1], params[i][2]>> \in Polls(params[i][3])
           /\ \A i \in DOMAIN params : params[i] \in Entry
  <1>1. \A l \in lcores : lcore_conf[l] = RxQueueList(l)
    BY DEF ConfInv
  <1>2. ASSUME NEW l \in lcores
        PROVE  /\ DOMAIN lcore_conf[l] = {j \in DOMAIN params : params[j][3] = l}
               /\ \A i \in DOMAIN lcore_conf[l] : lcore_conf[l][i] = <<params[i][1], params[i][2]>>
    BY <1>1 DEF RxQueueList
  <1>3. \A i \in DOMAIN params : params[i][3] \in lcores
    BY DEF ConfInv, check_lcore_params
  <1>4. \A i \in DOMAIN params : params[i] \in Entry
    BY DEF TypeOK
  <1> QED BY <1>2, <1>3, <1>4 DEF Polls

\* check_port_config lets enabled ports through only: the board has no more
\* ports than the mask has bits.
LEMMA PortOfEntry ==
    ASSUME TypeOK, NEW i \in DOMAIN params
    PROVE  /\ params[i][1] \in Nat /\ params[i][2] \in Nat
           /\ params[i][1] < nb_ports => params[i][1] % MaskBits = params[i][1]
           /\ params[i][1] % MaskBits \in mask /\ params[i][1] < nb_ports
                <=> params[i][1] \in Enabled
  <1>1. params[i] \in Entry
    BY DEF TypeOK
  <1>2. params[i][1] \in Nat /\ params[i][2] \in Nat
    BY <1>1 DEF Entry
  <1>3. nb_ports \in Nat /\ nb_ports <= MaskBits /\ MaskBits \in Nat \ {0}
    BY StartupAssumption DEF TypeOK
  <1>4. ASSUME NEW x \in Nat, x < nb_ports PROVE x % MaskBits = x
    BY <1>3, <1>4
  <1> QED BY <1>2, <1>3, <1>4 DEF Enabled, Board

\* A command line that is well formed passes every check.
LEMMA WellFormedPasses ==
    ASSUME TypeOK, WellFormed
    PROVE  /\ check_lcore_params
           /\ check_port_config
           /\ \A p \in Enabled : /\ get_port_n_rx_queues(p) \in Nat \ {0}
                                 /\ QueuesOf(p) = 0..(get_port_n_rx_queues(p) - 1)
           /\ Enabled # {} =>
                /\ n_tx_queue = Cardinality(lcores)
                /\ \A l \in lcores : TxQueue(l) < n_tx_queue /\ 0 < n_tx_queue
                /\ \A l \in lcores : SocketId(l) < NB_SOCKETS
  <1>1. check_lcore_params
    BY DEF WellFormed, check_lcore_params
  <1>2. check_port_config
    BY PortOfEntry DEF WellFormed, check_port_config
  <1>3. ASSUME NEW p \in Enabled
        PROVE  /\ get_port_n_rx_queues(p) \in Nat \ {0}
               /\ QueuesOf(p) = 0..(get_port_n_rx_queues(p) - 1)
    <2>1. PICK n \in 1..MAX_RX_QUEUE_PER_PORT : QueuesOf(p) = 0..(n - 1)
      BY DEF WellFormed
    <2>2. n \in Nat \ {0}
      BY <2>1, StartupAssumption
    <2> QED BY <2>1, <2>2, QueueCount
  <1>4. ASSUME Enabled # {}
        PROVE  /\ n_tx_queue = Cardinality(lcores)
               /\ \A l \in lcores : TxQueue(l) < n_tx_queue /\ 0 < n_tx_queue
               /\ \A l \in lcores : SocketId(l) < NB_SOCKETS
    <2>1. Cardinality(lcores) <= MAX_TX_QUEUE_PER_PORT /\ \A l \in lcores : SocketId(l) < NB_SOCKETS
      BY <1>4 DEF WellFormed
    <2>2. n_tx_queue = Cardinality(lcores)
      BY <2>1, LcoresFinite, StartupAssumption DEF n_tx_queue, Min
    <2> QED BY <2>1, <2>2, LcoresFinite, TxQueueBound
  <1> QED BY <1>1, <1>2, <1>3, <1>4

-----------------------------------------------------------------------------
(* The steps of the start *)

\* A step of parse_args.
LEMMA ArgsInv ==
    ASSUME Inv, pc \in {"args", "config"}, pc' \in {"args", "config", "exit"},
           UNCHANGED <<nb_ports, lcores, ports, links, failed, sending, overlapped>>,
           mask' \in SUBSET Nat, params' \in Seq(Entry), refused' \in BOOLEAN,
           pc' = "exit" => refused'
    PROVE  Inv'
  <1> USE DEF Inv, ports, links
  <1>1. Board' = Board
    BY DEF Board
  <1>2. TypeOK'
    BY <1>1 DEF TypeOK, PCs
  <1>3. ConfInv' /\ PortsInv' /\ StartedInv' /\ GivesUpForCause' /\ LinksPrinted' /\ QueuesExist'
    BY DEF ConfInv, PortsInv, StartedInv, GivesUpForCause, LinksPrinted, QueuesExist,
           Checked, Probed, PortsDone
  <1>4. LinkInv' /\ SendInv'
    BY DEF LinkInv, SendInv, PCs, TxQueue
  <1> QED BY <1>2, <1>3, <1>4

LEMMA ParseArgsInv ==
    ASSUME Inv, UNCHANGED <<sending, overlapped>>,
           \/ \E m \in Masks : Portmask(m)
           \/ NoNuma \/ BadOption \/ Config
           \/ \E e \in Entries : ConfigEntry(e)
           \/ ConfigBad \/ ConfigEnd
    PROVE  Inv'
  <1> USE StartupAssumption DEF Inv
  <1>1. ASSUME NEW m \in Masks, Portmask(m) PROVE Inv'
    <2>1. mask' \in SUBSET Nat
      BY <1>1 DEF Portmask, parse_portmask
    <2>2. refused' \in BOOLEAN /\ pc' \in {"args", "exit"} /\ (pc' = "exit" => refused')
      BY <1>1 DEF Portmask
    <2> QED BY <1>1, <2>1, <2>2, ArgsInv DEF Portmask, TypeOK
  <1>2. CASE NoNuma
    BY <1>2, ArgsInv DEF NoNuma, TypeOK
  <1>3. CASE BadOption
    BY <1>3, ArgsInv DEF BadOption, TypeOK, input
  <1>4. CASE Config
    BY <1>4, ArgsInv, SMTT(30) DEF Config, TypeOK
  <1>5. ASSUME NEW e \in Entries, ConfigEntry(e) PROVE Inv'
    <2>1. params' \in Seq(Entry)
      <3>1. e \in Entry
        BY DEF Entry
      <3>2. params' = params \/ params' = Append(params, e)
        BY <1>5 DEF ConfigEntry
      <3>3. params \in Seq(Entry)
        BY DEF TypeOK
      <3>4. Append(params, e) \in Seq(Entry)
        BY <3>1, <3>3
      <3> QED BY <3>2, <3>3, <3>4
    <2>2. refused' \in BOOLEAN /\ pc' \in {"config", "exit"} /\ (pc' = "exit" => refused')
      BY <1>5 DEF ConfigEntry, TypeOK
    <2> QED BY <1>5, <2>1, <2>2, ArgsInv DEF ConfigEntry, TypeOK
  <1>6. CASE ConfigBad
    BY <1>6, ArgsInv DEF ConfigBad, TypeOK, input
  <1>7. CASE ConfigEnd
    BY <1>7, ArgsInv DEF ConfigEnd, TypeOK, input
  <1> QED BY <1>1, <1>2, <1>3, <1>4, <1>5, <1>6, <1>7

\* The lists of the lcores are built; one of them is too long only if the
\* command line gives the lcore too many entries.
LEMMA InitLcoreInv == ASSUME Inv, init_lcore_rx_queues, UNCHANGED <<sending, overlapped>> PROVE Inv'
  <1> USE DEF Inv
  <1>1. /\ pc = "args" /\ pc' \in {"probe", "exit"}
        /\ UNCHANGED <<input, portid, n_rx, tx_queue_id, pool, rx_set, started, links>>
        /\ UNCHANGED <<refused, failed>>
    BY DEF init_lcore_rx_queues
  <1>2. TypeOK'
    BY <1>1, SameInput DEF TypeOK, PCs, input, links
  <1>3. pc' = "probe" => check_lcore_params /\ lcore_conf' = [l \in lcores |-> RxQueueList(l)]
    BY DEF init_lcore_rx_queues
  <1>4. ConfInv'
    <2>1. lcores' = lcores
      BY <1>1 DEF input
    <2> QED BY <1>1, <1>3, <2>1, SameInput DEF ConfInv, Checked, Probed
  <1>5. PortsInv' /\ StartedInv' /\ LinksPrinted' /\ QueuesExist'
    BY <1>1 DEF PortsInv, StartedInv, LinksPrinted, QueuesExist, Probed, PortsDone
  <1>6. LinkInv' /\ SendInv'
    BY <1>1 DEF LinkInv, SendInv, PCs, links, input, TxQueue
  <1>7. GivesUpForCause'
    <2> SUFFICES ASSUME pc' = "exit", WellFormed PROVE FALSE
      BY <1>1, SameInput DEF GivesUpForCause
    <2>1. check_lcore_params
      BY WellFormedPasses
    <2>2. lcore_conf' = [l \in lcores |-> RxQueueList(l)]
      BY <2>1 DEF init_lcore_rx_queues
    <2>3. PICK l \in lcores : ~(Cardinality(DOMAIN lcore_conf'[l]) <= MAX_RX_QUEUE_PER_LCORE)
      BY <2>1 DEF init_lcore_rx_queues
    <2>4. DOMAIN lcore_conf'[l] = {i \in DOMAIN params : params[i][3] = l}
      BY <2>2 DEF RxQueueList
    <2> QED BY <2>3, <2>4 DEF WellFormed
  <1> QED BY <1>2, <1>4, <1>5, <1>6, <1>7

LEMMA ProbeInv == ASSUME Inv, Probe, UNCHANGED <<sending, overlapped>> PROVE Inv'
  <1> USE DEF Inv
  <1>1. /\ pc = "probe" /\ pc' = (IF check_port_config THEN "ports" ELSE "exit")
        /\ UNCHANGED <<input, ports, links, refused, failed>>
    BY DEF Probe
  <1>2. TypeOK'
    BY <1>1, SameInput DEF TypeOK, PCs, input, links, ports
  <1>3. ConfInv'
    BY <1>1, SameInput DEF ConfInv, Checked, Probed, input, ports
  <1>4. PortsInv'
    <2>1. portid' = 0 /\ \A p \in Enabled : ~(p < 0)
      BY <1>1 DEF PortsInv, ports, Enabled, Board
    <2> QED BY <1>1, <2>1, SameInput DEF PortsInv, PortsDone
  <1>5. StartedInv' /\ LinksPrinted' /\ QueuesExist'
    BY <1>1 DEF StartedInv, LinksPrinted, QueuesExist
  <1>6. LinkInv' /\ SendInv'
    BY <1>1 DEF LinkInv, SendInv, PCs, links, input, TxQueue
  <1>7. GivesUpForCause'
    BY <1>1, SameInput, WellFormedPasses DEF GivesUpForCause
  <1> QED BY <1>2, <1>3, <1>4, <1>5, <1>6, <1>7

\* What a step that leaves the input, the checks behind it and the links alone
\* keeps.
LEMMA PhaseKeeps ==
    ASSUME Inv, pc \in {"probe", "ports", "start"}, pc' \in PCs \ {"args", "config", "probe", "run"},
           UNCHANGED <<input, lcore_conf, links, refused, sending, overlapped>>,
           pc' # "exit" => pc \in {"ports", "start"},
           portid' \in 0..nb_ports, n_rx' = [p \in Board |-> n_rx'[p]],
           tx_queue_id' \in [lcores -> [Board -> Nat]], failed' \in BOOLEAN
    PROVE  TypeOK' /\ ConfInv' /\ LinkInv' /\ SendInv' /\ LinksPrinted'
  <1> USE DEF Inv, input, links
  <1>1. TypeOK'
    BY SameInput DEF TypeOK, PCs
  <1>2. ConfInv'
    BY SameInput DEF ConfInv, Checked, Probed, PCs
  <1>3. LinkInv' /\ LinksPrinted'
    BY StartupAssumption DEF LinkInv, LinksPrinted, PCs
  <1>4. SendInv'
    BY DEF SendInv, PCs, TxQueue, Idle
  <1> QED BY <1>1, <1>2, <1>3, <1>4

LEMMA SkipPortInv == ASSUME Inv, SkipPort, UNCHANGED <<sending, overlapped>> PROVE Inv'
  <1> USE DEF Inv
  <1>1. /\ pc = "ports" /\ portid < nb_ports /\ portid \notin mask /\ portid' = portid + 1
        /\ UNCHANGED <<pc, input, lcore_conf, n_rx, tx_queue_id, pool, rx_set, started, links>>
        /\ UNCHANGED <<refused, failed>>
    BY DEF SkipPort
  <1>2. portid \in 0..nb_ports /\ nb_ports \in Nat /\ portid' \in 0..nb_ports
    BY <1>1, StartupAssumption DEF TypeOK
  <1>3. TypeOK' /\ ConfInv' /\ LinkInv' /\ SendInv' /\ LinksPrinted'
    BY <1>1, <1>2, PhaseKeeps DEF TypeOK, PCs
  <1>4. PortsInv'
    <2>1. ASSUME NEW p \in Enabled, p < portid + 1 PROVE PortDone(p)'
      <3>1. p \in Nat /\ p # portid
        BY <1>1 DEF Enabled, Board
      <3>2. PortDone(p)
        BY <1>1, <1>2, <2>1, <3>1 DEF PortsInv, Probed
      <3>3. lcores' = lcores
        BY <1>1 DEF input
      <3> QED BY <1>1, <3>2, <3>3, SameInput DEF PortDone
    <2> QED BY <1>1, <2>1, SameInput DEF PortsInv, PortsDone
  <1>5. StartedInv' /\ GivesUpForCause' /\ QueuesExist'
    BY <1>1 DEF StartedInv, GivesUpForCause, QueuesExist
  <1> QED BY <1>3, <1>4, <1>5

\* A port with queues numbered from 0, on sockets and tx queues that exist, is
\* initialised; nothing fails on a well-formed command line.
LEMMA InitPortInv == ASSUME Inv, InitPort, UNCHANGED <<sending, overlapped>> PROVE Inv'
  <1> USE DEF Inv
  <1> DEFINE ok == /\ get_port_n_rx_queues(portid) > 0
                   /\ MemFits(init_mem)
                   /\ \A l \in lcores : TxQueue(l) < n_tx_queue
  <1>1. /\ pc = "ports" /\ portid < nb_ports /\ portid \in mask
        /\ UNCHANGED <<input, lcore_conf, rx_set, started, links, refused, failed>>
        /\ ok => /\ n_rx' = [n_rx EXCEPT ![portid] = get_port_n_rx_queues(portid)]
                 /\ pool' = pool \cup init_mem
                 /\ tx_queue_id' = [l \in lcores |-> [tx_queue_id[l] EXCEPT ![portid] = TxQueue(l)]]
                 /\ portid' = portid + 1
                 /\ UNCHANGED pc
        /\ ~ok => pc' = "exit" /\ UNCHANGED <<n_rx, pool, tx_queue_id, portid>>
    BY DEF InitPort
  <1>2. /\ portid \in 0..nb_ports /\ nb_ports \in Nat /\ portid \in Board /\ portid \in Enabled
        /\ \A p \in Board : p \in Nat
    BY <1>1, StartupAssumption DEF TypeOK, Board, Enabled
  <1>3. CASE ok
    <2> HIDE DEF ok
    <2>1. portid' \in 0..nb_ports
      BY <1>1, <1>2, <1>3
    <2>2. tx_queue_id' \in [lcores -> [Board -> Nat]]
      <3>1. tx_queue_id \in [lcores -> [Board -> Nat]]
        BY DEF TypeOK
      <3>2. \A l \in lcores : [tx_queue_id[l] EXCEPT ![portid] = TxQueue(l)] \in [Board -> Nat]
        BY <3>1, TxQueueBound
      <3>3. tx_queue_id' = [l \in lcores |-> [tx_queue_id[l] EXCEPT ![portid] = TxQueue(l)]]
        BY <1>1, <1>3
      <3> QED BY <3>2, <3>3
    <2>3. n_rx' = [p \in Board |-> n_rx'[p]]
      BY <1>1, <1>2, <1>3 DEF TypeOK
    <2>4. TypeOK' /\ ConfInv' /\ LinkInv' /\ SendInv' /\ LinksPrinted'
      <3>1. pc = "ports" /\ pc' = "ports"
        BY <1>1, <1>3
      <3>2. failed' \in BOOLEAN
        BY <1>1, Zenon DEF TypeOK
      <3> QED BY <1>1, <2>1, <2>2, <2>3, <3>1, <3>2, PhaseKeeps DEF PCs
    <2>5. lcores' = lcores /\ \A l \in lcores : SocketId(l) \in pool'
      BY <1>1, <1>3 DEF init_mem, input
    <2>6. ASSUME NEW p \in Enabled, p < portid + 1 PROVE PortDone(p)'
      <3>1. CASE p = portid
        <4>1. n_rx'[p] = get_port_n_rx_queues(p)
          BY <1>1, <1>2, <1>3, <3>1 DEF TypeOK
        <4>2. \A l \in lcores : tx_queue_id'[l][p] = TxQueue(l) /\ TxQueue(l) < n_tx_queue
          BY <1>1, <1>2, <1>3, <3>1 DEF TypeOK, ok
        <4> QED BY <1>1, <2>5, <4>1, <4>2, SameInput DEF PortDone
      <3>2. CASE p # portid
        <4>1. p \in Board /\ p < portid
          BY <1>2, <2>6, <3>2 DEF Enabled
        <4>2. PortDone(p)
          BY <1>1, <4>1 DEF PortsInv, Probed
        <4>3. n_rx'[p] = n_rx[p] /\ \A l \in lcores : tx_queue_id'[l][p] = tx_queue_id[l][p]
          BY <1>1, <1>2, <1>3, <3>2, <4>1 DEF TypeOK
        <4> QED BY <1>1, <2>5, <4>2, <4>3, SameInput DEF PortDone
      <3> QED BY <3>1, <3>2
    <2>7. PortsInv'
      BY <1>1, <1>3, <2>6, SameInput DEF PortsInv, PortsDone
    <2>8. StartedInv' /\ GivesUpForCause' /\ QueuesExist'
      BY <1>1, <1>3 DEF StartedInv, GivesUpForCause, QueuesExist
    <2> QED BY <2>4, <2>7, <2>8
  <1>4. CASE ~ok
    <2>1. ~WellFormed
      <3>1. SUFFICES ASSUME WellFormed PROVE ok
        BY <1>4
      <3>2. get_port_n_rx_queues(portid) > 0
        BY <1>2, <3>1, WellFormedPasses
      <3>3. \A l \in lcores : TxQueue(l) < n_tx_queue /\ SocketId(l) < NB_SOCKETS
        BY <1>2, <3>1, WellFormedPasses
      <3>4. MemFits(init_mem)
        BY <3>3 DEF MemFits, init_mem
      <3> QED BY <3>2, <3>3, <3>4
    <2> HIDE DEF ok
    <2>2. TypeOK' /\ ConfInv' /\ LinkInv' /\ SendInv' /\ LinksPrinted'
      BY <1>1, <1>4, PhaseKeeps DEF TypeOK, PCs
    <2>3. PortsInv' /\ StartedInv' /\ QueuesExist'
      BY <1>1, <1>4 DEF PortsInv, StartedInv, QueuesExist, Probed, PortsDone
    <2>4. GivesUpForCause'
      BY <1>1, <2>1, SameInput DEF GivesUpForCause
    <2> QED BY <2>2, <2>3, <2>4
  <1> QED BY <1>3, <1>4

\* Every queue an lcore polls is one the port was configured with.
LEMMA RxQueuesInv == ASSUME Inv, RxQueues, UNCHANGED <<sending, overlapped>> PROVE Inv'
  <1> USE DEF Inv
  <1>1. /\ pc = "ports" /\ portid = nb_ports
        /\ rx_set' = UNION {Polls(l) : l \in lcores}
        /\ pc' = (IF \A r \in rx_set' : r[2] < n_rx[r[1]] THEN "start" ELSE "exit")
        /\ UNCHANGED <<input, portid, lcore_conf, n_rx, tx_queue_id, pool, started, links>>
        /\ UNCHANGED <<refused, failed>>
    BY DEF RxQueues, Polls
  <1>2. TypeOK' /\ ConfInv' /\ LinkInv' /\ SendInv' /\ LinksPrinted'
    BY <1>1, PhaseKeeps DEF TypeOK, PCs
  <1>3. lcores' = lcores /\ nb_ports' = nb_ports /\ Polls(0)' = Polls(0)
    BY <1>1 DEF input, Polls
  <1>4. PortsInv'
    BY <1>1, <1>3, SameInput DEF PortsInv, PortDone, Probed
  <1>5. StartedInv' /\ QueuesExist'
    BY <1>1, <1>3 DEF StartedInv, QueuesExist, Polls
  <1>6. GivesUpForCause'
    <2> SUFFICES ASSUME pc' = "exit", WellFormed PROVE FALSE
      BY <1>1, SameInput DEF GivesUpForCause
    <2>0. PICK l \in lcores : \E r \in Polls(l) : ~(r[2] < n_rx[r[1]])
      BY <1>1
    <2>1. PICK r \in Polls(l) : ~(r[2] < n_rx[r[1]])
      BY <2>0
    <2>2. PICK i \in DOMAIN params : r = <<params[i][1], params[i][2]>>
      BY <1>1, PollsEntries DEF Checked
    <2> DEFINE p == params[i][1]
               q == params[i][2]
    <2>3. p \in Enabled /\ q \in QueuesOf(p)
      BY DEF WellFormed, QueuesOf
    <2>4. n_rx[p] = get_port_n_rx_queues(p)
      <3>1. p < portid
        BY <1>1, <2>3, StartupAssumption, SMTT(30) DEF Enabled, Board, TypeOK
      <3> QED BY <1>1, <2>3, <3>1 DEF PortsInv, PortDone, Probed
    <2>5. q < n_rx[p]
      BY <2>3, <2>4, WellFormedPasses
    <2> QED BY <2>1, <2>2, <2>5
  <1> QED BY <1>2, <1>4, <1>5, <1>6

\* Starting the ports ends in a crash only if the queues of some port have a
\* gap.
LEMMA StartPortsInv == ASSUME Inv, StartPorts, UNCHANGED <<sending, overlapped>> PROVE Inv'
  <1> USE DEF Inv
  <1> DEFINE all == \A p \in Enabled : \A q \in 0..(n_rx[p] - 1) : <<p, q>> \in rx_set
  <1>1. /\ pc = "start" /\ pc' = (IF all THEN "links" ELSE "dead")
        /\ all => started' = Enabled
        /\ UNCHANGED <<input, portid, lcore_conf, n_rx, tx_queue_id, pool, rx_set, links>>
        /\ UNCHANGED <<refused, failed>>
    BY DEF StartPorts
  <1>2. TypeOK' /\ ConfInv' /\ LinkInv' /\ SendInv' /\ LinksPrinted'
    BY <1>1, PhaseKeeps DEF TypeOK, PCs
  <1>3. lcores' = lcores /\ nb_ports' = nb_ports
    BY <1>1 DEF input
  <1>4. PortsInv'
    BY <1>1, <1>3, SameInput DEF PortsInv, PortDone, Probed, PortsDone
  <1>5. StartedInv'
    BY <1>1, <1>3, SameInput DEF StartedInv, Polls
  <1>6. GivesUpForCause'
    BY <1>1 DEF GivesUpForCause
  <1>7. QueuesExist'
    <2> SUFFICES ASSUME WellFormed PROVE all
      BY <1>1, SameInput DEF QueuesExist
    <2> SUFFICES ASSUME NEW p \in Enabled, NEW q \in 0..(n_rx[p] - 1) PROVE <<p, q>> \in rx_set
      OBVIOUS
    <2>1. n_rx[p] = get_port_n_rx_queues(p)
      <3>1. p < portid
        BY <1>1, StartupAssumption DEF Enabled, Board, TypeOK, PortsInv, PortsDone
      <3> QED BY <1>1, <3>1 DEF PortsInv, PortDone, Probed
    <2>2. q \in QueuesOf(p)
      BY <2>1, WellFormedPasses
    <2>3. PICK i \in DOMAIN params : params[i][1] = p /\ params[i][2] = q
      BY <2>2 DEF QueuesOf
    <2>4. params[i][3] \in lcores /\ <<p, q>> \in Polls(params[i][3])
      BY <1>1, <2>3, PollsEntries DEF Checked
    <2> QED BY <1>1, <2>4 DEF StartedInv
  <1> QED BY <1>2, <1>4, <1>5, <1>6, <1>7

LEMMA DpdkFailsInv == ASSUME Inv, DpdkFails, UNCHANGED <<sending, overlapped>> PROVE Inv'
  <1> USE DEF Inv
  <1>1. /\ pc \in {"probe", "ports", "start"} /\ pc' = "exit" /\ failed' = TRUE
        /\ UNCHANGED <<input, ports, links, refused>>
    BY DEF DpdkFails
  <1>2. TypeOK' /\ ConfInv' /\ LinkInv' /\ SendInv' /\ LinksPrinted'
    BY <1>1, PhaseKeeps DEF TypeOK, PCs, ports
  <1>3. PortsInv' /\ StartedInv' /\ GivesUpForCause' /\ QueuesExist'
    BY <1>1 DEF PortsInv, StartedInv, GivesUpForCause, QueuesExist, Probed, PortsDone
  <1> QED BY <1>2, <1>3

\* What the phases up to the links left behind stays in the last ones.
LEMMA RunKeeps ==
    ASSUME Inv, pc \in {"links", "run"}, pc' \in {"links", "run", "dead"},
           UNCHANGED <<input, ports, refused, failed>>
    PROVE  ConfInv' /\ PortsInv' /\ StartedInv' /\ GivesUpForCause'
  <1> USE DEF Inv, ports
  <1>1. lcores' = lcores /\ nb_ports' = nb_ports
    BY DEF input
  <1>2. ConfInv'
    BY <1>1, SameInput DEF ConfInv, Checked, Probed
  <1>3. PortsInv'
    BY <1>1, SameInput DEF PortsInv, PortDone, Probed, PortsDone
  <1>4. StartedInv'
    BY <1>1, SameInput DEF StartedInv, Polls
  <1>5. GivesUpForCause'
    BY DEF GivesUpForCause
  <1> QED BY <1>2, <1>3, <1>4, <1>5

\* The last round raises the flag, so the loop never ends without printing.
LEMMA LinkRoundInv == ASSUME Inv, NEW up, LinkRound(up), UNCHANGED <<sending, overlapped>> PROVE Inv'
  <1> USE DEF Inv
  <1>1. pc = "links" /\ UNCHANGED <<input, ports, refused, failed>>
    BY DEF LinkRound
  <1>2. /\ count \in Nat /\ delays \in Nat /\ MAX_CHECK_TIME \in Nat \ {0}
        /\ print_flag \in BOOLEAN
        /\ count <= MAX_CHECK_TIME /\ delays <= count
        /\ count = MAX_CHECK_TIME => print_flag
    BY <1>1, StartupAssumption DEF TypeOK, LinkInv
  <1>3. CASE print_flag
    <2>1. pc' = "run" /\ printed' = Enabled /\ UNCHANGED <<count, print_flag, delays>>
      BY <1>3 DEF LinkRound
    <2>2. LinkInv' /\ LinksPrinted'
      BY <1>1, <1>2, <2>1, SameInput DEF LinkInv, LinksPrinted
    <2>3. TypeOK'
      BY <1>1, <2>1, SameInput DEF TypeOK, PCs, input, ports
    <2>4. SendInv' /\ QueuesExist'
      BY <1>1, <2>1 DEF SendInv, QueuesExist, TxQueue, input
    <2> QED BY <1>1, <2>1, <2>2, <2>3, <2>4, RunKeeps
  <1>4. CASE ~print_flag
    <2>1. /\ delays' \in {delays, delays + 1} /\ count' = count + 1
          /\ print_flag' \in BOOLEAN /\ (count = MAX_CHECK_TIME - 1 => print_flag')
          /\ pc' = (IF GoesOn(count') THEN "links" ELSE "run")
      BY <1>4 DEF LinkRound
    <2>2. pc' = "links"
      BY <1>2, <1>4, <2>1 DEF GoesOn
    <2>3. LinkInv' /\ LinksPrinted'
      BY <1>2, <2>1, <2>2, <1>4 DEF LinkInv, LinksPrinted
    <2>4. TypeOK'
      BY <1>1, <1>2, <2>1, <2>2, SameInput DEF TypeOK, PCs, input, ports
    <2>5. SendInv' /\ QueuesExist'
      BY <1>1, <2>2 DEF SendInv, QueuesExist, TxQueue, input
    <2> QED BY <1>1, <2>2, <2>3, <2>4, <2>5, RunKeeps
  <1> QED BY <1>2, <1>3, <1>4

-----------------------------------------------------------------------------
(* The calls of rte_eth_tx_burst *)

\* What an lcore polls while the program runs: an enabled port, with a tx
\* queue of its own.
LEMMA PollsServed ==
    ASSUME Inv, pc = "run", NEW l \in lcores, NEW r \in Polls(l)
    PROVE  /\ r[1] \in Enabled /\ r[1] \in Nat /\ r[2] \in Nat
           /\ tx_queue_id[l][r[1]] = TxQueue(l) /\ TxQueue(l) < n_tx_queue
           /\ \E i \in DOMAIN params : r[2] = params[i][2]
  <1> USE DEF Inv
  <1>1. PICK i \in DOMAIN params : r = <<params[i][1], params[i][2]>>
    BY PollsEntries DEF Checked
  <1>2. params[i][1] \in Nat /\ params[i][2] \in Nat /\ params[i][1] \in Enabled
    BY PortOfEntry DEF ConfInv, Probed, check_port_config
  <1>3. PortDone(params[i][1])
    <2>1. params[i][1] < portid
      BY <1>2, StartupAssumption DEF Enabled, Board, TypeOK, PortsInv, PortsDone
    <2> QED BY <1>2, <2>1 DEF PortsInv, Probed
  <1> QED BY <1>1, <1>2, <1>3 DEF PortDone

\* A call keeps the invariant if its port and queue are there whenever the
\* command line fits, and a call from a table is on the lcore's own queue.
LEMMA SendKeeps ==
    ASSUME Inv, NEW l \in lcores, NEW how \in {"table", "reply", "get", "announce"},
           NEW p \in Nat, NEW q \in Nat, Send(l, how, p, q),
           how = "table" => q = TxQueue(l),
           Fits /\ WellFormed /\ ~overlapped => p \in Enabled /\ q < n_tx_queue
    PROVE  Inv'
  <1> USE DEF Inv
  <1>1. pc = "run" /\ UNCHANGED <<input, ports, links, refused, failed, overlapped>>
    BY DEF Send
  <1>2. started = Enabled
    BY <1>1 DEF StartedInv
  <1>3. CASE p \in started /\ q < n_tx_queue
    <2>1. /\ pc' = pc
          /\ sending' = [sending EXCEPT ![l] = [how |-> how, port |-> p, queue |-> q]]
      BY <1>3 DEF Send
    <2>2. TypeOK'
      <3>1. [how |-> how, port |-> p, queue |-> q] \in Sending
        BY DEF Sending
      <3> QED BY <1>1, <2>1, <3>1, SameInput DEF TypeOK, input, ports, links
    <2>3. SendInv'
      <3>1. lcores' = lcores
        BY <1>1 DEF input
      <3>2. \A k \in lcores : sending'[k].how = "table" => sending'[k].queue = TxQueue(k)
        BY <2>1 DEF TypeOK, SendInv
      <3> QED BY <1>1, <2>1, <3>1, <3>2, SameInput DEF SendInv
    <2>4. LinkInv' /\ LinksPrinted' /\ QueuesExist'
      BY <1>1, <2>1, SameInput DEF LinkInv, LinksPrinted, QueuesExist, links
    <2> QED BY <1>1, <2>1, <2>2, <2>3, <2>4, RunKeeps
  <1>4. CASE ~(p \in started /\ q < n_tx_queue)
    <2>1. pc' = "dead" /\ sending' = sending
      BY <1>4 DEF Send
    <2>2. TypeOK'
      BY <1>1, <2>1, SameInput DEF TypeOK, PCs, input, ports, links
    <2>3. SendInv' /\ LinkInv' /\ LinksPrinted'
      BY <1>1, <2>1 DEF SendInv, LinkInv, LinksPrinted, TxQueue, input, links
    <2>4. QueuesExist'
      BY <1>1, <1>2, <1>4, SameInput DEF QueuesExist
    <2> QED BY <1>1, <2>1, <2>2, <2>3, <2>4, RunKeeps
  <1> QED BY <1>3, <1>4

\* An lcore is in lunxun.
LEMMA ChoosePathInv == ASSUME Inv, NEW l \in lcores, ChoosePath(l) PROVE Inv'
  <1> USE DEF Inv
  <1>1. /\ pc = "run" /\ pc' = pc /\ sending' = [sending EXCEPT ![l] = Choosing]
        /\ UNCHANGED <<input, ports, links, refused, failed>>
    BY DEF ChoosePath, startVars
  <1>2. Choosing \in Sending /\ Choosing.how # "table"
    BY DEF Choosing, Sending
  <1>3. overlapped' \in BOOLEAN /\ (overlapped => overlapped')
    BY Zenon DEF ChoosePath, TypeOK
  <1>4. TypeOK'
    BY <1>1, <1>2, <1>3, SameInput DEF TypeOK, input, ports, links
  <1>5. SendInv'
    <2>1. \A k \in lcores : sending'[k].how = "table" => sending'[k].queue = TxQueue(k)
      BY <1>1, <1>2 DEF TypeOK, SendInv
    <2>2. lcores' = lcores
      BY <1>1 DEF input
    <2> QED BY <1>1, <2>1, <2>2, SameInput DEF SendInv
  <1>6. LinkInv' /\ LinksPrinted' /\ QueuesExist'
    BY <1>1, SameInput DEF LinkInv, LinksPrinted, QueuesExist, links
  <1> QED BY <1>1, <1>4, <1>5, <1>6, RunKeeps

LEMMA SendingInv ==
    ASSUME Inv, NEW l \in lcores, SendTable(l) \/ SendReply(l) \/ SendGet(l) \/ SendAnnounce(l)
    PROVE  Inv'
  <1> USE DEF Inv
  <1>1. pc = "run"
    BY DEF SendTable, SendReply, SendGet, SendAnnounce, Send
  <1>2. TxQueue(l) \in Nat
    BY TxQueueBound
  <1>3. CASE SendTable(l)
    <2>1. PICK r \in Polls(l) : Send(l, "table", r[1], tx_queue_id[l][r[1]])
      BY <1>3 DEF SendTable
    <2>2. PICK p \in Nat, q \in Nat :
            p = r[1] /\ q = tx_queue_id[l][r[1]] /\ q = TxQueue(l) /\ Send(l, "table", p, q)
      BY <1>1, <1>2, <2>1, PollsServed
    <2>3. p \in Enabled /\ q < n_tx_queue
      BY <1>1, <2>2, PollsServed
    <2> QED BY <2>2, <2>3, SendKeeps
  <1>4. CASE SendReply(l)
    <2>1. PICK r \in Polls(l) : Send(l, "reply", r[1], r[2])
      BY <1>4 DEF SendReply
    <2>2. r[1] \in Nat /\ r[2] \in Nat /\ r[1] \in Enabled
      BY <1>1, PollsServed
    <2>3. Fits => r[2] < n_tx_queue
      BY <1>1, PollsServed DEF Fits
    <2> QED BY <2>1, <2>2, <2>3, SendKeeps
  <1>5. CASE SendGet(l) \/ SendAnnounce(l)
    <2>1. PICK p \in Nat, how \in {"get", "announce"} :
            Send(l, how, p, 0) /\ (p \in PathPorts \cup {0} \/ overlapped)
      BY <1>5, PathAssumption DEF SendGet, SendAnnounce
    <2>2. Fits /\ WellFormed /\ ~overlapped => p \in Enabled /\ 0 < n_tx_queue
      BY <2>1, WellFormedPasses DEF Fits
    <2> QED BY <2>1, <2>2, SendKeeps
  <1> QED BY <1>3, <1>4, <1>5

LEMMA SentInv == ASSUME Inv, NEW l \in lcores, Sent(l) PROVE Inv'
  <1> USE DEF Inv
  <1>1. /\ pc = "run" /\ pc' = pc /\ sending' = [sending EXCEPT ![l] = Idle]
        /\ UNCHANGED <<input, ports, links, refused, failed, overlapped>>
    BY DEF Sent, startVars
  <1>2. Idle \in Sending /\ Idle.how # "table"
    BY DEF Idle, Sending
  <1>3. TypeOK'
    BY <1>1, <1>2, SameInput DEF TypeOK, input, ports, links
  <1>4. SendInv'
    <2>1. \A k \in lcores : sending'[k].how = "table" => sending'[k].queue = TxQueue(k)
      BY <1>1, <1>2 DEF TypeOK, SendInv
    <2>2. lcores' = lcores
      BY <1>1 DEF input
    <2> QED BY <1>1, <2>1, <2>2, SameInput DEF SendInv
  <1>5. LinkInv' /\ LinksPrinted' /\ QueuesExist'
    BY <1>1, SameInput DEF LinkInv, LinksPrinted, QueuesExist, links
  <1> QED BY <1>1, <1>3, <1>4, <1>5, RunKeeps

-----------------------------------------------------------------------------
\* The invariant holds initially.
LEMMA InitInv == Init => Inv
  <1> SUFFICES ASSUME Init PROVE Inv
    OBVIOUS
  <1> USE StartupAssumption DEF Init, StartInit
  <1>1. nb_ports \in Nat /\ Idle \in Sending
    BY DEF Idle, Sending
  <1>2. tx_queue_id \in [lcores -> [Board -> Nat]] /\ sending \in [lcores -> Sending]
    BY <1>1
  <1>3. n_rx = [p \in Board |-> n_rx[p]]
    OBVIOUS
  <1>4. /\ params \in Seq(Entry) /\ mask \in SUBSET Nat /\ portid \in 0..nb_ports
        /\ count \in Nat /\ delays \in Nat
    BY <1>1 DEF Entry
  <1>5. /\ print_flag \in BOOLEAN /\ refused \in BOOLEAN /\ failed \in BOOLEAN
        /\ overlapped \in BOOLEAN
    OBVIOUS
  <1>6. TypeOK
    BY <1>2, <1>3, <1>4, <1>5 DEF TypeOK, PCs
  <1>7. ConfInv /\ PortsInv /\ StartedInv
    BY DEF ConfInv, PortsInv, StartedInv, Checked, Probed, PortsDone
  <1>8. LinkInv /\ SendInv
    BY DEF LinkInv, SendInv, Idle
  <1>9. GivesUpForCause /\ LinksPrinted /\ QueuesExist
    BY DEF GivesUpForCause, LinksPrinted, QueuesExist
  <1> QED BY <1>6, <1>7, <1>8, <1>9 DEF Inv

\* Every step of the start and of the lcores keeps the invariant.
LEMMA NextInv == Inv /\ [Next]_txVars => Inv'
  <1> SUFFICES ASSUME Inv, [Next]_txVars PROVE Inv'
    OBVIOUS
  <1>1. CASE Start
    BY <1>1, ParseArgsInv, InitLcoreInv, ProbeInv, SkipPortInv, InitPortInv, RxQueuesInv,
       StartPortsInv, DpdkFailsInv, LinkRoundInv
    DEF Start, StartNext
  <1>2. ASSUME NEW l \in lcores,
               \/ ChoosePath(l)
               \/ SendTable(l) \/ SendReply(l) \/ SendGet(l) \/ SendAnnounce(l)
               \/ Sent(l)
        PROVE  Inv'
    BY <1>2, ChoosePathInv, SendingInv, SentInv
  <1>3. CASE UNCHANGED txVars
    <2>1. UNCHANGED <<pc, input, ports, links, refused, failed, sending, overlapped>>
      BY <1>3 DEF txVars, startVars
    <2>2. lcores' = lcores /\ nb_ports' = nb_ports
      BY <2>1 DEF input
    <2>3. TypeOK'
      BY <2>1, SameInput DEF Inv, TypeOK, input, ports, links
    <2>4. ConfInv' /\ PortsInv'
      BY <2>1, <2>2, SameInput DEF Inv, ConfInv, PortsInv, PortDone, ports
    <2>5. StartedInv'
      BY <2>1, <2>2, SameInput DEF Inv, StartedInv, Polls, ports
    <2>6. LinkInv' /\ SendInv' /\ GivesUpForCause' /\ LinksPrinted' /\ QueuesExist'
      BY <2>1, <2>2, SameInput
      DEF Inv, LinkInv, SendInv, GivesUpForCause, LinksPrinted, QueuesExist, links
    <2> QED BY <2>3, <2>4, <2>5, <2>6 DEF Inv
  <1> QED BY <1>1, <1>2, <1>3 DEF Next

\* The inductive invariant of the start and of the lcores holds in every
\* state.
THEOREM Invariance == Spec => []Inv
  BY InitInv, NextInv, PTL DEF Spec

\* A command line that is well formed for the machine passes every check of
\* MAIN: it gives up only for a malformed option or a failed call.
THEOREM GivesUpOnlyForCause == Spec => []GivesUpForCause
  <1>1. Inv => GivesUpForCause
    BY DEF Inv
  <1> QED BY <1>1, Invariance, PTL

\* When main_loop is launched every rx queue of every enabled port is polled
\* and has memory, and the tx queues of the lcores are distinct, for any
\* machine and command line.
THEOREM LaunchedIsServed == Spec => []LaunchedServed
  <1>1. Inv => LaunchedServed
    <2> SUFFICES ASSUME Inv, pc = "run"
                 PROVE  /\ started = Enabled
                        /\ \A p \in Enabled : \A q \in 0..(n_rx[p] - 1) :
                             \E l \in lcores : <<p, q>> \in Polls(l) /\ SocketId(l) \in pool
                        /\ \A p \in Enabled : \A k, l \in lcores :
                             tx_queue_id[k][p] = tx_queue_id[l][p] => k = l
      BY DEF LaunchedServed, Polls
    <2> USE DEF Inv
    <2>1. started = Enabled
      BY DEF StartedInv
    <2>2. ASSUME NEW p \in Enabled PROVE PortDone(p)
      <3>1. p < portid
        BY StartupAssumption DEF Enabled, Board, TypeOK, PortsInv, PortsDone
      <3> QED BY <3>1 DEF PortsInv, Probed
    <2>3. ASSUME NEW p \in Enabled, NEW q \in 0..(n_rx[p] - 1)
          PROVE  \E l \in lcores : <<p, q>> \in Polls(l) /\ SocketId(l) \in pool
      BY <2>2 DEF StartedInv, PortDone
    <2>6. ASSUME NEW p \in Enabled, NEW k \in lcores, NEW l \in lcores,
                 tx_queue_id[k][p] = tx_queue_id[l][p]
          PROVE  k = l
      BY <2>2, <2>6, TxQueueOwn DEF PortDone
    <2> QED BY <2>1, <2>3, <2>6
  <1> QED BY <1>1, Invariance, PTL

\* check_all_ports_link_status never ends without printing the links, and
\* waits at most MAX_CHECK_TIME times.
THEOREM LinksArePrinted == Spec => []LinksPrinted
  <1>1. Inv => LinksPrinted
    BY DEF Inv
  <1> QED BY <1>1, Invariance, PTL

\* The transmit tables never share a queue, for any number of lcores.
THEOREM TablesAreAlone == Spec => []TablesAlone
  <1>1. Inv => TablesAlone
    BY TxQueueOwn DEF Inv, SendInv, TablesAlone
  <1> QED BY <1>1, Invariance, PTL

\* get_packets_forward, send_pid_a and the other senders: on a command line
\* that is well formed and fits the paths, no packet goes to a port or queue
\* that was not set up, for any number of lcores, until two of them are in
\* lunxun at a time.
THEOREM QueuesAreThere == Spec => []QueuesExist
  <1>1. Inv => QueuesExist
    BY DEF Inv
  <1> QED BY <1>1, Invariance, PTL
=============================================================================
