------------------------------ MODULE RmStartup ------------------------------
(***************************************************************************)
(* The start of the resource manager (MAIN of RM/main.c): the command line,*)
(* the checks on it, the queues of the ports, the memory of the sockets and*)
(* the check of the links, up to the launch of main_loop on every lcore.   *)
(*                                                                         *)
(* The program is sequential here.  What varies is the command line, the   *)
(* machine, the links, and which call into DPDK fails.                     *)
(*                                                                         *)
(* The options -P, --ipv6, --enable-jumbo and --hash-entry-num change      *)
(* nothing that is modelled; they are accepted or refused.                 *)
(*                                                                         *)
(* A definition marked "Mistake" is a wrong version of the one after it;   *)
(* with it in place a property must fail.                                  *)
(***************************************************************************)
EXTENDS Integers, Sequences, FiniteSets

CONSTANTS
    Boards,         \* numbers of ports a machine may have
    EnabledSets,    \* sets of lcores that EAL may be given
    SocketOf,       \* socket of an lcore
    MaskBits,       \* width of enabled_port_mask
    Masks,          \* arguments of -p that are numbers: sets of bits
    Entries,        \* well-formed (port,queue,lcore) of --config
    DefaultParams,  \* lcore_params_array_default
    MAX_LCORE_PARAMS,
    MAX_RX_QUEUE_PER_PORT,
    MAX_RX_QUEUE_PER_LCORE,
    MAX_TX_QUEUE_PER_PORT,
    NB_SOCKETS,
    MAX_CHECK_TIME

ASSUME StartupAssumption ==
    /\ Boards \subseteq Nat
    /\ MaskBits \in Nat \ {0}
    /\ \A n \in Boards : n <= MaskBits      \* RTE_MAX_ETHPORTS is 32
    /\ \A s \in EnabledSets : s \subseteq Nat /\ IsFiniteSet(s)
    /\ \A m \in Masks : m \subseteq Nat
    /\ Entries \subseteq Nat \X Nat \X Nat
    /\ DefaultParams \in Seq(Nat \X Nat \X Nat)
    /\ {MAX_RX_QUEUE_PER_PORT, MAX_TX_QUEUE_PER_PORT} \subseteq Nat
    /\ MAX_CHECK_TIME \in Nat \ {0}

VARIABLES
    pc,             \* where MAIN is; "exit" is rte_exit, "dead" a crash
    nb_ports,       \* ports of the machine
    lcores,         \* lcores enabled by EAL
    mask,           \* enabled_port_mask
    params,         \* lcore_params, as <<port, queue, lcore>>
    numa_on,
    portid,         \* the port that is being initialised
    lcore_conf,     \* rx_queue_list of each lcore, as <<port, queue>>
    n_rx,           \* rx queues a port was configured with
    tx_queue_id,    \* per lcore and port
    pool,           \* sockets with a pktmbuf_pool and its tables
    rx_set,         \* rx queues that were set up
    started,        \* ports
    count, print_flag, delays, printed,  \* check_all_ports_link_status
    refused,        \* history: an option was malformed
    failed          \* history: a call into DPDK failed

input == <<nb_ports, lcores, mask, params, numa_on>>
ports == <<portid, lcore_conf, n_rx, tx_queue_id, pool, rx_set, started>>
links == <<count, print_flag, delays, printed>>
startVars == <<pc, input, ports, links, refused, failed>>

Board == 0..(nb_ports - 1)

\* The loops over the ports test the mask bit of each.
Enabled == Board \cap mask

SocketId(l) == IF numa_on THEN SocketOf[l] ELSE 0

Min(a, b) == IF a < b THEN a ELSE b

-----------------------------------------------------------------------------
StartInit ==
    /\ pc = "args"
    /\ nb_ports \in Boards
    /\ lcores \in EnabledSets
    /\ mask = {}
    /\ params = DefaultParams
    /\ numa_on = TRUE
    /\ portid = 0
    /\ lcore_conf = [l \in lcores |-> <<>>]
    /\ n_rx = [p \in Board |-> 0]
    /\ tx_queue_id = [l \in lcores |-> [p \in Board |-> 0]]
    /\ pool = {}
    /\ rx_set = {}
    /\ started = {}
    /\ count = 0 /\ print_flag = FALSE /\ delays = 0 /\ printed = {}
    /\ refused = FALSE
    /\ failed = FALSE

(* parse_args: options in any order, and more than once. *)

\* -p with a number: 0, like anything that is no number, gives -1, which is
\* every bit.  The caller refuses 0, which is what is left of a number that
\* has only bits beyond the width of the mask.
parse_portmask(m) == IF m = {} THEN 0..(MaskBits - 1) ELSE m \cap 0..(MaskBits - 1)

Portmask(m) ==
    /\ pc = "args"
    /\ mask' = parse_portmask(m)
    /\ refused' = (mask' = {})
    /\ pc' = IF refused' THEN "exit" ELSE "args"
    /\ UNCHANGED <<nb_ports, lcores, params, numa_on, ports, links, failed>>

NoNuma ==
    /\ pc = "args"
    /\ numa_on' = FALSE
    /\ UNCHANGED <<pc, nb_ports, lcores, mask, params, ports, links, refused, failed>>

\* An unknown option, or one whose argument is refused.
BadOption ==
    /\ pc = "args"
    /\ pc' = "exit"
    /\ refused' = TRUE
    /\ UNCHANGED <<input, ports, links, failed>>

\* --config: parse_config, one parenthesis at a time.
Config ==
    /\ pc = "args"
    /\ params' = <<>>
    /\ pc' = "config"
    /\ UNCHANGED <<nb_ports, lcores, mask, numa_on, ports, links, refused, failed>>

ConfigEntry(e) ==
    /\ pc = "config"
    /\ IF Len(params) >= MAX_LCORE_PARAMS
       THEN /\ pc' = "exit"
            /\ refused' = TRUE
            /\ UNCHANGED params
       ELSE /\ params' = Append(params, e)
            /\ UNCHANGED <<pc, refused>>
    /\ UNCHANGED <<nb_ports, lcores, mask, numa_on, ports, links, failed>>

\* Not three numbers up to 255, or no closing parenthesis.
ConfigBad ==
    /\ pc = "config"
    /\ pc' = "exit"
    /\ refused' = TRUE
    /\ UNCHANGED <<input, ports, links, failed>>

ConfigEnd ==
    /\ pc = "config"
    /\ pc' = "args"
    /\ UNCHANGED <<input, ports, links, refused, failed>>

-----------------------------------------------------------------------------
(* The checks. *)

check_lcore_params ==
    \A i \in DOMAIN params :
        params[i][2] < MAX_RX_QUEUE_PER_PORT /\ params[i][3] \in lcores

\* The shift by the port number wraps at the width of the mask.
check_port_config ==
    \A i \in DOMAIN params :
        params[i][1] % MaskBits \in mask /\ params[i][1] < nb_ports

\* Queue numbers the command line gives for a port.
QueuesOf(p) == {params[i][2] : i \in {j \in DOMAIN params : params[j][1] = p}}

\* One more than the highest queue number that is given for the port.
get_port_n_rx_queues(p) ==
    LET queues == QueuesOf(p)
    IN  IF queues = {} THEN 0 ELSE 1 + CHOOSE q \in queues : \A r \in queues : r <= q

\* rx_queue_list of an lcore; an entry keeps its number on the command line.
RxQueueList(l) ==
    [i \in {j \in DOMAIN params : params[j][3] = l} |-> <<params[i][1], params[i][2]>>]

\* The end of the command line, check_lcore_params and init_lcore_rx_queues.
init_lcore_rx_queues ==
    /\ pc = "args"
    /\ IF check_lcore_params
       THEN /\ lcore_conf' = [l \in lcores |-> RxQueueList(l)]
            /\ pc' = IF \A l \in lcores :
                          Cardinality(DOMAIN lcore_conf'[l]) <= MAX_RX_QUEUE_PER_LCORE
                     THEN "probe" ELSE "exit"
       ELSE /\ pc' = "exit"
            /\ UNCHANGED lcore_conf
    /\ UNCHANGED <<input, portid, n_rx, tx_queue_id, pool, rx_set, started, links,
                   refused, failed>>

Probe ==
    /\ pc = "probe"
    /\ pc' = IF check_port_config THEN "ports" ELSE "exit"
    /\ UNCHANGED <<input, ports, links, refused, failed>>

-----------------------------------------------------------------------------
(* The ports. *)

\* Mistake: the memory is set up again for every port.
init_mem_again == {SocketId(l) : l \in lcores}

\* Sockets for which init_mem creates a pool and tables.
init_mem == {SocketId(l) : l \in lcores} \ pool

\* Creating a pool whose name is taken fails.
MemFits(new) == new \cap pool = {} /\ \A s \in new : s < NB_SOCKETS

\* Mistake: queue 0 for everybody.
TxQueue_zero(l) == 0

\* queueid, counted up over the enabled lcores.
TxQueue(l) == Cardinality({k \in lcores : k < l})

n_tx_queue == Min(Cardinality(lcores), MAX_TX_QUEUE_PER_PORT)

SkipPort ==
    /\ pc = "ports"
    /\ portid < nb_ports
    /\ portid \notin mask
    /\ portid' = portid + 1
    /\ UNCHANGED <<pc, input, lcore_conf, n_rx, tx_queue_id, pool, rx_set, started, links,
                   refused, failed>>

\* Configure the port, init_mem, one tx queue per lcore.  No rx queue at all,
\* or a tx queue beyond the configured ones, is an error.
InitPort ==
    /\ pc = "ports"
    /\ portid < nb_ports
    /\ portid \in mask
    /\ LET nb_rx_queue == get_port_n_rx_queues(portid)
           new == init_mem
       IN  IF /\ nb_rx_queue > 0
              /\ MemFits(new)
              /\ \A l \in lcores : TxQueue(l) < n_tx_queue
           THEN /\ n_rx' = [n_rx EXCEPT ![portid] = nb_rx_queue]
                /\ pool' = pool \cup new
                /\ tx_queue_id' = [l \in lcores |->
                                     [tx_queue_id[l] EXCEPT ![portid] = TxQueue(l)]]
                /\ portid' = portid + 1
                /\ UNCHANGED pc
           ELSE /\ pc' = "exit"
                /\ UNCHANGED <<n_rx, pool, tx_queue_id, portid>>
    /\ UNCHANGED <<input, lcore_conf, rx_set, started, links, refused, failed>>

\* The rx queues of every lcore.  One that the port does not have is an error.
RxQueues ==
    /\ pc = "ports"
    /\ portid = nb_ports
    /\ rx_set' = UNION {{lcore_conf[l][i] : i \in DOMAIN lcore_conf[l]} : l \in lcores}
    /\ pc' = IF \A r \in rx_set' : r[2] < n_rx[r[1]] THEN "start" ELSE "exit"
    /\ UNCHANGED <<input, portid, lcore_conf, n_rx, tx_queue_id, pool, started, links,
                   refused, failed>>

\* Starting a port runs through all the rx queues it was configured with.  That
\* one nobody set up ends the program is an assumption about the driver, which
\* is no part of the repository.
StartPorts ==
    /\ pc = "start"
    /\ IF \A p \in Enabled : \A q \in 0..(n_rx[p] - 1) : <<p, q>> \in rx_set
       THEN /\ started' = Enabled
            /\ pc' = "links"
       ELSE /\ pc' = "dead"
            /\ UNCHANGED started
    /\ UNCHANGED <<input, portid, lcore_conf, n_rx, tx_queue_id, pool, rx_set, links,
                   refused, failed>>

\* A call into DPDK fails, for want of memory or by the device.
DpdkFails ==
    /\ pc \in {"probe", "ports", "start"}
    /\ pc' = "exit"
    /\ failed' = TRUE
    /\ UNCHANGED <<input, ports, links, refused>>

-----------------------------------------------------------------------------
(* check_all_ports_link_status. *)

\* Mistake: one round too few.
GoesOn_short(n) == n < MAX_CHECK_TIME

\* The condition of the loop over count.
GoesOn(n) == n <= MAX_CHECK_TIME

\* A round; up are the ports whose link is up when it looks.
LinkRound(up) ==
    /\ pc = "links"
    /\ IF print_flag
       THEN /\ printed' = Enabled
            /\ pc' = "run"
            /\ UNCHANGED <<count, print_flag, delays>>
       ELSE /\ delays' = IF Enabled \subseteq up THEN delays ELSE delays + 1
            /\ print_flag' = (Enabled \subseteq up \/ count = MAX_CHECK_TIME - 1)
            /\ count' = count + 1
            /\ pc' = IF GoesOn(count') THEN "links" ELSE "run"
            /\ UNCHANGED printed
    /\ UNCHANGED <<input, ports, refused, failed>>

StartNext ==
    \/ \E m \in Masks : Portmask(m)
    \/ NoNuma
    \/ BadOption
    \/ Config
    \/ \E e \in Entries : ConfigEntry(e)
    \/ ConfigBad
    \/ ConfigEnd
    \/ init_lcore_rx_queues
    \/ Probe
    \/ SkipPort
    \/ InitPort
    \/ RxQueues
    \/ StartPorts
    \/ DpdkFails
    \/ \E up \in {{}, Enabled} : LinkRound(up)

-----------------------------------------------------------------------------
(* Properties *)

\* What a command line must say for the program to run on this machine: every
\* entry names a port, a queue and an lcore that are there, no lcore has too
\* many, and the queues of every enabled port are numbered from 0 without gaps.
WellFormed ==
    /\ \A i \in DOMAIN params :
         /\ params[i][1] \in Enabled
         /\ params[i][2] < MAX_RX_QUEUE_PER_PORT
         /\ params[i][3] \in lcores
    /\ \A l \in lcores :
         Cardinality({i \in DOMAIN params : params[i][3] = l}) <= MAX_RX_QUEUE_PER_LCORE
    /\ \A p \in Enabled : \E n \in 1..MAX_RX_QUEUE_PER_PORT : QueuesOf(p) = 0..(n - 1)
    /\ Enabled # {} => /\ Cardinality(lcores) <= MAX_TX_QUEUE_PER_PORT
                       /\ \A l \in lcores : SocketId(l) < NB_SOCKETS

\* MAIN gives up only for a cause: a malformed option, a call into DPDK that
\* failed, or a command line that does not fit the machine.
GivesUpForCause == pc = "exit" => refused \/ failed \/ ~WellFormed

\* When main_loop is launched, every rx queue of every enabled port is polled
\* by some lcore and has a pool on that lcore's socket, and on each of these
\* ports every lcore has a tx queue to itself.
LaunchedServed ==
    pc = "run" =>
        /\ started = Enabled
        /\ \A p \in Enabled : \A q \in 0..(n_rx[p] - 1) :
             \E l \in lcores : /\ <<p, q>> \in {lcore_conf[l][i] : i \in DOMAIN lcore_conf[l]}
                               /\ SocketId(l) \in pool
        /\ \A p \in Enabled : \A k, l \in lcores :
             tx_queue_id[k][p] = tx_queue_id[l][p] => k = l

\* The check of the links ends in time, and not before it has printed the
\* state of every enabled port, also when a link stays down to the last round.
LinksPrinted == pc = "run" => printed = Enabled /\ delays <= MAX_CHECK_TIME
=============================================================================
