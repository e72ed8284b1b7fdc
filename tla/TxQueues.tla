------------------------------ MODULE TxQueues ------------------------------
(***************************************************************************)
(* The resource manager after its start: which transmit queue an lcore     *)
(* uses.  RmStartup gives every lcore a queue of its own on every port,    *)
(* because a queue must not be used by two lcores at a time.  Only the     *)
(* transmit tables keep to it: a reply goes out on the queue that has the  *)
(* number of the rx queue the packet came from, a GET and an announcement  *)
(* on queue 0.                                                             *)
(*                                                                         *)
(* The port of a GET is chosen by lunxun, which two lcores may be in at a  *)
(* time.  From then on it may choose no path (LunXun's StoreNothing):      *)
(* ADD_PID returns 0, and get_packets_forward goes on with a port_id that  *)
(* was never set.                                                          *)
(***************************************************************************)
EXTENDS RmStartup

CONSTANTS
    PathPorts,    \* the ports of the three paths, 1 to 3
    StrayPorts    \* what a port_id that was not set can be

ASSUME PathAssumption == PathPorts \subseteq Nat /\ StrayPorts \subseteq Nat

VARIABLES
    sending,      \* per lcore: the call of rte_eth_tx_burst it is in, or lunxun
    overlapped    \* history: two lcores were in lunxun at a time

txVars == <<startVars, sending, overlapped>>

Idle == [how |-> "idle", port |-> 0, queue |-> 0]
Choosing == [how |-> "lunxun", port |-> 0, queue |-> 0]

Polls(l) == {lcore_conf[l][i] : i \in DOMAIN lcore_conf[l]}

Init ==
    /\ StartInit
    /\ sending = [l \in lcores |-> Idle]
    /\ overlapped = FALSE

Start == StartNext /\ UNCHANGED <<sending, overlapped>>

\* An lcore that polls some queue received a GET and is in lunxun.
ChoosePath(l) ==
    /\ pc = "run"
    /\ sending[l] = Idle
    /\ Polls(l) # {}
    /\ sending' = [sending EXCEPT ![l] = Choosing]
    /\ overlapped' = (overlapped \/ \E k \in lcores \ {l} : sending[k] = Choosing)
    /\ UNCHANGED startVars

\* An lcore that polls some queue calls rte_eth_tx_burst.  A port or queue
\* that was not set up has no functions to call.
Send(l, how, p, q) ==
    /\ pc = "run"
    /\ sending[l] = IF how = "get" THEN Choosing ELSE Idle
    /\ Polls(l) # {}
    /\ IF p \in started /\ q < n_tx_queue
       THEN /\ sending' = [sending EXCEPT ![l] = [how |-> how, port |-> p, queue |-> q]]
            /\ UNCHANGED pc
       ELSE /\ pc' = "dead"
            /\ UNCHANGED sending
    /\ UNCHANGED <<input, ports, links, refused, failed, overlapped>>

\* Mistake: the queue of the first lcore.
SendTable_first(l) ==
    \E r \in Polls(l) : Send(l, "table", r[1], 0)

\* send_burst, from send_single_packet or the drain: the table of a port that
\* the lcore received from.
SendTable(l) == \E r \in Polls(l) : Send(l, "table", r[1], tx_queue_id[l][r[1]])

\* Mistake: the next queue.
SendReply_next(l) == \E r \in Polls(l) : Send(l, "reply", r[1], r[2] + 1)

\* send_pid_a, send_pid_b, send_ack.
SendReply(l) == \E r \in Polls(l) : Send(l, "reply", r[1], r[2])

\* get_packets_forward: the port of the path, or what port_id happens to be if
\* lunxun chose none.
SendGet(l) ==
    \E p \in PathPorts \cup (IF overlapped THEN StrayPorts ELSE {}) : Send(l, "get", p, 0)

\* announce_ip_nid_ip, after an ack was sent or received.
SendAnnounce(l) == Send(l, "announce", 0, 0)

\* The call returns.
Sent(l) ==
    /\ pc = "run"
    /\ sending[l] \notin {Idle, Choosing}
    /\ sending' = [sending EXCEPT ![l] = Idle]
    /\ UNCHANGED <<startVars, overlapped>>

Next ==
    \/ Start
    \/ \E l \in lcores :
         \/ ChoosePath(l)
         \/ SendTable(l) \/ SendReply(l) \/ SendGet(l) \/ SendAnnounce(l)
         \/ Sent(l)

Spec == Init /\ [][Next]_txVars

-----------------------------------------------------------------------------
(* Properties *)

\* Two lcores are in the same transmit queue only if one of them sends a
\* reply, a GET or an announcement.
TablesAlone ==
    \A k, l \in lcores :
        k # l /\ sending[k].how = "table" /\ sending[l].how = "table"
            => <<sending[k].port, sending[k].queue>> # <<sending[l].port, sending[l].queue>>

\* Once it runs, the program uses a port or queue that was never set up only
\* for one of three causes: a port of a path or port 0 is not enabled, an rx
\* queue has a higher number than there are lcores for, or two lcores chose a
\* path at the same time, after which a GET may go to any port.
Fits ==
    /\ PathPorts \cup {0} \subseteq Enabled
    /\ \A i \in DOMAIN params : params[i][2] < n_tx_queue
QueuesExist == pc = "dead" => ~Fits \/ ~WellFormed \/ overlapped
=============================================================================
