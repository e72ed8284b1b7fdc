------------------------------ MODULE DataPlane ------------------------------
(***************************************************************************)
(* The packet loop of the resource manager (main_loop of RM/main.c) on     *)
(* several lcores, and who owns a packet buffer.                           *)
(*                                                                         *)
(* Each lcore polls one port.  Depending on the packet the buffer is freed,*)
(* handed to the network card, put into the lcore's transmit table, or     *)
(* forgotten.  Control packets are answered with buffers of the same pool, *)
(* which the sending functions both hand to the card and free.             *)
(*                                                                         *)
(* A definition marked "Mistake" is a wrong version of the one after it;   *)
(* with it in place a property must fail.                                  *)
(***************************************************************************)
EXTENDS Naturals, Sequences, FiniteSets

CONSTANTS
    Lcores,
    Mbufs,        \* the buffers of pktmbuf_pool
    NoMbuf,       \* no buffer
    Burst,        \* MAX_PKT_BURST
    MaxReplies    \* bound: control packets sent in answer to one

ASSUME DataPlaneAssumption ==
    /\ NoMbuf \notin Mbufs
    /\ Burst \in Nat \ {0}
    /\ MaxReplies \in Nat

(***************************************************************************)
(* What main_loop makes of a packet:                                       *)
(*   hello    trap GET with the trap SID of a known host: reflected        *)
(*   consumed trap DATA of a known host, or an invalid GET: freed          *)
(*   ignored  any other trap packet, an IPv4 packet that is neither GET    *)
(*            nor control, or no IPv4 packet: nobody frees it              *)
(*   control  answered, then freed                                         *)
(*   get      given a PID and forwarded                                    *)
(***************************************************************************)
Kinds == {"hello", "consumed", "ignored", "control", "get"}

VARIABLES
    pool,         \* free buffers
    nic,          \* buffers the network card is to send and then to free
    table,        \* tx_mbufs of the lcore's port
    cur,          \* the buffer an lcore is working on
    pc,           \* where it is
    todo,         \* answers still to be sent for a control packet
    sender,       \* history: buffers that carried an answer
    crashed       \* the process is gone

mem == <<pool, nic, table>>
core == <<cur, pc, todo>>
vars == <<pool, nic, table, cur, pc, todo, sender, crashed>>

Elems(s) == {s[i] : i \in DOMAIN s}
InTable(m) == \E c \in Lcores : m \in Elems(table[c])
InUse(m) == \E c \in Lcores : cur[c] = m

-----------------------------------------------------------------------------
Init ==
    /\ pool = Mbufs
    /\ nic = {}
    /\ table = [c \in Lcores |-> <<>>]
    /\ cur = [c \in Lcores |-> NoMbuf]
    /\ pc = [c \in Lcores |-> "poll"]
    /\ todo = [c \in Lcores |-> 0]
    /\ sender = {}
    /\ crashed = FALSE

\* A packet arrives in a buffer of the pool.
Rx(c, m, kind) ==
    /\ pc[c] = "poll"
    /\ m \in pool
    /\ pool' = pool \ {m}
    /\ cur' = [cur EXCEPT ![c] = m]
    /\ pc' = [pc EXCEPT ![c] = kind]
    /\ \E n \in 0..MaxReplies :
         todo' = [todo EXCEPT ![c] = IF kind = "control" THEN n ELSE 0]
    /\ UNCHANGED <<nic, table, sender, crashed>>

\* The lcore is done with its packet.
Done(c) ==
    /\ pc' = [pc EXCEPT ![c] = "poll"]
    /\ cur' = [cur EXCEPT ![c] = NoMbuf]

\* Mistake: all buffers are freed when the card does not take all.
send_burst_free_all(bufs, n) ==
    /\ nic' = nic \cup {bufs[i] : i \in 1..n}
    /\ pool' = IF n < Len(bufs) THEN pool \cup Elems(bufs) ELSE pool

\* Mistake: the buffers the card does not take are not freed.
send_burst_free_none(bufs, n) ==
    /\ nic' = nic \cup {bufs[i] : i \in 1..n}
    /\ pool' = pool

\* send_burst: the card takes the first n of the buffers, the rest are freed.
send_burst(bufs, n) ==
    /\ nic' = nic \cup {bufs[i] : i \in 1..n}
    /\ pool' = pool \cup {bufs[i] : i \in (n + 1)..Len(bufs)}

\* The transmit table holds a whole burst.
Full(bufs) == Len(bufs) = Burst

\* send_single_packet on the port the hello came from.
Reflect(c) ==
    /\ pc[c] = "hello"
    /\ LET bufs == Append(table[c], cur[c])
       IN  IF Full(bufs)
           THEN /\ \E n \in 0..Len(bufs) : send_burst(bufs, n)
                /\ table' = [table EXCEPT ![c] = <<>>]
           ELSE /\ table' = [table EXCEPT ![c] = bufs]
                /\ UNCHANGED <<pool, nic>>
    /\ Done(c)
    /\ UNCHANGED <<todo, sender, crashed>>

\* The drain at the top of the loop.
Drain(c) ==
    /\ pc[c] = "poll"
    /\ table[c] # <<>>
    /\ \E n \in 0..Len(table[c]) : send_burst(table[c], n)
    /\ table' = [table EXCEPT ![c] = <<>>]
    /\ UNCHANGED <<core, sender, crashed>>

\* rte_pktmbuf_free.
Free(c) ==
    /\ pc[c] = "consumed" \/ (pc[c] = "control" /\ todo[c] = 0)
    /\ pool' = pool \cup {cur[c]}
    /\ Done(c)
    /\ UNCHANGED <<nic, table, todo, sender, crashed>>

\* No branch of main_loop takes the packet.
Ignore(c) ==
    /\ pc[c] = "ignored"
    /\ Done(c)
    /\ UNCHANGED <<mem, todo, sender, crashed>>

\* send_pid_a, send_pid_b, send_ack, send_ip_nid_ip: a buffer is filled, given
\* to the card if it takes it, and freed.  An empty pool is reported and the
\* null pointer used.
SendReply(c) ==
    /\ pc[c] = "control"
    /\ todo[c] > 0
    /\ \/ /\ pool = {}
          /\ crashed' = TRUE
          /\ UNCHANGED <<nic, sender>>
       \/ /\ \E m \in pool :
               /\ nic' \in {nic, nic \cup {m}}
               /\ sender' = sender \cup {m}
          /\ UNCHANGED crashed
    /\ todo' = [todo EXCEPT ![c] = @ - 1]
    /\ UNCHANGED <<pool, table, cur, pc>>

\* The card has sent a buffer and frees it.
NicDone(m) ==
    /\ m \in nic
    /\ nic' = nic \ {m}
    /\ pool' = pool \cup {m}
    /\ UNCHANGED <<table, core, sender, crashed>>

\* get_packets_forward: the card takes the packet or, the result of
\* rte_eth_tx_burst not being looked at, nobody does.
Forward(c) ==
    /\ pc[c] = "get"
    /\ nic' \in {nic, nic \cup {cur[c]}}
    /\ Done(c)
    /\ UNCHANGED <<pool, table, todo, sender, crashed>>

\* ADD_PID found no path: port_id was never set, and what it happens to be is
\* no port with functions to call.
ForwardNowhere(c) ==
    /\ pc[c] = "get"
    /\ crashed' = TRUE
    /\ UNCHANGED <<mem, core, sender>>

Step(c) ==
    \/ Reflect(c)
    \/ Free(c)
    \/ Ignore(c)
    \/ SendReply(c)
    \/ Forward(c)
    \/ ForwardNowhere(c)

Next ==
    /\ ~crashed
    /\ \/ \E c \in Lcores : Step(c) \/ Drain(c)
       \/ \E c \in Lcores : \E m \in Mbufs : \E kind \in Kinds : Rx(c, m, kind)
       \/ \E m \in Mbufs : NicDone(m)

Spec == Init /\ [][Next]_vars

-----------------------------------------------------------------------------
(* Properties *)

\* A buffer has at most one owner: the pool, the card, one slot of one
\* transmit table or one lcore.  The exception are the buffers that carried
\* an answer to a control packet, which the sending functions free while the
\* card has them.
OneOwner ==
    \A m \in Mbufs \ sender :
        /\ m \in pool => m \notin nic /\ ~InTable(m) /\ ~InUse(m)
        /\ m \in nic => ~InTable(m) /\ ~InUse(m)
        /\ InTable(m) => ~InUse(m)
        /\ \A c, d \in Lcores :
             /\ cur[c] = m /\ cur[d] = m => c = d
             /\ \A i \in DOMAIN table[c] : \A j \in DOMAIN table[d] :
                  table[c][i] = m /\ table[d][j] = m => c = d /\ i = j

\* A buffer is lost for good only with a packet no branch takes, or with a
\* GET that the card does not take.
Held(m) == m \in pool \/ m \in nic \/ InTable(m) \/ InUse(m)
LostOnlyHere ==
    [][ \A m \in Mbufs : Held(m) /\ ~Held(m)' =>
          \E c \in Lcores : cur[c] = m /\ pc[c] \in {"ignored", "get"} ]_vars
=============================================================================
