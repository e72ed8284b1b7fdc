----------------------------- MODULE FlowServer -----------------------------
(***************************************************************************)
(* The flow server (server/flow_generator2.c): for every GET a thread that *)
(* sends a flow of DATA packets.                                           *)
(*                                                                         *)
(* The thread's argument is one structure of main's, which main overwrites *)
(* with the next GET whether or not the thread has copied it.  Two fields, *)
(* flow_packets and flow_size, stand for all of it: flow_time only decides *)
(* how long a thread sleeps between packets.  thread_num is written and    *)
(* never read, and is left out.                                            *)
(*                                                                         *)
(* A definition marked "Mistake" is a wrong version of the one after it;   *)
(* with it in place a property must fail.                                  *)
(***************************************************************************)
EXTENDS Integers

CONSTANTS
    Packets,     \* values of cc_flow_packets
    Sizes,       \* values of cc_flow_size
    MaxGets      \* bound: GETs

ASSUME FlowAssumption ==
    /\ Packets \subseteq Nat
    /\ Sizes \subseteq Nat
    /\ MaxGets \in Nat

Gets == 1..MaxGets
Flow == [flow_packets : Packets, flow_size : Sizes]
NoFlow == [flow_packets |-> 0, flow_size |-> 0]

VARIABLES
    A,           \* the shared argument
    get,         \* the flows of the GETs received
    gets,        \* their number
    main,        \* where main is
    at, B,       \* per thread: where it is and its copy of A
    sent,        \* per thread: bytes of content sent
    alive,       \* the server has not died
    overtaken    \* history: threads whose argument was touched before they
                 \* had copied it

flowVars == <<A, get, gets, main, at, B, sent, alive, overtaken>>

-----------------------------------------------------------------------------
Header == 14 + 84        \* Ethernet, struct data_header

\* A frame has at most 1400 bytes; what exceeds it is cut off.
Content(psize) == IF psize + Header > 1400 THEN 1400 - Header ELSE psize

\* Mistake: the last packet is sent on top of the others.
FlowSentMore(f) ==
    LET psize == f.flow_size \div f.flow_packets
        lastpsize == f.flow_size % f.flow_packets
    IN  f.flow_packets * Content(psize) + lastpsize + psize

\* Bytes of content that a thread sends: packets of equal size and, if there
\* is a remainder, a last one of that size in place of one of them.  Large
\* packets are replaced by as many as 1514 bytes each would need.
FlowSent(f) ==
    LET psize == f.flow_size \div f.flow_packets
        large == psize > 1514
        unit == IF large THEN 1514 ELSE f.flow_packets
        lastpsize == f.flow_size % unit
        packets == IF large
                   THEN f.flow_size \div 1514 + (IF lastpsize = 0 THEN 0 ELSE 1)
                   ELSE f.flow_packets
    IN  IF lastpsize = 0
        THEN packets * Content(psize)
        ELSE (packets - 1) * Content(psize) + Content(lastpsize)

-----------------------------------------------------------------------------
FlowInit ==
    /\ A = NoFlow
    /\ get = [g \in Gets |-> NoFlow]
    /\ gets = 0
    /\ main = "recv"
    /\ at = [g \in Gets |-> "none"]
    /\ B = [g \in Gets |-> NoFlow]
    /\ sent = [g \in Gets |-> 0]
    /\ alive = TRUE
    /\ overtaken = {}

\* Threads that have not copied their argument yet.
Copying == {g \in Gets : at[g] \in {"packets", "size"}}

\* A GET arrives (other packets are skipped); its number of packets is stored.
ReceiveGet(f) ==
    /\ main = "recv"
    /\ gets < MaxGets
    /\ gets' = gets + 1
    /\ get' = [get EXCEPT ![gets + 1] = f]
    /\ A' = [A EXCEPT !.flow_packets = f.flow_packets]
    /\ overtaken' = overtaken \cup Copying
    /\ main' = "store"
    /\ UNCHANGED <<at, B, sent, alive>>

StoreSize ==
    /\ main = "store"
    /\ A' = [A EXCEPT !.flow_size = get[gets].flow_size]
    /\ overtaken' = overtaken \cup Copying
    /\ main' = "create"
    /\ UNCHANGED <<get, gets, at, B, sent, alive>>

\* recvfrom fails.
RecvError ==
    /\ main = "recv"
    /\ alive' = FALSE
    /\ UNCHANGED <<A, get, gets, main, at, B, sent, overtaken>>

\* The GET asks for no time and more than 10 packets.
DataError ==
    /\ main = "create"
    /\ get[gets].flow_packets > 10
    /\ alive' = FALSE
    /\ UNCHANGED <<A, get, gets, main, at, B, sent, overtaken>>

\* pthread_create fails.
CreateError ==
    /\ main = "create"
    /\ alive' = FALSE
    /\ UNCHANGED <<A, get, gets, main, at, B, sent, overtaken>>

\* Mistake: the argument is cleared for the next GET.
CreateCleared ==
    /\ main = "create"
    /\ at' = [at EXCEPT ![gets] = "packets"]
    /\ A' = NoFlow
    /\ main' = "recv"
    /\ UNCHANGED <<get, gets, B, sent, alive, overtaken>>

Create ==
    /\ main = "create"
    /\ at' = [at EXCEPT ![gets] = "packets"]
    /\ main' = "recv"
    /\ UNCHANGED <<A, get, gets, B, sent, alive, overtaken>>

\* The thread copies its argument.
CopyPackets(g) ==
    /\ at[g] = "packets"
    /\ B' = [B EXCEPT ![g].flow_packets = A.flow_packets]
    /\ at' = [at EXCEPT ![g] = "size"]
    /\ UNCHANGED <<A, get, gets, main, sent, alive, overtaken>>

CopySize(g) ==
    /\ at[g] = "size"
    /\ B' = [B EXCEPT ![g].flow_size = A.flow_size]
    /\ at' = [at EXCEPT ![g] = "send"]
    /\ UNCHANGED <<A, get, gets, main, sent, alive, overtaken>>

\* The flow is sent.
Send(g) ==
    /\ at[g] = "send"
    /\ B[g].flow_packets # 0
    /\ sent' = [sent EXCEPT ![g] = FlowSent(B[g])]
    /\ at' = [at EXCEPT ![g] = "ended"]
    /\ UNCHANGED <<A, get, gets, main, B, alive, overtaken>>

\* No packets: division by zero.
SendNone(g) ==
    /\ at[g] = "send"
    /\ B[g].flow_packets = 0
    /\ alive' = FALSE
    /\ UNCHANGED <<A, get, gets, main, at, B, sent, overtaken>>

\* No socket, or the network card refuses a packet.
SendError(g) ==
    /\ at[g] = "send"
    /\ alive' = FALSE
    /\ UNCHANGED <<A, get, gets, main, at, B, sent, overtaken>>

FlowNext ==
    /\ alive
    /\ \/ \E f \in Flow : ReceiveGet(f)
       \/ StoreSize \/ RecvError \/ DataError \/ CreateError \/ Create
       \/ \E g \in Gets : CopyPackets(g) \/ CopySize(g) \/ Send(g) \/ SendNone(g) \/ SendError(g)

FlowSpec == FlowInit /\ [][FlowNext]_flowVars

-----------------------------------------------------------------------------
(* Properties *)

\* A thread sends the flow of the GET it was created for, unless main received
\* the next GET before the thread had copied its argument.
OwnFlow == \A g \in Gets : at[g] \in {"send", "ended"} => g \in overtaken \/ B[g] = get[g]

\* No flow is larger than asked for, whatever the size, the packets it is
\* divided into and the frames it must fit.
NeverMore == \A g \in Gets : at[g] = "ended" => sent[g] <= B[g].flow_size
=============================================================================
