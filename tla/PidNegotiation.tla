--------------------------- MODULE PidNegotiation ---------------------------
(***************************************************************************)
(* The PID negotiation between resource managers (RM/main.c).              *)
(*                                                                         *)
(* Two neighbouring autonomous systems name the paths between them with    *)
(* PIDs and keep changing those names.  The RM with the lower EID sponsors *)
(* a round:                                                                *)
(*                                                                         *)
(*      sponsor  -- request -->  responder     (proposes new PIDs)         *)
(*      sponsor  <--   a    --   responder                                 *)
(*      sponsor  --   b     -->  responder     (proposal moved off the     *)
(*                                              PIDs the sponsor knows)    *)
(*      sponsor  <--  ack   --   responder     (acknowledges, then adopts) *)
(*                                                                         *)
(* A b whose PIDs the responder already uses is answered with another a.   *)
(* Nothing is numbered, acknowledged or retried, rounds of one RM with     *)
(* several neighbours run side by side, and a sponsor remembers the        *)
(* proposal between a and ack in variables of main_loop.                   *)
(*                                                                         *)
(* One polling lcore handles one packet at a time.  The handlers of b and  *)
(* ack go on after the chain is changed: the table is updated, then the    *)
(* border routers are told.  Meanwhile the lcore takes no other packet,    *)
(* but the timer on another lcore reads the table for its request.  The    *)
(* chain is read by the handlers only, so its change is part of the step   *)
(* that answers the b or takes the ack.                                    *)
(*                                                                         *)
(* A definition marked "Mistake" is a wrong version of the one after it;   *)
(* with it in place a property must fail.                                  *)
(***************************************************************************)
EXTENDS Naturals, Sequences, FiniteSets

CONSTANTS
    Links,        \* pairs <<sponsor, responder>> of EIDs
    NumberPid,    \* PIDs (paths) of a link: number_pid of its chain entries
    InitPid,      \* the configured PIDs of every link
    Draws,        \* the outcomes of rand()%101 that are explored
    Garbage,      \* what the uninitialised variables of main_loop hold
    MaxRequests   \* bound: requests sent on each link

PidSpace == 100   \* proposals are taken modulo 100

Paths == 1..NumberPid
PidVector == [Paths -> Nat]

(***************************************************************************)
(* An end <<x, y>> is RM x's view of its link with y: the chain entry for  *)
(* y and the rows of the table with eid1 = x and eid2 = y.                 *)
(***************************************************************************)
Peer(e) == <<e[2], e[1]>>
Ends == Links \cup {Peer(l) : l \in Links}
RMs == {e[1] : e \in Ends}
EndsOf(x) == {e \in Ends : e[1] = x}
LinkOf(e) == IF e \in Links THEN e ELSE Peer(e)

ASSUME LinksAssumption ==
    /\ Links \subseteq Nat \X Nat
    /\ IsFiniteSet(Links)
    /\ \A l \in Links : l[1] < l[2]
ASSUME PidsAssumption ==
    /\ NumberPid \in 1..20
    /\ InitPid \in [Links -> PidVector]
    /\ \A l \in Links : \A i, j \in Paths :
         InitPid[l][i] % PidSpace = InitPid[l][j] % PidSpace => i = j
    /\ \A k, l \in Links : \A i, j \in Paths :
         InitPid[k][i] = InitPid[l][j] => k = l
ASSUME BoundsAssumption ==
    /\ Draws \subseteq 0..100
    /\ Garbage \in Nat
    /\ MaxRequests \in [Links -> Nat]

VARIABLES
    pid,          \* item.pid of a chain entry
    changeTime,   \* item.pid_change_time of a chain entry
    table,        \* the pid column of the rows of an end
    pidCache,     \* pid_huancun_pid_a[ID]: one row per neighbour
    timeCache,    \* time_huancun_pid_a: one variable per RM
    handler,      \* what the handler of the link at e[1] still has to do
    announced,    \* PIDs told to the border routers of e[1] for the link
    chan,         \* chan[e]: control packets from e[1] to e[2], in order
    sent,         \* number of requests sent on a link
    lost,         \* history: links on which a packet was lost
    overlapped,   \* history: links on which a round began during another
    refused       \* history: ends of which the card refused an announcement

local == <<pid, changeTime>>
rows == <<table, announced, refused>>
cache == <<pidCache, timeCache>>
history == <<sent, lost, overlapped>>
vars == <<pid, changeTime, table, handler, pidCache, timeCache, announced,
          chan, sent, lost, overlapped, refused>>

-----------------------------------------------------------------------------
(* Control packets.  via is the PID the packet is tagged with for its first *)
(* border router.                                                          *)

Bare == [kind : {"request", "ack"}, via : Nat]
Proposal == [kind : {"a", "b"}, via : Nat, pid : PidVector, time : Nat]
Message == Bare \cup Proposal

PidsOf(v) == {v[i] : i \in Paths}
Shift(v, n) == [i \in Paths |-> v[i] + n]

\* The PID of the first row of the table for the neighbour.
find_ip_or_pid(e) == table[e][1]

\* The rows of other links: part of the common table, never updated at x.
ForeignPids(x) ==
    UNION {PidsOf(InitPid[l]) : l \in {k \in Links : x \notin {k[1], k[2]}}}

\* Every pid of nid_ip_nid_ip_nid_array at RM x.
TablePids(x) == UNION {PidsOf(table[e]) : e \in EndsOf(x)} \cup ForeignPids(x)

\* Every pid of the chain of neighbours at RM x.
ChainPids(x) == UNION {PidsOf(pid[e]) : e \in EndsOf(x)}

\* Number of rows times PIDs of a proposal: each step of the a loop that
\* collides does so with a different pair.
MaxSteps == Cardinality(Links) * NumberPid * NumberPid

Pending(e) == chan[Peer(e)] # <<>>
Received(e) == Head(chan[Peer(e)])

Busy(x) == \E e \in EndsOf(x) : handler[e] # "idle"

Handle(e, kind) == ~Busy(e[1]) /\ Pending(e) /\ Received(e).kind = kind

\* The packet is taken from the queue and nothing is sent.
Consume(e) == chan' = [chan EXCEPT ![Peer(e)] = Tail(@)]

\* The packet is taken from the queue and answered.
Reply(e, m) ==
    chan' = [chan EXCEPT ![Peer(e)] = Tail(@), ![e] = Append(@, m)]

\* New PIDs and time in the chain; the rest of the handler follows.
Adopt(e, v, t) ==
    /\ pid' = [pid EXCEPT ![e] = v]
    /\ changeTime' = [changeTime EXCEPT ![e] = t]
    /\ handler' = [handler EXCEPT ![e] = "update"]
    /\ UNCHANGED rows

-----------------------------------------------------------------------------
(* The shared table is turned so that the host is eid1 and the chain is     *)
(* built from it.  The border routers start with the configured PIDs.      *)
Init ==
    /\ pid = [e \in Ends |-> InitPid[LinkOf(e)]]
    /\ changeTime = [e \in Ends |-> 30]
    /\ table = [e \in Ends |-> InitPid[LinkOf(e)]]
    /\ handler = [e \in Ends |-> "idle"]
    /\ pidCache = [e \in Ends |-> [i \in Paths |-> Garbage]]
    /\ timeCache = [x \in RMs |-> Garbage]
    /\ announced = [e \in Ends |-> PidsOf(InitPid[LinkOf(e)])]
    /\ chan = [e \in Ends |-> <<>>]
    /\ sent = [l \in Links |-> 0]
    /\ lost = {}
    /\ overlapped = {}
    /\ refused = {}

send_pid_change_request(l) ==
    chan' = [chan EXCEPT ![l] =
        Append(@, [kind |-> "request", via |-> find_ip_or_pid(l)])]

\* The timer of the sponsor, on an lcore of its own: new PIDs are asked for.
SendRequest(l) ==
    /\ sent[l] < MaxRequests[l]
    /\ send_pid_change_request(l)
    /\ sent' = [sent EXCEPT ![l] = @ + 1]
    /\ overlapped' = IF chan[l] = <<>> /\ chan[Peer(l)] = <<>>
                     THEN overlapped ELSE overlapped \cup {l}
    /\ UNCHANGED <<local, handler, rows, cache, lost>>

\* Mistake: every PID is computed from the first.
ShiftModFirst(v, n) == [i \in Paths |-> (v[1] + n) % PidSpace]

\* All PIDs of a link move by the same number.
ShiftMod(v, n) == [i \in Paths |-> (v[i] + n) % PidSpace]

\* A request is answered with the current PIDs plus a random number.
RecvRequest(e, draw) ==
    /\ Handle(e, "request")
    /\ Reply(e, [kind |-> "a", via |-> find_ip_or_pid(e),
                 pid |-> ShiftMod(pid[e], draw),
                 time |-> (changeTime[e] + draw) % PidSpace])
    /\ UNCHANGED <<local, handler, rows, cache, history>>

\* A proposal is stored, moved by a random step until none of its PIDs is in
\* the table, and sent back.
RecvA(e, draw) ==
    /\ Handle(e, "a")
    /\ \E n \in 0..MaxSteps :
         LET moved(k) == Shift(Received(e).pid, k * (draw + 1))
             free(k) == PidsOf(moved(k)) \cap TablePids(e[1]) = {}
         IN  /\ free(n)
             /\ \A k \in 0..(n - 1) : ~free(k)
             /\ pidCache' = [pidCache EXCEPT ![e] = moved(n)]
             /\ Reply(e, [kind |-> "b", via |-> find_ip_or_pid(e),
                          pid |-> moved(n), time |-> Received(e).time])
    /\ timeCache' = [timeCache EXCEPT ![e[1]] = Received(e).time]
    /\ UNCHANGED <<local, handler, rows, history>>

\* Mistake: only the entry of the neighbour is compared.
AckYesOwn(e, v) == PidsOf(v) \cap PidsOf(pid[e]) = {}

\* ACK_YES: none of the PIDs is in the chain.
AckYes(e, v) == PidsOf(v) \cap ChainPids(e[1]) = {}

\* Mistake: adopted without an ack.
RecvBAcceptSilent(e) ==
    /\ Handle(e, "b")
    /\ AckYes(e, Received(e).pid)
    /\ Consume(e)
    /\ Adopt(e, Received(e).pid, Received(e).time)
    /\ UNCHANGED <<cache, history>>

\* Mistake: the ack is tagged with a new PID.
RecvBAcceptNewTag(e) ==
    /\ Handle(e, "b")
    /\ AckYes(e, Received(e).pid)
    /\ Reply(e, [kind |-> "ack", via |-> Received(e).pid[1]])
    /\ Adopt(e, Received(e).pid, Received(e).time)
    /\ UNCHANGED <<cache, history>>

\* A counter-proposal that is free here: the ack leaves first, under the old
\* PID, then the PIDs are adopted.
RecvBAccept(e) ==
    /\ Handle(e, "b")
    /\ AckYes(e, Received(e).pid)
    /\ Reply(e, [kind |-> "ack", via |-> find_ip_or_pid(e)])
    /\ Adopt(e, Received(e).pid, Received(e).time)
    /\ UNCHANGED <<cache, history>>

\* Mistake: the rejected PIDs are proposed again.
RecvBRejectSame(e, draw) ==
    /\ Handle(e, "b")
    /\ ~AckYes(e, Received(e).pid)
    /\ Reply(e, [kind |-> "a", via |-> find_ip_or_pid(e),
                 pid |-> Received(e).pid, time |-> Received(e).time])
    /\ UNCHANGED <<local, handler, rows, cache, history>>

\* A counter-proposal that is not: it is moved and proposed again.
RecvBReject(e, draw) ==
    /\ Handle(e, "b")
    /\ ~AckYes(e, Received(e).pid)
    /\ Reply(e, [kind |-> "a", via |-> find_ip_or_pid(e),
                 pid |-> ShiftMod(Received(e).pid, draw + 1),
                 time |-> (Received(e).time + draw + 1) % PidSpace])
    /\ UNCHANGED <<local, handler, rows, cache, history>>

\* Mistake: the time is not taken over.
RecvAckOldTime(e) ==
    /\ Handle(e, "ack")
    /\ Consume(e)
    /\ Adopt(e, pidCache[e], changeTime[e])
    /\ UNCHANGED <<cache, history>>

\* An ack adopts whatever the variables hold.
RecvAck(e) ==
    /\ Handle(e, "ack")
    /\ Consume(e)
    /\ Adopt(e, pidCache[e], timeCache[e[1]])
    /\ UNCHANGED <<cache, history>>

\* The chain's new PIDs go to the rows of the link.
update_nid_ip_nid_ip_nid(e) ==
    /\ handler[e] = "update"
    /\ table' = [table EXCEPT ![e] = pid[e]]
    /\ handler' = [handler EXCEPT ![e] = "announce"]
    /\ UNCHANGED <<local, announced, refused, cache, chan, history>>

\* Mistake: only the first row is announced.
AnnounceFirstRow(e) ==
    /\ handler[e] = "announce"
    /\ handler' = [handler EXCEPT ![e] = "idle"]
    /\ announced' = [announced EXCEPT ![e] = @ \cup {table[e][1]}]
    /\ UNCHANGED <<local, table, refused, cache, chan, history>>

\* Every row is announced to every border router.  The card may refuse any of
\* these packets, which are then gone: only the PIDs in "told" reach all of
\* the routers.
announce_ip_nid_ip(e) ==
    /\ handler[e] = "announce"
    /\ handler' = [handler EXCEPT ![e] = "idle"]
    /\ \E told \in SUBSET PidsOf(table[e]) :
         /\ announced' = [announced EXCEPT ![e] = @ \cup told]
         /\ refused' = IF told = PidsOf(table[e]) THEN refused
                       ELSE refused \cup {e}
    /\ UNCHANGED <<local, table, cache, chan, history>>

\* rte_eth_tx_burst sends nothing, or a queue on the way drops the packet;
\* nobody sends it again.
Lose(e) ==
    /\ Pending(e)
    /\ Consume(e)
    /\ lost' = lost \cup {LinkOf(e)}
    /\ UNCHANGED <<local, handler, rows, cache, sent, overlapped>>

Receive(e) ==
    \/ \E draw \in Draws : RecvRequest(e, draw)
    \/ \E draw \in Draws : RecvA(e, draw)
    \/ RecvBAccept(e)
    \/ \E draw \in Draws : RecvBReject(e, draw)
    \/ RecvAck(e)

HandlerGoesOn(e) == update_nid_ip_nid_ip_nid(e) \/ announce_ip_nid_ip(e)

Next ==
    \/ \E l \in Links : SendRequest(l)
    \/ \E e \in Ends : Receive(e)
    \/ \E e \in Ends : HandlerGoesOn(e)
    \/ \E e \in Ends : Lose(e)

Spec == Init /\ [][Next]_vars

-----------------------------------------------------------------------------
(* main_loop polls every receive queue for ever, so a waiting packet is     *)
(* handled; rand() is reseeded with the clock, so a handler that runs again *)
(* and again rejects with every number again and again.  Under these assumptions  *)
(* and a network that loses nothing, rounds come to an end.                *)

NextReliable ==
    \/ \E l \in Links : SendRequest(l)
    \/ \E e \in Ends : Receive(e)
    \/ \E e \in Ends : HandlerGoesOn(e) /\ refused' = refused

Fairness ==
    /\ \A e \in Ends : WF_vars(Receive(e) \/ HandlerGoesOn(e))
    /\ \A l \in Links : \A draw \in Draws : SF_vars(RecvBReject(Peer(l), draw))

LiveSpec == Init /\ [][NextReliable]_vars /\ Fairness

-----------------------------------------------------------------------------
(* Properties *)

\* No packet of the link is under way or being handled.
Quiescent(l) ==
    \A e \in {l, Peer(l)} : chan[e] = <<>> /\ handler[e] = "idle"
Sponsored(x) == {l \in Links : l[1] = x}

\* Types of the variables.
TypeOK ==
    /\ pid \in [Ends -> PidVector]
    /\ changeTime \in [Ends -> Nat]
    /\ table \in [Ends -> PidVector]
    /\ handler \in [Ends -> {"idle", "update", "announce"}]
    /\ pidCache \in [Ends -> PidVector]
    /\ timeCache \in [RMs -> Nat]
    /\ announced \in [Ends -> SUBSET Nat]
    /\ chan \in [Ends -> Seq(Message)]
    /\ sent \in [Links -> Nat]
    /\ lost \subseteq Links
    /\ overlapped \subseteq Links
    /\ refused \subseteq Ends

\* The paths of one link keep distinct PIDs, whatever rounds run, are lost or
\* overlap, although every proposal is reduced modulo 100 and an ack adopts
\* variables that start uninitialised.
LinkDistinct ==
    \A e \in Ends : \A i, j \in Paths : pid[e][i] = pid[e][j] => i = j

\* The links on which an RM is the responder never share a PID: the pid_b
\* handler compares a proposal with the whole chain before it adopts it.
ResponderDistinct ==
    \A k, l \in Links :
        k # l /\ k[2] = l[2] => PidsOf(pid[Peer(k)]) \cap PidsOf(pid[Peer(l)]) = {}

\* When no packet of a link is under way and none was lost, both ends have
\* the same PIDs, even if rounds overlapped and acks met a newer proposal in
\* the sponsor's variables.
QuiescentAgreement ==
    \A l \in Links :
        Quiescent(l) /\ l \notin lost => pid[l] = pid[Peer(l)]

\* The same of the change time, for a sponsor of one link only: the time is
\* kept in one variable for all neighbours.
TimeAgreementOne ==
    \A l \in Links :
        Quiescent(l) /\ l \notin lost /\ Sponsored(l[1]) = {l} =>
            changeTime[l] = changeTime[Peer(l)]

\* A sponsor uses only PIDs that the responder has told its own border
\* routers, so that data returning over the link finds its way, as long as
\* rounds of a link do not overlap; losses of control packets do not matter.
\* Two windows are excepted.  The responder acknowledges before it announces,
\* so the sponsor may be ahead until the responder's handler is through; and
\* an announcement that the card refuses is not repeated.
SponsorPidsKnown ==
    \A l \in Links \ overlapped :
        handler[Peer(l)] = "idle" /\ Peer(l) \notin refused =>
            PidsOf(pid[l]) \subseteq announced[Peer(l)]

\* A control packet is tagged with a PID that the border routers on its side
\* were told, so a, b and ack leave under the old PID or after the whole
\* announcement.  Excepted are an end of which the card refused an
\* announcement, and a request that the timer sends between the update of the
\* table and the announcement.
ViaKnown ==
    \A e \in Ends \ refused : \A i \in DOMAIN chan[e] :
        \/ chan[e][i].via \in announced[e]
        \/ chan[e][i].kind = "request" /\ handler[e] = "announce"

\* Every round ends.
Settles == <>[](\A l \in Links : Quiescent(l))
=============================================================================
