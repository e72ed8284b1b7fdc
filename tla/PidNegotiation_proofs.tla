------------------------ MODULE PidNegotiation_proofs ------------------------
(***************************************************************************)
(* Proofs of the safety properties of PidNegotiation for any set of links, *)
(* any number of PIDs per link, any configured PIDs and any set of random  *)
(* numbers.                                                                *)
(***************************************************************************)
EXTENDS PidNegotiation, TLAPS

-----------------------------------------------------------------------------
(* Facts about ends, vectors of PIDs and queues *)

\* The two ends of a link determine each other and the link.
LEMMA EndFacts ==
    /\ \A e \in Ends : /\ Peer(e) \in Ends
                       /\ Peer(Peer(e)) = e
                       /\ Peer(e) # e
                       /\ e[1] \in RMs
                       /\ LinkOf(e) \in Links
                       /\ LinkOf(Peer(e)) = LinkOf(e)
    /\ \A l \in Links : l \in Ends /\ Peer(l) \notin Links /\ LinkOf(l) = l
    /\ \A e \in Ends : e = LinkOf(e) \/ e = Peer(LinkOf(e))
  BY LinksAssumption DEF Ends, Peer, RMs, LinkOf

\* Adding a number and reducing modulo 100 keeps different residues apart.
LEMMA ModShift ==
    ASSUME NEW a \in Nat, NEW b \in Nat, NEW n \in Nat
    PROVE  /\ (a + n) % 100 = (b + n) % 100 => a % 100 = b % 100
           /\ (a % 100) % 100 = a % 100
           /\ a % 100 \in Nat
  BY SMT

\* The shifts of the request, a and b handlers yield vectors of PIDs.
LEMMA ShiftType ==
    ASSUME NEW v \in PidVector, NEW n \in Nat
    PROVE  Shift(v, n) \in PidVector /\ ShiftMod(v, n) \in PidVector
  BY ModShift DEF Shift, ShiftMod, PidVector, PidSpace

\* Draws are natural numbers, and so are the steps of the a loop.
LEMMA DrawType ==
    ASSUME NEW draw \in Draws
    PROVE  /\ draw \in Nat
           /\ \A k \in Nat : k * (draw + 1) \in Nat
  BY BoundsAssumption

\* There is a first path.
LEMMA FirstPath == 1 \in Paths
  BY PidsAssumption DEF Paths

-----------------------------------------------------------------------------
(* Type correctness *)

\* What a handler needs to know of the packet at the head of its queue.
LEMMA ReceivedType ==
    ASSUME TypeOK, NEW e \in Ends, Pending(e)
    PROVE  /\ Received(e) \in Message
           /\ Tail(chan[Peer(e)]) \in Seq(Message)
           /\ Received(e).kind \in {"a", "b"} =>
                 Received(e).pid \in PidVector /\ Received(e).time \in Nat
  BY EndFacts DEF TypeOK, Pending, Received, Message, Bare, Proposal

\* Answering a packet keeps the queues well typed.
LEMMA ReplyType ==
    ASSUME TypeOK, NEW e \in Ends, Pending(e), NEW m \in Message, Reply(e, m)
    PROVE  chan' \in [Ends -> Seq(Message)]
  <1>1. Tail(chan[Peer(e)]) \in Seq(Message) /\ Append(chan[e], m) \in Seq(Message)
    BY ReceivedType DEF TypeOK
  <1>. QED
    BY <1>1, EndFacts DEF TypeOK, Reply

\* So does taking one.
LEMMA ConsumeType ==
    ASSUME TypeOK, NEW e \in Ends, Pending(e), Consume(e)
    PROVE  chan' \in [Ends -> Seq(Message)]
  BY ReceivedType, EndFacts DEF TypeOK, Consume

\* Adopting PIDs keeps the chain and the handler's place well typed.
LEMMA AdoptType ==
    ASSUME TypeOK, NEW e \in Ends, NEW v \in PidVector, NEW t \in Nat,
           Adopt(e, v, t)
    PROVE  /\ pid' \in [Ends -> PidVector]
           /\ changeTime' \in [Ends -> Nat]
           /\ handler' \in [Ends -> {"idle", "update", "announce"}]
           /\ table' = table /\ announced' = announced /\ refused' = refused
  BY DEF TypeOK, Adopt, rows

\* What the handlers of b and ack do after the chain is changed.
LEMMA GoesOnType ==
    ASSUME TypeOK, NEW e \in Ends, HandlerGoesOn(e)
    PROVE  TypeOK'
  <1>1. CASE update_nid_ip_nid_ip_nid(e)
    BY <1>1 DEF TypeOK, update_nid_ip_nid_ip_nid, local, cache, history
  <1>2. CASE announce_ip_nid_ip(e)
    <2>1. PICK told \in SUBSET PidsOf(table[e]) :
            /\ announced' = [announced EXCEPT ![e] = @ \cup told]
            /\ refused' \in {refused, refused \cup {e}}
      BY <1>2 DEF announce_ip_nid_ip
    <2>2. PidsOf(table[e]) \subseteq Nat
      BY DEF TypeOK, PidsOf, PidVector
    <2>3. announced' \in [Ends -> SUBSET Nat] /\ refused' \subseteq Ends
      BY <2>1, <2>2 DEF TypeOK
    <2>4. handler' \in [Ends -> {"idle", "update", "announce"}]
      BY <1>2 DEF TypeOK, announce_ip_nid_ip
    <2>. QED
      BY <1>2, <2>3, <2>4 DEF TypeOK, announce_ip_nid_ip, local, cache, history
  <1>. QED
    BY <1>1, <1>2 DEF HandlerGoesOn

\* Every variable of the model keeps its type: in particular every queue
\* holds well-formed packets and every handler stores well-formed vectors.
THEOREM TypeCorrect == Spec => []TypeOK
<1>1. Init => TypeOK
  <2>. SUFFICES ASSUME Init PROVE TypeOK
    OBVIOUS
  <2>1. \A e \in Ends : InitPid[LinkOf(e)] \in PidVector
    BY EndFacts, PidsAssumption
  <2>2. \A e \in Ends : PidsOf(InitPid[LinkOf(e)]) \subseteq Nat
    BY <2>1 DEF PidsOf, PidVector
  <2>3. [i \in Paths |-> Garbage] \in PidVector
    BY BoundsAssumption DEF PidVector
  <2>. QED
    BY <2>1, <2>2, <2>3, BoundsAssumption DEF Init, TypeOK
<1>2. TypeOK /\ [Next]_vars => TypeOK'
  <2>. SUFFICES ASSUME TypeOK, [Next]_vars PROVE TypeOK'
    OBVIOUS
  <2>0. \A e \in Ends : find_ip_or_pid(e) \in Nat
    BY FirstPath DEF TypeOK, find_ip_or_pid, PidVector
  <2>1. ASSUME NEW l \in Links, SendRequest(l) PROVE TypeOK'
    <3>1. [kind |-> "request", via |-> find_ip_or_pid(l)] \in Message
      BY <2>0, EndFacts DEF Message, Bare
    <3>2. chan' \in [Ends -> Seq(Message)]
      BY <2>1, <3>1, EndFacts DEF TypeOK, SendRequest, send_pid_change_request
    <3>. QED
      BY <2>1, <3>2 DEF TypeOK, SendRequest, local, rows, cache
  <2>2. ASSUME NEW e \in Ends, NEW draw \in Draws, RecvRequest(e, draw)
        PROVE  TypeOK'
    <3>1. /\ ShiftMod(pid[e], draw) \in PidVector
          /\ (changeTime[e] + draw) % PidSpace \in Nat
      <4>1. pid[e] \in PidVector /\ changeTime[e] \in Nat /\ draw \in Nat
        BY DrawType DEF TypeOK
      <4>2. (changeTime[e] + draw) % 100 \in Nat
        BY <4>1
      <4>. QED
        BY <4>1, <4>2, ShiftType DEF PidSpace
    <3>2. chan' \in [Ends -> Seq(Message)]
      BY <2>0, <2>2, <3>1, ReplyType DEF RecvRequest, Handle, Message, Proposal
    <3>. QED
      BY <2>2, <3>2 DEF TypeOK, RecvRequest, local, rows, cache, history
  <2>3. ASSUME NEW e \in Ends, NEW draw \in Draws, RecvA(e, draw)
        PROVE  TypeOK'
    <3>1. Pending(e) /\ Received(e).pid \in PidVector /\ Received(e).time \in Nat
      BY <2>3, ReceivedType DEF RecvA, Handle
    <3>2. PICK n \in 0..MaxSteps :
            LET w == Shift(Received(e).pid, n * (draw + 1))
            IN  /\ pidCache' = [pidCache EXCEPT ![e] = w]
                /\ Reply(e, [kind |-> "b", via |-> find_ip_or_pid(e),
                             pid |-> w, time |-> Received(e).time])
      BY <2>3 DEF RecvA
    <3>3. Shift(Received(e).pid, n * (draw + 1)) \in PidVector
      BY <3>1, DrawType, ShiftType
    <3>4. chan' \in [Ends -> Seq(Message)]
      BY <2>0, <3>1, <3>2, <3>3, ReplyType DEF Message, Proposal
    <3>5. pidCache' \in [Ends -> PidVector] /\ timeCache' \in [RMs -> Nat]
      BY <2>3, <3>1, <3>2, <3>3, EndFacts DEF TypeOK, RecvA
    <3>. QED
      BY <2>3, <3>4, <3>5 DEF TypeOK, RecvA, local, rows, history
  <2>4. ASSUME NEW e \in Ends, RecvBAccept(e) PROVE TypeOK'
    <3>1. Pending(e) /\ Received(e).pid \in PidVector /\ Received(e).time \in Nat
      BY <2>4, ReceivedType DEF RecvBAccept, Handle
    <3>2. chan' \in [Ends -> Seq(Message)]
      BY <2>0, <2>4, <3>1, ReplyType DEF RecvBAccept, Message, Bare
    <3>. QED
      BY <2>4, <3>1, <3>2, AdoptType DEF TypeOK, RecvBAccept, cache, history
  <2>5. ASSUME NEW e \in Ends, NEW draw \in Draws, RecvBReject(e, draw)
        PROVE  TypeOK'
    <3>1. Pending(e) /\ Received(e).pid \in PidVector /\ Received(e).time \in Nat
      BY <2>5, ReceivedType DEF RecvBReject, Handle
    <3>2. /\ ShiftMod(Received(e).pid, draw + 1) \in PidVector
          /\ (Received(e).time + draw + 1) % PidSpace \in Nat
      <4>1. draw + 1 \in Nat /\ (Received(e).time + draw + 1) % 100 \in Nat
        BY <3>1, DrawType
      <4>. QED
        BY <3>1, <4>1, ShiftType DEF PidSpace
    <3>3. chan' \in [Ends -> Seq(Message)]
      BY <2>0, <2>5, <3>1, <3>2, ReplyType DEF RecvBReject, Message, Proposal
    <3>. QED
      BY <2>5, <3>3 DEF TypeOK, RecvBReject, local, rows, cache, history
  <2>6. ASSUME NEW e \in Ends, RecvAck(e) PROVE TypeOK'
    <3>1. pidCache[e] \in PidVector /\ timeCache[e[1]] \in Nat
      BY EndFacts DEF TypeOK
    <3>2. chan' \in [Ends -> Seq(Message)]
      BY <2>6, ConsumeType DEF RecvAck, Handle
    <3>. QED
      BY <2>6, <3>1, <3>2, AdoptType DEF TypeOK, RecvAck, cache, history
  <2>7. ASSUME NEW e \in Ends, Lose(e) PROVE TypeOK'
    <3>1. chan' \in [Ends -> Seq(Message)]
      BY <2>7, ConsumeType DEF Lose
    <3>. QED
      BY <2>7, <3>1, EndFacts DEF TypeOK, Lose, local, rows, cache
  <2>8. CASE UNCHANGED vars
    BY <2>8 DEF TypeOK, vars
  <2>. QED
    BY <2>1, <2>2, <2>3, <2>4, <2>5, <2>6, <2>7, <2>8, GoesOnType DEF Next, Receive
<1>. QED
  BY <1>1, <1>2, PTL DEF Spec

-----------------------------------------------------------------------------
(* The inductive invariant.  It says what the queues of a link hold, what   *)
(* the sponsor's variables hold while a b or an ack is under way, and what  *)
(* is left of a round once neither a nor b is under way.                    *)

InFlight(e) == {chan[e][i] : i \in 1..Len(chan[e])}
Has(e, kind) == \E m \in InFlight(e) : m.kind = kind

DistinctMod(v) == \A i, j \in Paths : v[i] % PidSpace = v[j] % PidSpace => i = j

\* Sponsors send requests and b, responders a and ack.
Roles ==
    \A l \in Links : /\ \A m \in InFlight(l) : m.kind \in {"request", "b"}
                     /\ \A m \in InFlight(Peer(l)) : m.kind \in {"a", "ack"}

\* All vectors in use, offered or waiting to be adopted are distinct mod 100.
AllDistinct ==
    /\ \A e \in Ends : DistinctMod(pid[e])
    /\ \A e \in Ends : \A m \in InFlight(e) :
         m.kind \in {"a", "b"} => DistinctMod(m.pid)
    /\ \A e \in Ends :
         Has(e, "b") \/ Has(Peer(e), "ack") => DistinctMod(pidCache[e])

\* The youngest b under way is what the sponsor remembers.
LastB ==
    \A e \in Ends : \A i \in 1..Len(chan[e]) :
        /\ chan[e][i].kind = "b"
        /\ \A j \in (i + 1)..Len(chan[e]) : chan[e][j].kind # "b"
        => chan[e][i].pid = pidCache[e]

\* Without a or b under way, the ends agree or will when the acks arrive.
Agree ==
    \A l \in Links \ lost :
        ~Has(l, "b") /\ ~Has(Peer(l), "a") =>
            IF Has(Peer(l), "ack") THEN pid[Peer(l)] = pidCache[l]
                                   ELSE pid[Peer(l)] = pid[l]

Inv == Roles /\ AllDistinct /\ LastB /\ Agree /\ ResponderDistinct

-----------------------------------------------------------------------------
(* What the queue operations do *)

\* Taking the head of a queue.
LEMMA TakeFacts ==
    ASSUME TypeOK, NEW e \in Ends, Pending(e),
           chan'[Peer(e)] = Tail(chan[Peer(e)])
    PROVE  /\ InFlight(Peer(e)) = InFlight(Peer(e))' \cup {Received(e)}
           /\ Received(e) = chan[Peer(e)][1]
           /\ Len(chan'[Peer(e)]) = Len(chan[Peer(e)]) - 1
           /\ Len(chan[Peer(e)]) \in Nat \ {0}
           /\ \A i \in 1..(Len(chan[Peer(e)]) - 1) : chan'[Peer(e)][i] = chan[Peer(e)][i + 1]
  <1>. DEFINE q == chan[Peer(e)]
  <1>1. q \in Seq(Message) /\ q # <<>>
    BY EndFacts DEF TypeOK, Pending
  <1>2. /\ Len(Tail(q)) = Len(q) - 1 /\ Len(q) \in Nat \ {0}
        /\ \A i \in 1..(Len(q) - 1) : Tail(q)[i] = q[i + 1]
        /\ Head(q) = q[1]
    BY <1>1
  <1>3. {q[i] : i \in 1..Len(q)} = {Tail(q)[i] : i \in 1..Len(Tail(q))} \cup {q[1]}
    <2>1. ASSUME NEW i \in 1..Len(q)
          PROVE  q[i] \in {Tail(q)[k] : k \in 1..Len(Tail(q))} \cup {q[1]}
      <3>1. CASE i = 1
        BY <3>1
      <3>2. CASE i # 1
        <4>1. i - 1 \in 1..Len(Tail(q)) /\ q[i] = Tail(q)[i - 1]
          BY <1>2, <3>2
        <4>. QED
          BY <4>1
      <3>. QED
        BY <3>1, <3>2
    <2>2. ASSUME NEW i \in 1..Len(Tail(q))
          PROVE  Tail(q)[i] \in {q[k] : k \in 1..Len(q)}
      <3>1. i + 1 \in 1..Len(q) /\ Tail(q)[i] = q[i + 1]
        BY <1>2
      <3>. QED
        BY <3>1
    <2>3. q[1] \in {q[k] : k \in 1..Len(q)}
      BY <1>2
    <2>. QED
      BY <2>1, <2>2, <2>3
  <1>4. chan'[Peer(e)] = Tail(q) /\ Received(e) = q[1]
    BY <1>2 DEF Received
  <1>5. /\ InFlight(Peer(e)) = {q[i] : i \in 1..Len(q)}
        /\ InFlight(Peer(e))' = {Tail(q)[i] : i \in 1..Len(Tail(q))}
    BY <1>4 DEF InFlight
  <1>6. InFlight(Peer(e)) = InFlight(Peer(e))' \cup {Received(e)}
    BY <1>3, <1>4, <1>5, Zenon
  <1>. QED
    BY <1>2, <1>4, <1>6

\* Appending to a queue.
LEMMA PutFacts ==
    ASSUME TypeOK, NEW e \in Ends, NEW m \in Message,
           chan'[e] = Append(chan[e], m)
    PROVE  /\ InFlight(e)' = InFlight(e) \cup {m}
           /\ Len(chan'[e]) = Len(chan[e]) + 1
           /\ Len(chan[e]) \in Nat
           /\ chan'[e][Len(chan[e]) + 1] = m
           /\ \A i \in 1..Len(chan[e]) : chan'[e][i] = chan[e][i]
  <1>. DEFINE q == chan[e]
              r == Append(q, m)
  <1>1. q \in Seq(Message)
    BY DEF TypeOK
  <1>2. /\ Len(r) = Len(q) + 1 /\ Len(q) \in Nat
        /\ r[Len(q) + 1] = m
        /\ \A i \in 1..Len(q) : r[i] = q[i]
    BY <1>1
  <1>3. {r[i] : i \in 1..Len(r)} = {q[i] : i \in 1..Len(q)} \cup {m}
    <2>. HIDE DEF r
    <2>1. 1..Len(r) = 1..Len(q) \cup {Len(q) + 1}
      BY <1>2
    <2>. QED
      BY <1>2, <2>1, SMTT(30)
  <1>. QED
    BY <1>2, <1>3 DEF InFlight

\* What Reply does to all queues.
LEMMA ReplyFacts ==
    ASSUME TypeOK, NEW e \in Ends, Pending(e), NEW m \in Message, Reply(e, m)
    PROVE  /\ chan'[e] = Append(chan[e], m)
           /\ chan'[Peer(e)] = Tail(chan[Peer(e)])
           /\ InFlight(e)' = InFlight(e) \cup {m}
           /\ InFlight(Peer(e)) = InFlight(Peer(e))' \cup {Received(e)}
           /\ \A f \in Ends \ {e, Peer(e)} :
                chan'[f] = chan[f] /\ InFlight(f)' = InFlight(f)
  <1>1. /\ chan'[e] = Append(chan[e], m)
        /\ chan'[Peer(e)] = Tail(chan[Peer(e)])
        /\ \A f \in Ends \ {e, Peer(e)} : chan'[f] = chan[f]
    BY EndFacts DEF Reply, TypeOK
  <1>2. \A f \in Ends \ {e, Peer(e)} : InFlight(f)' = InFlight(f)
    BY <1>1 DEF InFlight
  <1>3. InFlight(e)' = InFlight(e) \cup {m}
    BY <1>1, PutFacts
  <1>4. InFlight(Peer(e)) = InFlight(Peer(e))' \cup {Received(e)}
    BY <1>1, TakeFacts
  <1>. QED
    BY <1>1, <1>2, <1>3, <1>4

\* What Consume does to all queues.
LEMMA ConsumeFacts ==
    ASSUME TypeOK, NEW e \in Ends, Pending(e), Consume(e)
    PROVE  /\ chan'[Peer(e)] = Tail(chan[Peer(e)])
           /\ InFlight(Peer(e)) = InFlight(Peer(e))' \cup {Received(e)}
           /\ \A f \in Ends \ {Peer(e)} :
                chan'[f] = chan[f] /\ InFlight(f)' = InFlight(f)
  <1>1. /\ chan'[Peer(e)] = Tail(chan[Peer(e)])
        /\ \A f \in Ends \ {Peer(e)} : chan'[f] = chan[f]
    BY EndFacts DEF Consume, TypeOK
  <1>2. \A f \in Ends \ {Peer(e)} : InFlight(f)' = InFlight(f)
    BY <1>1 DEF InFlight
  <1>3. InFlight(Peer(e)) = InFlight(Peer(e))' \cup {Received(e)}
    BY <1>1, TakeFacts
  <1>. QED
    BY <1>1, <1>2, <1>3

\* A queue whose head is taken still ends with the remembered b.
LEMMA LastBTake ==
    ASSUME TypeOK, LastB, NEW e \in Ends, Pending(e),
           chan'[Peer(e)] = Tail(chan[Peer(e)]),
           NEW i \in 1..Len(chan'[Peer(e)]),
           chan'[Peer(e)][i].kind = "b",
           \A j \in (i + 1)..Len(chan'[Peer(e)]) : chan'[Peer(e)][j].kind # "b"
    PROVE  chan'[Peer(e)][i].pid = pidCache[Peer(e)]
  <1>1. /\ Len(chan'[Peer(e)]) = Len(chan[Peer(e)]) - 1
        /\ Len(chan[Peer(e)]) \in Nat \ {0}
        /\ \A k \in 1..(Len(chan[Peer(e)]) - 1) : chan'[Peer(e)][k] = chan[Peer(e)][k + 1]
    BY TakeFacts
  <1>2. i + 1 \in 1..Len(chan[Peer(e)]) /\ chan'[Peer(e)][i] = chan[Peer(e)][i + 1]
    BY <1>1
  <1>3. ASSUME NEW j \in (i + 2)..Len(chan[Peer(e)])
        PROVE  chan[Peer(e)][j].kind # "b"
    <2>1. j - 1 \in (i + 1)..Len(chan'[Peer(e)]) /\ chan'[Peer(e)][j - 1] = chan[Peer(e)][j]
      BY <1>1
    <2>. QED
      BY <2>1
  <1>4. (i + 1) + 1 = i + 2
    BY <1>1
  <1>. QED
    BY <1>2, <1>3, <1>4, EndFacts DEF LastB

\* LastB across an answered packet: a b that is sent is remembered.
LEMMA LastBReply ==
    ASSUME TypeOK, LastB, NEW e \in Ends, Pending(e), NEW m \in Message,
           Reply(e, m),
           \A f \in Ends \ {e} : pidCache'[f] = pidCache[f],
           m.kind = "b" => pidCache'[e] = m.pid,
           m.kind # "b" => pidCache'[e] = pidCache[e]
    PROVE  LastB'
  <1>. SUFFICES ASSUME NEW f \in Ends, NEW i \in 1..Len(chan'[f]),
                       chan'[f][i].kind = "b",
                       \A j \in (i + 1)..Len(chan'[f]) : chan'[f][j].kind # "b"
                PROVE  chan'[f][i].pid = pidCache'[f]
    BY DEF LastB
  <1>1. CASE f = e
    <2>1. /\ Len(chan'[e]) = Len(chan[e]) + 1 /\ Len(chan[e]) \in Nat
          /\ chan'[e][Len(chan[e]) + 1] = m
          /\ \A k \in 1..Len(chan[e]) : chan'[e][k] = chan[e][k]
      BY ReplyFacts, PutFacts
    <2>2. CASE i = Len(chan[e]) + 1
      BY <1>1, <2>1, <2>2
    <2>3. CASE i # Len(chan[e]) + 1
      <3>1. i \in 1..Len(chan[e]) /\ Len(chan[e]) + 1 \in (i + 1)..Len(chan'[e])
        BY <1>1, <2>1, <2>3
      <3>2. m.kind # "b"
        BY <1>1, <2>1, <3>1
      <3>3. \A j \in (i + 1)..Len(chan[e]) : chan[e][j].kind # "b"
        BY <1>1, <2>1, <3>1, SMTT(30)
      <3>. QED
        BY <1>1, <2>1, <3>1, <3>2, <3>3 DEF LastB
    <2>. QED
      BY <2>2, <2>3
  <1>2. CASE f = Peer(e)
    BY <1>2, ReplyFacts, LastBTake, EndFacts
  <1>3. CASE f \notin {e, Peer(e)}
    BY <1>3, ReplyFacts, SMTT(30) DEF LastB
  <1>. QED
    BY <1>1, <1>2, <1>3

\* LastB across a packet that is taken and not answered.
LEMMA LastBConsume ==
    ASSUME TypeOK, LastB, NEW e \in Ends, Pending(e), Consume(e),
           pidCache' = pidCache
    PROVE  LastB'
  <1>. SUFFICES ASSUME NEW f \in Ends, NEW i \in 1..Len(chan'[f]),
                       chan'[f][i].kind = "b",
                       \A j \in (i + 1)..Len(chan'[f]) : chan'[f][j].kind # "b"
                PROVE  chan'[f][i].pid = pidCache[f]
    BY DEF LastB
  <1>1. CASE f = Peer(e)
    BY <1>1, ConsumeFacts, LastBTake
  <1>2. CASE f # Peer(e)
    BY <1>2, ConsumeFacts DEF LastB
  <1>. QED
    BY <1>1, <1>2

\* The head of a queue is the remembered proposal if it is the only b in it.
LEMMA LastBHead ==
    ASSUME TypeOK, LastB, NEW e \in Ends, Handle(e, "b"),
           chan'[Peer(e)] = Tail(chan[Peer(e)]), ~Has(Peer(e), "b")'
    PROVE  Received(e).pid = pidCache[Peer(e)]
  <1>1. /\ Received(e) = chan[Peer(e)][1]
        /\ Len(chan'[Peer(e)]) = Len(chan[Peer(e)]) - 1
        /\ Len(chan[Peer(e)]) \in Nat \ {0}
        /\ \A k \in 1..(Len(chan[Peer(e)]) - 1) : chan'[Peer(e)][k] = chan[Peer(e)][k + 1]
    BY TakeFacts DEF Handle
  <1>2. ASSUME NEW j \in 2..Len(chan[Peer(e)])
        PROVE  chan[Peer(e)][j].kind # "b"
    <2>1. j - 1 \in 1..Len(chan'[Peer(e)]) /\ chan'[Peer(e)][j - 1] = chan[Peer(e)][j]
      BY <1>1
    <2>. QED
      BY <2>1 DEF Has, InFlight
  <1>. QED
    BY <1>1, <1>2, EndFacts DEF LastB, Handle

\* Shifts keep the residues of a vector apart.
LEMMA DistinctShift ==
    ASSUME NEW v \in PidVector, DistinctMod(v), NEW n \in Nat
    PROVE  DistinctMod(Shift(v, n)) /\ DistinctMod(ShiftMod(v, n))
  <1>1. ASSUME NEW i \in Paths, NEW j \in Paths,
               (v[i] + n) % 100 = (v[j] + n) % 100
        PROVE  i = j
    BY <1>1, ModShift DEF DistinctMod, PidVector, PidSpace
  <1>2. \A i \in Paths : ((v[i] + n) % 100) % 100 = (v[i] + n) % 100
    BY ModShift DEF PidVector
  <1>. QED
    BY <1>1, <1>2 DEF DistinctMod, Shift, ShiftMod, PidSpace

-----------------------------------------------------------------------------
(* The invariant is inductive *)

\* The queues of other links are not those of this one.
LEMMA OtherLink ==
    ASSUME NEW e \in Ends, NEW l \in Links, l # LinkOf(e)
    PROVE  l \in Ends \ {e, Peer(e)} /\ Peer(l) \in Ends \ {e, Peer(e)}
  BY LinksAssumption DEF Ends, Peer, LinkOf

\* Requests and b reach responders, a and ack reach sponsors.
LEMMA RoleOfReceiver ==
    ASSUME TypeOK, Roles, NEW e \in Ends, Pending(e)
    PROVE  /\ Received(e) \in InFlight(Peer(e))
           /\ Received(e).kind \in {"request", "b"} => Peer(e) \in Links
           /\ Received(e).kind \in {"a", "ack"} => e \in Links
  <1>1. Received(e) \in InFlight(Peer(e))
    BY EndFacts DEF TypeOK, Pending, Received, InFlight
  <1>. QED
    BY <1>1, EndFacts DEF Roles

\* Agree holds on after an answer that is an a, or that is a b.
LEMMA AgreeBusy ==
    ASSUME TypeOK, Agree, NEW e \in Ends, Pending(e), NEW m \in Message,
           Reply(e, m),
           (m.kind = "a" /\ Peer(e) \in Links) \/ (m.kind = "b" /\ e \in Links),
           pid' = pid, lost' = lost,
           \A f \in Ends \ {e} : pidCache'[f] = pidCache[f]
    PROVE  Agree'
  <1>. SUFFICES ASSUME NEW l \in Links \ lost,
                       ~Has(l, "b")', ~Has(Peer(l), "a")'
                PROVE  IF Has(Peer(l), "ack")' THEN pid[Peer(l)] = pidCache'[l]
                                               ELSE pid[Peer(l)] = pid[l]
    BY DEF Agree
  <1>1. m \in InFlight(e)'
    BY ReplyFacts
  <1>2. l # LinkOf(e)
    BY <1>1, EndFacts DEF Has
  <1>3. InFlight(l)' = InFlight(l) /\ InFlight(Peer(l))' = InFlight(Peer(l))
    BY <1>2, OtherLink, ReplyFacts
  <1>. QED
    BY <1>2, <1>3, OtherLink DEF Agree, Has

\* Roles across an answered packet.
LEMMA RolesReply ==
    ASSUME TypeOK, Roles, NEW e \in Ends, Pending(e), NEW m \in Message,
           Reply(e, m),
           \/ m.kind \in {"a", "ack"} /\ Peer(e) \in Links
           \/ m.kind \in {"request", "b"} /\ e \in Links
    PROVE  Roles'
  <1>. SUFFICES ASSUME NEW l \in Links
                PROVE  /\ \A x \in InFlight(l)' : x.kind \in {"request", "b"}
                       /\ \A x \in InFlight(Peer(l))' : x.kind \in {"a", "ack"}
    BY DEF Roles
  <1>1. CASE l # LinkOf(e)
    BY <1>1, OtherLink, ReplyFacts DEF Roles
  <1>2. CASE l = e
    BY <1>2, EndFacts, ReplyFacts DEF Roles
  <1>3. CASE l = Peer(e)
    BY <1>3, EndFacts, ReplyFacts DEF Roles
  <1>. QED
    BY <1>1, <1>2, <1>3, EndFacts

\* Roles across a packet that is taken and not answered.
LEMMA RolesConsume ==
    ASSUME TypeOK, Roles, NEW e \in Ends, Pending(e), Consume(e)
    PROVE  Roles'
  <1>1. \A f \in Ends : InFlight(f)' \subseteq InFlight(f)
    BY ConsumeFacts
  <1>. QED
    BY <1>1, EndFacts DEF Roles

\* AllDistinct across an answered packet that leaves the chain alone.
LEMMA DistinctReply ==
    ASSUME TypeOK, AllDistinct, NEW e \in Ends, Pending(e), NEW m \in Message,
           Reply(e, m), pid' = pid,
           \A f \in Ends \ {e} : pidCache'[f] = pidCache[f],
           m.kind \in {"a", "b"} /\ DistinctMod(m.pid),
           m.kind = "b" => pidCache'[e] = m.pid,
           m.kind # "b" => pidCache'[e] = pidCache[e]
    PROVE  AllDistinct'
  <1>1. \A f \in Ends : InFlight(f)' \subseteq InFlight(f) \cup {m}
    BY ReplyFacts
  <1>2. \A f \in Ends : \A x \in InFlight(f)' :
            x.kind \in {"a", "b"} => DistinctMod(x.pid)
    BY <1>1 DEF AllDistinct
  <1>3. ASSUME NEW f \in Ends, Has(f, "b")' \/ Has(Peer(f), "ack")'
        PROVE  DistinctMod(pidCache'[f])
    <2>1. CASE f = e /\ m.kind = "b"
      BY <2>1
    <2>2. CASE f # e \/ m.kind # "b"
      <3>1. Has(f, "b") \/ Has(Peer(f), "ack")
        BY <1>3, <2>2, ReplyFacts, EndFacts DEF Has
      <3>. QED
        BY <2>2, <3>1 DEF AllDistinct
    <2>. QED
      BY <2>1, <2>2
  <1>4. \A f \in Ends : DistinctMod(pid'[f])
    BY DEF AllDistinct
  <1>5. \A f \in Ends : Has(f, "b")' \/ Has(Peer(f), "ack")' => DistinctMod(pidCache'[f])
    BY <1>3
  <1>. QED
    BY <1>2, <1>4, <1>5 DEF AllDistinct, DistinctMod

\* The invariant holds when the RMs start.
LEMMA InvInit == Init => Inv
  <1>. SUFFICES ASSUME Init PROVE Inv
    OBVIOUS
  <1>1. \A e \in Ends : chan[e] = <<>> /\ InFlight(e) = {}
    BY DEF Init, InFlight
  <1>2. \A l \in Links : pid[l] = InitPid[l] /\ pid[Peer(l)] = InitPid[l]
    BY EndFacts DEF Init
  <1>3. Roles
    BY <1>1, EndFacts DEF Roles
  <1>4. AllDistinct
    <2>1. \A l \in Links : DistinctMod(InitPid[l])
      BY PidsAssumption DEF DistinctMod
    <2>. QED
      BY <1>1, <2>1, EndFacts DEF AllDistinct, Init, Has
  <1>5. LastB
    BY <1>1 DEF LastB
  <1>6. Agree
    BY <1>1, <1>2, EndFacts DEF Agree, Has
  <1>7. ResponderDistinct
    BY <1>2, PidsAssumption DEF ResponderDistinct, PidsOf
  <1>. QED
    BY <1>3, <1>4, <1>5, <1>6, <1>7 DEF Inv

\* Sending a request keeps the invariant: nothing but one queue grows.
LEMMA InvSendRequest ==
    ASSUME TypeOK, Inv, NEW l \in Links, SendRequest(l)
    PROVE  Inv'
  <1>. DEFINE m == [kind |-> "request", via |-> find_ip_or_pid(l)]
  <1>1. m \in Message
    BY FirstPath, EndFacts DEF Message, Bare, TypeOK, find_ip_or_pid, PidVector
  <1>2. /\ chan'[l] = Append(chan[l], m)
        /\ \A f \in Ends \ {l} : chan'[f] = chan[f]
        /\ pid' = pid /\ pidCache' = pidCache /\ lost' = lost
    BY EndFacts DEF SendRequest, send_pid_change_request, TypeOK, local, rows, cache
  <1>3. /\ InFlight(l)' = InFlight(l) \cup {m}
        /\ Len(chan'[l]) = Len(chan[l]) + 1 /\ Len(chan[l]) \in Nat
        /\ chan'[l][Len(chan[l]) + 1] = m
        /\ \A i \in 1..Len(chan[l]) : chan'[l][i] = chan[l][i]
    BY <1>1, <1>2, PutFacts, EndFacts
  <1>4. \A f \in Ends \ {l} : InFlight(f)' = InFlight(f)
    BY <1>2 DEF InFlight
  <1>5. m.kind = "request"
    OBVIOUS
  <1>. HIDE DEF m
  <1>6. \A f \in Ends : \A k \in {"a", "b", "ack"} : Has(f, k)' <=> Has(f, k)
    BY <1>3, <1>4, <1>5, EndFacts DEF Has
  <1>7. Roles'
    BY <1>3, <1>4, <1>5, EndFacts DEF Inv, Roles
  <1>8. AllDistinct'
    BY <1>2, <1>3, <1>4, <1>5, <1>6, EndFacts DEF Inv, AllDistinct, DistinctMod
  <1>9. LastB'
    <2>. SUFFICES ASSUME NEW f \in Ends, NEW i \in 1..Len(chan'[f]),
                         chan'[f][i].kind = "b",
                         \A j \in (i + 1)..Len(chan'[f]) : chan'[f][j].kind # "b"
                  PROVE  chan'[f][i].pid = pidCache[f]
      BY <1>2 DEF LastB
    <2>1. CASE f = l
      <3>1. i \in 1..Len(chan[l]) /\ chan'[l][i] = chan[l][i]
        BY <1>3, <1>5, <2>1
      <3>2. \A j \in (i + 1)..Len(chan[l]) : chan[l][j].kind # "b"
        BY <1>3, <2>1, <3>1
      <3>. QED
        BY <2>1, <3>1, <3>2 DEF Inv, LastB
    <2>2. CASE f # l
      BY <1>2, <2>2 DEF Inv, LastB
    <2>. QED
      BY <2>1, <2>2
  <1>10. Agree'
    BY <1>2, <1>6, EndFacts DEF Inv, Agree
  <1>11. ResponderDistinct'
    BY <1>2 DEF Inv, ResponderDistinct
  <1>. QED
    BY <1>7, <1>8, <1>9, <1>10, <1>11 DEF Inv

\* Answering a request or rejecting a b keeps the invariant: both send an a
\* and change nothing else.
LEMMA InvSendA ==
    ASSUME TypeOK, Inv, NEW e \in Ends, Pending(e), Peer(e) \in Links,
           NEW m \in Message, m.kind = "a", DistinctMod(m.pid), Reply(e, m),
           pid' = pid, pidCache' = pidCache, lost' = lost
    PROVE  Inv'
  <1>1. Roles'
    BY RolesReply DEF Inv
  <1>2. AllDistinct'
    BY DistinctReply DEF Inv
  <1>3. LastB'
    BY LastBReply DEF Inv
  <1>4. Agree'
    BY AgreeBusy DEF Inv
  <1>5. ResponderDistinct'
    BY DEF Inv, ResponderDistinct
  <1>. QED
    BY <1>1, <1>2, <1>3, <1>4, <1>5 DEF Inv

\* Answering a request keeps the invariant.
LEMMA InvRecvRequest ==
    ASSUME TypeOK, Inv, NEW e \in Ends, NEW draw \in Draws, RecvRequest(e, draw)
    PROVE  Inv'
  <1>. DEFINE m == [kind |-> "a", via |-> find_ip_or_pid(e),
                    pid |-> ShiftMod(pid[e], draw),
                    time |-> (changeTime[e] + draw) % PidSpace]
  <1>1. pid[e] \in PidVector /\ changeTime[e] \in Nat /\ draw \in Nat /\ find_ip_or_pid(e) \in Nat
    BY DrawType, FirstPath DEF TypeOK, find_ip_or_pid, PidVector
  <1>2. ShiftMod(pid[e], draw) \in PidVector /\ DistinctMod(ShiftMod(pid[e], draw))
    BY <1>1, ShiftType, DistinctShift DEF Inv, AllDistinct
  <1>3. (changeTime[e] + draw) % 100 \in Nat
    BY <1>1
  <1>4. m \in Message
    BY <1>1, <1>2, <1>3 DEF Message, Proposal, PidSpace
  <1>5. Pending(e) /\ Peer(e) \in Links
    BY RoleOfReceiver DEF RecvRequest, Handle, Inv
  <1>6. Reply(e, m) /\ pid' = pid /\ pidCache' = pidCache /\ lost' = lost
    BY DEF RecvRequest, local, rows, cache, history
  <1>7. m.kind = "a" /\ DistinctMod(m.pid)
    BY <1>2
  <1>. HIDE DEF m
  <1>. QED
    BY <1>4, <1>5, <1>6, <1>7, InvSendA

\* Rejecting a b keeps the invariant.
LEMMA InvRecvBReject ==
    ASSUME TypeOK, Inv, NEW e \in Ends, NEW draw \in Draws, RecvBReject(e, draw)
    PROVE  Inv'
  <1>. DEFINE v == Received(e).pid
              m == [kind |-> "a", via |-> find_ip_or_pid(e),
                    pid |-> ShiftMod(v, draw + 1),
                    time |-> (Received(e).time + draw + 1) % PidSpace]
  <1>1. Pending(e) /\ Peer(e) \in Links /\ Received(e) \in InFlight(Peer(e))
    BY RoleOfReceiver DEF RecvBReject, Handle, Inv
  <1>2. v \in PidVector /\ Received(e).time \in Nat /\ DistinctMod(v)
    BY <1>1, ReceivedType, EndFacts DEF RecvBReject, Handle, Inv, AllDistinct
  <1>3. draw + 1 \in Nat /\ find_ip_or_pid(e) \in Nat
    BY DrawType, FirstPath DEF TypeOK, find_ip_or_pid, PidVector
  <1>4. ShiftMod(v, draw + 1) \in PidVector /\ DistinctMod(ShiftMod(v, draw + 1))
    BY <1>2, <1>3, ShiftType, DistinctShift
  <1>5. (Received(e).time + draw + 1) % 100 \in Nat
    BY <1>2, DrawType
  <1>6. m \in Message
    BY <1>3, <1>4, <1>5 DEF Message, Proposal, PidSpace
  <1>7. Reply(e, m) /\ pid' = pid /\ pidCache' = pidCache /\ lost' = lost
    BY DEF RecvBReject, local, rows, cache, history
  <1>8. m.kind = "a" /\ DistinctMod(m.pid)
    BY <1>4
  <1>. HIDE DEF m
  <1>. QED
    BY <1>1, <1>6, <1>7, <1>8, InvSendA

\* Storing a proposal and sending a b keeps the invariant.
LEMMA InvRecvA ==
    ASSUME TypeOK, Inv, NEW e \in Ends, NEW draw \in Draws, RecvA(e, draw)
    PROVE  Inv'
  <1>1. Pending(e) /\ e \in Links /\ Received(e) \in InFlight(Peer(e))
    BY RoleOfReceiver DEF RecvA, Handle, Inv
  <1>2. PICK n \in 0..MaxSteps :
          LET w == Shift(Received(e).pid, n * (draw + 1))
          IN  /\ pidCache' = [pidCache EXCEPT ![e] = w]
              /\ Reply(e, [kind |-> "b", via |-> find_ip_or_pid(e),
                           pid |-> w, time |-> Received(e).time])
    BY DEF RecvA
  <1>. DEFINE w == Shift(Received(e).pid, n * (draw + 1))
              m == [kind |-> "b", via |-> find_ip_or_pid(e),
                    pid |-> w, time |-> Received(e).time]
  <1>3. /\ Received(e).pid \in PidVector /\ Received(e).time \in Nat
        /\ DistinctMod(Received(e).pid)
    BY <1>1, ReceivedType, EndFacts DEF RecvA, Handle, Inv, AllDistinct
  <1>4. w \in PidVector /\ DistinctMod(w)
    BY <1>3, DrawType, ShiftType, DistinctShift
  <1>5. m \in Message
    BY <1>3, <1>4, FirstPath DEF Message, Proposal, TypeOK, find_ip_or_pid, PidVector
  <1>6. /\ Reply(e, m) /\ m.kind = "b" /\ m.pid = w
        /\ pidCache'[e] = w /\ \A f \in Ends \ {e} : pidCache'[f] = pidCache[f]
        /\ pid' = pid /\ lost' = lost
    BY <1>2 DEF RecvA, TypeOK, local, rows, history
  <1>. HIDE DEF m, w
  <1>7. Roles'
    BY <1>1, <1>5, <1>6, RolesReply DEF Inv
  <1>8. AllDistinct'
    BY <1>1, <1>4, <1>5, <1>6, DistinctReply DEF Inv
  <1>9. LastB'
    BY <1>1, <1>5, <1>6, LastBReply DEF Inv
  <1>10. Agree'
    BY <1>1, <1>5, <1>6, AgreeBusy DEF Inv
  <1>11. ResponderDistinct'
    BY <1>6 DEF Inv, ResponderDistinct
  <1>. QED
    BY <1>7, <1>8, <1>9, <1>10, <1>11 DEF Inv

\* Accepting a b keeps the invariant.  The PIDs adopted are the ones the
\* sponsor remembers, unless it has already sent a younger b; and they are
\* free in the whole chain.
LEMMA InvRecvBAccept ==
    ASSUME TypeOK, Inv, NEW e \in Ends, RecvBAccept(e)
    PROVE  Inv'
  <1>. DEFINE m == [kind |-> "ack", via |-> find_ip_or_pid(e)]
              v == Received(e).pid
  <1>1. Pending(e) /\ Peer(e) \in Links /\ Received(e) \in InFlight(Peer(e))
    BY RoleOfReceiver DEF RecvBAccept, Handle, Inv
  <1>2. v \in PidVector /\ DistinctMod(v)
    BY <1>1, ReceivedType, EndFacts DEF RecvBAccept, Handle, Inv, AllDistinct
  <1>3. m \in Message
    BY FirstPath DEF Message, Bare, TypeOK, find_ip_or_pid, PidVector
  <1>4. /\ Reply(e, m) /\ m.kind = "ack" /\ Received(e).kind = "b"
        /\ pid' = [pid EXCEPT ![e] = v]
        /\ pidCache' = pidCache /\ lost' = lost
        /\ PidsOf(v) \cap ChainPids(e[1]) = {}
    BY DEF RecvBAccept, Adopt, Handle, AckYes, cache, history
  <1>. HIDE DEF m, v
  <1>5. pid'[e] = v /\ \A f \in Ends \ {e} : pid'[f] = pid[f]
    BY <1>4 DEF TypeOK
  <1>6. Roles'
    BY <1>1, <1>3, <1>4, RolesReply DEF Inv
  <1>7. AllDistinct'
    <2>1. \A f \in Ends : DistinctMod(pid'[f])
      BY <1>2, <1>5 DEF Inv, AllDistinct
    <2>2. \A f \in Ends : \A x \in InFlight(f)' :
              x.kind \in {"a", "b"} => DistinctMod(x.pid)
      BY <1>1, <1>3, <1>4, ReplyFacts DEF Inv, AllDistinct
    <2>3. ASSUME NEW f \in Ends, Has(f, "b")' \/ Has(Peer(f), "ack")'
          PROVE  DistinctMod(pidCache[f])
      <3>1. CASE f = Peer(e)
        <4>1. Has(f, "b")
          BY <1>1, <1>4, <3>1 DEF Has
        <4>. QED
          BY <4>1 DEF Inv, AllDistinct
      <3>2. CASE f # Peer(e)
        <4>1. Has(f, "b") \/ Has(Peer(f), "ack")
          BY <1>1, <1>3, <1>4, <2>3, <3>2, ReplyFacts, EndFacts DEF Has
        <4>. QED
          BY <4>1 DEF Inv, AllDistinct
      <3>. QED
        BY <3>1, <3>2
    <2>4. \A f \in Ends : Has(f, "b")' \/ Has(Peer(f), "ack")' => DistinctMod(pidCache'[f])
      BY <1>4, <2>3
    <2>. QED
      BY <2>1, <2>2, <2>4 DEF AllDistinct, DistinctMod
  <1>8. LastB'
    BY <1>1, <1>3, <1>4, LastBReply DEF Inv
  <1>9. Agree'
    <2>. SUFFICES ASSUME NEW l \in Links \ lost,
                         ~Has(l, "b")', ~Has(Peer(l), "a")'
                  PROVE  IF Has(Peer(l), "ack")' THEN pid'[Peer(l)] = pidCache[l]
                                                 ELSE pid'[Peer(l)] = pid'[l]
      BY <1>4 DEF Agree
    <2>1. CASE l = Peer(e)
      <3>1. v = pidCache[l]
        <4>1. ~Busy(e[1])
          BY DEF RecvBAccept, Handle
        <4>. QED
          BY <1>1, <1>3, <1>4, <2>1, <4>1, ReplyFacts, LastBHead DEF Inv, Handle, v
      <3>2. Has(e, "ack")'
        BY <1>1, <1>3, <1>4, ReplyFacts DEF Has
      <3>. QED
        BY <1>5, <2>1, <3>1, <3>2, EndFacts
    <2>2. CASE l # Peer(e)
      <3>1. l # LinkOf(e)
        BY <1>1, <2>2, EndFacts
      <3>2. /\ InFlight(l)' = InFlight(l) /\ InFlight(Peer(l))' = InFlight(Peer(l))
            /\ pid'[l] = pid[l] /\ pid'[Peer(l)] = pid[Peer(l)]
        BY <1>1, <1>3, <1>4, <1>5, <3>1, OtherLink, ReplyFacts
      <3>. QED
        BY <3>2 DEF Inv, Agree, Has
    <2>. QED
      BY <2>1, <2>2
  <1>10. ResponderDistinct'
    <2>. SUFFICES ASSUME NEW k \in Links, NEW l \in Links, k # l, k[2] = l[2]
                  PROVE  PidsOf(pid'[Peer(k)]) \cap PidsOf(pid'[Peer(l)]) = {}
      BY DEF ResponderDistinct
    <2>1. Peer(k) # Peer(l) /\ Peer(k) \in Ends /\ Peer(l) \in Ends
      BY EndFacts
    <2>2. Peer(k) \in EndsOf(Peer(l)[1]) /\ Peer(l) \in EndsOf(Peer(k)[1])
      BY <2>1 DEF EndsOf, Peer
    <2>3. CASE e = Peer(k)
      BY <1>4, <1>5, <2>1, <2>2, <2>3 DEF ChainPids
    <2>4. CASE e = Peer(l)
      BY <1>4, <1>5, <2>1, <2>2, <2>4 DEF ChainPids
    <2>5. CASE e # Peer(k) /\ e # Peer(l)
      BY <1>5, <2>1, <2>5 DEF Inv, ResponderDistinct
    <2>. QED
      BY <2>3, <2>4, <2>5
  <1>. QED
    BY <1>6, <1>7, <1>8, <1>9, <1>10 DEF Inv

\* An ack keeps the invariant: what the sponsor remembers is what the
\* responder uses, unless a younger proposal is under way.
LEMMA InvRecvAck ==
    ASSUME TypeOK, Inv, NEW e \in Ends, RecvAck(e)
    PROVE  Inv'
  <1>1. Pending(e) /\ e \in Links /\ Received(e) \in InFlight(Peer(e))
    BY RoleOfReceiver DEF RecvAck, Handle, Inv
  <1>2. /\ Consume(e) /\ Received(e).kind = "ack"
        /\ pid' = [pid EXCEPT ![e] = pidCache[e]]
        /\ pidCache' = pidCache /\ lost' = lost
    BY DEF RecvAck, Adopt, Handle, cache, history
  <1>3. pid'[e] = pidCache[e] /\ \A f \in Ends \ {e} : pid'[f] = pid[f]
    BY <1>2 DEF TypeOK
  <1>4. \A f \in Ends : InFlight(f)' \subseteq InFlight(f)
    BY <1>1, <1>2, ConsumeFacts
  <1>5. Has(Peer(e), "ack")
    BY <1>1, <1>2 DEF Has
  <1>6. Roles'
    BY <1>1, <1>2, RolesConsume DEF Inv
  <1>7. AllDistinct'
    <2>1. DistinctMod(pidCache[e])
      BY <1>5 DEF Inv, AllDistinct
    <2>2. \A f \in Ends : DistinctMod(pid'[f])
      BY <1>3, <2>1 DEF Inv, AllDistinct
    <2>3. \A f \in Ends : \A x \in InFlight(f)' :
              x.kind \in {"a", "b"} => DistinctMod(x.pid)
      BY <1>4 DEF Inv, AllDistinct
    <2>4. \A f \in Ends : Has(f, "b")' \/ Has(Peer(f), "ack")' => DistinctMod(pidCache'[f])
      BY <1>2, <1>4, EndFacts DEF Inv, AllDistinct, Has
    <2>. QED
      BY <2>2, <2>3, <2>4 DEF AllDistinct, DistinctMod
  <1>8. LastB'
    BY <1>1, <1>2, LastBConsume DEF Inv
  <1>9. Agree'
    <2>. SUFFICES ASSUME NEW l \in Links \ lost,
                         ~Has(l, "b")', ~Has(Peer(l), "a")'
                  PROVE  IF Has(Peer(l), "ack")' THEN pid'[Peer(l)] = pidCache[l]
                                                 ELSE pid'[Peer(l)] = pid'[l]
      BY <1>2 DEF Agree
    <2>1. CASE l = e
      <3>1. ~Has(l, "b") /\ ~Has(Peer(l), "a")
        BY <1>1, <1>2, <2>1, ConsumeFacts, EndFacts DEF Has
      <3>2. pid[Peer(l)] = pidCache[l]
        BY <1>5, <2>1, <3>1 DEF Inv, Agree
      <3>. QED
        BY <1>3, <2>1, <3>2, EndFacts
    <2>2. CASE l # e
      <3>1. l # LinkOf(e)
        BY <1>1, <2>2, EndFacts
      <3>2. /\ InFlight(l)' = InFlight(l) /\ InFlight(Peer(l))' = InFlight(Peer(l))
            /\ pid'[l] = pid[l] /\ pid'[Peer(l)] = pid[Peer(l)]
        BY <1>1, <1>2, <1>3, <3>1, OtherLink, ConsumeFacts
      <3>. QED
        BY <3>2 DEF Inv, Agree, Has
    <2>. QED
      BY <2>1, <2>2
  <1>10. ResponderDistinct'
    BY <1>1, <1>3, EndFacts DEF Inv, ResponderDistinct
  <1>. QED
    BY <1>6, <1>7, <1>8, <1>9, <1>10 DEF Inv

\* A lost packet keeps the invariant, which asks nothing of its link's
\* agreement any more.
LEMMA InvLose ==
    ASSUME TypeOK, Inv, NEW e \in Ends, Lose(e)
    PROVE  Inv'
  <1>1. /\ Pending(e) /\ Consume(e) /\ lost' = lost \cup {LinkOf(e)}
        /\ pid' = pid /\ pidCache' = pidCache
    BY DEF Lose, local, rows, cache
  <1>2. \A f \in Ends : InFlight(f)' \subseteq InFlight(f)
    BY <1>1, ConsumeFacts
  <1>3. Roles'
    BY <1>1, RolesConsume DEF Inv
  <1>4. AllDistinct'
    <2>1. \A f \in Ends : Has(f, "b")' \/ Has(Peer(f), "ack")' => Has(f, "b") \/ Has(Peer(f), "ack")
      BY <1>2, EndFacts DEF Has
    <2>. QED
      BY <1>1, <1>2, <2>1 DEF Inv, AllDistinct, DistinctMod
  <1>5. LastB'
    BY <1>1, LastBConsume DEF Inv
  <1>6. Agree'
    <2>1. \A l \in Links : l # LinkOf(e) =>
             InFlight(l)' = InFlight(l) /\ InFlight(Peer(l))' = InFlight(Peer(l))
      BY <1>1, OtherLink, ConsumeFacts
    <2>. QED
      BY <1>1, <2>1 DEF Inv, Agree, Has
  <1>7. ResponderDistinct'
    BY <1>1 DEF Inv, ResponderDistinct
  <1>. QED
    BY <1>3, <1>4, <1>5, <1>6, <1>7 DEF Inv

\* The rest of a handler keeps the invariant, which is not about the table.
LEMMA InvGoesOn ==
    ASSUME Inv, pid' = pid, pidCache' = pidCache, chan' = chan, lost' = lost
    PROVE  Inv'
  <1>1. \A e \in Ends : InFlight(e)' = InFlight(e)
    BY DEF InFlight
  <1>2. Roles'
    BY <1>1, EndFacts DEF Inv, Roles
  <1>3. AllDistinct'
    BY <1>1, EndFacts DEF Inv, AllDistinct, Has, DistinctMod
  <1>4. LastB'
    BY DEF Inv, LastB
  <1>5. Agree'
    BY <1>1, EndFacts DEF Inv, Agree, Has
  <1>6. ResponderDistinct'
    BY DEF Inv, ResponderDistinct
  <1>. QED
    BY <1>2, <1>3, <1>4, <1>5, <1>6 DEF Inv

\* What the rest of a handler leaves alone.
LEMMA GoesOnFrame ==
    ASSUME NEW e \in Ends, HandlerGoesOn(e)
    PROVE  /\ pid' = pid /\ changeTime' = changeTime
           /\ pidCache' = pidCache /\ timeCache' = timeCache
           /\ chan' = chan /\ sent' = sent /\ lost' = lost
           /\ overlapped' = overlapped
  BY DEF HandlerGoesOn, update_nid_ip_nid_ip_nid, announce_ip_nid_ip, local,
         cache, history

\* Every step keeps the invariant.
THEOREM Invariance == Spec => []Inv
<1>1. TypeOK /\ Inv /\ [Next]_vars => Inv'
  <2>. SUFFICES ASSUME TypeOK, Inv, [Next]_vars PROVE Inv'
    OBVIOUS
  <2>1. CASE UNCHANGED vars
    BY <2>1, InvGoesOn DEF vars
  <2>2. ASSUME NEW e \in Ends, HandlerGoesOn(e) PROVE Inv'
    BY <2>2, GoesOnFrame, InvGoesOn
  <2>. QED
    BY <2>1, <2>2, InvSendRequest, InvRecvRequest, InvRecvA, InvRecvBAccept,
       InvRecvBReject, InvRecvAck, InvLose DEF Next, Receive
<1>. QED
  BY <1>1, InvInit, TypeCorrect, PTL DEF Spec

\* Both ends of a link have the same PIDs when no packet of it is under way
\* and none was lost, however its rounds overlapped.
THEOREM Agreement == Spec => []QuiescentAgreement
<1>1. Inv => QuiescentAgreement
  <2>. SUFFICES ASSUME Inv, NEW l \in Links, Quiescent(l), l \notin lost
                PROVE  pid[l] = pid[Peer(l)]
    BY DEF QuiescentAgreement
  <2>1. InFlight(l) = {} /\ InFlight(Peer(l)) = {}
    BY DEF Quiescent, InFlight
  <2>. QED
    BY <2>1 DEF Inv, Agree, Has
<1>. QED
  BY <1>1, Invariance, PTL

\* The paths of a link never share a PID.
THEOREM PathsDistinct == Spec => []LinkDistinct
<1>1. Inv => LinkDistinct
  BY DEF Inv, AllDistinct, DistinctMod, LinkDistinct
<1>. QED
  BY <1>1, Invariance, PTL

\* Two links of one responder never share a PID.
THEOREM ResponderLinksDistinct == Spec => []ResponderDistinct
<1>1. Inv => ResponderDistinct
  BY DEF Inv
<1>. QED
  BY <1>1, Invariance, PTL

-----------------------------------------------------------------------------
(* The handlers in brief.  What the remaining invariants need of them is    *)
(* which packet is answered with which, and what is kept of it.             *)

\* Packet m is the answer of e[1] to the packet at the head of its queue.
Answers(e, m) ==
    /\ ~Busy(e[1]) /\ Pending(e) /\ Reply(e, m) /\ m.via = find_ip_or_pid(e)
    /\ \/ /\ m.kind = "a" /\ Peer(e) \in Links
          /\ Received(e).kind \in {"request", "b"}
          /\ UNCHANGED <<local, handler, rows, cache>>
       \/ /\ m.kind = "b" /\ e \in Links
          /\ Received(e).kind = "a"
          /\ pidCache' = [pidCache EXCEPT ![e] = m.pid]
          /\ timeCache' = [timeCache EXCEPT ![e[1]] = m.time]
          /\ UNCHANGED <<local, handler, rows>>
       \/ /\ m.kind = "ack" /\ Peer(e) \in Links
          /\ Received(e).kind = "b"
          /\ Received(e).pid \in PidVector /\ Received(e).time \in Nat
          /\ Adopt(e, Received(e).pid, Received(e).time)
          /\ UNCHANGED cache

\* A handler answers its packet or is the one of the ack.
LEMMA ReceiveFacts ==
    ASSUME TypeOK, Roles, NEW e \in Ends, Receive(e)
    PROVE  /\ Pending(e) /\ ~Busy(e[1])
           /\ lost' = lost /\ overlapped' = overlapped
           /\ \/ \E m \in Message : Answers(e, m)
              \/ RecvAck(e) /\ e \in Links
  <1>1. /\ find_ip_or_pid(e) \in Nat /\ pid[e] \in PidVector /\ changeTime[e] \in Nat
    BY FirstPath DEF TypeOK, find_ip_or_pid, PidVector
  <1>2. /\ Pending(e) /\ ~Busy(e[1])
        /\ Received(e).kind \in {"request", "b"} => Peer(e) \in Links
        /\ Received(e).kind \in {"a", "ack"} => e \in Links
        /\ Received(e).kind \in {"a", "b"} =>
             Received(e).pid \in PidVector /\ Received(e).time \in Nat
    <2>1. Pending(e) /\ ~Busy(e[1])
      BY DEF Receive, RecvRequest, RecvA, RecvBAccept, RecvBReject, RecvAck, Handle
    <2>. QED
      BY <2>1, RoleOfReceiver, ReceivedType
  <1>3. lost' = lost /\ overlapped' = overlapped
    BY DEF Receive, RecvRequest, RecvA, RecvBAccept, RecvBReject, RecvAck, history
  <1>4. ASSUME NEW draw \in Draws, RecvRequest(e, draw)
        PROVE  \E m \in Message : Answers(e, m)
    <2>. DEFINE m == [kind |-> "a", via |-> find_ip_or_pid(e),
                      pid |-> ShiftMod(pid[e], draw),
                      time |-> (changeTime[e] + draw) % PidSpace]
    <2>1. draw \in Nat /\ (changeTime[e] + draw) % 100 \in Nat
      BY <1>1, DrawType
    <2>2. m \in Message
      BY <1>1, <2>1, ShiftType DEF Message, Proposal, PidSpace
    <2>3. Answers(e, m)
      BY <1>2, <1>4 DEF RecvRequest, Handle, Answers
    <2>. QED
      BY <2>2, <2>3
  <1>5. ASSUME NEW draw \in Draws, RecvA(e, draw)
        PROVE  \E m \in Message : Answers(e, m)
    <2>1. PICK n \in 0..MaxSteps :
            LET w == Shift(Received(e).pid, n * (draw + 1))
            IN  /\ pidCache' = [pidCache EXCEPT ![e] = w]
                /\ Reply(e, [kind |-> "b", via |-> find_ip_or_pid(e),
                             pid |-> w, time |-> Received(e).time])
      BY <1>5 DEF RecvA
    <2>. DEFINE m == [kind |-> "b", via |-> find_ip_or_pid(e),
                      pid |-> Shift(Received(e).pid, n * (draw + 1)),
                      time |-> Received(e).time]
    <2>2. Received(e).kind = "a"
      BY <1>5 DEF RecvA, Handle
    <2>3. Shift(Received(e).pid, n * (draw + 1)) \in PidVector
      BY <1>2, <2>2, DrawType, ShiftType
    <2>4. m \in Message
      BY <1>1, <1>2, <2>2, <2>3 DEF Message, Proposal
    <2>5. Answers(e, m)
      BY <1>2, <1>5, <2>1, <2>2 DEF RecvA, Answers
    <2>. QED
      BY <2>4, <2>5
  <1>6. ASSUME RecvBAccept(e)
        PROVE  \E m \in Message : Answers(e, m)
    <2>. DEFINE m == [kind |-> "ack", via |-> find_ip_or_pid(e)]
    <2>1. m \in Message
      BY <1>1 DEF Message, Bare
    <2>2. Answers(e, m)
      BY <1>2, <1>6 DEF RecvBAccept, Handle, Answers
    <2>. QED
      BY <2>1, <2>2
  <1>7. ASSUME NEW draw \in Draws, RecvBReject(e, draw)
        PROVE  \E m \in Message : Answers(e, m)
    <2>. DEFINE m == [kind |-> "a", via |-> find_ip_or_pid(e),
                      pid |-> ShiftMod(Received(e).pid, draw + 1),
                      time |-> (Received(e).time + draw + 1) % PidSpace]
    <2>1. Received(e).kind = "b"
      BY <1>7 DEF RecvBReject, Handle
    <2>2. draw + 1 \in Nat /\ (Received(e).time + draw + 1) % 100 \in Nat
      BY <1>2, <2>1, DrawType
    <2>3. m \in Message
      BY <1>1, <1>2, <2>1, <2>2, ShiftType DEF Message, Proposal, PidSpace
    <2>4. Answers(e, m)
      BY <1>2, <1>7, <2>1 DEF RecvBReject, Answers
    <2>. QED
      BY <2>3, <2>4
  <1>8. ASSUME RecvAck(e) PROVE e \in Links
    BY <1>2, <1>8 DEF RecvAck, Handle
  <1>. QED
    BY <1>2, <1>3, <1>4, <1>5, <1>6, <1>7, <1>8 DEF Receive

\* The request of the timer.
LEMMA RequestFacts ==
    ASSUME TypeOK, NEW l \in Links, SendRequest(l)
    PROVE  \E m \in Message :
             /\ m.kind = "request" /\ m.via = find_ip_or_pid(l)
             /\ chan'[l] = Append(chan[l], m)
             /\ InFlight(l)' = InFlight(l) \cup {m}
             /\ \A f \in Ends \ {l} : chan'[f] = chan[f] /\ InFlight(f)' = InFlight(f)
  <1>. DEFINE m == [kind |-> "request", via |-> find_ip_or_pid(l)]
  <1>1. m \in Message
    BY FirstPath, EndFacts DEF Message, Bare, TypeOK, find_ip_or_pid, PidVector
  <1>2. /\ chan'[l] = Append(chan[l], m)
        /\ \A f \in Ends \ {l} : chan'[f] = chan[f]
    BY EndFacts DEF SendRequest, send_pid_change_request, TypeOK
  <1>3. m.kind = "request" /\ m.via = find_ip_or_pid(l)
    OBVIOUS
  <1>. HIDE DEF m
  <1>4. InFlight(l)' = InFlight(l) \cup {m}
    BY <1>1, <1>2, PutFacts, EndFacts
  <1>5. \A f \in Ends \ {l} : InFlight(f)' = InFlight(f)
    BY <1>2 DEF InFlight
  <1>. QED
    BY <1>1, <1>2, <1>3, <1>4, <1>5

-----------------------------------------------------------------------------
(* The table and the PID a control packet is tagged with *)

\* Outside the window between chain and table, the two hold the same PIDs.
RowsInv == \A e \in Ends : handler[e] # "update" => table[e] = pid[e]

\* A handler that is under way is the only one of its RM.
IdleEnd == \A e \in Ends : ~Busy(e[1]) => handler[e] = "idle"

\* The end of an idle RM is idle.
LEMMA IdleFact == IdleEnd
  BY DEF IdleEnd, Busy, EndsOf

\* What an end that the card refused nothing has announced: all of its table,
\* but for the window between table and announcement.  A packet under way is
\* tagged with an announced PID, or is a request sent in that window.
EndTagged(e) ==
    /\ handler[e] # "announce" => PidsOf(table[e]) \subseteq announced[e]
    /\ \A m \in InFlight(e) :
         \/ m.via \in announced[e]
         \/ /\ m.kind = "request" /\ handler[e] = "announce"
            /\ m.via \in PidsOf(table[e])

TaggedInv == \A e \in Ends \ refused : EndTagged(e)

\* A handler changes chain and table of its end only; a step of the chain
\* starts the rest of the handler.
LEMMA RowsNext == TypeOK /\ Roles /\ RowsInv /\ [Next]_vars => RowsInv'
  <1>. SUFFICES ASSUME TypeOK, Roles, RowsInv, [Next]_vars PROVE RowsInv'
    OBVIOUS
  <1>1. ASSUME pid' = pid, table' = table, handler' = handler PROVE RowsInv'
    BY <1>1 DEF RowsInv
  <1>2. ASSUME NEW e \in Ends, NEW v, NEW t, Adopt(e, v, t) PROVE RowsInv'
    <2>1. /\ handler'[e] = "update" /\ table' = table
          /\ \A f \in Ends \ {e} : handler'[f] = handler[f] /\ pid'[f] = pid[f]
      BY <1>2 DEF Adopt, rows, TypeOK
    <2>. QED
      BY <2>1 DEF RowsInv
  <1>3. ASSUME NEW e \in Ends, update_nid_ip_nid_ip_nid(e) PROVE RowsInv'
    <2>1. /\ table'[e] = pid[e] /\ pid' = pid
          /\ \A f \in Ends \ {e} : handler'[f] = handler[f] /\ table'[f] = table[f]
      BY <1>3 DEF update_nid_ip_nid_ip_nid, local, TypeOK
    <2>. QED
      BY <2>1 DEF RowsInv
  <1>4. ASSUME NEW e \in Ends, announce_ip_nid_ip(e) PROVE RowsInv'
    <2>1. /\ handler[e] = "announce" /\ table' = table /\ pid' = pid
          /\ \A f \in Ends \ {e} : handler'[f] = handler[f]
      BY <1>4 DEF announce_ip_nid_ip, local, TypeOK
    <2>. QED
      BY <2>1 DEF RowsInv
  <1>5. ASSUME NEW e \in Ends, Receive(e) PROVE RowsInv'
    <2>1. (\E m \in Message : Answers(e, m)) \/ RecvAck(e)
      BY <1>5, ReceiveFacts
    <2>. QED
      BY <1>1, <1>2, <2>1 DEF Answers, RecvAck, local, rows
  <1>6. ASSUME NEW l \in Links, SendRequest(l) PROVE RowsInv'
    BY <1>1, <1>6 DEF SendRequest, local, rows
  <1>7. ASSUME NEW e \in Ends, Lose(e) PROVE RowsInv'
    BY <1>1, <1>7 DEF Lose, local, rows
  <1>8. CASE UNCHANGED vars
    BY <1>1, <1>8 DEF vars
  <1>. QED
    BY <1>3, <1>4, <1>5, <1>6, <1>7, <1>8 DEF Next, HandlerGoesOn

\* A step that leaves the table alone and starts at most the update of an idle
\* end; every packet it sends is tagged from the table, at an end whose
\* handler is idle unless the packet is a request.
LEMMA TaggedStep ==
    ASSUME TypeOK, TaggedInv,
           table' = table, announced' = announced, refused' = refused,
           \A f \in Ends : \/ handler'[f] = handler[f]
                           \/ handler[f] = "idle" /\ handler'[f] = "update",
           \A f \in Ends : \A m \in InFlight(f)' :
              \/ m \in InFlight(f)
              \/ /\ m.via = find_ip_or_pid(f)
                 /\ handler[f] = "idle" \/ m.kind = "request"
    PROVE  TaggedInv'
  <1>. SUFFICES ASSUME NEW f \in Ends \ refused PROVE EndTagged(f)'
    BY DEF TaggedInv
  <1>1. EndTagged(f)
    BY DEF TaggedInv
  <1>2. find_ip_or_pid(f) \in PidsOf(table[f])
    BY FirstPath DEF PidsOf, find_ip_or_pid
  <1>3. handler'[f] # "announce" => PidsOf(table[f]) \subseteq announced[f]
    BY <1>1 DEF EndTagged
  <1>4. ASSUME NEW m \in InFlight(f)'
        PROVE  \/ m.via \in announced[f]
               \/ /\ m.kind = "request" /\ handler'[f] = "announce"
                  /\ m.via \in PidsOf(table[f])
    <2>1. CASE m \in InFlight(f)
      BY <1>1, <2>1 DEF EndTagged
    <2>2. CASE m.via = find_ip_or_pid(f) /\ (handler[f] = "idle" \/ m.kind = "request")
      BY <1>1, <1>2, <2>2 DEF EndTagged
    <2>. QED
      BY <2>1, <2>2
  <1>. QED
    BY <1>3, <1>4 DEF EndTagged, PidsOf

\* The update of the table opens the window, the announcement closes it.
LEMMA TaggedGoesOn ==
    ASSUME TypeOK, TaggedInv, NEW e \in Ends, HandlerGoesOn(e)
    PROVE  TaggedInv'
  <1>. SUFFICES ASSUME NEW f \in Ends \ refused' PROVE EndTagged(f)'
    BY DEF TaggedInv
  <1>1. InFlight(f)' = InFlight(f)
    BY GoesOnFrame DEF InFlight
  <1>2. CASE update_nid_ip_nid_ip_nid(e)
    <2>1. EndTagged(f) /\ announced' = announced
      BY <1>2 DEF TaggedInv, update_nid_ip_nid_ip_nid
    <2>2. CASE f = e
      <3>1. handler[f] = "update" /\ handler'[f] = "announce"
        BY <1>2, <2>2 DEF update_nid_ip_nid_ip_nid, TypeOK
      <3>. QED
        BY <1>1, <2>1, <3>1 DEF EndTagged
    <2>3. CASE f # e
      <3>1. handler'[f] = handler[f] /\ table'[f] = table[f]
        BY <1>2, <2>3 DEF update_nid_ip_nid_ip_nid, TypeOK
      <3>. QED
        BY <1>1, <2>1, <3>1 DEF EndTagged, PidsOf
    <2>. QED
      BY <2>2, <2>3
  <1>3. CASE announce_ip_nid_ip(e)
    <2>1. PICK told \in SUBSET PidsOf(table[e]) :
            /\ announced' = [announced EXCEPT ![e] = @ \cup told]
            /\ refused' = IF told = PidsOf(table[e]) THEN refused
                          ELSE refused \cup {e}
      BY <1>3 DEF announce_ip_nid_ip
    <2>2. f \notin refused /\ table' = table
      BY <1>3, <2>1 DEF announce_ip_nid_ip
    <2>3. EndTagged(f)
      BY <2>2 DEF TaggedInv
    <2>4. CASE f = e
      <3>1. announced'[f] = announced[f] \cup PidsOf(table[f])
        BY <2>1, <2>4 DEF TypeOK
      <3>. QED
        BY <1>1, <2>2, <2>3, <3>1 DEF EndTagged, PidsOf
    <2>5. CASE f # e
      <3>1. handler'[f] = handler[f] /\ announced'[f] = announced[f]
        BY <1>3, <2>1, <2>5 DEF announce_ip_nid_ip, TypeOK
      <3>. QED
        BY <1>1, <2>2, <2>3, <3>1 DEF EndTagged, PidsOf
    <2>. QED
      BY <2>4, <2>5
  <1>. QED
    BY <1>2, <1>3 DEF HandlerGoesOn

LEMMA TaggedNext == TypeOK /\ Roles /\ TaggedInv /\ [Next]_vars => TaggedInv'
  <1>. SUFFICES ASSUME TypeOK, Roles, TaggedInv, [Next]_vars PROVE TaggedInv'
    OBVIOUS
  <1>1. ASSUME NEW l \in Links, SendRequest(l) PROVE TaggedInv'
    <2>1. \A f \in Ends : \A m \in InFlight(f)' :
             \/ m \in InFlight(f)
             \/ m.via = find_ip_or_pid(f) /\ m.kind = "request"
      BY <1>1, RequestFacts
    <2>2. table' = table /\ announced' = announced /\ refused' = refused /\ handler' = handler
      BY <1>1 DEF SendRequest, rows
    <2>. QED
      BY <2>1, <2>2, TaggedStep
  <1>2. ASSUME NEW e \in Ends, NEW m \in Message, Answers(e, m) PROVE TaggedInv'
    <2>1. handler[e] = "idle"
      BY <1>2, IdleFact DEF Answers, IdleEnd
    <2>2. \A f \in Ends : \A x \in InFlight(f)' :
             x \in InFlight(f) \/ (x.via = find_ip_or_pid(f) /\ f = e)
      BY <1>2, ReplyFacts DEF Answers
    <2>3. table' = table /\ announced' = announced /\ refused' = refused
      BY <1>2 DEF Answers, Adopt, rows
    <2>4. handler' \in {handler, [handler EXCEPT ![e] = "update"]}
      BY <1>2 DEF Answers, Adopt
    <2>5. \A f \in Ends : \/ handler'[f] = handler[f]
                          \/ handler[f] = "idle" /\ handler'[f] = "update"
      BY <2>1, <2>4 DEF TypeOK
    <2>. QED
      BY <2>1, <2>2, <2>3, <2>5, TaggedStep
  <1>3. ASSUME NEW e \in Ends, RecvAck(e) PROVE TaggedInv'
    <2>1. /\ Pending(e) /\ Consume(e) /\ handler[e] = "idle"
          /\ handler' = [handler EXCEPT ![e] = "update"]
          /\ table' = table /\ announced' = announced /\ refused' = refused
      BY <1>3, IdleFact DEF RecvAck, Handle, Adopt, rows, IdleEnd
    <2>2. \A f \in Ends : \/ handler'[f] = handler[f]
                          \/ handler[f] = "idle" /\ handler'[f] = "update"
      BY <2>1 DEF TypeOK
    <2>3. \A f \in Ends : InFlight(f)' \subseteq InFlight(f)
      BY <2>1, ConsumeFacts
    <2>. QED
      BY <2>1, <2>2, <2>3, TaggedStep
  <1>4. ASSUME NEW e \in Ends, Lose(e) PROVE TaggedInv'
    <2>1. /\ Pending(e) /\ Consume(e) /\ handler' = handler
          /\ table' = table /\ announced' = announced /\ refused' = refused
      BY <1>4 DEF Lose, rows
    <2>2. \A f \in Ends : InFlight(f)' \subseteq InFlight(f)
      BY <2>1, ConsumeFacts
    <2>. QED
      BY <2>1, <2>2, TaggedStep
  <1>5. CASE UNCHANGED vars
    BY <1>5 DEF vars, TaggedInv, EndTagged, InFlight, PidsOf
  <1>. QED
    BY <1>1, <1>2, <1>3, <1>4, <1>5, TaggedGoesOn, ReceiveFacts DEF Next

\* A control packet leaves with a PID that the border routers on its side
\* know, although the ack leaves before the new PIDs are announced and the
\* timer may send a request at any time: but for a request sent between the
\* update of the table and the announcement, until that is out, and for an end
\* of which the card refused an announcement.
THEOREM PacketsTagged == Spec => []ViaKnown
<1>1. Init => TaggedInv
  BY DEF Init, TaggedInv, EndTagged, InFlight
<1>2. TypeOK /\ TaggedInv => ViaKnown
  <2>. SUFFICES ASSUME TypeOK, TaggedInv, NEW e \in Ends \ refused,
                       NEW i \in DOMAIN chan[e]
                PROVE  \/ chan[e][i].via \in announced[e]
                       \/ chan[e][i].kind = "request" /\ handler[e] = "announce"
    BY DEF ViaKnown
  <2>1. chan[e] \in Seq(Message)
    BY DEF TypeOK
  <2>2. chan[e][i] \in InFlight(e)
    BY <2>1 DEF InFlight
  <2>. QED
    BY <2>2 DEF TaggedInv, EndTagged
<1>3. Inv => Roles
  BY DEF Inv
<1>. QED
  BY <1>1, <1>2, <1>3, TaggedNext, TypeCorrect, Invariance, PTL DEF Spec

-----------------------------------------------------------------------------
(* The PIDs of a sponsor *)

\* At most one packet of a link is under way while its rounds do not overlap.
One(l) ==
    \/ Len(chan[l]) = 0 /\ Len(chan[Peer(l)]) \in {0, 1}
    \/ Len(chan[l]) = 1 /\ Len(chan[Peer(l)]) = 0

\* What an RM has told its border routers for a link, or will have when its
\* handler is through.
Known(e) == announced[e] \cup (IF handler[e] = "idle" THEN {} ELSE PidsOf(pid[e]))

\* The links whose rounds do not overlap and whose responder's announcements
\* the card took.
Plain == {l \in Links \ overlapped : Peer(l) \notin refused}

\* On such a link the responder's routers know the PIDs the sponsor uses, and
\* with an ack under way the ones it remembers.
KnownInv ==
    \A l \in Plain :
        /\ One(l)
        /\ PidsOf(pid[l]) \subseteq Known(Peer(l))
        /\ Has(Peer(l), "ack") => PidsOf(pidCache[l]) \subseteq Known(Peer(l))

\* The only packet of a link is all that is under way on it.
LEMMA OneFacts ==
    ASSUME TypeOK, NEW l \in Links, One(l), NEW e \in {l, Peer(l)}, Pending(e)
    PROVE  /\ Len(chan[Peer(e)]) = 1 /\ Len(chan[e]) = 0
           /\ InFlight(Peer(e)) = {Received(e)} /\ InFlight(e) = {}
  <1>1. /\ chan[e] \in Seq(Message) /\ chan[Peer(e)] \in Seq(Message)
        /\ chan[Peer(e)] # <<>> /\ Peer(Peer(e)) = e /\ Peer(Peer(l)) = l
    BY EndFacts DEF TypeOK, Pending
  <1>2. Len(chan[Peer(e)]) # 0
    BY <1>1
  <1>3. Len(chan[Peer(e)]) = 1 /\ Len(chan[e]) = 0
    BY <1>1, <1>2 DEF One
  <1>4. InFlight(e) = {}
    BY <1>3 DEF InFlight
  <1>5. InFlight(Peer(e)) = {chan[Peer(e)][1]}
    BY <1>3 DEF InFlight
  <1>. QED
    BY <1>1, <1>3, <1>4, <1>5 DEF Received

\* An end of which nothing changes.
LEMMA KnownSame ==
    ASSUME NEW f \in Ends,
           announced'[f] = announced[f], handler'[f] = handler[f], pid'[f] = pid[f]
    PROVE  Known(f)' = Known(f)
  BY DEF Known, PidsOf

\* A link of which nothing changes.
LEMMA KnownFrame ==
    ASSUME KnownInv, NEW l \in Plain,
           chan'[l] = chan[l], chan'[Peer(l)] = chan[Peer(l)],
           pid'[l] = pid[l], pidCache'[l] = pidCache[l],
           Known(Peer(l))' = Known(Peer(l))
    PROVE  /\ One(l)'
           /\ PidsOf(pid'[l]) \subseteq Known(Peer(l))'
           /\ Has(Peer(l), "ack")' => PidsOf(pidCache'[l]) \subseteq Known(Peer(l))'
  BY DEF KnownInv, One, Has, InFlight, PidsOf

LEMMA KnownRequest ==
    ASSUME TypeOK, KnownInv, NEW k \in Links, SendRequest(k)
    PROVE  KnownInv'
  <1>. SUFFICES ASSUME NEW l \in Plain'
                PROVE  /\ One(l)'
                       /\ PidsOf(pid'[l]) \subseteq Known(Peer(l))'
                       /\ Has(Peer(l), "ack")' => PidsOf(pidCache'[l]) \subseteq Known(Peer(l))'
    BY DEF KnownInv, PidsOf
  <1>1. PICK m \in Message :
             /\ m.kind = "request"
             /\ chan'[k] = Append(chan[k], m)
             /\ InFlight(k)' = InFlight(k) \cup {m}
             /\ \A f \in Ends \ {k} : chan'[f] = chan[f] /\ InFlight(f)' = InFlight(f)
    BY RequestFacts
  <1>2. /\ pid' = pid /\ pidCache' = pidCache /\ announced' = announced
        /\ handler' = handler /\ l \in Plain
        /\ l = k => chan[l] = <<>> /\ chan[Peer(l)] = <<>>
    BY DEF SendRequest, local, rows, cache, Plain
  <1>3. /\ Peer(l) \in Ends \ {k} /\ l \in Ends
        /\ Known(Peer(l))' = Known(Peer(l))
    BY <1>2, EndFacts, KnownSame DEF Plain
  <1>4. CASE l = k
    <2>1. chan'[l] = <<m>> /\ chan'[Peer(l)] = <<>>
      BY <1>1, <1>2, <1>3, <1>4
    <2>2. Len(chan'[l]) = 1 /\ Len(chan'[Peer(l)]) = 0
      BY <2>1
    <2>3. ~Has(Peer(l), "ack")'
      BY <2>2 DEF Has, InFlight
    <2>. QED
      BY <1>2, <1>3, <2>2, <2>3 DEF KnownInv, One, PidsOf
  <1>5. CASE l # k
    BY <1>1, <1>2, <1>3, <1>5, KnownFrame
  <1>. QED
    BY <1>4, <1>5

LEMMA KnownAnswers ==
    ASSUME TypeOK, LastB, KnownInv, NEW e \in Ends, NEW m \in Message, Answers(e, m),
           overlapped' = overlapped
    PROVE  KnownInv'
  <1>. SUFFICES ASSUME NEW l \in Plain
                PROVE  /\ One(l)'
                       /\ PidsOf(pid'[l]) \subseteq Known(Peer(l))'
                       /\ Has(Peer(l), "ack")' => PidsOf(pidCache'[l]) \subseteq Known(Peer(l))'
    <2>1. Plain' = Plain
      BY DEF Plain, Answers, Adopt, rows
    <2>. QED
      BY <2>1 DEF KnownInv, PidsOf
  <1>1. /\ ~Busy(e[1]) /\ Pending(e) /\ Reply(e, m) /\ announced' = announced
    BY DEF Answers, Adopt, rows
  <1>2. /\ l \in Links /\ l \in Ends /\ Peer(l) \in Ends /\ Peer(l) \notin Links /\ l # Peer(l) /\ Peer(Peer(l)) = l
    BY EndFacts DEF Plain
  <1>3. CASE l # LinkOf(e)
    <2>1. l \notin {e, Peer(e)} /\ Peer(l) \notin {e, Peer(e)}
      BY <1>2, <1>3, OtherLink
    <2>2. chan'[l] = chan[l] /\ chan'[Peer(l)] = chan[Peer(l)]
      BY <1>1, <1>2, <2>1, ReplyFacts
    <2>3. /\ pid'[l] = pid[l] /\ pidCache'[l] = pidCache[l]
          /\ pid'[Peer(l)] = pid[Peer(l)] /\ handler'[Peer(l)] = handler[Peer(l)]
      BY <1>2, <2>1 DEF Answers, Adopt, TypeOK, local, rows, cache
    <2>. QED
      BY <1>1, <1>2, <2>2, <2>3, KnownSame, KnownFrame
  <1>4. CASE l = LinkOf(e)
    <2>1. e \in {l, Peer(l)}
      BY <1>4, EndFacts
    <2>2. One(l)
      BY DEF KnownInv
    <2>3. /\ Len(chan[Peer(e)]) = 1 /\ Len(chan[e]) = 0
          /\ InFlight(Peer(e)) = {Received(e)} /\ InFlight(e) = {}
      BY <1>1, <1>2, <2>1, <2>2, OneFacts
    <2>4. /\ Len(chan'[e]) = 1 /\ Len(chan'[Peer(e)]) = 0
          /\ InFlight(e)' = {m}
      BY <1>1, <2>3, ReplyFacts, TakeFacts, PutFacts
    <2>5. InFlight(Peer(e))' = {}
      BY <2>4 DEF InFlight
    <2>6. One(l)'
      BY <1>2, <2>1, <2>4 DEF One
    <2>7. CASE m.kind \in {"a", "b"}
      <3>1. pid' = pid /\ Known(Peer(l))' = Known(Peer(l))
        BY <1>1, <1>2, <2>7, KnownSame DEF Answers, local
      <3>2. ~Has(Peer(l), "ack")'
        BY <1>2, <2>1, <2>4, <2>5, <2>7 DEF Has
      <3>. QED
        BY <2>6, <3>1, <3>2 DEF KnownInv, PidsOf
    <2>8. CASE m.kind = "ack"
      <3>1. /\ Received(e).kind = "b" /\ pidCache' = pidCache
            /\ Adopt(e, Received(e).pid, Received(e).time)
            /\ Peer(e) \in Links
        BY <2>8 DEF Answers, cache
      <3>2. e = Peer(l)
        BY <1>2, <2>1, <3>1
      <3>3. /\ pid'[l] = pid[l] /\ pid'[e] = Received(e).pid
            /\ handler[e] = "idle" /\ handler'[e] = "update"
        BY <1>1, <1>2, <3>1, <3>2, IdleFact DEF Adopt, TypeOK, IdleEnd
      <3>4. Received(e).pid = pidCache[l]
        <4>1. ~Has(Peer(e), "b")'
          BY <2>5 DEF Has
        <4>2. chan'[Peer(e)] = Tail(chan[Peer(e)])
          BY <1>1, ReplyFacts
        <4>. QED
          BY <1>1, <1>2, <3>1, <3>2, <4>1, <4>2, LastBHead DEF Handle
      <3>5. /\ Known(e) = announced[e]
            /\ Known(e)' = announced[e] \cup PidsOf(pidCache[l])
        BY <1>1, <3>3, <3>4 DEF Known, PidsOf
      <3>. QED
        BY <2>6, <3>1, <3>2, <3>3, <3>5 DEF KnownInv, PidsOf
    <2>. QED
      BY <2>7, <2>8 DEF Answers
  <1>. QED
    BY <1>3, <1>4

\* The ack, and a loss: packets disappear, and the ack has the sponsor use
\* what it remembers.
LEMMA KnownConsume ==
    ASSUME TypeOK, KnownInv, NEW e \in Ends, Pending(e), Consume(e),
           overlapped' = overlapped, pidCache' = pidCache,
           \/ pid' = pid /\ handler' = handler /\ UNCHANGED rows
           \/ /\ e \in Links /\ Received(e).kind = "ack"
              /\ Adopt(e, pidCache[e], timeCache[e[1]])
    PROVE  KnownInv'
  <1>. SUFFICES ASSUME NEW l \in Plain
                PROVE  /\ One(l)'
                       /\ PidsOf(pid'[l]) \subseteq Known(Peer(l))'
                       /\ Has(Peer(l), "ack")' => PidsOf(pidCache'[l]) \subseteq Known(Peer(l))'
    <2>1. Plain' = Plain
      BY DEF Plain, Adopt, rows
    <2>. QED
      BY <2>1 DEF KnownInv, PidsOf
  <1>1. l \in Links /\ l \in Ends /\ Peer(l) \in Ends /\ Peer(l) \notin Links /\ l # Peer(l) /\ Peer(Peer(l)) = l
    BY EndFacts DEF Plain
  <1>2. Known(Peer(l))' = Known(Peer(l))
    <2>1. /\ announced' = announced
          /\ pid'[Peer(l)] = pid[Peer(l)] /\ handler'[Peer(l)] = handler[Peer(l)]
      BY <1>1 DEF Adopt, TypeOK, rows
    <2>. QED
      BY <1>1, <2>1, KnownSame
  <1>3. CASE l # LinkOf(e)
    <2>1. l \notin {e, Peer(e)} /\ Peer(l) \notin {e, Peer(e)}
      BY <1>1, <1>3, OtherLink
    <2>2. chan'[l] = chan[l] /\ chan'[Peer(l)] = chan[Peer(l)]
      BY <1>1, <2>1, ConsumeFacts
    <2>3. pid'[l] = pid[l]
      BY <1>1, <2>1 DEF Adopt, TypeOK
    <2>. QED
      BY <1>2, <2>2, <2>3, KnownFrame
  <1>4. CASE l = LinkOf(e)
    <2>1. e \in {l, Peer(l)}
      BY <1>4, EndFacts
    <2>2. /\ Len(chan[Peer(e)]) = 1 /\ Len(chan[e]) = 0
          /\ InFlight(Peer(e)) = {Received(e)} /\ InFlight(e) = {}
      BY <1>1, <2>1, OneFacts DEF KnownInv
    <2>3. Len(chan'[e]) = 0 /\ Len(chan'[Peer(e)]) = 0
      BY <2>2, ConsumeFacts, TakeFacts, EndFacts
    <2>4. One(l)' /\ ~Has(Peer(l), "ack")'
      BY <1>1, <2>1, <2>3 DEF One, Has, InFlight
    <2>5. PidsOf(pid'[l]) \subseteq Known(Peer(l))
      <3>1. CASE pid' = pid
        BY <3>1 DEF KnownInv, PidsOf
      <3>2. CASE e \in Links /\ Received(e).kind = "ack" /\ Adopt(e, pidCache[e], timeCache[e[1]])
        <4>1. e = l /\ pid'[l] = pidCache[l]
          BY <1>1, <2>1, <3>2 DEF Adopt, TypeOK
        <4>2. Has(Peer(l), "ack")
          BY <2>2, <3>2, <4>1 DEF Has
        <4>. QED
          BY <4>1, <4>2 DEF KnownInv, PidsOf
      <3>. QED
        BY <3>1, <3>2
    <2>. QED
      BY <1>2, <2>4, <2>5
  <1>. QED
    BY <1>3, <1>4

\* The update of the table and the announcement: where the card takes it, the
\* routers are told the rows, which are the chain's PIDs.
LEMMA KnownGoesOn ==
    ASSUME TypeOK, RowsInv, KnownInv, NEW e \in Ends, HandlerGoesOn(e)
    PROVE  KnownInv'
  <1>. SUFFICES ASSUME NEW l \in Plain'
                PROVE  /\ One(l)'
                       /\ PidsOf(pid'[l]) \subseteq Known(Peer(l))'
                       /\ Has(Peer(l), "ack")' => PidsOf(pidCache'[l]) \subseteq Known(Peer(l))'
    BY DEF KnownInv, PidsOf
  <1>1. /\ pid' = pid /\ pidCache' = pidCache /\ chan' = chan
        /\ overlapped' = overlapped
    BY GoesOnFrame
  <1>2. refused \subseteq refused'
    BY DEF HandlerGoesOn, update_nid_ip_nid_ip_nid, announce_ip_nid_ip
  <1>3. l \in Plain /\ Peer(l) \in Ends
    BY <1>1, <1>2, EndFacts DEF Plain
  <1>4. Known(Peer(l))' = Known(Peer(l))
    <2>1. CASE e # Peer(l)
      <3>1. /\ announced'[Peer(l)] = announced[Peer(l)]
            /\ handler'[Peer(l)] = handler[Peer(l)]
        BY <1>3, <2>1 DEF HandlerGoesOn, update_nid_ip_nid_ip_nid,
                          announce_ip_nid_ip, TypeOK
      <3>. QED
        BY <1>1, <1>3, <3>1, KnownSame
    <2>2. CASE e = Peer(l) /\ update_nid_ip_nid_ip_nid(e)
      <3>1. /\ announced' = announced
            /\ handler[e] = "update" /\ handler'[e] = "announce"
        BY <2>2 DEF update_nid_ip_nid_ip_nid, TypeOK
      <3>. QED
        BY <1>1, <2>2, <3>1 DEF Known, PidsOf
    <2>3. CASE e = Peer(l) /\ announce_ip_nid_ip(e)
      <3>1. PICK told \in SUBSET PidsOf(table[e]) :
              /\ announced' = [announced EXCEPT ![e] = @ \cup told]
              /\ refused' = IF told = PidsOf(table[e]) THEN refused
                            ELSE refused \cup {e}
        BY <2>3 DEF announce_ip_nid_ip
      <3>2. e \notin refused'
        BY <2>3 DEF Plain
      <3>3. announced'[e] = announced[e] \cup PidsOf(table[e])
        BY <3>1, <3>2 DEF TypeOK
      <3>4. handler[e] = "announce" /\ handler'[e] = "idle"
        BY <2>3 DEF announce_ip_nid_ip, TypeOK
      <3>5. table[e] = pid[e]
        BY <3>4 DEF RowsInv
      <3>. QED
        BY <1>1, <2>3, <3>3, <3>4, <3>5 DEF Known, PidsOf
    <2>. QED
      BY <2>1, <2>2, <2>3 DEF HandlerGoesOn
  <1>5. chan'[l] = chan[l] /\ chan'[Peer(l)] = chan[Peer(l)]
    BY <1>1
  <1>. QED
    BY <1>1, <1>3, <1>4, <1>5, KnownFrame

LEMMA KnownNext == TypeOK /\ Inv /\ RowsInv /\ KnownInv /\ [Next]_vars => KnownInv'
  <1>. SUFFICES ASSUME TypeOK, Inv, RowsInv, KnownInv, [Next]_vars PROVE KnownInv'
    OBVIOUS
  <1>1. ASSUME NEW e \in Ends, Receive(e) PROVE KnownInv'
    <2>1. /\ Pending(e) /\ overlapped' = overlapped
          /\ (\E m \in Message : Answers(e, m)) \/ (RecvAck(e) /\ e \in Links)
      BY <1>1, ReceiveFacts DEF Inv
    <2>2. ASSUME RecvAck(e), e \in Links PROVE KnownInv'
      <3>1. /\ Consume(e) /\ Received(e).kind = "ack" /\ pidCache' = pidCache
            /\ Adopt(e, pidCache[e], timeCache[e[1]])
        BY <2>2 DEF RecvAck, Handle, cache
      <3>. QED
        BY <2>1, <2>2, <3>1, KnownConsume
    <2>. QED
      BY <2>1, <2>2, KnownAnswers DEF Inv
  <1>2. ASSUME NEW e \in Ends, Lose(e) PROVE KnownInv'
    <2>1. /\ Pending(e) /\ Consume(e)
          /\ overlapped' = overlapped /\ pidCache' = pidCache
          /\ pid' = pid /\ handler' = handler /\ UNCHANGED rows
      BY <1>2 DEF Lose, local, cache
    <2>. QED
      BY <2>1, KnownConsume
  <1>3. CASE UNCHANGED vars
    BY <1>3 DEF vars, KnownInv, Plain, Known, One, Has, InFlight, PidsOf
  <1>. QED
    BY <1>1, <1>2, <1>3, KnownRequest, KnownGoesOn DEF Next

\* A sponsor uses only PIDs that the responder's border routers were told, as
\* long as the rounds of the link do not overlap, whatever is lost: but while
\* the responder still has to announce them, and after a refused announcement.
THEOREM SponsorsKnown == Spec => []SponsorPidsKnown
<1>1. Init => KnownInv
  <2>. SUFFICES ASSUME Init, NEW l \in Plain
                PROVE  /\ One(l)
                       /\ PidsOf(pid[l]) \subseteq Known(Peer(l))
                       /\ ~Has(Peer(l), "ack")
    BY DEF KnownInv
  <2>0. l \in Links
    BY DEF Plain
  <2>1. chan[l] = <<>> /\ chan[Peer(l)] = <<>>
    BY <2>0, EndFacts DEF Init
  <2>2. pid[l] = InitPid[l] /\ announced[Peer(l)] = PidsOf(InitPid[l])
    BY <2>0, EndFacts DEF Init
  <2>. QED
    BY <2>1, <2>2 DEF One, Has, InFlight, Known
<1>2. KnownInv => SponsorPidsKnown
  BY DEF KnownInv, SponsorPidsKnown, Plain, Known
<1>3. Init => RowsInv
  BY DEF Init, RowsInv
<1>4. Inv => Roles
  BY DEF Inv
<1>. QED
  BY <1>1, <1>2, <1>3, <1>4, RowsNext, KnownNext, TypeCorrect, Invariance, PTL DEF Spec

-----------------------------------------------------------------------------
(* The change time *)

\* The links whose sponsor has no other, so that time_huancun_pid_a is theirs.
Sole == {l \in Links : Sponsored(l[1]) = {l}}

\* The element at i is the last b of a queue.
YoungestB(q, i) ==
    /\ q[i].kind = "b"
    /\ \A j \in (i + 1)..Len(q) : q[j].kind # "b"

\* What LastB and Agree say of the PIDs, said of the time of link l: the time
\* of the youngest b is remembered, and without a or b under way the ends
\* agree or will when the acks arrive.
LinkTime(l) ==
    /\ \A i \in 1..Len(chan[l]) :
         YoungestB(chan[l], i) => chan[l][i].time = timeCache[l[1]]
    /\ l \notin lost /\ ~Has(l, "b") /\ ~Has(Peer(l), "a") =>
         IF Has(Peer(l), "ack") THEN changeTime[Peer(l)] = timeCache[l[1]]
                                ELSE changeTime[Peer(l)] = changeTime[l]

TimeInv == \A l \in Sole : LinkTime(l)

\* The last b of a queue before and after its head is taken.
LEMMA YoungestTake ==
    ASSUME TypeOK, NEW e \in Ends, Pending(e),
           chan'[Peer(e)] = Tail(chan[Peer(e)]),
           NEW i \in 1..Len(chan'[Peer(e)]), YoungestB(chan'[Peer(e)], i)
    PROVE  /\ i + 1 \in 1..Len(chan[Peer(e)])
           /\ YoungestB(chan[Peer(e)], i + 1)
           /\ chan'[Peer(e)][i] = chan[Peer(e)][i + 1]
  <1>1. /\ Len(chan'[Peer(e)]) = Len(chan[Peer(e)]) - 1
        /\ Len(chan[Peer(e)]) \in Nat \ {0}
        /\ \A k \in 1..(Len(chan[Peer(e)]) - 1) : chan'[Peer(e)][k] = chan[Peer(e)][k + 1]
    BY TakeFacts
  <1>2. i + 1 \in 1..Len(chan[Peer(e)]) /\ chan'[Peer(e)][i] = chan[Peer(e)][i + 1]
    BY <1>1
  <1>3. ASSUME NEW j \in ((i + 1) + 1)..Len(chan[Peer(e)])
        PROVE  chan[Peer(e)][j].kind # "b"
    <2>1. j - 1 \in (i + 1)..Len(chan'[Peer(e)]) /\ chan'[Peer(e)][j - 1] = chan[Peer(e)][j]
      BY <1>1
    <2>. QED
      BY <2>1 DEF YoungestB
  <1>. QED
    BY <1>2, <1>3 DEF YoungestB

\* And before and after a packet is appended.
LEMMA YoungestPut ==
    ASSUME TypeOK, NEW e \in Ends, NEW m \in Message,
           chan'[e] = Append(chan[e], m),
           NEW i \in 1..Len(chan'[e]), YoungestB(chan'[e], i)
    PROVE  \/ m.kind = "b" /\ chan'[e][i] = m
           \/ /\ m.kind # "b" /\ i \in 1..Len(chan[e])
              /\ YoungestB(chan[e], i) /\ chan'[e][i] = chan[e][i]
  <1>1. /\ Len(chan'[e]) = Len(chan[e]) + 1 /\ Len(chan[e]) \in Nat
        /\ chan'[e][Len(chan[e]) + 1] = m
        /\ \A k \in 1..Len(chan[e]) : chan'[e][k] = chan[e][k]
    BY PutFacts
  <1>2. CASE i = Len(chan[e]) + 1
    BY <1>1, <1>2 DEF YoungestB
  <1>3. CASE i # Len(chan[e]) + 1
    <2>1. i \in 1..Len(chan[e]) /\ Len(chan[e]) + 1 \in (i + 1)..Len(chan'[e])
      BY <1>1, <1>3
    <2>2. m.kind # "b"
      BY <1>1, <2>1 DEF YoungestB
    <2>3. \A j \in (i + 1)..Len(chan[e]) : chan[e][j].kind # "b"
      BY <1>1, <2>1 DEF YoungestB
    <2>. QED
      BY <1>1, <2>1, <2>2, <2>3 DEF YoungestB
  <1>. QED
    BY <1>2, <1>3

\* The head is the last b if there is none behind it.
LEMMA YoungestHead ==
    ASSUME TypeOK, NEW e \in Ends, Pending(e), Received(e).kind = "b",
           chan'[Peer(e)] = Tail(chan[Peer(e)]), ~Has(Peer(e), "b")'
    PROVE  /\ 1 \in 1..Len(chan[Peer(e)])
           /\ YoungestB(chan[Peer(e)], 1)
           /\ chan[Peer(e)][1] = Received(e)
  <1>1. /\ Received(e) = chan[Peer(e)][1]
        /\ Len(chan'[Peer(e)]) = Len(chan[Peer(e)]) - 1
        /\ Len(chan[Peer(e)]) \in Nat \ {0}
        /\ \A k \in 1..(Len(chan[Peer(e)]) - 1) : chan'[Peer(e)][k] = chan[Peer(e)][k + 1]
    BY TakeFacts
  <1>2. ASSUME NEW j \in (1 + 1)..Len(chan[Peer(e)])
        PROVE  chan[Peer(e)][j].kind # "b"
    <2>1. j - 1 \in 1..Len(chan'[Peer(e)]) /\ chan'[Peer(e)][j - 1] = chan[Peer(e)][j]
      BY <1>1
    <2>. QED
      BY <2>1 DEF Has, InFlight
  <1>. QED
    BY <1>1, <1>2 DEF YoungestB

\* A link of which nothing changes.
LEMMA TimeFrame ==
    ASSUME NEW l \in Sole, LinkTime(l),
           chan'[l] = chan[l], chan'[Peer(l)] = chan[Peer(l)],
           changeTime'[l] = changeTime[l], changeTime'[Peer(l)] = changeTime[Peer(l)],
           timeCache'[l[1]] = timeCache[l[1]], lost \subseteq lost'
    PROVE  LinkTime(l)'
  BY DEF LinkTime, YoungestB, Has, InFlight

\* The variable of a sponsor of one link is written by no other link.
LEMMA SoleSponsor ==
    ASSUME NEW l \in Sole, NEW e \in Links, e # l
    PROVE  e[1] # l[1]
  BY DEF Sole, Sponsored

LEMMA TimeRequest ==
    ASSUME TypeOK, TimeInv, NEW k \in Links, SendRequest(k)
    PROVE  TimeInv'
  <1>. SUFFICES ASSUME NEW l \in Sole PROVE LinkTime(l)'
    BY DEF TimeInv
  <1>1. PICK m \in Message :
             /\ m.kind = "request"
             /\ chan'[k] = Append(chan[k], m)
             /\ InFlight(k)' = InFlight(k) \cup {m}
             /\ \A f \in Ends \ {k} : chan'[f] = chan[f] /\ InFlight(f)' = InFlight(f)
    BY RequestFacts
  <1>2. changeTime' = changeTime /\ timeCache' = timeCache /\ lost' = lost
    BY DEF SendRequest, local, rows, cache
  <1>3. l \in Links /\ l \in Ends /\ Peer(l) \in Ends \ {k}
    BY EndFacts DEF Sole
  <1>4. \A kind \in {"a", "b", "ack"} : \A f \in Ends : Has(f, kind)' <=> Has(f, kind)
    BY <1>1 DEF Has
  <1>5. ASSUME NEW i \in 1..Len(chan'[l]), YoungestB(chan'[l], i)
        PROVE  chan'[l][i].time = timeCache[l[1]]
    <2>1. CASE l = k
      BY <1>1, <1>3, <1>5, <2>1, YoungestPut DEF TimeInv, LinkTime
    <2>2. CASE l # k
      BY <1>1, <1>3, <1>5, <2>2 DEF TimeInv, LinkTime
    <2>. QED
      BY <2>1, <2>2
  <1>. QED
    BY <1>2, <1>3, <1>4, <1>5 DEF TimeInv, LinkTime

LEMMA TimeAnswers ==
    ASSUME TypeOK, TimeInv, NEW e \in Ends, NEW m \in Message, Answers(e, m),
           lost' = lost
    PROVE  TimeInv'
  <1>. SUFFICES ASSUME NEW l \in Sole PROVE LinkTime(l)'
    BY DEF TimeInv
  <1>1. /\ Pending(e) /\ Reply(e, m) /\ LinkTime(l)
        /\ l \in Links /\ l \in Ends /\ Peer(l) \in Ends /\ Peer(l) \notin Links
        /\ l # Peer(l) /\ Peer(Peer(l)) = l /\ l[1] \in RMs
    BY EndFacts DEF Answers, TimeInv, Sole
  <1>2. CASE l # LinkOf(e)
    <2>1. l \notin {e, Peer(e)} /\ Peer(l) \notin {e, Peer(e)}
      BY <1>1, <1>2, OtherLink
    <2>2. chan'[l] = chan[l] /\ chan'[Peer(l)] = chan[Peer(l)]
      BY <1>1, <2>1, ReplyFacts
    <2>3. changeTime'[l] = changeTime[l] /\ changeTime'[Peer(l)] = changeTime[Peer(l)]
      BY <1>1, <2>1 DEF Answers, Adopt, TypeOK, local, rows
    <2>4. timeCache'[l[1]] = timeCache[l[1]]
      BY <1>1, <2>1, SoleSponsor DEF Answers, TypeOK, cache
    <2>. QED
      BY <1>1, <2>2, <2>3, <2>4, TimeFrame
  <1>3. CASE l = e
    <2>1. /\ m.kind = "b" /\ timeCache'[l[1]] = m.time
          /\ chan'[l] = Append(chan[l], m) /\ InFlight(l)' = InFlight(l) \cup {m}
      BY <1>1, <1>3, ReplyFacts DEF Answers, TypeOK
    <2>2. \A i \in 1..Len(chan'[l]) : YoungestB(chan'[l], i) => chan'[l][i] = m
      BY <1>1, <2>1, YoungestPut
    <2>3. Has(l, "b")'
      BY <2>1 DEF Has
    <2>. QED
      BY <2>1, <2>2, <2>3 DEF LinkTime
  <1>4. CASE l = Peer(e)
    <2>1. /\ e = Peer(l) /\ m.kind \in {"a", "ack"} /\ timeCache' = timeCache
      BY <1>1, <1>4, EndFacts DEF Answers, cache
    <2>2. /\ chan'[l] = Tail(chan[l])
          /\ InFlight(Peer(l))' = InFlight(Peer(l)) \cup {m}
      BY <1>1, <1>4, <2>1, ReplyFacts
    <2>3. \A i \in 1..Len(chan'[l]) :
             YoungestB(chan'[l], i) => chan'[l][i].time = timeCache'[l[1]]
      BY <1>1, <1>4, <2>1, <2>2, YoungestTake DEF LinkTime
    <2>4. CASE m.kind = "a"
      <3>1. Has(Peer(l), "a")'
        BY <2>2, <2>4 DEF Has
      <3>. QED
        BY <2>3, <3>1 DEF LinkTime
    <2>5. CASE m.kind = "ack"
      <3>1. /\ Received(e).kind = "b" /\ changeTime'[Peer(l)] = Received(e).time
            /\ Has(Peer(l), "ack")'
        BY <1>1, <2>1, <2>2, <2>5 DEF Answers, Adopt, TypeOK, Has
      <3>2. ~Has(l, "b")' => Received(e).time = timeCache[l[1]]
        BY <1>1, <1>4, <2>2, <3>1, YoungestHead DEF LinkTime
      <3>. QED
        BY <2>1, <2>3, <3>1, <3>2 DEF LinkTime
    <2>. QED
      BY <2>1, <2>4, <2>5
  <1>. QED
    BY <1>2, <1>3, <1>4, EndFacts

\* The ack, and a loss, after which nothing is said of the link.
LEMMA TimeConsume ==
    ASSUME TypeOK, TimeInv, NEW e \in Ends, Pending(e), Consume(e),
           timeCache' = timeCache,
           \/ changeTime' = changeTime /\ lost' = lost \cup {LinkOf(e)}
           \/ /\ e \in Links /\ Received(e).kind = "ack" /\ lost' = lost
              /\ Adopt(e, pidCache[e], timeCache[e[1]])
    PROVE  TimeInv'
  <1>. SUFFICES ASSUME NEW l \in Sole PROVE LinkTime(l)'
    BY DEF TimeInv
  <1>1. /\ LinkTime(l)
        /\ l \in Links /\ l \in Ends /\ Peer(l) \in Ends /\ Peer(l) \notin Links
        /\ l # Peer(l) /\ Peer(Peer(l)) = l
    BY EndFacts DEF TimeInv, Sole
  <1>2. CASE l # LinkOf(e)
    <2>1. l \notin {e, Peer(e)} /\ Peer(l) \notin {e, Peer(e)}
      BY <1>1, <1>2, OtherLink
    <2>2. chan'[l] = chan[l] /\ chan'[Peer(l)] = chan[Peer(l)]
      BY <1>1, <2>1, ConsumeFacts
    <2>3. changeTime'[l] = changeTime[l] /\ changeTime'[Peer(l)] = changeTime[Peer(l)]
      BY <1>1, <2>1 DEF Adopt, TypeOK
    <2>. QED
      BY <1>1, <2>2, <2>3, TimeFrame
  <1>3. CASE l = LinkOf(e)
    <2>1. \A i \in 1..Len(chan'[l]) :
             YoungestB(chan'[l], i) => chan'[l][i].time = timeCache'[l[1]]
      <3>1. CASE l = e
        BY <1>1, <3>1, ConsumeFacts, EndFacts DEF LinkTime
      <3>2. CASE l = Peer(e)
        BY <1>1, <3>2, ConsumeFacts, YoungestTake DEF LinkTime
      <3>. QED
        BY <1>3, <3>1, <3>2, EndFacts
    <2>2. CASE l \in lost'
      BY <2>1, <2>2 DEF LinkTime
    <2>3. CASE l \notin lost'
      <3>1. /\ e = l /\ Received(e).kind = "ack" /\ lost' = lost
            /\ Adopt(e, pidCache[e], timeCache[e[1]])
        BY <1>1, <1>3, <2>3, EndFacts
      <3>2. changeTime'[l] = timeCache[l[1]] /\ changeTime'[Peer(l)] = changeTime[Peer(l)]
        BY <1>1, <3>1 DEF Adopt, TypeOK
      <3>3. /\ InFlight(l)' = InFlight(l)
            /\ InFlight(Peer(l)) = InFlight(Peer(l))' \cup {Received(e)}
        BY <1>1, <3>1, ConsumeFacts
      <3>4. /\ Has(l, "b")' <=> Has(l, "b")
            /\ Has(Peer(l), "a")' <=> Has(Peer(l), "a")
            /\ Has(Peer(l), "ack")
        BY <3>1, <3>3 DEF Has
      <3>5. ~Has(l, "b")' /\ ~Has(Peer(l), "a")' => changeTime'[Peer(l)] = timeCache[l[1]]
        BY <1>1, <2>3, <3>1, <3>2, <3>4 DEF LinkTime
      <3>. QED
        BY <2>1, <3>2, <3>5 DEF LinkTime
    <2>. QED
      BY <2>2, <2>3
  <1>. QED
    BY <1>2, <1>3

LEMMA TimeNext == TypeOK /\ Roles /\ TimeInv /\ [Next]_vars => TimeInv'
  <1>. SUFFICES ASSUME TypeOK, Roles, TimeInv, [Next]_vars PROVE TimeInv'
    OBVIOUS
  <1>1. ASSUME NEW e \in Ends, Receive(e) PROVE TimeInv'
    <2>1. /\ Pending(e) /\ lost' = lost
          /\ (\E m \in Message : Answers(e, m)) \/ (RecvAck(e) /\ e \in Links)
      BY <1>1, ReceiveFacts
    <2>2. ASSUME RecvAck(e), e \in Links PROVE TimeInv'
      <3>1. /\ Consume(e) /\ Received(e).kind = "ack" /\ timeCache' = timeCache
            /\ Adopt(e, pidCache[e], timeCache[e[1]])
        BY <2>2 DEF RecvAck, Handle, cache
      <3>. QED
        BY <2>1, <2>2, <3>1, TimeConsume
    <2>. QED
      BY <2>1, <2>2, TimeAnswers
  <1>2. ASSUME NEW e \in Ends, Lose(e) PROVE TimeInv'
    <2>1. /\ Pending(e) /\ Consume(e) /\ timeCache' = timeCache
          /\ changeTime' = changeTime /\ lost' = lost \cup {LinkOf(e)}
      BY <1>2 DEF Lose, local, rows, cache
    <2>. QED
      BY <2>1, TimeConsume
  <1>3. CASE UNCHANGED vars
    BY <1>3 DEF vars, TimeInv, LinkTime, YoungestB, Has, InFlight
  <1>4. ASSUME NEW e \in Ends, HandlerGoesOn(e) PROVE TimeInv'
    BY <1>4, GoesOnFrame DEF TimeInv, LinkTime, YoungestB, Has, InFlight
  <1>. QED
    BY <1>1, <1>2, <1>3, <1>4, TimeRequest DEF Next

\* Both ends of a link have the same change time when no packet of it is
\* under way and none was lost, if its sponsor has no other link.
THEOREM TimesAgree == Spec => []TimeAgreementOne
<1>1. Init => TimeInv
  <2>. SUFFICES ASSUME Init, NEW l \in Sole PROVE LinkTime(l)
    BY DEF TimeInv
  <2>1. l \in Ends /\ Peer(l) \in Ends
    BY EndFacts DEF Sole
  <2>2. chan[l] = <<>> /\ chan[Peer(l)] = <<>> /\ changeTime[l] = changeTime[Peer(l)]
    BY <2>1 DEF Init
  <2>. QED
    BY <2>2 DEF LinkTime, Has, InFlight
<1>2. TimeInv => TimeAgreementOne
  <2>. SUFFICES ASSUME TimeInv, NEW l \in Links, Quiescent(l), l \notin lost,
                       Sponsored(l[1]) = {l}
                PROVE  changeTime[l] = changeTime[Peer(l)]
    BY DEF TimeAgreementOne
  <2>1. InFlight(l) = {} /\ InFlight(Peer(l)) = {}
    BY DEF Quiescent, InFlight
  <2>. QED
    BY <2>1 DEF TimeInv, Sole, LinkTime, Has
<1>3. Inv => Roles
  BY DEF Inv
<1>. QED
  BY <1>1, <1>2, <1>3, TimeNext, TypeCorrect, Invariance, PTL DEF Spec
=============================================================================
