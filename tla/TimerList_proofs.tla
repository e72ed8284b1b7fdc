-------------------------- MODULE TimerList_proofs --------------------------
(***************************************************************************)
(* Proofs about TimerList and LocalInform, for any ports, delays, requests *)
(* and batches, and for questions about any number of ports.               *)
(*                                                                         *)
(* Both modules define functions that compute each value from the one      *)
(* before: the loop of local_inform over its ports, and the loop of        *)
(* parse_timer_message over its timers.  That such a function exists, and  *)
(* what it computes, is shown by induction over a set of numbers           *)
(* (Recursion, Induction), from the fact that Nat is well-founded.         *)
(*                                                                         *)
(* Question: after k = 13 q + r ports there are q full packets and one     *)
(* with r (PackingIs).                                                     *)
(*                                                                         *)
(* Timers: insert_a_timer is described by where its nodes stood before     *)
(* (Merged); what a request leaves as it was is kept by each of its timers *)
(* (Kept); sig_func takes nodes away from the head (Removed).  The         *)
(* properties are inductive together with                                  *)
(*   - OrderInv: the list is sorted and without repetitions, so that what  *)
(*     follows a node that is not due is not due;                          *)
(*   - ReqInv and FreshInv: nodes came with different requests, so that a  *)
(*     node that ran is not one that is still in the list;                 *)
(*   - HeldInv: an accepted timer is in the list, unless a head was out of *)
(*     date or the list was emptied;                                       *)
(*   - GapInv: elapse is the time since the node before, unless a timer    *)
(*     was replaced, so that elapse 0 means due with the head.             *)
(***************************************************************************)
EXTENDS TimerList, WellFoundedInduction, FiniteSetTheorems, TLAPS

-----------------------------------------------------------------------------
(* Induction and recursion over the natural numbers *)

Less == {p \in Nat \X Nat : p[1] < p[2]}

\* A set of natural numbers has a least one.
LEMMA LeastNumber ==
    ASSUME NEW T \in SUBSET Nat, T # {}
    PROVE  \E n \in T : \A m \in T : n <= m
  <1>1. IsWellFoundedOn(Less, Nat)
    BY NatLessThanWellFounded, Zenon DEF OpToRel, Less
  <1>2. \E n \in T : \A m \in T : ~(<<m, n>> \in Less)
    BY <1>1, WFMin
  <1>3. PICK n \in T : \A m \in T : ~(<<m, n>> \in Less)
    BY <1>2
  <1>4. ASSUME NEW m \in T PROVE n <= m
    <2>1. ~(m < n)
      BY <1>3 DEF Less
    <2> QED BY <2>1
  <1> QED BY <1>4

\* A set that has 0 and with a number its successor has them all.
LEMMA Induction ==
    ASSUME NEW S, 0 \in S, \A n \in Nat : n \in S => n + 1 \in S
    PROVE  \A n \in Nat : n \in S
  <1> SUFFICES ASSUME Nat \ S # {} PROVE FALSE
    OBVIOUS
  <1>1. PICK n \in Nat \ S : \A m \in Nat \ S : n <= m
    BY LeastNumber
  <1>2. n - 1 \in Nat
    BY <1>1
  <1> QED BY <1>1, <1>2

\* f has the values of n steps that start with d.
Steps(D, n) == [D \X (1..n) -> D]
Values(D, n) == [0..n -> D]
Follows(f, d, n, step) == f[0] = d /\ \A k \in 1..n : f[k] = step[<<f[k - 1], k>>]

\* A function that computes each value from the one before exists.
LEMMA Recursion ==
    ASSUME NEW D, NEW d \in D, NEW n \in Nat, NEW step \in Steps(D, n)
    PROVE  \E f \in Values(D, n) : Follows(f, d, n, step)
  <1> USE DEF Steps, Values, Follows
  <1> DEFINE Computes(f, m) == f[0] = d /\ \A k \in 1..m : f[k] = step[<<f[k - 1], k>>]
             S == {m \in Nat : m <= n => \E f \in [0..m -> D] : Computes(f, m)}
  <1>1. 0 \in S
    <2>1. [k \in 0..0 |-> d] \in [0..0 -> D] /\ Computes([k \in 0..0 |-> d], 0)
      OBVIOUS
    <2> QED BY <2>1
  <1>2. ASSUME NEW m \in Nat, m \in S PROVE m + 1 \in S
    <2> SUFFICES ASSUME m + 1 <= n PROVE \E f \in [0..(m + 1) -> D] : Computes(f, m + 1)
      OBVIOUS
    <2>1. PICK f \in [0..m -> D] : Computes(f, m)
      BY <1>2
    <2> DEFINE g == [k \in 0..(m + 1) |-> IF k = m + 1 THEN step[<<f[m], m + 1>>] ELSE f[k]]
    <2>2. step[<<f[m], m + 1>>] \in D
      BY <2>1
    <2>3. g \in [0..(m + 1) -> D]
      BY <2>1, <2>2
    <2>4. g[0] = d
      BY <2>1
    <2>5. ASSUME NEW k \in 1..(m + 1) PROVE g[k] = step[<<g[k - 1], k>>]
      <3>1. g[k - 1] = f[k - 1]
        OBVIOUS
      <3>2. /\ k # m + 1 => g[k] = f[k] /\ k \in 1..m
            /\ g[m + 1] = step[<<f[m], m + 1>>]
            /\ k = m + 1 => k - 1 = m
        OBVIOUS
      <3> HIDE DEF g
      <3>3. CASE k # m + 1
        BY <2>1, <3>1, <3>2, <3>3
      <3>4. CASE k = m + 1
        BY <3>1, <3>2, <3>4
      <3> QED BY <3>3, <3>4
    <2> QED BY <2>3, <2>4, <2>5
  <1>3. n \in S
    <2> HIDE DEF S
    <2> QED BY <1>1, <1>2, Induction
  <1> QED BY <1>3
-----------------------------------------------------------------------------
(* Questions *)

Packet == [count : Int, ports : Seq(Nat)]
Buffers == [sent : Seq(Packet), packet : Packet, left : Int]

\* The entries that fit into a packet.
PerPacket == 13

\* An entry asks for one thing and takes 72 bytes.
LEMMA EntrySize == Entry = 72 /\ Cardinality(set_request) = 1
  <1>1. Items = 1
    <2>1. {k \in DOMAIN Information : Information[k] \in Elements} = {1}
      BY DEF Information, Elements
    <2> QED BY <2>1, FS_Singleton DEF Items
  <1>2. set_request = {"rtt_avg"}
    <2>1. ASSUME NEW e \in Elements
          PROVE  Cardinality({k \in DOMAIN Information : Information[k] = e}) =
                   IF e = "rtt_avg" THEN 1 ELSE 0
      <3>1. CASE e = "rtt_avg"
        <4>1. {k \in DOMAIN Information : Information[k] = e} = {1}
          BY <3>1 DEF Information
        <4> QED BY <3>1, <4>1, FS_Singleton
      <3>2. CASE e # "rtt_avg"
        <4>1. {k \in DOMAIN Information : Information[k] = e} = {}
          BY <3>2 DEF Information
        <4> QED BY <3>2, <4>1, FS_EmptySet
      <3> QED BY <3>1, <3>2
    <2>2. 1 % 2 = 1 /\ 0 % 2 = 0
      OBVIOUS
    <2>3. ASSUME NEW e \in Elements
          PROVE  Cardinality({k \in DOMAIN Information : Information[k] = e}) % 2 = 1 <=> e = "rtt_avg"
      BY <2>1, <2>2
    <2>4. "rtt_avg" \in Elements
      BY DEF Elements
    <2>5. \A e \in Elements : e \in set_request <=> e = "rtt_avg"
      BY <2>3 DEF set_request
    <2>6. set_request \subseteq Elements
      BY DEF set_request
    <2> QED BY <2>4, <2>5, <2>6
  <1>3. Cardinality(set_request) = 1
    BY <1>2, FS_Singleton
  <1>4. Entry = 72
    BY <1>1 DEF Entry, MiddleSize, TailSize
  <1> QED BY <1>3, <1>4

\* A packet is full with thirteen entries.
LEMMA FullAt ==
    ASSUME NEW p \in Packet
    PROVE  NoRoom(p) <=> Len(p.ports) >= PerPacket
  BY EntrySize DEF NoRoom, Used, TypeSize, HeadSize, Buffer, PerPacket, Packet

\* What a turn does to the buffers.
LEMMA AddPortIs ==
    ASSUME NEW b \in Buffers, NEW port \in Nat
    PROVE  AddPort(b, port) =
             IF Len(b.packet.ports) >= PerPacket
             THEN [sent |-> Append(b.sent, [count |-> Len(b.packet.ports), ports |-> b.packet.ports]),
                   packet |-> [count |-> b.left - Len(b.packet.ports), ports |-> <<port>>],
                   left |-> b.left - Len(b.packet.ports)]
             ELSE [sent |-> b.sent,
                   packet |-> [count |-> b.packet.count, ports |-> Append(b.packet.ports, port)],
                   left |-> b.left]
  <1> DEFINE left == b.left - Len(b.packet.ports)
             full == [b.packet EXCEPT !.count = Len(b.packet.ports)]
  <1>1. b = [sent |-> b.sent, packet |-> b.packet, left |-> b.left]
    BY DEF Buffers
  <1>2. b.packet \in Packet
    BY DEF Buffers
  <1>3. b.packet = [count |-> b.packet.count, ports |-> b.packet.ports]
    BY <1>2 DEF Packet
  <1>4. full = [count |-> Len(b.packet.ports), ports |-> b.packet.ports]
    BY <1>3
  <1>5. [Fresh(left) EXCEPT !.ports = <<port>>] = [count |-> left, ports |-> <<port>>]
    BY DEF Fresh
  <1>6. [b EXCEPT !.packet.ports = Append(@, port)] =
          [sent |-> b.sent,
           packet |-> [count |-> b.packet.count, ports |-> Append(b.packet.ports, port)],
           left |-> b.left]
    BY <1>1, <1>3, SMTT(30)
  <1>7. CASE NoRoom(b.packet)
    <2>1. full.count = Len(b.packet.ports)
      BY <1>4
    <2>2. Len(b.packet.ports) >= PerPacket
      BY <1>2, <1>7, FullAt
    <2> QED BY <1>4, <1>5, <1>7, <2>1, <2>2 DEF AddPort
  <1>8. CASE ~NoRoom(b.packet)
    <2>1. ~(Len(b.packet.ports) >= PerPacket)
      BY <1>2, <1>8, FullAt
    <2> QED BY <1>6, <1>8, <2>1 DEF AddPort
  <1> QED BY <1>7, <1>8

\* A turn yields buffers.
LEMMA AddPortType ==
    ASSUME NEW b \in Buffers, NEW port \in Nat
    PROVE  AddPort(b, port) \in Buffers
  <1>1. b.sent \in Seq(Packet) /\ b.packet \in Packet /\ b.left \in Int
    BY DEF Buffers
  <1>2. b.packet.ports \in Seq(Nat) /\ b.packet.count \in Int /\ Len(b.packet.ports) \in Int
    BY <1>1 DEF Packet
  <1>3. [count |-> Len(b.packet.ports), ports |-> b.packet.ports] \in Packet
    BY <1>2 DEF Packet
  <1>4. Append(b.sent, [count |-> Len(b.packet.ports), ports |-> b.packet.ports]) \in Seq(Packet)
    BY <1>1, <1>3
  <1>5. [count |-> b.left - Len(b.packet.ports), ports |-> <<port>>] \in Packet
    BY <1>1, <1>2 DEF Packet
  <1>6. [count |-> b.packet.count, ports |-> Append(b.packet.ports, port)] \in Packet
    BY <1>2 DEF Packet
  <1>7. b.left - Len(b.packet.ports) \in Int
    BY <1>1, <1>2
  <1>8. ASSUME NEW sent \in Seq(Packet), NEW packet \in Packet, NEW left \in Int
        PROVE  [sent |-> sent, packet |-> packet, left |-> left] \in Buffers
    BY DEF Buffers
  <1>9. CASE Len(b.packet.ports) >= PerPacket
    <2>1. AddPort(b, port) =
            [sent |-> Append(b.sent, [count |-> Len(b.packet.ports), ports |-> b.packet.ports]),
             packet |-> [count |-> b.left - Len(b.packet.ports), ports |-> <<port>>],
             left |-> b.left - Len(b.packet.ports)]
      BY AddPortIs, <1>9
    <2> QED BY <1>4, <1>5, <1>7, <1>8, <2>1
  <1>10. CASE ~(Len(b.packet.ports) >= PerPacket)
    <2>1. AddPort(b, port) =
            [sent |-> b.sent,
             packet |-> [count |-> b.packet.count, ports |-> Append(b.packet.ports, port)],
             left |-> b.left]
      BY AddPortIs, <1>10
    <2> QED BY <1>1, <1>6, <1>8, <2>1
  <1> QED BY <1>9, <1>10

\* Each turn goes on with what the one before left.
LEMMA PackingSteps ==
    ASSUME NEW n \in Nat
    PROVE  /\ Packing(n) \in [0..n -> Buffers]
           /\ Packing(n)[0] = [sent |-> <<>>, packet |-> Fresh(n), left |-> n]
           /\ \A k \in 1..n : Packing(n)[k] = AddPort(Packing(n)[k - 1], k)
  <1> DEFINE start == [sent |-> <<>>, packet |-> Fresh(n), left |-> n]
             Def(f) == [k \in 0..n |-> IF k = 0 THEN start ELSE AddPort(f[k - 1], k)]
             step == [p \in Buffers \X (1..n) |-> AddPort(p[1], p[2])]
             P == Packing(n)
  <1>1. start \in Buffers
    BY DEF Buffers, Packet, Fresh
  <1>2. step \in Steps(Buffers, n)
    BY AddPortType DEF Steps
  <1>3. \A b \in Buffers, k \in 1..n : step[<<b, k>>] = AddPort(b, k)
    OBVIOUS
  <1>4. P = CHOOSE g : g = Def(g)
    BY DEF Packing
  <1> HIDE DEF start, step, P
  <1>5. \E f \in Values(Buffers, n) : Follows(f, start, n, step)
    BY <1>1, <1>2, Recursion
  <1>6. PICK f \in [0..n -> Buffers] : f[0] = start /\ \A k \in 1..n : f[k] = step[<<f[k - 1], k>>]
    BY <1>5 DEF Values, Follows
  <1>7. f = Def(f)
    <2>1. ASSUME NEW k \in 0..n, k # 0 PROVE f[k] = AddPort(f[k - 1], k)
      <3>1. k \in 1..n /\ k - 1 \in 0..n
        BY <2>1
      <3>2. f[k - 1] \in Buffers
        BY <1>6, <3>1
      <3> QED BY <1>3, <1>6, <3>1, <3>2
    <2> QED BY <1>6, <2>1
  <1>8. P = Def(P)
    <2> HIDE DEF Def
    <2> QED BY <1>4, <1>7
  <1>9. /\ DOMAIN P = 0..n /\ P = [k \in 0..n |-> P[k]]
        /\ P[0] = start
        /\ \A k \in 1..n : P[k] = AddPort(P[k - 1], k)
    <2>1. \A k \in 0..n : P[k] = IF k = 0 THEN start ELSE AddPort(P[k - 1], k)
      BY <1>8
    <2>2. DOMAIN P = 0..n /\ P = [k \in 0..n |-> P[k]]
      BY <1>8
    <2>3. \A k \in 1..n : k \in 0..n /\ k # 0
      OBVIOUS
    <2>4. P[0] = start
      BY <2>1
    <2>5. \A k \in 1..n : P[k] = AddPort(P[k - 1], k)
      BY <2>1, <2>3
    <2> QED BY <2>2, <2>4, <2>5
  <1>10. \A k \in Nat : k \in {m \in Nat : m <= n => P[m] \in Buffers}
    <2> DEFINE S == {m \in Nat : m <= n => P[m] \in Buffers}
    <2>1. 0 \in S
      BY <1>1, <1>9
    <2>2. ASSUME NEW m \in Nat, m \in S PROVE m + 1 \in S
      <3>1. CASE m + 1 <= n
        <4>1. m + 1 \in 1..n /\ (m + 1) - 1 = m /\ m <= n
          BY <3>1
        <4>2. P[m + 1] = AddPort(P[m], m + 1)
          BY <1>9, <4>1
        <4> QED BY <2>2, <4>1, <4>2, AddPortType
      <3> QED BY <3>1
    <2> HIDE DEF S
    <2>3. \A k \in Nat : k \in S
      BY <2>1, <2>2, Induction
    <2> QED BY <2>3 DEF S
  <1>11. P \in [0..n -> Buffers]
    <2>1. \A k \in 0..n : P[k] \in Buffers
      BY <1>10
    <2> QED BY <1>9, <2>1
  <1> QED BY <1>9, <1>11 DEF P, start

\* The packet with c ports after those of q full packets.
Piece(q, c) == [count |-> c, ports |-> [j \in 1..c |-> PerPacket * q + j]]

\* The buffers of n ports, when k are packed: q full packets and r ports.
Packed(b, n, q, r) ==
    /\ Len(b.sent) = q
    /\ \A i \in 1..q : b.sent[i] = Piece(i - 1, PerPacket)
    /\ b.packet = [count |-> n - PerPacket * q, ports |-> [j \in 1..r |-> PerPacket * q + j]]
    /\ b.left = n - PerPacket * q

PackedTo(b, n, k) ==
    \E q \in Nat, r \in 0..PerPacket :
        /\ k = PerPacket * q + r
        /\ r = 0 => k = 0
        /\ Packed(b, n, q, r)

\* A port that fits goes into the packet.
LEMMA PortFits ==
    ASSUME NEW b \in Buffers, NEW n \in Nat, NEW q \in Nat, NEW r \in 0..(PerPacket - 1),
           Packed(b, n, q, r)
    PROVE  Packed(AddPort(b, PerPacket * q + r + 1), n, q, r + 1)
  <1> DEFINE ports == [j \in 1..r |-> PerPacket * q + j]
             port == PerPacket * q + r + 1
  <1>1. port \in Nat /\ r \in Nat /\ ~(r >= PerPacket)
    BY DEF PerPacket
  <1>2. ports \in Seq(Nat) /\ Len(ports) = r
    BY <1>1 DEF PerPacket
  <1>3. b.packet.ports = ports
    BY DEF Packed
  <1>4. AddPort(b, port) =
          [sent |-> b.sent,
           packet |-> [count |-> b.packet.count, ports |-> Append(b.packet.ports, port)],
           left |-> b.left]
    BY <1>1, <1>2, <1>3, AddPortIs
  <1>5. Append(ports, port) = [j \in 1..(r + 1) |-> PerPacket * q + j]
    BY <1>1, <1>2 DEF PerPacket
  <1> DEFINE c == AddPort(b, port)
             grown == [j \in 1..(r + 1) |-> PerPacket * q + j]
  <1>6. c = [sent |-> b.sent, packet |-> [count |-> b.packet.count, ports |-> grown],
             left |-> b.left]
    BY <1>3, <1>4, <1>5, Zenon
  <1> HIDE DEF c, grown, ports, port
  <1>7. /\ c.sent = b.sent
        /\ c.packet = [count |-> b.packet.count, ports |-> grown]
        /\ c.left = b.left
    BY <1>6
  <1>8. b.packet.count = n - PerPacket * q
    BY DEF Packed
  <1> USE DEF c, grown, port
  <1> QED BY <1>7, <1>8 DEF Packed

\* A port that does not fit starts the next packet.
LEMMA PortStarts ==
    ASSUME NEW b \in Buffers, NEW n \in Nat, NEW q \in Nat, Packed(b, n, q, PerPacket)
    PROVE  Packed(AddPort(b, PerPacket * q + PerPacket + 1), n, q + 1, 1)
  <1> DEFINE ports == [j \in 1..PerPacket |-> PerPacket * q + j]
             port == PerPacket * q + PerPacket + 1
             c == AddPort(b, port)
  <1>1. port \in Nat /\ PerPacket \in Nat
    BY DEF PerPacket
  <1>2. ports \in Seq(Nat) /\ Len(ports) = PerPacket
    BY <1>1 DEF PerPacket
  <1>3. b.packet.ports = ports
    BY DEF Packed
  <1>4. c =
          [sent |-> Append(b.sent, [count |-> PerPacket, ports |-> ports]),
           packet |-> [count |-> b.left - PerPacket, ports |-> <<port>>],
           left |-> b.left - PerPacket]
    <2>1. Len(b.packet.ports) = PerPacket /\ Len(b.packet.ports) >= PerPacket
      BY <1>1, <1>2, <1>3
    <2> HIDE DEF ports, port
    <2> QED BY <1>1, <1>3, <2>1, AddPortIs
  <1>5. Len(b.sent) = q /\ b.sent \in Seq(Packet)
    BY DEF Packed, Buffers
  <1> HIDE DEF c
  <1>6. Len(c.sent) = q + 1
    BY <1>4, <1>5
  <1>7. ASSUME NEW i \in 1..(q + 1) PROVE c.sent[i] = Piece(i - 1, PerPacket)
    <2>1. CASE i = q + 1
      <3>1. c.sent[i] = [count |-> PerPacket, ports |-> ports]
        BY <1>4, <1>5, <2>1
      <3>2. i - 1 = q
        BY <2>1
      <3> QED BY <3>1, <3>2 DEF Piece
    <2>2. CASE i # q + 1
      <3>1. i \in 1..q
        BY <2>2
      <3>2. c.sent[i] = b.sent[i]
        BY <1>4, <1>5, <3>1
      <3> QED BY <3>1, <3>2 DEF Packed
    <2> QED BY <2>1, <2>2
  <1>8. b.left - PerPacket = n - PerPacket * (q + 1)
    BY DEF Packed, PerPacket
  <1>9. PerPacket * (q + 1) + 1 = port
    BY DEF PerPacket
  <1>10. <<port>> = [j \in 1..1 |-> PerPacket * (q + 1) + j]
    <2> HIDE DEF port
    <2>1. \A j \in 1..1 : PerPacket * (q + 1) + j = port
      BY <1>9
    <2> QED BY <2>1
  <1>11. /\ c.packet = [count |-> n - PerPacket * (q + 1),
                        ports |-> [j \in 1..1 |-> PerPacket * (q + 1) + j]]
         /\ c.left = n - PerPacket * (q + 1)
    BY <1>4, <1>8, <1>10
  <1> QED BY <1>6, <1>7, <1>11 DEF Packed, c

\* What each turn leaves.
LEMMA PackingIs ==
    ASSUME NEW n \in Nat
    PROVE  \A k \in 0..n : PackedTo(Packing(n)[k], n, k)
  <1> DEFINE P == Packing(n)
             S == {k \in Nat : k <= n => PackedTo(P[k], n, k)}
  <1>1. 0 \in S
    <2>1. P[0] = [sent |-> <<>>, packet |-> [count |-> n, ports |-> <<>>], left |-> n]
      BY PackingSteps DEF Fresh
    <2>2. <<>> = [j \in 1..0 |-> PerPacket * 0 + j]
      OBVIOUS
    <2>3. n - PerPacket * 0 = n
      BY DEF PerPacket
    <2>4. Packed(P[0], n, 0, 0)
      BY <2>1, <2>2, <2>3 DEF Packed
    <2> QED BY <2>4 DEF PackedTo, PerPacket
  <1>2. ASSUME NEW k \in Nat, k \in S PROVE k + 1 \in S
    <2> SUFFICES ASSUME k + 1 <= n PROVE PackedTo(P[k + 1], n, k + 1)
      OBVIOUS
    <2>1. k + 1 \in 1..n /\ (k + 1) - 1 = k /\ k \in 0..n /\ k <= n
      OBVIOUS
    <2>2. P[k + 1] = AddPort(P[k], k + 1) /\ P[k] \in Buffers
      BY <2>1, PackingSteps, ZenonT(60)
    <2>3. PICK q \in Nat, r \in 0..PerPacket :
            k = PerPacket * q + r /\ (r = 0 => k = 0) /\ Packed(P[k], n, q, r)
      BY <1>2, <2>1 DEF PackedTo
    <2> HIDE DEF P
    <2>4. CASE r = PerPacket
      <3>1. k + 1 = PerPacket * q + PerPacket + 1 /\ k + 1 = PerPacket * (q + 1) + 1
        BY <2>3, <2>4 DEF PerPacket
      <3>2. Packed(P[k + 1], n, q + 1, 1)
        BY <2>2, <2>3, <2>4, <3>1, PortStarts
      <3>3. q + 1 \in Nat /\ 1 \in 0..PerPacket
        BY DEF PerPacket
      <3> QED BY <3>1, <3>2, <3>3 DEF PackedTo
    <2>5. CASE r # PerPacket
      <3>1. r \in 0..(PerPacket - 1) /\ r + 1 \in 0..PerPacket /\ r + 1 # 0
        BY <2>5 DEF PerPacket
      <3>2. k + 1 = PerPacket * q + r + 1 /\ k + 1 = PerPacket * q + (r + 1)
        BY <2>3, <3>1 DEF PerPacket
      <3>3. Packed(P[k + 1], n, q, r + 1)
        BY <2>2, <2>3, <3>1, <3>2, PortFits
      <3> QED BY <3>1, <3>2, <3>3 DEF PackedTo
    <2> QED BY <2>4, <2>5
  <1> HIDE DEF S
  <1>3. \A k \in Nat : k \in S
    BY <1>1, <1>2, Induction
  <1> QED BY <1>3 DEF S

-----------------------------------------------------------------------------
\* The packets of a question about n ports: q full ones and one with r.
Count(q, r, i) == IF i <= q THEN PerPacket ELSE r

Pieces(s, q, r) ==
    /\ s \in Seq(Packet)
    /\ Len(s) = q + 1
    /\ \A i \in 1..(q + 1) : s[i] = Piece(i - 1, Count(q, r, i))

LEMMA QuestionIs ==
    ASSUME NEW n \in Nat
    PROVE  \E q \in Nat, r \in 0..PerPacket : n = PerPacket * q + r /\ Pieces(Question(n), q, r)
  <1> DEFINE b == Packing(n)[n]
  <1>1. b \in Buffers /\ PackedTo(b, n, n)
    <2>1. n \in 0..n
      OBVIOUS
    <2>2. Packing(n) \in [0..n -> Buffers] /\ \A k \in 0..n : PackedTo(Packing(n)[k], n, k)
      BY PackingSteps, PackingIs
    <2> QED BY <2>1, <2>2
  <1>2. Question(n) = Append(b.sent, b.packet)
    BY DEF Question
  <1> HIDE DEF b
  <1>3. PICK q \in Nat, r \in 0..PerPacket :
          n = PerPacket * q + r /\ (r = 0 => n = 0) /\ Packed(b, n, q, r)
    BY <1>1 DEF PackedTo
  <1>4. Len(b.sent) = q /\ b.sent \in Seq(Packet) /\ b.packet \in Packet
    BY <1>1, <1>3 DEF Packed, Buffers
  <1>5. Question(n) \in Seq(Packet) /\ Len(Question(n)) = q + 1
    BY <1>2, <1>4
  <1>6. ASSUME NEW i \in 1..(q + 1) PROVE Question(n)[i] = Piece(i - 1, Count(q, r, i))
    <2>1. CASE i = q + 1
      <3>1. Question(n)[i] = b.packet
        BY <1>2, <1>4, <2>1
      <3>2. n - PerPacket * q = r
        BY <1>3 DEF PerPacket
      <3>3. i - 1 = q /\ Count(q, r, i) = r
        BY <2>1 DEF Count
      <3> QED BY <1>3, <3>1, <3>2, <3>3 DEF Packed, Piece
    <2>2. CASE i # q + 1
      <3>1. i \in 1..q /\ Count(q, r, i) = PerPacket
        BY <2>2 DEF Count
      <3>2. Question(n)[i] = b.sent[i]
        BY <1>2, <1>4, <3>1
      <3> QED BY <1>3, <3>1, <3>2 DEF Packed
    <2> QED BY <2>1, <2>2
  <1> QED BY <1>3, <1>5, <1>6 DEF Pieces

\* Pieces one after the other give the numbers from 1.
LEMMA PiecesJoin ==
    ASSUME NEW m \in Nat, NEW c \in Nat
    PROVE  [j \in 1..m |-> j] \o [j \in 1..c |-> m + j] = [j \in 1..(m + c) |-> j]
  <1> DEFINE a == [j \in 1..m |-> j]
             b == [j \in 1..c |-> m + j]
  <1>1. a \in Seq(Nat) /\ Len(a) = m
    OBVIOUS
  <1>2. b \in Seq(Nat) /\ Len(b) = c
    OBVIOUS
  <1>3. \A j \in 1..m : a[j] = j
    OBVIOUS
  <1>4. \A j \in 1..c : b[j] = m + j
    OBVIOUS
  <1> HIDE DEF a, b
  <1>5. a \o b \in Seq(Nat) /\ Len(a \o b) = m + c
    BY <1>1, <1>2, SMTT(30)
  <1> DEFINE w == a \o b
  <1>6. \A j \in 1..(m + c) : w[j] = j
    <2>1. ASSUME NEW j \in 1..(m + c), j <= m PROVE w[j] = j
      BY <1>1, <1>2, <1>3, <2>1
    <2>2. ASSUME NEW j \in 1..(m + c), j > m PROVE w[j] = j
      <3>1. j - m \in 1..c /\ w[j] = b[j - m]
        BY <1>1, <1>2, <2>2
      <3> QED BY <1>4, <3>1
    <2> HIDE DEF w
    <2> QED BY <2>1, <2>2
  <1>7. w = [j \in 1..(m + c) |-> w[j]]
    <2>1. w \in Seq(Nat) /\ Len(w) = m + c
      BY <1>5
    <2> HIDE DEF w
    <2> QED BY <2>1
  <1>8. w = [j \in 1..(m + c) |-> j]
    <2> HIDE DEF w
    <2> QED BY <1>6, <1>7
  <1> QED BY <1>8 DEF a, b

\* The ports of the pieces in turn are all the ports.
LEMMA PiecesFlat ==
    ASSUME NEW s, NEW q \in Nat, NEW r \in 0..PerPacket, Pieces(s, q, r)
    PROVE  FlattenSeq([k \in DOMAIN s |-> s[k].ports]) = [k \in 1..(PerPacket * q + r) |-> k]
  <1> DEFINE t == [k \in DOMAIN s |-> s[k].ports]
             Def(g) == [i \in 1..Len(t) |-> IF i = 1 THEN t[i] ELSE g[i - 1] \o t[i]]
             Upto(i) == PerPacket * (i - 1) + Count(q, r, i)
             f == [i \in 1..(q + 1) |-> [j \in 1..Upto(i) |-> j]]
             F == CHOOSE g : g = Def(g)
  <1>1. DOMAIN t = 1..(q + 1) /\ Len(t) = q + 1 /\ Len(t) # 0
    BY DEF Pieces
  <1>2. ASSUME NEW i \in 1..(q + 1)
        PROVE  t[i] = [j \in 1..Count(q, r, i) |-> PerPacket * (i - 1) + j]
    <2>1. s[i] = Piece(i - 1, Count(q, r, i)) /\ i \in DOMAIN s
      BY DEF Pieces
    <2> QED BY <2>1 DEF Piece
  <1>3. FlattenSeq(t) = F[q + 1]
    <2> HIDE DEF t
    <2> QED BY <1>1 DEF FlattenSeq
  <1> HIDE DEF t
  <1>4. ASSUME NEW i \in 1..(q + 1)
        PROVE  [j \in 1..Upto(i) |-> j] =
                 IF i = 1 THEN t[i] ELSE [j \in 1..Upto(i - 1) |-> j] \o t[i]
    <2>1. CASE i = 1
      <3>1. Upto(i) = Count(q, r, i) /\ PerPacket * (i - 1) = 0
        BY <2>1 DEF PerPacket, Count
      <3>2. t[i] = [j \in 1..Upto(i) |-> j]
        BY <1>2, <3>1 DEF PerPacket, Count
      <3> QED BY <2>1, <3>2
    <2>2. CASE i # 1
      <3>1. Upto(i - 1) = PerPacket * (i - 1)
        BY <2>2 DEF PerPacket, Count
      <3>2. PerPacket * (i - 1) \in Nat /\ Count(q, r, i) \in Nat
        BY DEF PerPacket, Count
      <3>3. t[i] = [j \in 1..Count(q, r, i) |-> PerPacket * (i - 1) + j]
        BY <1>2
      <3>4. [j \in 1..(PerPacket * (i - 1)) |-> j] \o t[i] = [j \in 1..Upto(i) |-> j]
        BY <3>2, <3>3, PiecesJoin
      <3> QED BY <2>2, <3>1, <3>4
    <2> QED BY <2>1, <2>2
  <1>5. f = Def(f)
    <2> HIDE DEF Upto
    <2>1. \A i \in 1..(q + 1) : f[i] = [j \in 1..Upto(i) |-> j]
      OBVIOUS
    <2>2. ASSUME NEW i \in 1..(q + 1), i # 1 PROVE f[i - 1] = [j \in 1..Upto(i - 1) |-> j]
      <3>1. i - 1 \in 1..(q + 1)
        BY <2>2
      <3> QED BY <2>1, <3>1
    <2>3. \A i \in 1..(q + 1) : f[i] = IF i = 1 THEN t[i] ELSE f[i - 1] \o t[i]
      BY <1>4, <2>1, <2>2
    <2>4. f = [i \in 1..(q + 1) |-> f[i]]
      OBVIOUS
    <2> HIDE DEF f
    <2> QED BY <1>1, <2>3, <2>4
  <1>6. F = Def(F)
    <2> HIDE DEF Def, f
    <2> QED BY <1>5
  <1> HIDE DEF F
  <1>7. \A i \in 1..(q + 1) : F[i] = IF i = 1 THEN t[i] ELSE F[i - 1] \o t[i]
    BY <1>1, <1>6
  <1>8. \A i \in Nat : i \in {m \in Nat : m + 1 <= q + 1 => F[m + 1] = [j \in 1..Upto(m + 1) |-> j]}
    <2> DEFINE S == {m \in Nat : m + 1 <= q + 1 => F[m + 1] = [j \in 1..Upto(m + 1) |-> j]}
    <2> HIDE DEF Upto
    <2>1. 0 \in S
      <3>1. 1 \in 1..(q + 1)
        OBVIOUS
      <3>2. F[1] = t[1] /\ t[1] = [j \in 1..Upto(1) |-> j]
        BY <1>4, <1>7, <3>1
      <3> QED BY <3>2
    <2>2. ASSUME NEW m \in Nat, m \in S PROVE m + 1 \in S
      <3> SUFFICES ASSUME m + 2 <= q + 1 PROVE F[m + 2] = [j \in 1..Upto(m + 2) |-> j]
        OBVIOUS
      <3>1. m + 2 \in 1..(q + 1) /\ m + 2 # 1 /\ (m + 2) - 1 = m + 1 /\ m + 1 <= q + 1
        OBVIOUS
      <3>2. F[m + 1] = [j \in 1..Upto(m + 1) |-> j]
        BY <2>2, <3>1
      <3>3. F[m + 2] = F[m + 1] \o t[m + 2]
        BY <1>7, <3>1
      <3>4. [j \in 1..Upto(m + 2) |-> j] = [j \in 1..Upto(m + 1) |-> j] \o t[m + 2]
        BY <1>4, <3>1
      <3> QED BY <3>2, <3>3, <3>4
    <2> HIDE DEF S
    <2>3. \A i \in Nat : i \in S
      BY <2>1, <2>2, Induction
    <2> QED BY <2>3 DEF S
  <1>9. F[q + 1] = [j \in 1..Upto(q + 1) |-> j]
    BY <1>8
  <1>10. Upto(q + 1) = PerPacket * q + r
    BY DEF PerPacket, Count
  <1> QED BY <1>3, <1>9, <1>10 DEF t

-----------------------------------------------------------------------------
(* The state *)

Node == [id : Ports, flag : Flags, time : Nat, elapse : Int, req : Nat \X Nat]

\* The values of the variables.
TypeOK ==
    /\ now \in Nat
    /\ list \in Seq(Node)
    /\ head \in Seq(Node)
    /\ waiting \in BOOLEAN
    /\ type \in 0..3
    /\ requests \in Nat
    /\ inbox \in Seq(Packet)
    /\ asked \in Asked \cup {-1}
    /\ answered \in Seq(Packet)
    /\ alive \in BOOLEAN
    /\ undefined \in BOOLEAN
    /\ accepted \in SUBSET Node
    /\ done \in SUBSET (Nat \X Nat)
    /\ early \in BOOLEAN
    /\ twice \in BOOLEAN
    /\ stale \in BOOLEAN
    /\ replaced \in BOOLEAN
    /\ wiped \in BOOLEAN

\* a and b are one timer; only the elapse may differ.
Is(a, b) == a.id = b.id /\ a.flag = b.flag /\ a.time = b.time /\ a.req = b.req

\* Ascending in time, and each port is started and ended once.
Sorted(s) ==
    \A i, j \in 1..Len(s) : i < j => s[i].time <= s[j].time /\ ~SameTimer(s[i], s[j])

\* The nodes came with different requests.
Distinct(s) == \A i, j \in 1..Len(s) : i # j => s[i].req # s[j].req

\* The timers of a set are in the future and in the list.
Held(s, timers, t) ==
    \A x \in timers : x.time >= t /\ \E i \in 1..Len(s) : Is(s[i], x)

\* From the second node on, elapse is the time since the node before.
Gaps(s) == \A i \in 2..Len(s) : s[i].elapse = s[i].time - s[i - 1].time

\* The requests of the nodes have come.
ReqInv ==
    /\ \A i \in 1..Len(list) : list[i].req[1] < requests
    /\ \A i \in 1..Len(head) : head[i].req[1] < requests
    /\ \A d \in done : d[1] < requests

OrderInv == undefined \/ Sorted(list)

FreshInv ==
    /\ stale \/ Distinct(list)
    /\ stale \/ \A i \in 1..Len(list) : list[i].req \notin done

HeldInv == undefined \/ stale \/ wiped \/ ~alive \/ Held(list, accepted, now)

GapInv == undefined \/ replaced \/ Gaps(list)

InformInv ==
    /\ asked = -1 => Packets = <<>>
    /\ asked # -1 => Packets = Question(asked)

Inv ==
    /\ TypeOK
    /\ undefined => stale
    /\ ReqInv
    /\ OrderInv
    /\ FreshInv
    /\ RunsOnceAlone
    /\ HeldInv
    /\ GapInv
    /\ NeverEarly
    /\ InformInv
-----------------------------------------------------------------------------
(* Operations on the list *)

\* Numbers from lo to hi that are in a set have a first one.
LEMMA FirstIn ==
    ASSUME NEW lo \in Nat, NEW hi \in Int, NEW S, \E i \in lo..hi : i \in S
    PROVE  \E i \in lo..hi : i \in S /\ \A j \in lo..(i - 1) : j \notin S
  <1> DEFINE T == {i \in lo..hi : i \in S}
  <1>1. T \in SUBSET Nat /\ T # {}
    OBVIOUS
  <1>2. PICK n \in T : \A m \in T : n <= m
    BY <1>1, LeastNumber
  <1>3. ASSUME NEW j \in lo..(n - 1) PROVE j \notin S
    <2>1. j \in lo..hi /\ ~(n <= j)
      BY <1>2
    <2> QED BY <1>2, <2>1
  <1> QED BY <1>2, <1>3

\* The node that a new timer repeats, or one after the last.
LEMMA RepeatedIs ==
    ASSUME NEW s \in Seq(Node), NEW x
    PROVE  /\ Repeated(s, x) \in 1..(Len(s) + 1)
           /\ Repeated(s, x) <= Len(s) => SameTimer(s[Repeated(s, x)], x)
           /\ \A j \in 1..(Repeated(s, x) - 1) : ~SameTimer(s[j], x)
  <1> DEFINE S == {i \in 1..Len(s) : SameTimer(s[i], x)}
  <1>1. Repeated(s, x) = IF \E i \in 1..Len(s) : SameTimer(s[i], x)
                         THEN CHOOSE i \in 1..Len(s) :
                                SameTimer(s[i], x) /\ \A j \in 1..(i - 1) : ~SameTimer(s[j], x)
                         ELSE Len(s) + 1
    BY DEF Repeated, First
  <1>2. Len(s) \in Nat
    OBVIOUS
  <1>3. CASE \E i \in 1..Len(s) : SameTimer(s[i], x)
    <2>1. \E i \in 1..Len(s) : i \in S /\ \A j \in 1..(i - 1) : j \notin S
      <3>1. (\E i \in 1..Len(s) : i \in S) /\ 1 \in Nat /\ Len(s) \in Int
        BY <1>2, <1>3
      <3> HIDE DEF S
      <3> QED BY <3>1, FirstIn
    <2>2. \E i \in 1..Len(s) :
            SameTimer(s[i], x) /\ \A j \in 1..(i - 1) : ~SameTimer(s[j], x)
      BY <1>2, <2>1
    <2> DEFINE r == Repeated(s, x)
    <2>3. r \in 1..Len(s) /\ SameTimer(s[r], x) /\ \A j \in 1..(r - 1) : ~SameTimer(s[j], x)
      BY <1>1, <1>3, <2>2
    <2> QED BY <1>2, <2>3
  <1>4. CASE ~\E i \in 1..Len(s) : SameTimer(s[i], x)
    BY <1>1, <1>2, <1>4
  <1> QED BY <1>3, <1>4

\* The place of a timer in a list: before the first node that is not before it.
Place(s, x) == First(1, Len(s), LAMBDA i : s[i].time >= x.time)

LEMMA PlaceIs ==
    ASSUME NEW s \in Seq(Node), NEW x
    PROVE  /\ Place(s, x) \in 1..(Len(s) + 1)
           /\ Place(s, x) <= Len(s) => s[Place(s, x)].time >= x.time
           /\ \A j \in 1..(Place(s, x) - 1) : ~(s[j].time >= x.time)
  <1> DEFINE S == {i \in 1..Len(s) : s[i].time >= x.time}
  <1>1. Place(s, x) = IF \E i \in 1..Len(s) : s[i].time >= x.time
                      THEN CHOOSE i \in 1..Len(s) :
                             s[i].time >= x.time /\ \A j \in 1..(i - 1) : ~(s[j].time >= x.time)
                      ELSE Len(s) + 1
    BY DEF Place, First
  <1>2. Len(s) \in Nat
    OBVIOUS
  <1>3. CASE \E i \in 1..Len(s) : s[i].time >= x.time
    <2>1. \E i \in 1..Len(s) : i \in S /\ \A j \in 1..(i - 1) : j \notin S
      <3>1. (\E i \in 1..Len(s) : i \in S) /\ 1 \in Nat /\ Len(s) \in Int
        BY <1>2, <1>3
      <3> HIDE DEF S
      <3> QED BY <3>1, FirstIn
    <2>2. \E i \in 1..Len(s) :
            s[i].time >= x.time /\ \A j \in 1..(i - 1) : ~(s[j].time >= x.time)
      BY <1>2, <2>1
    <2> DEFINE p == Place(s, x)
    <2>3. p \in 1..Len(s) /\ s[p].time >= x.time /\ \A j \in 1..(p - 1) : ~(s[j].time >= x.time)
      BY <1>1, <1>3, <2>2
    <2> QED BY <1>2, <2>3
  <1>4. CASE ~\E i \in 1..Len(s) : s[i].time >= x.time
    BY <1>1, <1>2, <1>4
  <1> QED BY <1>3, <1>4

\* One sequence after the other.
LEMMA Concat ==
    ASSUME NEW D, NEW u \in Seq(D), NEW v \in Seq(D)
    PROVE  /\ u \o v \in Seq(D)
           /\ Len(u \o v) = Len(u) + Len(v)
           /\ \A j \in 1..Len(u) : (u \o v)[j] = u[j]
           /\ \A j \in 1..Len(v) : (u \o v)[Len(u) + j] = v[j]
  OBVIOUS

\* The list without the repeated node.
LEMMA RestIs ==
    ASSUME NEW s \in Seq(Node), NEW x,
           NEW i, i = Repeated(s, x),
           NEW rest, rest = delete_repete_timer(s, x)
    PROVE  /\ rest \in Seq(Node)
           /\ Len(rest) = IF i <= Len(s) THEN Len(s) - 1 ELSE Len(s)
           /\ \A j \in 1..Len(rest) : rest[j] = IF j < i THEN s[j] ELSE s[j + 1]
  <1> DEFINE a == SubSeq(s, 1, i - 1)
             b == SubSeq(s, i + 1, Len(s))
  <1>1. i \in 1..(Len(s) + 1) /\ Len(s) \in Nat
    BY RepeatedIs
  <1>2. a \in Seq(Node) /\ Len(a) = i - 1 /\ \A j \in 1..(i - 1) : a[j] = s[j]
    BY <1>1
  <1>3. /\ b \in Seq(Node)
        /\ Len(b) = IF i <= Len(s) THEN Len(s) - i ELSE 0
        /\ \A j \in 1..Len(b) : b[j] = s[i + j]
    BY <1>1
  <1>4. rest = a \o b
    BY DEF delete_repete_timer
  <1> HIDE DEF a, b
  <1>5. /\ rest \in Seq(Node) /\ Len(rest) = Len(a) + Len(b)
        /\ \A j \in 1..Len(a) : rest[j] = a[j]
        /\ \A j \in 1..Len(b) : rest[Len(a) + j] = b[j]
    <2>1. a \in Seq(Node) /\ b \in Seq(Node)
      BY <1>2, <1>3
    <2> QED BY <1>4, <2>1, Concat
  <1>6. Len(rest) = IF i <= Len(s) THEN Len(s) - 1 ELSE Len(s)
    BY <1>1, <1>2, <1>3, <1>5
  <1>7. ASSUME NEW j \in 1..Len(rest) PROVE rest[j] = IF j < i THEN s[j] ELSE s[j + 1]
    <2>1. CASE j < i
      <3>1. j \in 1..Len(a) /\ j \in 1..(i - 1)
        BY <1>1, <1>2, <2>1
      <3> QED BY <1>2, <1>5, <2>1, <3>1
    <2>2. CASE ~(j < i)
      <3>1. Len(a) \in Nat /\ Len(b) \in Nat /\ Len(a) = i - 1 /\ j \in 1..(Len(a) + Len(b))
        BY <1>2, <1>3, <1>5
      <3> DEFINE m == j - Len(a)
      <3>2. m \in 1..Len(b) /\ i + m = j + 1 /\ Len(a) + m = j
        <4>1. i \in Nat /\ j \in Nat /\ j >= i /\ j <= (i - 1) + Len(b)
          BY <1>1, <2>2, <3>1
        <4>2. m = j - (i - 1)
          BY <3>1
        <4>3. \A p, q, l \in Nat :
                p >= q /\ p <= (q - 1) + l =>
                  p - (q - 1) \in 1..l /\ q + (p - (q - 1)) = p + 1 /\ (q - 1) + (p - (q - 1)) = p
          OBVIOUS
        <4> HIDE DEF m
        <4> QED BY <3>1, <4>1, <4>2, <4>3, ZenonT(60)
      <3> HIDE DEF m
      <3> QED BY <1>3, <1>5, <2>2, <3>2
    <2> QED BY <2>1, <2>2
  <1> QED BY <1>5, <1>6, <1>7

\* The list with a new timer, by index.
Inserted(r, rest, k, x, t) ==
    /\ r \in Seq(Node)
    /\ Len(r) = Len(rest) + 1
    /\ \A j \in 1..(k - 1) : r[j] = rest[j]
    /\ r[k] = [x EXCEPT !.elapse = x.time - (IF k = 1 THEN t ELSE rest[k - 1].time)]
    /\ k <= Len(rest) => r[k + 1] = [rest[k] EXCEPT !.elapse = rest[k].time - x.time]
    /\ \A j \in (k + 1)..Len(rest) : r[j + 1] = rest[j]

LEMMA InsertedIs ==
    ASSUME NEW s \in Seq(Node), NEW x \in Node, NEW t \in Nat, x.time >= t
    PROVE  Inserted(insert_a_timer(s, x, t), delete_repete_timer(s, x),
                    Place(delete_repete_timer(s, x), x), x, t)
  <1> DEFINE r == insert_a_timer(s, x, t)
             rest == delete_repete_timer(s, x)
             k == Place(rest, x)
             n == Len(rest)
             y == [x EXCEPT !.elapse = x.time - (IF k = 1 THEN t ELSE rest[k - 1].time)]
             z == [rest[k] EXCEPT !.elapse = rest[k].time - x.time]
             a == SubSeq(rest, 1, k - 1)
             after == IF k > n THEN <<>> ELSE <<z>>
             b == SubSeq(rest, k + 1, n)
  <1>1. rest \in Seq(Node) /\ n \in Nat
    <2>1. rest \in Seq(Node)
      BY RestIs
    <2> QED BY <2>1
  <1>2. k \in 1..(n + 1)
    BY <1>1, PlaceIs
  <1>3. r = a \o <<y>> \o after \o b
    <2>1. ~(x.time < t)
      BY DEF Node
    <2> QED BY <2>1 DEF insert_a_timer, Place
  <1> HIDE DEF r, k, rest
  <1>4. y \in Node
    <2>0. \A j \in 1..n : rest[j] \in Node
      BY <1>1
    <2>1. x.time \in Nat /\ \A j \in 1..n : rest[j].time \in Nat
      BY <2>0 DEF Node
    <2>2. k # 1 => k - 1 \in 1..n
      BY <1>1, <1>2
    <2>3. x.time - (IF k = 1 THEN t ELSE rest[k - 1].time) \in Int
      BY <2>1, <2>2
    <2> QED BY <2>3 DEF Node
  <1>5. k <= n => z \in Node
    <2> SUFFICES ASSUME k <= n PROVE z \in Node
      OBVIOUS
    <2>1. rest[k] \in Node
      BY <1>1, <1>2
    <2>2. rest[k].time - x.time \in Int
      BY <2>1 DEF Node
    <2> QED BY <2>1, <2>2 DEF Node
  <1>6. a \in Seq(Node) /\ Len(a) = k - 1 /\ \A j \in 1..(k - 1) : a[j] = rest[j]
    BY <1>1, <1>2
  <1>7. /\ after \in Seq(Node)
        /\ Len(after) = IF k > n THEN 0 ELSE 1
        /\ k <= n => after[1] = z
    <2> HIDE DEF z
    <2>1. CASE k > n
      BY <1>1, <1>2, <2>1
    <2>2. CASE ~(k > n)
      BY <1>1, <1>2, <1>5, <2>2
    <2> QED BY <2>1, <2>2
  <1>8. /\ b \in Seq(Node)
        /\ Len(b) = IF k <= n THEN n - k ELSE 0
        /\ \A j \in 1..Len(b) : b[j] = rest[k + j]
    BY <1>1, <1>2, SMTT(30)
  <1> HIDE DEF a, after, b, y, z
  <1> DEFINE c == a \o <<y>>
             d == c \o after
  <1>9. /\ c \in Seq(Node) /\ Len(c) = k
        /\ \A j \in 1..(k - 1) : c[j] = rest[j]
        /\ c[k] = y
    <2>1. a \in Seq(Node) /\ <<y>> \in Seq(Node) /\ Len(<<y>>) = 1 /\ <<y>>[1] = y
      BY <1>4, <1>6
    <2>2. /\ c \in Seq(Node) /\ Len(c) = Len(a) + Len(<<y>>)
          /\ \A j \in 1..Len(a) : c[j] = a[j]
          /\ \A j \in 1..Len(<<y>>) : c[Len(a) + j] = <<y>>[j]
      BY <2>1, Concat
    <2>3. k - 1 + 1 = k /\ k \in Nat
      BY <1>1, <1>2
    <2> HIDE DEF c
    <2>4. Len(c) = k
      BY <1>6, <2>1, <2>2, <2>3
    <2>5. c[k] = y
      BY <1>6, <2>1, <2>2, <2>3
    <2> QED BY <1>6, <2>2, <2>4, <2>5
  <1>10. r = d \o b
    BY <1>3
  <1> HIDE DEF c
  <1>11. /\ d \in Seq(Node) /\ Len(d) = IF k > n THEN k ELSE k + 1
         /\ \A j \in 1..k : d[j] = c[j]
         /\ k <= n => d[k + 1] = z
    <2>1. /\ d \in Seq(Node) /\ Len(d) = Len(c) + Len(after)
          /\ \A j \in 1..Len(c) : d[j] = c[j]
          /\ \A j \in 1..Len(after) : d[Len(c) + j] = after[j]
      <3>1. c \in Seq(Node) /\ after \in Seq(Node)
        BY <1>7, <1>9
      <3> QED BY <3>1, Concat
    <2> HIDE DEF d
    <2>2. k <= n => 1 \in 1..Len(after)
      BY <1>1, <1>2, <1>7
    <2> QED BY <1>1, <1>2, <1>7, <1>9, <2>1, <2>2
  <1> HIDE DEF d
  <1>12. /\ r \in Seq(Node) /\ Len(r) = Len(d) + Len(b)
         /\ \A j \in 1..Len(d) : r[j] = d[j]
         /\ \A j \in 1..Len(b) : r[Len(d) + j] = b[j]
    <2>1. d \in Seq(Node) /\ b \in Seq(Node)
      BY <1>8, <1>11
    <2> QED BY <1>10, <2>1, Concat
  <1>13. Len(r) = n + 1
    <2>1. CASE k > n
      <3>1. Len(d) = k /\ Len(b) = 0 /\ k = n + 1
        BY <1>1, <1>2, <1>8, <1>11, <2>1
      <3> QED BY <1>1, <1>12, <3>1
    <2>2. CASE ~(k > n)
      <3>1. Len(d) = k + 1 /\ Len(b) = n - k /\ k \in Nat
        BY <1>1, <1>2, <1>8, <1>11, <2>2
      <3> QED BY <1>1, <1>12, <3>1
    <2> QED BY <2>1, <2>2
  <1>14. ASSUME NEW j \in (k + 1)..n PROVE r[j + 1] = rest[j]
    <2> DEFINE m == j - k
    <2>1. Len(d) = k + 1 /\ Len(b) = n - k
      BY <1>1, <1>2, <1>8, <1>11
    <2>2. m \in 1..(n - k) /\ j + 1 = k + 1 + m /\ k + m = j
      BY <1>1, <1>2
    <2> HIDE DEF m
    <2> QED BY <1>8, <1>12, <2>1, <2>2
  <1>15. /\ \A j \in 1..(k - 1) : r[j] = rest[j]
         /\ r[k] = y
         /\ k <= n => r[k + 1] = z
    <2>1. \A j \in 1..k : j \in 1..Len(d)
      BY <1>1, <1>2, <1>11
    <2>2. k <= n => k + 1 \in 1..Len(d)
      BY <1>1, <1>2, <1>11
    <2>3. k \in 1..k /\ \A j \in 1..(k - 1) : j \in 1..k
      BY <1>1, <1>2
    <2> QED BY <1>9, <1>11, <1>12, <2>1, <2>2, <2>3
  <1> QED BY <1>12, <1>13, <1>14, <1>15 DEF Inserted, r, k, y, z, rest

\* Where a node of the list without the repeated one stood before.
Before(m, i) == IF m < i THEN m ELSE m + 1

\* Where a node of the list with a new one at k stood without it.
Old(j, k) == IF j < k THEN j ELSE j - 1

\* A repeated node is the only one if the list is sorted.
LEMMA RestSorted ==
    ASSUME NEW s \in Seq(Node), NEW x, Sorted(s)
    PROVE  /\ Sorted(delete_repete_timer(s, x))
           /\ \A m \in 1..Len(delete_repete_timer(s, x)) :
                ~SameTimer(delete_repete_timer(s, x)[m], x)
  <1> DEFINE rest == delete_repete_timer(s, x)
             i == Repeated(s, x)
  <1>1. /\ rest \in Seq(Node)
        /\ Len(rest) = IF i <= Len(s) THEN Len(s) - 1 ELSE Len(s)
        /\ \A m \in 1..Len(rest) : rest[m] = IF m < i THEN s[m] ELSE s[m + 1]
    BY RestIs
  <1>2. /\ i \in 1..(Len(s) + 1)
        /\ i <= Len(s) => SameTimer(s[i], x)
        /\ \A j \in 1..(i - 1) : ~SameTimer(s[j], x)
    BY RepeatedIs
  <1> HIDE DEF rest, i
  <1>3. Len(s) \in Nat /\ Len(rest) \in Nat
    BY <1>1
  <1>4. ASSUME NEW m \in 1..Len(rest)
        PROVE  /\ Before(m, i) \in 1..Len(s) /\ Before(m, i) # i
               /\ rest[m] = s[Before(m, i)]
    <2>1. Before(m, i) \in 1..Len(s) /\ Before(m, i) # i
      BY <1>1, <1>2, <1>3 DEF Before
    <2> QED BY <1>1, <2>1 DEF Before
  <1>5. ASSUME NEW m \in 1..Len(rest) PROVE ~SameTimer(rest[m], x)
    <2> DEFINE p == Before(m, i)
    <2>1. p \in 1..Len(s) /\ p # i /\ rest[m] = s[p]
      BY <1>4
    <2> HIDE DEF p
    <2>2. CASE i <= Len(s)
      <3>1. SameTimer(s[i], x) /\ i \in 1..Len(s)
        BY <1>2, <1>3, <2>2
      <3>2. ~SameTimer(s[i], s[p]) \/ ~SameTimer(s[p], s[i])
        <4>1. i < p \/ p < i
          BY <1>3, <2>1, <3>1
        <4> QED BY <2>1, <3>1, <4>1 DEF Sorted
      <3> QED BY <2>1, <3>1, <3>2 DEF SameTimer
    <2>3. CASE ~(i <= Len(s))
      <3>1. p \in 1..(i - 1)
        BY <1>2, <1>3, <2>1, <2>3
      <3> QED BY <1>2, <2>1, <3>1
    <2> QED BY <2>2, <2>3
  <1>6. ASSUME NEW m \in 1..Len(rest), NEW n \in 1..Len(rest), m < n
        PROVE  rest[m].time <= rest[n].time /\ ~SameTimer(rest[m], rest[n])
    <2> DEFINE p == Before(m, i)
               q == Before(n, i)
    <2>1. p \in 1..Len(s) /\ q \in 1..Len(s) /\ rest[m] = s[p] /\ rest[n] = s[q]
      BY <1>4
    <2>2. p < q
      BY <1>2, <1>3, <1>6 DEF Before
    <2> HIDE DEF p, q
    <2> QED BY <2>1, <2>2 DEF Sorted
  <1>7. Sorted(rest)
    BY <1>6 DEF Sorted
  <1> QED BY <1>5, <1>7 DEF rest

\* A list with a new timer: where it is, and where the others stood before.
Merged(r, s, x, k, o) ==
    /\ Is(r[k], x)
    /\ \A j \in 1..Len(r) : j # k => o[j] \in 1..Len(s) /\ Is(r[j], s[o[j]])
    /\ \A j1, j2 \in 1..Len(r) : j1 # k /\ j2 # k /\ j1 < j2 => o[j1] < o[j2]
    /\ \A i \in 1..Len(s) : ~SameTimer(s[i], x) => \E j \in 1..Len(r) : j # k /\ o[j] = i
    /\ Sorted(s) =>
         \A j \in 1..Len(r) :
            /\ j < k => r[j].time <= x.time
            /\ j > k => x.time <= r[j].time
            /\ j # k => ~SameTimer(r[j], x)

LEMMA MergedIs ==
    ASSUME NEW s \in Seq(Node), NEW x \in Node, NEW t \in Nat, x.time >= t
    PROVE  /\ insert_a_timer(s, x, t) \in Seq(Node)
           /\ \E k \in 1..Len(insert_a_timer(s, x, t)),
                 o \in [1..Len(insert_a_timer(s, x, t)) -> Int] :
                Merged(insert_a_timer(s, x, t), s, x, k, o)
  <1> DEFINE r == insert_a_timer(s, x, t)
             rest == delete_repete_timer(s, x)
             i == Repeated(s, x)
             k == Place(rest, x)
             o == [j \in 1..Len(r) |-> Before(Old(j, k), i)]
  <1>1. /\ rest \in Seq(Node)
        /\ Len(rest) = IF i <= Len(s) THEN Len(s) - 1 ELSE Len(s)
        /\ \A m \in 1..Len(rest) : rest[m] = IF m < i THEN s[m] ELSE s[m + 1]
    BY RestIs
  <1>2. /\ i \in 1..(Len(s) + 1)
        /\ i <= Len(s) => SameTimer(s[i], x)
    BY RepeatedIs
  <1>3. Inserted(r, rest, k, x, t)
    BY InsertedIs
  <1>4. Sorted(s) => Sorted(rest) /\ \A m \in 1..Len(rest) : ~SameTimer(rest[m], x)
    BY RestSorted
  <1>5. /\ k \in 1..(Len(rest) + 1)
        /\ k <= Len(rest) => rest[k].time >= x.time
        /\ \A j \in 1..(k - 1) : ~(rest[j].time >= x.time)
    BY <1>1, PlaceIs
  <1> HIDE DEF r, rest, i, k
  <1>6. r \in Seq(Node) /\ Len(r) = Len(rest) + 1
    BY <1>3 DEF Inserted
  <1>7. Len(s) \in Nat /\ Len(rest) \in Nat /\ Len(r) \in Nat /\ k \in 1..Len(r)
    BY <1>1, <1>5, <1>6
  <1>8. ASSUME NEW m \in 1..Len(rest)
        PROVE  rest[m] \in Node /\ rest[m].time \in Nat
    <2>1. rest[m] \in Node
      BY <1>1
    <2> QED BY <2>1 DEF Node
  <1>9. x.time \in Nat
    BY DEF Node
  <1>10. Is(r[k], x)
    <2>1. \A e : Is([x EXCEPT !.elapse = e], x)
      BY DEF Is, Node
    <2> DEFINE e == x.time - (IF k = 1 THEN t ELSE rest[k - 1].time)
    <2>2. r[k] = [x EXCEPT !.elapse = e]
      BY <1>3 DEF Inserted
    <2> HIDE DEF e
    <2> QED BY <2>1, <2>2
  <1>11. ASSUME NEW j \in 1..Len(r), j # k
         PROVE  Old(j, k) \in 1..Len(rest) /\ Is(r[j], rest[Old(j, k)])
    <2>1. Old(j, k) \in 1..Len(rest)
      BY <1>6, <1>7, <1>11 DEF Old
    <2>2. CASE j < k
      <3>1. j \in 1..(k - 1) /\ Old(j, k) = j
        BY <1>7, <2>2 DEF Old
      <3>2. r[j] = rest[Old(j, k)]
        BY <1>3, <3>1 DEF Inserted
      <3> QED BY <2>1, <3>2 DEF Is
    <2>3. CASE j = k + 1
      <3>1. k <= Len(rest) /\ Old(j, k) = k /\ k \in 1..Len(rest)
        BY <1>6, <1>7, <2>3 DEF Old
      <3>2. r[j] = [rest[k] EXCEPT !.elapse = rest[k].time - x.time]
        BY <1>3, <2>3, <3>1 DEF Inserted
      <3>3. \A e : Is([rest[k] EXCEPT !.elapse = e], rest[k])
        BY <1>8, <3>1 DEF Is, Node
      <3> QED BY <2>1, <3>1, <3>2, <3>3
    <2>4. CASE j > k + 1
      <3>1. j - 1 \in (k + 1)..Len(rest) /\ Old(j, k) = j - 1 /\ (j - 1) + 1 = j
        BY <1>6, <1>7, <2>4 DEF Old
      <3>2. r[j] = rest[Old(j, k)]
        BY <1>3, <3>1 DEF Inserted
      <3> QED BY <2>1, <3>2 DEF Is
    <2> QED BY <1>7, <1>11, <2>2, <2>3, <2>4
  <1>12. ASSUME NEW j \in 1..Len(r), j # k
         PROVE  o[j] \in 1..Len(s) /\ Is(r[j], s[o[j]])
    <2> DEFINE m == Old(j, k)
    <2>1. m \in 1..Len(rest) /\ Is(r[j], rest[m])
      BY <1>11, <1>12
    <2> HIDE DEF m
    <2>2. Before(m, i) \in 1..Len(s)
      BY <1>1, <1>2, <1>7, <2>1 DEF Before
    <2>3. rest[m] = s[Before(m, i)]
      BY <1>1, <2>1 DEF Before
    <2>4. o[j] = Before(m, i)
      BY DEF m
    <2> QED BY <2>1, <2>2, <2>3, <2>4
  <1>13. \A j1, j2 \in 1..Len(r) : j1 # k /\ j2 # k /\ j1 < j2 => o[j1] < o[j2]
    BY <1>2, <1>7 DEF Before, Old
  <1>14. ASSUME NEW p \in 1..Len(s), ~SameTimer(s[p], x)
         PROVE  \E j \in 1..Len(r) : j # k /\ o[j] = p
    <2>1. p # i
      BY <1>2, <1>14
    <2> DEFINE m == IF p < i THEN p ELSE p - 1
               j == IF m < k THEN m ELSE m + 1
    <2>2. m \in 1..Len(rest) /\ Before(m, i) = p
      BY <1>1, <1>2, <1>7, <2>1 DEF Before
    <2> HIDE DEF m
    <2>3. j \in 1..Len(r) /\ j # k /\ Old(j, k) = m
      BY <1>6, <1>7, <2>2 DEF Old
    <2> HIDE DEF j
    <2> QED BY <2>2, <2>3
  <1>15. ASSUME Sorted(s), NEW j \in 1..Len(r)
         PROVE  /\ j < k => r[j].time <= x.time
                /\ j > k => x.time <= r[j].time
                /\ j # k => ~SameTimer(r[j], x)
    <2> SUFFICES ASSUME j # k
                 PROVE  /\ j < k => r[j].time <= x.time
                        /\ j > k => x.time <= r[j].time
                        /\ ~SameTimer(r[j], x)
      BY <1>7
    <2> DEFINE m == Old(j, k)
    <2>1. m \in 1..Len(rest) /\ Is(r[j], rest[m])
      BY <1>11
    <2>2. Sorted(rest) /\ ~SameTimer(rest[m], x)
      BY <1>4, <1>15, <2>1
    <2>3. (j < k => m \in 1..(k - 1)) /\ (j > k => m >= k /\ k <= Len(rest))
      BY <1>6, <1>7 DEF Old
    <2> HIDE DEF m
    <2>4. ~SameTimer(r[j], x)
      BY <2>1, <2>2 DEF Is, SameTimer
    <2>5. r[j].time = rest[m].time /\ rest[m].time \in Nat
      BY <1>8, <2>1 DEF Is
    <2>6. j < k => r[j].time <= x.time
      BY <1>5, <1>9, <2>3, <2>5
    <2>7. j > k => x.time <= r[j].time
      <3> SUFFICES ASSUME j > k PROVE x.time <= r[j].time
        OBVIOUS
      <3>1. k \in 1..Len(rest) /\ m >= k /\ rest[k].time >= x.time
        BY <1>5, <1>7, <2>3
      <3>2. rest[k].time <= rest[m].time
        BY <1>8, <2>1, <2>2, <3>1 DEF Sorted
      <3> QED BY <1>8, <1>9, <2>5, <3>1, <3>2
    <2> QED BY <2>4, <2>6, <2>7
  <1>16. o \in [1..Len(r) -> Int]
    BY <1>2, <1>7 DEF Before, Old
  <1> HIDE DEF o
  <1>17. Merged(r, s, x, k, o)
    BY <1>10, <1>12, <1>13, <1>14, <1>15 DEF Merged
  <1> QED BY <1>6, <1>7, <1>16, <1>17 DEF r

\* The new list is sorted; its requests are those of the old one and the new
\* one; the timers it held and were not replaced are held, with the new one.
LEMMA InsertKeeps ==
    ASSUME NEW s \in Seq(Node), NEW x \in Node, NEW t \in Nat, x.time >= t,
           NEW r, r = insert_a_timer(s, x, t)
    PROVE  /\ r \in Seq(Node)
           /\ Sorted(s) => Sorted(r)
           /\ \A j \in 1..Len(r) :
                r[j].req = x.req \/ \E i \in 1..Len(s) : r[j].req = s[i].req
           /\ Distinct(s) /\ (\A i \in 1..Len(s) : s[i].req # x.req) => Distinct(r)
           /\ \A T : Held(s, T, t) => Held(r, {y \in T : ~SameTimer(x, y)} \cup {x}, t)
  <1>1. r \in Seq(Node)
    BY MergedIs
  <1>2. PICK k \in 1..Len(r), o \in [1..Len(r) -> Int] : Merged(r, s, x, k, o)
    BY MergedIs
  <1>3. Len(r) \in Nat /\ Len(s) \in Nat
    BY <1>1
  <1>4. \A j \in 1..Len(r) : r[j] \in Node /\ r[j].time \in Nat
    <2>1. \A j \in 1..Len(r) : r[j] \in Node
      BY <1>1
    <2> QED BY <2>1 DEF Node
  <1>5. ASSUME Sorted(s) PROVE Sorted(r)
    <2> SUFFICES ASSUME NEW i \in 1..Len(r), NEW j \in 1..Len(r), i < j
                 PROVE  r[i].time <= r[j].time /\ ~SameTimer(r[i], r[j])
      BY DEF Sorted
    <2>1. Is(r[k], x) /\ x.time \in Nat
      BY <1>2 DEF Merged, Node
    <2>2. ASSUME NEW n \in 1..Len(r)
          PROVE  /\ n < k => r[n].time <= x.time
                 /\ n > k => x.time <= r[n].time
                 /\ n # k => ~SameTimer(r[n], x)
      BY <1>2, <1>5 DEF Merged
    <2>3. CASE i = k
      <3>1. j > k /\ j # k
        BY <2>3
      <3>2. x.time <= r[j].time /\ ~SameTimer(r[j], x)
        BY <2>2, <3>1
      <3> QED BY <2>1, <2>3, <3>2 DEF Is, SameTimer
    <2>4. CASE j = k
      <3>1. i < k /\ i # k
        BY <2>4
      <3>2. r[i].time <= x.time /\ ~SameTimer(r[i], x)
        BY <2>2, <3>1
      <3> QED BY <2>1, <2>4, <3>2 DEF Is, SameTimer
    <2>5. CASE i # k /\ j # k
      <3>1. /\ o[i] \in 1..Len(s) /\ o[j] \in 1..Len(s) /\ o[i] < o[j]
            /\ Is(r[i], s[o[i]]) /\ Is(r[j], s[o[j]])
        BY <1>2, <2>5 DEF Merged
      <3>2. s[o[i]].time <= s[o[j]].time /\ ~SameTimer(s[o[i]], s[o[j]])
        BY <1>5, <3>1 DEF Sorted
      <3> QED BY <3>1, <3>2 DEF Is, SameTimer
    <2> QED BY <2>3, <2>4, <2>5
  <1>6. ASSUME NEW j \in 1..Len(r)
        PROVE  IF j = k THEN r[j].req = x.req
               ELSE o[j] \in 1..Len(s) /\ r[j].req = s[o[j]].req
    BY <1>2 DEF Merged, Is
  <1>7. ASSUME Distinct(s), \A i \in 1..Len(s) : s[i].req # x.req PROVE Distinct(r)
    <2> SUFFICES ASSUME NEW i \in 1..Len(r), NEW j \in 1..Len(r), i # j
                 PROVE  r[i].req # r[j].req
      BY DEF Distinct
    <2>1. CASE i = k \/ j = k
      BY <1>6, <1>7, <2>1
    <2>2. CASE i # k /\ j # k
      <3>1. /\ o[i] \in 1..Len(s) /\ r[i].req = s[o[i]].req
            /\ o[j] \in 1..Len(s) /\ r[j].req = s[o[j]].req
        BY <1>6, <2>2
      <3>2. o[i] # o[j]
        <4>1. i < j \/ j < i
          BY <1>3
        <4>2. o[i] < o[j] \/ o[j] < o[i]
          BY <1>2, <2>2, <4>1 DEF Merged
        <4> QED BY <1>3, <3>1, <4>2
      <3> QED BY <1>7, <3>1, <3>2 DEF Distinct
    <2> QED BY <2>1, <2>2
  <1>8. ASSUME NEW T, Held(s, T, t)
        PROVE  Held(r, {y \in T : ~SameTimer(x, y)} \cup {x}, t)
    <2> SUFFICES ASSUME NEW y, y = x \/ (y \in T /\ ~SameTimer(x, y))
                 PROVE  y.time >= t /\ \E i \in 1..Len(r) : Is(r[i], y)
      BY DEF Held
    <2>1. CASE y = x
      BY <1>2, <2>1 DEF Merged
    <2>2. CASE y \in T /\ ~SameTimer(x, y)
      <3>1. y.time >= t /\ \E i \in 1..Len(s) : Is(s[i], y)
        BY <1>8, <2>2 DEF Held
      <3>2. PICK i \in 1..Len(s) : Is(s[i], y)
        BY <3>1
      <3>3. ~SameTimer(s[i], x)
        BY <2>2, <3>2 DEF Is, SameTimer
      <3>4. PICK j \in 1..Len(r) : j # k /\ o[j] = i
        BY <1>2, <3>3 DEF Merged
      <3>5. Is(r[j], s[i])
        BY <1>2, <3>4 DEF Merged
      <3>6. Is(r[j], y)
        BY <3>2, <3>5 DEF Is
      <3> QED BY <3>1, <3>6
    <2> QED BY <2>1, <2>2
  <1>9. \A j \in 1..Len(r) :
          r[j].req = x.req \/ \E i \in 1..Len(s) : r[j].req = s[i].req
    BY <1>6
  <1> QED BY <1>1, <1>5, <1>7, <1>8, <1>9

\* If nothing is repeated, elapse stays the time since the node before.
LEMMA InsertGaps ==
    ASSUME NEW s \in Seq(Node), NEW x \in Node, NEW t \in Nat, x.time >= t,
           Repeated(s, x) > Len(s), Gaps(s)
    PROVE  Gaps(insert_a_timer(s, x, t))
  <1> DEFINE r == insert_a_timer(s, x, t)
             rest == delete_repete_timer(s, x)
             k == Place(rest, x)
  <1>1. rest \in Seq(Node) /\ Len(rest) = Len(s) /\ \A m \in 1..Len(s) : rest[m] = s[m]
    <2>1. Repeated(s, x) \in 1..(Len(s) + 1) /\ Len(s) \in Nat
      BY RepeatedIs
    <2>2. Repeated(s, x) = Len(s) + 1
      BY <2>1
    <2>3. /\ rest \in Seq(Node)
          /\ Len(rest) = Len(s)
          /\ \A m \in 1..Len(rest) : rest[m] = IF m < Repeated(s, x) THEN s[m] ELSE s[m + 1]
      BY <2>1, <2>2, RestIs
    <2> QED BY <2>1, <2>2, <2>3
  <1>2. Inserted(r, rest, k, x, t)
    BY InsertedIs
  <1>3. k \in 1..(Len(rest) + 1) /\ Len(s) \in Nat
    BY <1>1, PlaceIs
  <1> HIDE DEF r, rest, k
  <1>4. \A m \in 2..Len(rest) : rest[m].elapse = rest[m].time - rest[m - 1].time
    BY <1>1 DEF Gaps
  <1>5. ASSUME NEW m \in 1..Len(rest)
        PROVE  /\ rest[m] \in Node
               /\ \A e : /\ [rest[m] EXCEPT !.elapse = e].elapse = e
                         /\ [rest[m] EXCEPT !.elapse = e].time = rest[m].time
    <2>1. rest[m] \in Node
      BY <1>1
    <2> QED BY <2>1 DEF Node
  <1>6. \A e : /\ [x EXCEPT !.elapse = e].elapse = e
               /\ [x EXCEPT !.elapse = e].time = x.time
    BY DEF Node
  <1>7. Len(r) = Len(rest) + 1
    BY <1>2 DEF Inserted
  <1>8. /\ r[k].time = x.time
        /\ k > 1 => r[k].elapse = x.time - rest[k - 1].time
    <2> DEFINE e == x.time - (IF k = 1 THEN t ELSE rest[k - 1].time)
    <2>1. r[k] = [x EXCEPT !.elapse = e]
      BY <1>2 DEF Inserted
    <2>2. k > 1 => e = x.time - rest[k - 1].time
      BY <1>3
    <2> HIDE DEF e
    <2> QED BY <1>6, <2>1, <2>2
  <1>9. k <= Len(rest) =>
          r[k + 1].time = rest[k].time /\ r[k + 1].elapse = rest[k].time - x.time
    <2> SUFFICES ASSUME k <= Len(rest)
                 PROVE  r[k + 1].time = rest[k].time /\ r[k + 1].elapse = rest[k].time - x.time
      OBVIOUS
    <2> DEFINE e == rest[k].time - x.time
    <2>1. r[k + 1] = [rest[k] EXCEPT !.elapse = e]
      BY <1>2 DEF Inserted
    <2>2. k \in 1..Len(rest)
      BY <1>1, <1>3
    <2> HIDE DEF e
    <2>3. r[k + 1].time = rest[k].time /\ r[k + 1].elapse = e
      BY <1>5, <2>1, <2>2
    <2> QED BY <2>3 DEF e
  <1>10. \A j \in 1..(k - 1) : r[j] = rest[j]
    BY <1>2 DEF Inserted
  <1>11. \A j \in (k + 1)..Len(rest) : r[j + 1] = rest[j]
    BY <1>2 DEF Inserted
  <1>12. ASSUME NEW j \in 2..Len(r) PROVE r[j].elapse = r[j].time - r[j - 1].time
    <2>0. Len(rest) \in Nat /\ k \in Nat
      BY <1>1, <1>3
    <2>1. CASE j < k
      <3>1. j \in 1..(k - 1) /\ j - 1 \in 1..(k - 1) /\ j \in 2..Len(rest)
        BY <1>3, <2>0, <2>1
      <3> QED BY <1>4, <1>10, <3>1
    <2>2. CASE j = k
      <3>1. k > 1 /\ k - 1 \in 1..(k - 1)
        BY <2>0, <2>2
      <3> QED BY <1>8, <1>10, <2>2, <3>1
    <2>3. CASE j = k + 1
      <3>1. k <= Len(rest) /\ j - 1 = k
        BY <1>7, <2>0, <2>3
      <3> QED BY <1>8, <1>9, <2>3, <3>1
    <2>4. CASE j = k + 2
      <3>1. /\ k <= Len(rest) /\ k + 1 \in (k + 1)..Len(rest) /\ k + 1 \in 2..Len(rest)
            /\ j - 1 = k + 1 /\ (k + 1) + 1 = j /\ (k + 1) - 1 = k
        BY <1>3, <1>7, <2>0, <2>4
      <3>2. r[j] = rest[k + 1] /\ r[j - 1].time = rest[k].time
        BY <1>9, <1>11, <3>1
      <3> QED BY <1>4, <3>1, <3>2
    <2>5. CASE j > k + 2
      <3> DEFINE m == j - 1
      <3>1. /\ m \in (k + 1)..Len(rest) /\ m - 1 \in (k + 1)..Len(rest) /\ m \in 2..Len(rest)
            /\ m + 1 = j /\ (m - 1) + 1 = m /\ j - 1 = m
        BY <1>3, <1>7, <2>0, <2>5
      <3> HIDE DEF m
      <3>2. r[j] = rest[m] /\ r[m] = rest[m - 1]
        BY <1>11, <3>1
      <3> QED BY <1>4, <3>1, <3>2
    <2> QED BY <1>7, <2>0, <2>1, <2>2, <2>3, <2>4, <2>5
  <1> QED BY <1>12 DEF Gaps, r

-----------------------------------------------------------------------------
(* The timers of a request *)

\* A timer of a request; one with an address that is not found has no port.
Timer == [id : Ports \cup {-1}, flag : Flags, time : Nat, elapse : Int, req : Nat \X Nat]

\* What set_child_timer works on.
Partial == [list : Seq(Node), accepted : SUBSET Node, replaced : BOOLEAN]

\* What a timer, or some, leaves as it was: c after it, b before, R the
\* requests that came.
Kept(b, c, R) ==
    /\ Sorted(b.list) => Sorted(c.list)
    /\ \A j \in 1..Len(c.list) :
         c.list[j].req \in R \/ \E i \in 1..Len(b.list) : c.list[j].req = b.list[i].req
    /\ Distinct(b.list) /\ (\A i \in 1..Len(b.list) : b.list[i].req \notin R) => Distinct(c.list)
    /\ Held(b.list, b.accepted, now) => Held(c.list, c.accepted, now)
    /\ b.replaced \/ Gaps(b.list) => c.replaced \/ Gaps(c.list)
    /\ b.replaced => c.replaced

LEMMA ChildKeeps ==
    ASSUME now \in Nat, NEW b \in Partial, NEW x \in Timer
    PROVE  /\ set_child_timer(b, x) \in Partial
           /\ Kept(b, set_child_timer(b, x), {x.req})
  <1> DEFINE c == set_child_timer(b, x)
             r == insert_a_timer(b.list, x, now)
             T == {y \in b.accepted : ~SameTimer(x, y)} \cup {x}
  <1>1. /\ b.list \in Seq(Node) /\ b.accepted \in SUBSET Node /\ b.replaced \in BOOLEAN
        /\ Len(b.list) \in Nat
    BY DEF Partial
  <1>2. CASE x.id = -1 \/ x.time < now
    <2>1. c = b
      BY <1>2 DEF set_child_timer
    <2> QED BY <2>1 DEF Kept
  <1>3. CASE ~(x.id = -1 \/ x.time < now)
    <2>1. c = [list |-> r, accepted |-> T,
               replaced |-> b.replaced \/ Repeated(b.list, x) <= Len(b.list)]
      BY <1>3 DEF set_child_timer
    <2>2. x \in Node
      BY <1>3 DEF Timer, Node
    <2>3. x.time >= now
      BY <1>3 DEF Timer
    <2>4. /\ r \in Seq(Node)
          /\ Sorted(b.list) => Sorted(r)
          /\ \A j \in 1..Len(r) :
               r[j].req = x.req \/ \E i \in 1..Len(b.list) : r[j].req = b.list[i].req
          /\ Distinct(b.list) /\ (\A i \in 1..Len(b.list) : b.list[i].req # x.req) => Distinct(r)
          /\ Held(b.list, b.accepted, now) => Held(r, T, now)
      BY <1>1, <2>2, <2>3, InsertKeeps
    <2>5. T \in SUBSET Node
      BY <1>1, <2>2
    <2>6. Repeated(b.list, x) \in 1..(Len(b.list) + 1)
      BY <1>1, RepeatedIs
    <2>7. Repeated(b.list, x) > Len(b.list) /\ Gaps(b.list) => Gaps(r)
      BY <1>1, <2>2, <2>3, InsertGaps
    <2> HIDE DEF c, r, T
    <2>8. c.list = r /\ c.accepted = T
      BY <2>1
    <2>9. c.replaced <=> (b.replaced \/ Repeated(b.list, x) <= Len(b.list))
      BY <2>1
    <2>10. b.replaced \/ Gaps(b.list) => c.replaced \/ Gaps(r)
      <3>1. Repeated(b.list, x) <= Len(b.list) \/ Repeated(b.list, x) > Len(b.list)
        BY <1>1, <2>6
      <3> QED BY <2>7, <2>9, <3>1
    <2>11. c \in Partial
      <3>1. (b.replaced \/ Repeated(b.list, x) <= Len(b.list)) \in BOOLEAN
        OBVIOUS
      <3> QED BY <2>1, <2>4, <2>5, <3>1 DEF Partial
    <2>12. Kept(b, c, {x.req})
      <3>1. \A i : b.list[i].req \notin {x.req} <=> b.list[i].req # x.req
        OBVIOUS
      <3>2. \A j \in 1..Len(r) :
              r[j].req \in {x.req} \/ \E i \in 1..Len(b.list) : r[j].req = b.list[i].req
        BY <2>4
      <3> QED BY <2>4, <2>8, <2>9, <2>10, <3>1, <3>2 DEF Kept
    <2> QED BY <2>11, <2>12 DEF c
  <1> QED BY <1>2, <1>3

\* What two timers keep.
LEMMA KeptTwice ==
    ASSUME NEW b, NEW c, NEW d, NEW R, NEW x, x \notin R,
           Kept(b, c, R), Kept(c, d, {x}),
           \A i \in 1..Len(b.list) : b.list[i].req # x
    PROVE  Kept(b, d, R \cup {x})
  <1>1. Sorted(b.list) => Sorted(d.list)
    BY DEF Kept
  <1>2. ASSUME NEW j \in 1..Len(d.list)
        PROVE  \/ d.list[j].req \in R \cup {x}
               \/ \E i \in 1..Len(b.list) : d.list[j].req = b.list[i].req
    <2>1. CASE d.list[j].req = x
      BY <2>1
    <2>2. CASE \E i \in 1..Len(c.list) : d.list[j].req = c.list[i].req
      <3>1. PICK i \in 1..Len(c.list) : d.list[j].req = c.list[i].req
        BY <2>2
      <3>2. c.list[i].req \in R \/ \E n \in 1..Len(b.list) : c.list[i].req = b.list[n].req
        BY DEF Kept
      <3> QED BY <3>1, <3>2
    <2>3. \/ d.list[j].req \in {x}
          \/ \E i \in 1..Len(c.list) : d.list[j].req = c.list[i].req
      BY DEF Kept
    <2> QED BY <2>1, <2>2, <2>3
  <1>3. ASSUME Distinct(b.list), \A i \in 1..Len(b.list) : b.list[i].req \notin R \cup {x}
        PROVE  Distinct(d.list)
    <2>1. \A i \in 1..Len(b.list) : b.list[i].req \notin R
      BY <1>3
    <2>2. Distinct(c.list)
      BY <1>3, <2>1 DEF Kept
    <2>3. ASSUME NEW i \in 1..Len(c.list) PROVE c.list[i].req \notin {x}
      <3>1. c.list[i].req \in R \/ \E n \in 1..Len(b.list) : c.list[i].req = b.list[n].req
        BY DEF Kept
      <3> QED BY <1>3, <3>1
    <2> QED BY <2>2, <2>3 DEF Kept
  <1>4. /\ Held(b.list, b.accepted, now) => Held(d.list, d.accepted, now)
        /\ b.replaced \/ Gaps(b.list) => d.replaced \/ Gaps(d.list)
        /\ b.replaced => d.replaced
    BY DEF Kept
  <1> QED BY <1>1, <1>2, <1>3, <1>4 DEF Kept

\* The timers, one after the other.
LEMMA TimersStep ==
    ASSUME now \in Nat, NEW b \in Partial, NEW timers \in Seq(Timer)
    PROVE  /\ set_timers(b, timers)[0] = b
           /\ \A k \in 1..Len(timers) :
                set_timers(b, timers)[k] = set_child_timer(set_timers(b, timers)[k - 1], timers[k])
  <1> DEFINE n == Len(timers)
             Def(f) == [k \in 0..n |-> IF k = 0 THEN b ELSE set_child_timer(f[k - 1], timers[k])]
             step == [p \in Partial \X (1..n) |-> set_child_timer(p[1], timers[p[2]])]
             P == set_timers(b, timers)
  <1>1. n \in Nat /\ \A k \in 1..n : timers[k] \in Timer
    OBVIOUS
  <1>2. P = CHOOSE g : g = Def(g)
    BY DEF set_timers
  <1> HIDE DEF n, P
  <1>3. step \in Steps(Partial, n)
    BY <1>1, ChildKeeps DEF Steps
  <1>4. \A c \in Partial, k \in 1..n : step[<<c, k>>] = set_child_timer(c, timers[k])
    OBVIOUS
  <1> HIDE DEF step
  <1>5. \E f \in Values(Partial, n) : Follows(f, b, n, step)
    BY <1>1, <1>3, Recursion
  <1>6. PICK f \in [0..n -> Partial] : f[0] = b /\ \A k \in 1..n : f[k] = step[<<f[k - 1], k>>]
    BY <1>5 DEF Values, Follows
  <1>7. f = Def(f)
    <2>1. ASSUME NEW k \in 0..n, k # 0 PROVE f[k] = set_child_timer(f[k - 1], timers[k])
      <3>1. k \in 1..n /\ k - 1 \in 0..n
        BY <1>1, <2>1
      <3>2. f[k - 1] \in Partial
        BY <1>6, <3>1
      <3> QED BY <1>4, <1>6, <3>1, <3>2
    <2> QED BY <1>6, <2>1
  <1>8. P = Def(P)
    <2> HIDE DEF Def
    <2> QED BY <1>2, <1>7
  <1>9. \A k \in 0..n : P[k] = IF k = 0 THEN b ELSE set_child_timer(P[k - 1], timers[k])
    BY <1>8
  <1>10. 0 \in 0..n /\ \A k \in 1..n : k \in 0..n /\ k # 0
    BY <1>1
  <1>11. P[0] = b
    BY <1>9, <1>10
  <1>12. \A k \in 1..n : P[k] = set_child_timer(P[k - 1], timers[k])
    BY <1>9, <1>10
  <1> QED BY <1>11, <1>12 DEF P, n

\* What the timers of request q keep.
LEMMA TimersKeep ==
    ASSUME now \in Nat, NEW b \in Partial, NEW timers \in Seq(Timer), NEW q \in Nat,
           \A k \in 1..Len(timers) : timers[k].req = <<q, k>>,
           \A i \in 1..Len(b.list) : b.list[i].req[1] # q
    PROVE  /\ set_timers(b, timers)[Len(timers)] \in Partial
           /\ Kept(b, set_timers(b, timers)[Len(timers)], {q} \X Nat)
  <1> DEFINE n == Len(timers)
             P == set_timers(b, timers)
             R(k) == {<<q, i>> : i \in 1..k}
             S == {k \in Nat : k <= n => P[k] \in Partial /\ Kept(b, P[k], R(k))}
  <1>1. n \in Nat /\ \A k \in 1..n : timers[k] \in Timer
    OBVIOUS
  <1>2. P[0] = b /\ \A k \in 1..n : P[k] = set_child_timer(P[k - 1], timers[k])
    BY TimersStep
  <1> HIDE DEF n, P
  <1>3. 0 \in S
    <2>1. Kept(b, b, R(0))
      BY DEF Kept
    <2> QED BY <1>2, <2>1
  <1>4. ASSUME NEW k \in Nat, k \in S PROVE k + 1 \in S
    <2> SUFFICES ASSUME k + 1 <= n
                 PROVE  P[k + 1] \in Partial /\ Kept(b, P[k + 1], R(k + 1))
      OBVIOUS
    <2>1. k + 1 \in 1..n /\ (k + 1) - 1 = k /\ k <= n
      BY <1>1
    <2>2. P[k] \in Partial /\ Kept(b, P[k], R(k))
      BY <1>4, <2>1
    <2>3. P[k + 1] = set_child_timer(P[k], timers[k + 1]) /\ timers[k + 1] \in Timer
      BY <1>1, <1>2, <2>1
    <2>4. timers[k + 1].req = <<q, k + 1>>
      BY <2>1 DEF n
    <2>5. P[k + 1] \in Partial /\ Kept(P[k], P[k + 1], {<<q, k + 1>>})
      BY <2>2, <2>3, <2>4, ChildKeeps
    <2>6. R(k + 1) = R(k) \cup {<<q, k + 1>>} /\ <<q, k + 1>> \notin R(k)
      <3>1. 1..(k + 1) = (1..k) \cup {k + 1} /\ k + 1 \notin 1..k
        OBVIOUS
      <3> QED BY <3>1
    <2>7. \A i \in 1..Len(b.list) : b.list[i].req # <<q, k + 1>>
      OBVIOUS
    <2> HIDE DEF R
    <2>8. Kept(b, P[k + 1], R(k) \cup {<<q, k + 1>>})
      BY <2>2, <2>5, <2>6, <2>7, KeptTwice
    <2> QED BY <2>5, <2>6, <2>8
  <1> HIDE DEF S
  <1>5. \A k \in Nat : k \in S
    BY <1>3, <1>4, Induction
  <1>6. P[n] \in Partial /\ Kept(b, P[n], R(n))
    <2>1. n \in S /\ n <= n
      BY <1>1, <1>5
    <2> HIDE DEF R
    <2> QED BY <2>1 DEF S
  <1>7. Kept(b, P[n], {q} \X Nat)
    <2>1. \A d \in R(n) : d \in {q} \X Nat
      BY <1>1
    <2>2. \A i \in 1..Len(b.list) : b.list[i].req \notin R(n)
      OBVIOUS
    <2> HIDE DEF R
    <2> QED BY <1>6, <2>1, <2>2 DEF Kept
  <1> QED BY <1>6, <1>7 DEF P, n

-----------------------------------------------------------------------------
(* The timers that run *)

\* The first loop: nodes whose time is past, up to one whose time is not.
LEMMA LateIs ==
    ASSUME NEW s \in Seq(Node), NEW t
    PROVE  /\ Late(s, t) \in 0..Len(s)
           /\ \A j \in 1..Late(s, t) : ~(s[j].time >= t)
           /\ Late(s, t) < Len(s) => s[Late(s, t) + 1].time >= t
  <1> DEFINE x == [time |-> t]
             l == Late(s, t)
             p == Place(s, x)
  <1>1. l = p - 1
    <2>1. x.time = t
      OBVIOUS
    <2> HIDE DEF x
    <2> QED BY <2>1 DEF Late, Place
  <1>2. /\ p \in 1..(Len(s) + 1)
        /\ p <= Len(s) => s[p].time >= x.time
        /\ \A j \in 1..(p - 1) : ~(s[j].time >= x.time)
    BY PlaceIs
  <1>3. x.time = t /\ Len(s) \in Nat
    OBVIOUS
  <1> HIDE DEF l, p, x
  <1>4. l \in 0..Len(s) /\ l + 1 = p /\ (l < Len(s) => p <= Len(s))
    BY <1>1, <1>2, <1>3
  <1> QED BY <1>1, <1>2, <1>3, <1>4 DEF l

\* The second loop: the head, if it is due, and the nodes with it.
LEMMA DueIs ==
    ASSUME NEW s \in Seq(Node), NEW t
    PROVE  /\ Due(s, t) \in 0..Len(s)
           /\ Due(s, t) > 0 => s[1].time = t
           /\ \A j \in 2..Due(s, t) : s[j].elapse = 0
  <1> DEFINE S == {i \in 2..Len(s) : s[i].elapse # 0}
  <1>1. Len(s) \in Nat
    OBVIOUS
  <1>2. CASE s = <<>> \/ s[1].time # t
    <2>1. Due(s, t) = 0
      BY <1>2 DEF Due
    <2> QED BY <1>1, <2>1
  <1>3. CASE ~(s = <<>> \/ s[1].time # t)
    <2> DEFINE f == First(2, Len(s), LAMBDA i : s[i].elapse # 0)
    <2>1. Due(s, t) = f - 1
      BY <1>3 DEF Due
    <2>2. f = IF \E i \in 2..Len(s) : s[i].elapse # 0
              THEN CHOOSE i \in 2..Len(s) : s[i].elapse # 0 /\ \A j \in 2..(i - 1) : ~(s[j].elapse # 0)
              ELSE Len(s) + 1
      BY DEF First
    <2> HIDE DEF f
    <2>3. Len(s) >= 1
      BY <1>1, <1>3
    <2>4. CASE \E i \in 2..Len(s) : s[i].elapse # 0
      <3>1. \E i \in 2..Len(s) : i \in S /\ \A j \in 2..(i - 1) : j \notin S
        <4>1. (\E i \in 2..Len(s) : i \in S) /\ 2 \in Nat /\ Len(s) \in Int
          BY <1>1, <2>4
        <4> HIDE DEF S
        <4> QED BY <4>1, FirstIn
      <3>2. \E i \in 2..Len(s) : s[i].elapse # 0 /\ \A j \in 2..(i - 1) : ~(s[j].elapse # 0)
        BY <1>1, <3>1
      <3>3. f \in 2..Len(s) /\ \A j \in 2..(f - 1) : ~(s[j].elapse # 0)
        BY <2>2, <2>4, <3>2
      <3> QED BY <1>1, <1>3, <2>1, <3>3
    <2>5. CASE ~\E i \in 2..Len(s) : s[i].elapse # 0
      <3>1. f = Len(s) + 1 /\ Due(s, t) = Len(s)
        BY <1>1, <2>1, <2>2, <2>5
      <3> QED BY <1>1, <1>3, <2>3, <2>5, <3>1
    <2> QED BY <2>4, <2>5
  <1> QED BY <1>2, <1>3

\* r is s without its first n nodes; only the elapse of the head differs.
Removed(s, n, r) ==
    /\ r \in Seq(Node)
    /\ Len(r) = Len(s) - n
    /\ \A i \in 1..Len(r) : Is(r[i], s[i + n])
    /\ \A i \in 2..Len(r) : r[i].elapse = s[i + n].elapse

\* What sig_func does: n nodes run.
LEMMA SigIs ==
    ASSUME TypeOK, NEW delay \in Delays, sig_func(delay)
    PROVE  /\ now' \in Nat /\ now' >= now
           /\ \E n \in 0..Len(list) :
                /\ Ran(n)
                /\ Removed(list, n, list')
                /\ Sorted(list) => \A i \in 1..Len(list) : i > n => list[i].time >= now'
                /\ Sorted(list) /\ Gaps(list) => \A i \in 1..n : list[i].time <= now'
           /\ alive' \in BOOLEAN
           /\ UNCHANGED <<thread, inform, undefined>>
  <1> DEFINE late == Late(list, now')
             rest == del_a_timer(list, late)
             due == Due(rest, now')
             left == del_a_timer(rest, due)
             n == late + due
             l == Len(list)
             aux == /\ alive' = ~(late > 0 /\ rest = <<>>)
                    /\ list' = IF due = 0 /\ left # <<>>
                               THEN [left EXCEPT ![1].elapse = left[1].time - now']
                               ELSE left
                    /\ Ran(n)
  <1>1. now' \in Nat /\ now' >= now
    <2>1. now \in Nat /\ delay \in Nat \ {0} /\ now' = now + delay
      BY TimerAssumption DEF TypeOK, sig_func
    <2> QED BY <2>1
  <1>2. list \in Seq(Node) /\ l \in Nat
    BY DEF TypeOK
  <1>3. \A i \in 1..l : list[i] \in Node /\ list[i].time \in Nat
    <2>1. \A i \in 1..l : list[i] \in Node
      BY <1>2
    <2> QED BY <2>1 DEF Node
  <1>4. aux /\ UNCHANGED <<thread, inform, undefined>>
    BY DEF sig_func
  <1>5. /\ late \in 0..l
        /\ \A j \in 1..late : ~(list[j].time >= now')
        /\ late < l => list[late + 1].time >= now'
    BY <1>2, LateIs
  <1> HIDE DEF late
  <1>6. /\ rest \in Seq(Node) /\ Len(rest) = l - late
        /\ \A i \in 1..(l - late) : rest[i] = list[late + i]
    BY <1>2, <1>5 DEF del_a_timer
  <1> HIDE DEF rest
  <1>7. /\ due \in 0..Len(rest)
        /\ due > 0 => rest[1].time = now'
        /\ \A j \in 2..due : rest[j].elapse = 0
    BY <1>6, DueIs
  <1> HIDE DEF due
  <1>8. /\ left \in Seq(Node) /\ Len(left) = Len(rest) - due
        /\ \A i \in 1..(Len(rest) - due) : left[i] = rest[due + i]
    BY <1>6, <1>7 DEF del_a_timer
  <1> HIDE DEF left
  <1>9. n \in 0..l
    BY <1>2, <1>5, <1>6, <1>7
  <1>10. Len(left) = l - n /\ \A i \in 1..Len(left) : left[i] = list[i + n]
    <2>1. Len(left) = l - n
      BY <1>2, <1>5, <1>6, <1>7, <1>8
    <2>2. ASSUME NEW i \in 1..Len(left) PROVE left[i] = list[i + n]
      <3>1. i \in 1..(Len(rest) - due) /\ due + i \in 1..(l - late) /\ late + (due + i) = i + n
        BY <1>2, <1>5, <1>6, <1>7, <1>8
      <3> QED BY <1>6, <1>8, <3>1
    <2> QED BY <2>1, <2>2
  <1> HIDE DEF n
  <1>11. Removed(list, n, list')
    <2>1. CASE ~(due = 0 /\ left # <<>>)
      <3>1. list' = left
        BY <1>4, <2>1
      <3> QED BY <1>8, <1>10, <3>1 DEF Removed, Is
    <2>2. CASE due = 0 /\ left # <<>>
      <3> DEFINE e == left[1].time - now'
                 y == [left[1] EXCEPT !.elapse = e]
      <3>1. list' = [left EXCEPT ![1].elapse = e]
        BY <1>4, <2>2
      <3>2. 1 \in 1..Len(left) /\ left[1] \in Node
        BY <1>8, <2>2
      <3>3. e \in Int
        BY <1>1, <3>2 DEF Node
      <3> HIDE DEF e
      <3>4. y \in Node /\ Is(y, left[1])
        BY <3>2, <3>3 DEF Node, Is
      <3>5. list' = [left EXCEPT ![1] = y]
        BY <3>1
      <3> HIDE DEF y
      <3>6. /\ list' \in Seq(Node) /\ Len(list') = Len(left)
            /\ list'[1] = y
            /\ \A i \in 2..Len(left) : list'[i] = left[i]
        BY <1>8, <3>2, <3>4, <3>5
      <3>7. ASSUME NEW i \in 1..Len(left) PROVE Is(list'[i], left[i])
        <4>1. CASE i = 1
          BY <3>4, <3>6, <4>1
        <4>2. CASE i # 1
          <5>1. i \in 2..Len(left)
            BY <1>8, <4>2
          <5> QED BY <3>6, <5>1 DEF Is
        <4> QED BY <4>1, <4>2
      <3>8. ASSUME NEW i \in 2..Len(left) PROVE list'[i].elapse = list[i + n].elapse
        <4>1. i \in 1..Len(left)
          BY <1>8
        <4> QED BY <1>10, <3>6, <4>1
      <3> QED BY <1>10, <3>6, <3>7, <3>8 DEF Removed
    <2> QED BY <2>1, <2>2
  <1>12. ASSUME Sorted(list), NEW i \in 1..l, i > n PROVE list[i].time >= now'
    <2>1. /\ late + 1 \in 1..l /\ late < l
          /\ late + 1 < i \/ late + 1 = i
      BY <1>2, <1>5, <1>6, <1>7, <1>12 DEF n
    <2>2. list[late + 1].time >= now' /\ list[late + 1].time <= list[i].time
      BY <1>3, <1>5, <1>12, <2>1 DEF Sorted
    <2> QED BY <1>1, <1>3, <2>1, <2>2
  <1>13. ASSUME Sorted(list), Gaps(list), NEW i \in 1..n PROVE list[i].time <= now'
    <2>1. CASE i <= late
      BY <1>1, <1>3, <1>5, <1>9, <2>1
    <2>2. CASE i > late
      <3> DEFINE S == {m \in Nat : m + 1 <= due => list[late + (m + 1)].time = now'}
      <3>1. 0 \in S
        <4> SUFFICES ASSUME 1 <= due PROVE list[late + 1].time = now'
          OBVIOUS
        <4>1. 1 \in 1..(l - late) /\ due > 0
          BY <1>2, <1>5, <1>6, <1>7
        <4> QED BY <1>6, <1>7, <4>1
      <3>2. ASSUME NEW m \in Nat, m \in S PROVE m + 1 \in S
        <4> SUFFICES ASSUME m + 2 <= due PROVE list[late + (m + 2)].time = now'
          OBVIOUS
        <4>1. m + 2 \in 2..due /\ m + 2 \in 1..(l - late) /\ m + 1 <= due
          BY <1>2, <1>5, <1>6, <1>7
        <4>2. list[late + (m + 2)].elapse = 0 /\ list[late + (m + 1)].time = now'
          BY <1>6, <1>7, <3>2, <4>1
        <4> DEFINE j == late + (m + 2)
        <4>3. j \in 2..l /\ j \in 1..l /\ j - 1 \in 1..l /\ j - 1 = late + (m + 1)
          <5>1. l \in Nat /\ late \in Nat /\ late + (m + 2) <= l
            BY <1>2, <1>5, <4>1
          <5> HIDE DEF l
          <5> QED BY <5>1
        <4> HIDE DEF j
        <4>4. list[j].elapse = list[j].time - list[j - 1].time
          BY <1>13, <4>3 DEF Gaps
        <4>5. list[j].elapse = 0 /\ list[j - 1].time = now'
          BY <4>2, <4>3 DEF j
        <4>6. list[j].time = now'
          BY <1>3, <4>3, <4>4, <4>5, SMTT(30)
        <4> QED BY <4>6 DEF j
      <3> HIDE DEF S
      <3>3. \A m \in Nat : m \in S
        BY <3>1, <3>2, Induction
      <3> DEFINE m == i - late - 1
      <3>4. m \in Nat /\ m + 1 <= due /\ late + (m + 1) = i
        BY <1>2, <1>5, <1>6, <1>7, <2>2 DEF n
      <3> HIDE DEF m
      <3>5. list[i].time = now'
        BY <3>3, <3>4 DEF S
      <3> QED BY <1>1, <3>5
    <2> QED BY <1>2, <1>5, <1>9, <2>1, <2>2
  <1>14. Ran(n) /\ alive' \in BOOLEAN
    BY <1>4
  <1> QED BY <1>1, <1>4, <1>9, <1>11, <1>12, <1>13, <1>14

-----------------------------------------------------------------------------
(* The steps *)

LEMMA InitInv == Init => Inv
  <1> SUFFICES ASSUME Init PROVE Inv
    OBVIOUS
  <1>1. /\ now = 0 /\ list = <<>> /\ head = <<>> /\ requests = 0 /\ type = 0
        /\ inbox = <<>> /\ asked = -1 /\ answered = <<>>
        /\ accepted = {} /\ done = {}
    BY DEF Init
  <1>2. waiting = FALSE /\ alive = TRUE /\ undefined = FALSE /\ early = FALSE
        /\ twice = FALSE /\ stale = FALSE /\ replaced = FALSE /\ wiped = FALSE
    BY DEF Init
  <1>3. TypeOK
    <2>1. <<>> \in Seq(Node) /\ <<>> \in Seq(Packet)
      OBVIOUS
    <2>2. /\ waiting \in BOOLEAN /\ alive \in BOOLEAN /\ undefined \in BOOLEAN
          /\ early \in BOOLEAN /\ twice \in BOOLEAN /\ stale \in BOOLEAN
          /\ replaced \in BOOLEAN /\ wiped \in BOOLEAN
      BY <1>2
    <2>3. /\ now \in Nat /\ requests \in Nat /\ type \in 0..3 /\ asked \in Asked \cup {-1}
          /\ accepted \in SUBSET Node /\ done \in SUBSET (Nat \X Nat)
      BY <1>1
    <2>4. list \in Seq(Node) /\ head \in Seq(Node) /\ inbox \in Seq(Packet) /\ answered \in Seq(Packet)
      BY <1>1, <2>1
    <2> QED BY <2>2, <2>3, <2>4 DEF TypeOK
  <1>4. Len(list) = 0 /\ Len(head) = 0
    BY <1>1
  <1>5. ReqInv /\ OrderInv /\ FreshInv /\ GapInv
    BY <1>1, <1>4 DEF ReqInv, OrderInv, FreshInv, GapInv, Sorted, Distinct, Gaps
  <1>6. HeldInv
    BY <1>1 DEF HeldInv, Held
  <1>7. InformInv
    BY <1>1 DEF InformInv, Packets
  <1> QED BY <1>2, <1>3, <1>5, <1>6, <1>7 DEF Inv, RunsOnceAlone, NeverEarly

\* The packets stay as they are.
LEMMA SameInform ==
    ASSUME InformInv, UNCHANGED inform
    PROVE  InformInv'
  BY DEF InformInv, Packets, inform

\* SIGALRM.
LEMMA SigKeeps ==
    ASSUME Inv, alive, ~undefined, NEW delay \in Delays, sig_func(delay)
    PROVE  Inv'
  <1> USE DEF Inv
  <1>1. /\ now' \in Nat /\ now' >= now /\ alive' \in BOOLEAN
        /\ UNCHANGED <<thread, inform, undefined>>
    BY SigIs
  <1>2. PICK n \in 0..Len(list) :
          /\ Ran(n)
          /\ Removed(list, n, list')
          /\ Sorted(list) => \A i \in 1..Len(list) : i > n => list[i].time >= now'
          /\ Sorted(list) /\ Gaps(list) => \A i \in 1..n : list[i].time <= now'
    BY SigIs
  <1>3. /\ list' \in Seq(Node) /\ Len(list') = Len(list) - n /\ Len(list) \in Nat
        /\ \A i \in 1..Len(list') :
             i + n \in 1..Len(list) /\ i + n > n /\ Is(list'[i], list[i + n])
        /\ \A i \in 2..Len(list') : list'[i].elapse = list[i + n].elapse
    <2>1. Len(list) \in Nat
      BY DEF TypeOK
    <2>2. /\ list' \in Seq(Node) /\ Len(list') = Len(list) - n
          /\ \A i \in 1..Len(list') : Is(list'[i], list[i + n])
          /\ \A i \in 2..Len(list') : list'[i].elapse = list[i + n].elapse
      BY <1>2 DEF Removed
    <2>3. \A i \in 1..Len(list') : i + n \in 1..Len(list) /\ i + n > n
      BY <2>1, <2>2
    <2> QED BY <2>1, <2>2, <2>3
  <1>4. /\ done' = done \cup {list[i].req : i \in 1..n}
        /\ accepted' = {x \in accepted : x.req \notin done'}
        /\ early' = (early \/ \E i \in 1..n : list[i].time > now')
        /\ twice' = (twice \/ \E i \in 1..n : list[i].req \in done)
        /\ UNCHANGED <<stale, replaced, wiped>>
    BY <1>2 DEF Ran
  <1>5. /\ \A i \in 1..n : i \in 1..Len(list)
        /\ \A i \in 1..Len(list) :
             list[i] \in Node /\ list[i].time \in Nat /\ list[i].req \in Nat \X Nat
    <2>1. list \in Seq(Node)
      BY DEF TypeOK
    <2>2. \A i \in 1..Len(list) : list[i] \in Node
      BY <2>1
    <2> QED BY <2>2 DEF Node
  <1>6. UNCHANGED <<head, waiting, type, requests>> /\ UNCHANGED undefined
    BY <1>1 DEF thread
  <1>7. TypeOK'
    <2>1. done' \in SUBSET (Nat \X Nat)
      BY <1>4, <1>5 DEF TypeOK
    <2>2. early' \in BOOLEAN /\ twice' \in BOOLEAN /\ accepted' \in SUBSET Node
      BY <1>4 DEF TypeOK
    <2> QED BY <1>1, <1>3, <1>4, <1>6, <2>1, <2>2 DEF TypeOK, inform
  <1>8. ReqInv'
    <2>1. ASSUME NEW i \in 1..Len(list') PROVE list'[i].req[1] < requests
      <3>1. list'[i].req = list[i + n].req /\ i + n \in 1..Len(list)
        BY <1>3 DEF Is
      <3> QED BY <3>1 DEF ReqInv
    <2>2. ASSUME NEW d \in done' PROVE d[1] < requests
      BY <1>4, <1>5 DEF ReqInv
    <2> QED BY <1>6, <2>1, <2>2 DEF ReqInv
  <1>9. Sorted(list) /\ Sorted(list')
    <2>1. Sorted(list)
      BY DEF OrderInv
    <2>2. ASSUME NEW i \in 1..Len(list'), NEW j \in 1..Len(list'), i < j
          PROVE  list'[i].time <= list'[j].time /\ ~SameTimer(list'[i], list'[j])
      <3>1. i + n < j + n /\ i + n \in 1..Len(list) /\ j + n \in 1..Len(list)
        BY <1>3, <2>2
      <3>2. list[i + n].time <= list[j + n].time /\ ~SameTimer(list[i + n], list[j + n])
        BY <2>1, <3>1 DEF Sorted
      <3>3. Is(list'[i], list[i + n]) /\ Is(list'[j], list[j + n])
        BY <1>3
      <3> QED BY <3>2, <3>3 DEF Is, SameTimer
    <2> QED BY <2>1, <2>2 DEF Sorted
  <1>10. FreshInv'
    <2> SUFFICES ASSUME ~stale
                 PROVE  /\ Distinct(list')
                        /\ \A i \in 1..Len(list') : list'[i].req \notin done'
      BY <1>4 DEF FreshInv
    <2>1. Distinct(list) /\ \A i \in 1..Len(list) : list[i].req \notin done
      BY DEF FreshInv
    <2>2. \A i \in 1..Len(list') : list'[i].req = list[i + n].req
      BY <1>3 DEF Is
    <2>3. ASSUME NEW i \in 1..Len(list'), NEW j \in 1..Len(list'), i # j
          PROVE  list'[i].req # list'[j].req
      <3>1. i + n # j + n /\ i + n \in 1..Len(list) /\ j + n \in 1..Len(list)
        BY <1>3, <2>3
      <3> QED BY <2>1, <2>2, <3>1 DEF Distinct
    <2>4. ASSUME NEW i \in 1..Len(list') PROVE list'[i].req \notin done'
      <3>1. i + n \in 1..Len(list) /\ i + n > n
        BY <1>3
      <3>2. \A j \in 1..n : j # i + n
        BY <3>1
      <3>3. list[i + n].req \notin {list[j].req : j \in 1..n}
        BY <1>5, <2>1, <3>1, <3>2 DEF Distinct
      <3> QED BY <1>4, <2>1, <2>2, <3>1, <3>3
    <2> QED BY <2>3, <2>4 DEF Distinct
  <1>11. RunsOnceAlone'
    BY <1>4, <1>5 DEF RunsOnceAlone, FreshInv
  <1>12. HeldInv'
    <2> SUFFICES ASSUME ~stale, ~wiped, NEW x \in accepted'
                 PROVE  x.time >= now' /\ \E i \in 1..Len(list') : Is(list'[i], x)
      BY <1>4 DEF HeldInv, Held
    <2>1. x \in accepted /\ x.req \notin done'
      BY <1>4
    <2>2. PICK i \in 1..Len(list) : Is(list[i], x)
      BY <2>1 DEF HeldInv, Held
    <2>3. i > n
      <3>1. list[i].req \notin {list[j].req : j \in 1..n}
        BY <1>4, <2>1, <2>2 DEF Is
      <3>2. i \notin 1..n
        BY <3>1
      <3> QED BY <3>2
    <2>4. i - n \in 1..Len(list') /\ (i - n) + n = i
      BY <1>3, <2>3
    <2>5. Is(list'[i - n], list[i])
      BY <1>3, <2>4
    <2>6. list[i].time >= now'
      BY <1>2, <1>9, <2>3
    <2> QED BY <2>2, <2>4, <2>5, <2>6 DEF Is
  <1>13. GapInv'
    <2> SUFFICES ASSUME ~replaced, NEW i \in 2..Len(list')
                 PROVE  list'[i].elapse = list'[i].time - list'[i - 1].time
      BY <1>4 DEF GapInv, Gaps
    <2>1. Gaps(list)
      BY DEF GapInv
    <2>2. /\ i \in 1..Len(list') /\ i - 1 \in 1..Len(list') /\ i + n \in 2..Len(list)
          /\ (i - 1) + n = (i + n) - 1
      BY <1>3
    <2>3. list'[i].time = list[i + n].time /\ list'[i - 1].time = list[(i + n) - 1].time
      BY <1>3, <2>2 DEF Is
    <2>4. list[i + n].elapse = list[i + n].time - list[(i + n) - 1].time
      BY <2>1, <2>2 DEF Gaps
    <2> QED BY <1>3, <2>3, <2>4
  <1>14. NeverEarly'
    <2> SUFFICES ASSUME ~replaced PROVE ~early'
      BY <1>4 DEF NeverEarly
    <2>1. Gaps(list) /\ ~early
      BY DEF GapInv, NeverEarly
    <2>2. \A i \in 1..n : list[i].time <= now' /\ list[i].time \in Nat
      BY <1>2, <1>5, <1>9, <2>1
    <2>3. \A i \in 1..n : ~(list[i].time > now')
      BY <1>1, <2>2
    <2> QED BY <1>4, <2>1, <2>3
  <1>15. InformInv'
    BY <1>1, SameInform
  <1> QED BY <1>4, <1>6, <1>7, <1>8, <1>9, <1>10, <1>11, <1>12, <1>13, <1>14, <1>15 DEF OrderInv

\* The thread reads the head.
LEMMA ReadHeadKeeps ==
    ASSUME Inv, ReadHead
    PROVE  Inv'
  <1> USE DEF Inv
  <1>1. /\ head' = list /\ waiting' = TRUE
        /\ UNCHANGED <<now, list, type, requests, inform, alive, undefined, history>>
    BY DEF ReadHead
  <1>2. TypeOK'
    BY <1>1 DEF TypeOK, inform, history
  <1>3. ReqInv'
    BY <1>1 DEF ReqInv, history
  <1>4. OrderInv' /\ FreshInv' /\ GapInv' /\ HeldInv'
    BY <1>1 DEF OrderInv, FreshInv, GapInv, HeldInv, history
  <1>5. RunsOnceAlone' /\ NeverEarly' /\ (undefined' => stale')
    BY <1>1 DEF RunsOnceAlone, NeverEarly, history
  <1>6. InformInv'
    BY <1>1, SameInform
  <1> QED BY <1>2, <1>3, <1>4, <1>5, <1>6

\* A packet has come: the thread has no head, and another number.
LEMMA ReceivedIs ==
    ASSUME TypeOK, Received
    PROVE  /\ waiting' = FALSE /\ requests' = requests + 1 /\ requests' \in Nat
           /\ requests < requests' /\ head' = <<>> /\ head' \in Seq(Node) /\ Len(head') = 0
           /\ UNCHANGED <<now, alive, done, early, twice>>
  BY DEF TypeOK, Received

\* The requests that came are still below the number.
LEMMA MoreRequests ==
    ASSUME TypeOK, ReqInv, Received, list' \in Seq(Node),
           \A i \in 1..Len(list') :
             \/ list'[i].req \in {requests} \X Nat
             \/ \E j \in 1..Len(list) : list'[i].req = list[j].req
             \/ \E j \in 1..Len(head) : list'[i].req = head[j].req
    PROVE  ReqInv'
  <1>1. /\ requests' = requests + 1 /\ requests \in Nat /\ Len(head') = 0 /\ done' = done
        /\ list \in Seq(Node) /\ head \in Seq(Node)
    BY ReceivedIs DEF TypeOK
  <1>2. \A d \in Nat \X Nat : d[1] < requests => d[1] < requests'
    BY <1>1
  <1>3. \A d \in done : d[1] < requests'
    BY <1>1, <1>2 DEF ReqInv, TypeOK
  <1>4. ASSUME NEW s \in Seq(Node), NEW j \in 1..Len(s), s[j].req[1] < requests
        PROVE  s[j].req[1] < requests'
    <2>1. s[j] \in Node
      OBVIOUS
    <2>2. s[j].req \in Nat \X Nat
      BY <2>1 DEF Node
    <2> QED BY <1>2, <1>4, <2>2
  <1>5. ASSUME NEW i \in 1..Len(list') PROVE list'[i].req[1] < requests'
    <2>1. CASE list'[i].req \in {requests} \X Nat
      <3>1. list'[i].req[1] = requests
        BY <2>1
      <3> QED BY <1>1, <3>1
    <2>2. CASE \E j \in 1..Len(list) : list'[i].req = list[j].req
      <3>1. PICK j \in 1..Len(list) : list'[i].req = list[j].req
        BY <2>2
      <3>2. list[j].req[1] < requests'
        BY <1>1, <1>4 DEF ReqInv
      <3> QED BY <3>1, <3>2
    <2>3. CASE \E j \in 1..Len(head) : list'[i].req = head[j].req
      <3>1. PICK j \in 1..Len(head) : list'[i].req = head[j].req
        BY <2>3
      <3>2. head[j].req[1] < requests'
        BY <1>1, <1>4 DEF ReqInv
      <3> QED BY <3>1, <3>2
    <2> QED BY <2>1, <2>2, <2>3
  <1> QED BY <1>1, <1>3, <1>5 DEF ReqInv

\* A packet that leaves the timers alone.
LEMMA OtherKeeps ==
    ASSUME Inv, Received, type' \in 0..3, InformInv',
           inbox' \in Seq(Packet), asked' = asked, answered' \in Seq(Packet),
           UNCHANGED <<list, undefined, accepted, stale, replaced, wiped>>
    PROVE  Inv'
  <1> USE DEF Inv
  <1>1. /\ waiting' = FALSE /\ requests' \in Nat /\ head' \in Seq(Node)
        /\ UNCHANGED <<now, alive, done, early, twice>>
    BY ReceivedIs
  <1>2. TypeOK'
    BY <1>1 DEF TypeOK
  <1>3. ReqInv'
    <2>1. \A i \in 1..Len(list') : \E j \in 1..Len(list) : list'[i].req = list[j].req
      OBVIOUS
    <2>2. list' \in Seq(Node)
      BY DEF TypeOK
    <2> QED BY <2>1, <2>2, MoreRequests
  <1>4. OrderInv' /\ FreshInv' /\ GapInv' /\ HeldInv'
    BY <1>1 DEF OrderInv, FreshInv, GapInv, HeldInv
  <1>5. RunsOnceAlone' /\ NeverEarly' /\ (undefined' => stale')
    BY <1>1 DEF RunsOnceAlone, NeverEarly
  <1> QED BY <1>2, <1>3, <1>4, <1>5

LEMMA AckKeeps ==
    ASSUME Inv, Ack
    PROVE  Inv'
  <1>1. /\ Received /\ type' \in 0..3
        /\ UNCHANGED inform
        /\ UNCHANGED <<list, undefined, accepted, stale, replaced, wiped>>
    BY DEF Ack
  <1>2. InformInv'
    BY <1>1, SameInform DEF Inv
  <1>3. inbox' \in Seq(Packet) /\ asked' = asked /\ answered' \in Seq(Packet)
    BY <1>1 DEF Inv, TypeOK, inform
  <1> QED BY <1>1, <1>2, <1>3, OtherKeeps

\* A packet of a question: it goes from those that wait to those that are
\* answered.
LEMMA AnswerKeeps ==
    ASSUME Inv, parse_inform_message
    PROVE  Inv'
  <1>1. /\ Received /\ type' \in 0..3 /\ inbox # <<>>
        /\ inbox' = Tail(inbox) /\ answered' = Append(answered, Head(inbox)) /\ asked' = asked
        /\ UNCHANGED <<list, undefined, accepted, stale, replaced, wiped>>
    BY DEF parse_inform_message
  <1>2. inbox \in Seq(Packet) /\ answered \in Seq(Packet)
    BY DEF Inv, TypeOK
  <1>3. inbox' \in Seq(Packet) /\ answered' \in Seq(Packet)
    BY <1>1, <1>2
  <1>4. answered' \o inbox' = answered \o inbox
    <2>1. Append(answered, Head(inbox)) \o Tail(inbox) = answered \o inbox
      BY <1>1, <1>2
    <2> QED BY <1>1, <2>1
  <1>5. InformInv'
    BY <1>1, <1>4 DEF Inv, InformInv, Packets
  <1> QED BY <1>1, <1>3, <1>5, OtherKeeps

\* The tool asks.
LEMMA InformKeeps ==
    ASSUME Inv, NEW n \in Asked, local_inform(n)
    PROVE  Inv'
  <1> USE DEF Inv
  <1>1. /\ asked = -1 /\ asked' = n /\ inbox' = Question(n) /\ answered' = answered
        /\ UNCHANGED <<now, list, thread, alive, undefined, history>>
    BY DEF local_inform
  <1>2. n \in Nat /\ n # -1
    BY TimerAssumption
  <1>3. Question(n) \in Seq(Packet)
    BY <1>2, QuestionIs DEF Pieces
  <1>4. TypeOK'
    BY <1>1, <1>3 DEF TypeOK, thread, history
  <1>5. ReqInv'
    BY <1>1 DEF ReqInv, thread, history
  <1>6. OrderInv' /\ FreshInv' /\ GapInv' /\ HeldInv'
    BY <1>1 DEF OrderInv, FreshInv, GapInv, HeldInv, history
  <1>7. RunsOnceAlone' /\ NeverEarly' /\ (undefined' => stale')
    BY <1>1 DEF RunsOnceAlone, NeverEarly, history
  <1>8. InformInv'
    <2>1. answered \in Seq(Packet) /\ answered \o inbox = <<>>
      BY <1>1 DEF InformInv, Packets, TypeOK
    <2>2. answered = <<>>
      <3>1. inbox \in Seq(Packet)
        BY DEF TypeOK
      <3>2. Len(answered \o inbox) = Len(answered) + Len(inbox) /\ Len(answered \o inbox) = 0
        BY <2>1, <3>1, Concat
      <3>3. Len(answered) = 0
        BY <2>1, <3>1, <3>2
      <3> QED BY <2>1, <3>3
    <2>3. answered \o Question(n) = Question(n)
      BY <1>3, <2>2
    <2> QED BY <1>1, <1>2, <2>3 DEF InformInv, Packets
  <1> QED BY <1>4, <1>5, <1>6, <1>7, <1>8

\* A packet of another kind: the list stays or is emptied.
LEMMA UnknownKeeps ==
    ASSUME Inv, UnknownType
    PROVE  Inv'
  <1> USE DEF Inv
  <1>1. /\ Received
        /\ list' = (IF type = 1 THEN <<>> ELSE list)
        /\ wiped' = (wiped \/ list # list')
        /\ UNCHANGED <<type, inform, undefined, accepted, stale, replaced>>
    BY DEF UnknownType
  <1>2. CASE list' = list
    <2>1. wiped' = wiped
      BY <1>1, <1>2 DEF TypeOK
    <2>2. InformInv'
      BY <1>1, SameInform
    <2>3. inbox' \in Seq(Packet) /\ asked' = asked /\ answered' \in Seq(Packet) /\ type' \in 0..3
      BY <1>1 DEF TypeOK, inform
    <2> QED BY <1>1, <1>2, <2>1, <2>2, <2>3, OtherKeeps
  <1>3. CASE list' # list
    <2>1. list' = <<>> /\ list' \in Seq(Node) /\ Len(list') = 0 /\ wiped' = TRUE
      <3>1. list' = <<>>
        BY <1>1, <1>3
      <3>2. wiped' = TRUE
        BY <1>1, <1>3
      <3> QED BY <3>1, <3>2
    <2>2. /\ waiting' = FALSE /\ requests' \in Nat /\ head' \in Seq(Node)
          /\ UNCHANGED <<now, alive, done, early, twice>>
      BY <1>1, ReceivedIs
    <2>3. TypeOK'
      BY <1>1, <2>1, <2>2 DEF TypeOK, inform
    <2>4. ReqInv'
      BY <1>1, <2>1, MoreRequests
    <2>5. OrderInv' /\ FreshInv' /\ GapInv' /\ HeldInv'
      BY <2>1 DEF OrderInv, FreshInv, GapInv, HeldInv, Sorted, Distinct, Gaps
    <2>6. RunsOnceAlone' /\ NeverEarly' /\ (undefined' => stale')
      BY <1>1, <2>2 DEF RunsOnceAlone, NeverEarly
    <2>7. InformInv'
      BY <1>1, SameInform
    <2> QED BY <2>3, <2>4, <2>5, <2>6, <2>7
  <1> QED BY <1>2, <1>3

\* A request for timers.  Its timers go into the list that the head leads to.
LEMMA TimersKeepInv ==
    ASSUME Inv, ~undefined, NEW batch \in Batches, parse_timer_message(batch)
    PROVE  Inv'
  <1> USE DEF Inv
  <1> DEFINE timers == [k \in DOMAIN batch |->
                          [id |-> batch[k].id, flag |-> batch[k].flag, time |-> batch[k].time,
                           elapse |-> 0, req |-> <<requests, k>>]]
             before == [list |-> FromHead, accepted |-> accepted, replaced |-> replaced]
             c == set_timers(before, timers)[Len(batch)]
             R == {requests} \X Nat
  <1>1. /\ Received /\ type' = 1
        /\ WriteBack(c.list) /\ accepted' = c.accepted /\ replaced' = c.replaced
        /\ UNCHANGED <<inform, wiped>>
    BY DEF parse_timer_message
  <1>2. /\ now \in Nat /\ requests \in Nat /\ list \in Seq(Node) /\ head \in Seq(Node)
        /\ accepted \in SUBSET Node /\ replaced \in BOOLEAN /\ done \in SUBSET (Nat \X Nat)
        /\ stale \in BOOLEAN
    BY DEF TypeOK
  <1>3. /\ waiting' = FALSE /\ requests' \in Nat /\ head' \in Seq(Node)
        /\ UNCHANGED <<now, alive, done, early, twice>>
    BY <1>1, ReceivedIs
  <1>4. batch \in Seq(TimerMessage \cup {Unknown})
    BY TimerAssumption DEF get_timer_message
  <1>5. /\ timers \in Seq(Timer) /\ Len(timers) = Len(batch)
        /\ \A k \in 1..Len(timers) : timers[k].req = <<requests, k>>
    <2>1. DOMAIN batch = 1..Len(batch) /\ Len(batch) \in Nat
      BY <1>4
    <2>2. ASSUME NEW k \in 1..Len(batch)
          PROVE  batch[k].id \in Ports \cup {-1} /\ batch[k].flag \in Flags /\ batch[k].time \in Nat
      <3>1. batch[k] \in TimerMessage \cup {Unknown}
        BY <1>4
      <3>2. CASE batch[k] \in TimerMessage
        BY <3>2, TimerAssumption DEF TimerMessage
      <3>3. CASE batch[k] = Unknown
        BY <3>3 DEF Unknown, Flags
      <3> QED BY <3>1, <3>2, <3>3
    <2>3. ASSUME NEW k \in 1..Len(batch) PROVE timers[k] \in Timer /\ timers[k].req = <<requests, k>>
      <3>1. <<requests, k>> \in Nat \X Nat
        BY <1>2
      <3>2. timers[k] = [id |-> batch[k].id, flag |-> batch[k].flag, time |-> batch[k].time,
                         elapse |-> 0, req |-> <<requests, k>>]
        BY <2>1
      <3> HIDE DEF timers
      <3> QED BY <2>2, <3>1, <3>2 DEF Timer
    <2>4. DOMAIN timers = 1..Len(batch) /\ timers = [k \in 1..Len(batch) |-> timers[k]]
      BY <2>1
    <2> HIDE DEF timers
    <2>5. timers \in Seq(Timer) /\ Len(timers) = Len(batch)
      BY <2>1, <2>3, <2>4
    <2> QED BY <2>3, <2>5
  <1>6. FromHead \in Seq(Node) /\ \A i \in 1..Len(FromHead) : FromHead[i].req[1] < requests
    BY <1>2 DEF FromHead, ReqInv
  <1>7. before \in Partial
    BY <1>2, <1>6 DEF Partial
  <1>8. before.list = FromHead /\ before.accepted = accepted /\ before.replaced = replaced
    OBVIOUS
  <1> HIDE DEF timers, before
  <1>9. c \in Partial /\ Kept(before, c, R)
    <2>1. ASSUME NEW i \in 1..Len(before.list) PROVE before.list[i].req[1] # requests
      <3>1. before.list[i].req[1] < requests
        BY <1>6, <1>8
      <3>2. before.list[i] \in Node
        BY <1>6, <1>8
      <3>3. before.list[i].req[1] \in Nat
        BY <3>2 DEF Node
      <3> QED BY <1>2, <3>1, <3>3
    <2> QED BY <1>2, <1>5, <1>7, <2>1, TimersKeep
  <1> HIDE DEF c
  <1>10. /\ list' = c.list /\ list' \in Seq(Node) /\ accepted' = c.accepted
         /\ accepted' \in SUBSET Node /\ replaced' = c.replaced /\ replaced' \in BOOLEAN
         /\ stale' = (stale \/ Moved) /\ undefined' = (Moved /\ Len(head) > 1)
    BY <1>1, <1>9 DEF WriteBack, Partial
  <1>11. TypeOK'
    <2>1. stale' \in BOOLEAN /\ undefined' \in BOOLEAN
      BY <1>10
    <2>2. inbox' \in Seq(Packet) /\ asked' \in Asked \cup {-1} /\ answered' \in Seq(Packet)
      BY <1>1 DEF TypeOK, inform
    <2>3. /\ now' \in Nat /\ alive' \in BOOLEAN /\ done' \in SUBSET (Nat \X Nat)
          /\ early' \in BOOLEAN /\ twice' \in BOOLEAN /\ wiped' \in BOOLEAN
      BY <1>1, <1>3 DEF TypeOK
    <2>4. waiting' \in BOOLEAN
      BY <1>3
    <2>5. type' \in 0..3
      BY <1>1
    <2> QED BY <1>3, <1>10, <2>1, <2>2, <2>3, <2>4, <2>5 DEF TypeOK
  <1>12. ASSUME NEW j \in 1..Len(list')
         PROVE  list'[j].req \in R \/ \E i \in 1..Len(FromHead) : list'[j].req = FromHead[i].req
    BY <1>8, <1>9, <1>10 DEF Kept
  <1>13. ReqInv'
    <2>1. FromHead = head \/ FromHead = list
      BY DEF FromHead
    <2>2. \A i \in 1..Len(list') :
             \/ list'[i].req \in {requests} \X Nat
             \/ \E j \in 1..Len(list) : list'[i].req = list[j].req
             \/ \E j \in 1..Len(head) : list'[i].req = head[j].req
      BY <1>12, <2>1
    <2> QED BY <1>1, <1>10, <2>2, MoreRequests
  <1>14. ~undefined' => Sorted(FromHead) /\ (replaced \/ Gaps(FromHead))
    <2>1. CASE Moved
      <3> SUFFICES ASSUME ~undefined' PROVE Sorted(FromHead) /\ Gaps(FromHead)
        OBVIOUS
      <3>1. FromHead = head /\ Len(head) \in Nat
        BY <1>2, <2>1 DEF FromHead
      <3>2. ~(Len(head) > 1)
        BY <1>10, <2>1
      <3> QED BY <3>1, <3>2 DEF Sorted, Gaps
    <2>2. CASE ~Moved
      BY <2>2 DEF FromHead, OrderInv, GapInv
    <2> QED BY <2>1, <2>2
  <1>15. OrderInv' /\ GapInv'
    BY <1>8, <1>9, <1>10, <1>14 DEF Kept, OrderInv, GapInv
  <1>16. ~stale' => ~stale /\ FromHead = list
    BY <1>10 DEF FromHead
  <1>17. FreshInv'
    <2> SUFFICES ASSUME ~stale'
                 PROVE  /\ Distinct(list')
                        /\ \A i \in 1..Len(list') : list'[i].req \notin done'
      BY DEF FreshInv
    <2>1. FromHead = list /\ Distinct(list) /\ \A i \in 1..Len(list) : list[i].req \notin done
      BY <1>16 DEF FreshInv
    <2>2. ASSUME NEW d \in R PROVE d \notin done /\ ~(d[1] < requests)
      BY <1>2 DEF ReqInv
    <2>3. \A i \in 1..Len(list) : list[i].req \notin R
      BY <2>2 DEF ReqInv
    <2>4. Distinct(list')
      BY <1>8, <1>9, <1>10, <2>1, <2>3 DEF Kept
    <2>5. \A i \in 1..Len(list') : list'[i].req \notin done'
      BY <1>3, <1>12, <2>1, <2>2
    <2> QED BY <2>4, <2>5
  <1>18. HeldInv'
    <2> SUFFICES ASSUME ~stale', ~wiped', alive' PROVE Held(list', accepted', now')
      BY DEF HeldInv
    <2>1. FromHead = list /\ ~stale /\ ~wiped /\ alive
      BY <1>1, <1>3, <1>16
    <2>2. Held(list, accepted, now)
      BY <2>1 DEF HeldInv
    <2>3. Held(c.list, c.accepted, now)
      BY <1>8, <1>9, <2>1, <2>2 DEF Kept
    <2> QED BY <1>3, <1>10, <2>3
  <1>19. RunsOnceAlone' /\ (undefined' => stale')
    BY <1>3, <1>10 DEF RunsOnceAlone
  <1>20. NeverEarly'
    BY <1>3, <1>8, <1>9, <1>10 DEF NeverEarly, Kept
  <1>21. InformInv'
    BY <1>1, SameInform
  <1> QED BY <1>11, <1>13, <1>15, <1>17, <1>18, <1>19, <1>20, <1>21

LEMMA NextInv == Inv /\ [Next]_vars => Inv'
  <1> SUFFICES ASSUME Inv, [Next]_vars PROVE Inv'
    OBVIOUS
  <1>1. ASSUME alive /\ ~undefined, NEW delay \in Delays, sig_func(delay) PROVE Inv'
    BY <1>1, SigKeeps
  <1>2. CASE ReadHead
    BY <1>2, ReadHeadKeeps
  <1>3. ASSUME ~undefined, NEW batch \in Batches, parse_timer_message(batch) PROVE Inv'
    BY <1>3, TimersKeepInv
  <1>4. CASE Ack
    BY <1>4, AckKeeps
  <1>5. ASSUME NEW n \in Asked, local_inform(n) PROVE Inv'
    BY <1>5, InformKeeps
  <1>6. CASE parse_inform_message
    BY <1>6, AnswerKeeps
  <1>7. CASE UnknownType
    BY <1>7, UnknownKeeps
  <1>8. CASE UNCHANGED vars
    <2>1. UNCHANGED <<now, list, head, waiting, type, requests, alive, undefined>>
      BY <1>8 DEF vars, thread
    <2>2. UNCHANGED <<inbox, asked, answered>>
      BY <1>8 DEF vars, inform
    <2>3. UNCHANGED <<accepted, done, early, twice, stale, replaced, wiped>>
      BY <1>8 DEF vars, history
    <2>4. TypeOK'
      BY <2>1, <2>2, <2>3 DEF Inv, TypeOK
    <2>5. ReqInv' /\ OrderInv' /\ FreshInv' /\ HeldInv' /\ GapInv'
      BY <2>1, <2>3 DEF Inv, ReqInv, OrderInv, FreshInv, HeldInv, GapInv
    <2>6. InformInv' /\ RunsOnceAlone' /\ NeverEarly' /\ (undefined' => stale')
      BY <2>1, <2>2, <2>3 DEF Inv, InformInv, Packets, RunsOnceAlone, NeverEarly
    <2> QED BY <2>4, <2>5, <2>6 DEF Inv
  <1> QED BY <1>1, <1>2, <1>3, <1>4, <1>5, <1>6, <1>7, <1>8 DEF Next

THEOREM Invariance == Spec => []Inv
  <1> QED BY InitInv, NextInv, PTL DEF Spec

-----------------------------------------------------------------------------
(* Results *)

\* The values of the variables.
THEOREM TypeCorrect == Spec => []TypeOK
  <1>1. Inv => TypeOK
    BY DEF Inv
  <1> QED BY <1>1, Invariance, PTL

\* insert_a_timer, delete_repete_timer and sig_func keep the list ascending in
\* time and free of repetitions, whatever head the thread writes back.
THEOREM OrderedList == Spec => []Ordered
  <1>1. Inv => Ordered
    <2> SUFFICES ASSUME Inv, ~undefined, NEW i \in DOMAIN list, NEW j \in DOMAIN list, i < j
                 PROVE  list[i].time <= list[j].time /\ ~SameTimer(list[i], list[j])
      BY DEF Ordered
    <2>1. Sorted(list) /\ list \in Seq(Node)
      BY DEF Inv, OrderInv, TypeOK
    <2>2. i \in 1..Len(list) /\ j \in 1..Len(list)
      BY <2>1
    <2> QED BY <2>1, <2>2 DEF Sorted
  <1> QED BY <1>1, Invariance, PTL

\* A timer that was accepted is in the list until its time: sig_func passes
\* over none, however late the signal is.
THEOREM RunInTime == Spec => []OnTime
  <1>1. Inv => OnTime
    <2> SUFFICES ASSUME Inv, ~stale, ~wiped, alive, NEW x \in accepted PROVE x.time >= now
      BY DEF OnTime
    <2>1. Held(list, accepted, now)
      BY DEF Inv, HeldInv
    <2> QED BY <2>1 DEF Held
  <1> QED BY <1>1, Invariance, PTL

\* The second loop of sig_func runs only what is due, as elapse of a node is
\* the time since the one before unless a timer was replaced.
THEOREM NoneEarly == Spec => []NeverEarly
  <1>1. Inv => NeverEarly
    BY DEF Inv
  <1> QED BY <1>1, Invariance, PTL

\* A node that ran comes back only with a head that was out of date.
THEOREM RunOnce == Spec => []RunsOnceAlone
  <1>1. Inv => RunsOnceAlone
    BY DEF Inv
  <1> QED BY <1>1, Invariance, PTL

\* main of local_inform packs any number of ports completely, in turn and with
\* the right numbers.
THEOREM QuestionsComplete == Spec => []AskedOnce
  <1>1. Inv => AskedOnce
    <2> SUFFICES ASSUME Inv, asked # -1
                 PROVE  /\ \A k \in DOMAIN Packets : Packets[k].count = Len(Packets[k].ports)
                        /\ FlattenSeq([k \in DOMAIN Packets |-> Packets[k].ports]) =
                             [k \in 1..asked |-> k]
      BY DEF AskedOnce
    <2>1. asked \in Nat /\ Packets = Question(asked)
      BY TimerAssumption DEF Inv, TypeOK, InformInv
    <2>2. PICK q \in Nat, r \in 0..PerPacket :
            asked = PerPacket * q + r /\ Pieces(Packets, q, r)
      BY <2>1, QuestionIs
    <2>3. ASSUME NEW k \in DOMAIN Packets PROVE Packets[k].count = Len(Packets[k].ports)
      <3>1. k \in 1..(q + 1) /\ Packets[k] = Piece(k - 1, Count(q, r, k))
        BY <2>2 DEF Pieces
      <3>2. Count(q, r, k) \in Nat
        BY DEF Count, PerPacket
      <3>3. \A m \in Nat : Len([j \in 1..m |-> PerPacket * (k - 1) + j]) = m
        OBVIOUS
      <3> QED BY <3>1, <3>2, <3>3 DEF Piece
    <2>4. FlattenSeq([k \in DOMAIN Packets |-> Packets[k].ports]) = [k \in 1..asked |-> k]
      <3> HIDE DEF Packets
      <3> QED BY <2>2, PiecesFlat
    <2> QED BY <2>3, <2>4
  <1> QED BY <1>1, Invariance, PTL

\* parse_inform_message, which reads one INFORM_GET_MIDDLE more than there are
\* entries, stays within recv_buf and send_buf for any question.
THEOREM AnswersFit == Spec => []AnswerFits
  <1>1. Inv => AnswerFits
    <2> SUFFICES ASSUME Inv, NEW k \in DOMAIN Packets
                 PROVE  /\ Used(Packets[k]) <= Buffer
                        /\ ReadEnd(Packets[k]) <= Buffer
                        /\ WriteEnd(Packets[k]) <= Answer
      BY DEF AnswerFits
    <2>1. asked # -1
      BY DEF Inv, InformInv
    <2>2. asked \in Nat /\ Packets = Question(asked)
      BY <2>1, TimerAssumption DEF Inv, TypeOK, InformInv
    <2>3. PICK q \in Nat, r \in 0..PerPacket : Pieces(Packets, q, r)
      BY <2>2, QuestionIs
    <2>4. k \in 1..(q + 1) /\ Packets[k] = Piece(k - 1, Count(q, r, k))
      BY <2>3 DEF Pieces
    <2> DEFINE c == Count(q, r, k)
    <2>5. c \in Nat /\ c <= PerPacket
      BY DEF Count, PerPacket
    <2> HIDE DEF c
    <2>6. Packets[k].count = c /\ Len(Packets[k].ports) = c
      <3> DEFINE f == [j \in 1..c |-> PerPacket * (k - 1) + j]
      <3>1. Len(f) = c
        BY <2>5
      <3>2. Packets[k] = [count |-> c, ports |-> f]
        BY <2>4 DEF Piece, c
      <3> HIDE DEF f
      <3> QED BY <3>1, <3>2
    <2>7. Used(Packets[k]) = 40 + c * 72
      BY <2>6, EntrySize DEF Used, TypeSize, HeadSize
    <2>8. ReadEnd(Packets[k]) = 60 + c * 72
      <3>1. MiddleSize + Cardinality(set_request) * TailSize = 72
        BY EntrySize DEF MiddleSize, TailSize
      <3> QED BY <2>5, <2>6, <3>1 DEF ReadEnd, TypeSize, HeadSize, MiddleSize
    <2>9. WriteEnd(Packets[k]) = 56 + c * 80
      <3>1. Cardinality(set_request) * (TailSize + ValueSize) + MiddleSize = 80
        BY EntrySize DEF MiddleSize, TailSize, ValueSize
      <3> QED BY <2>6, <3>1 DEF WriteEnd, HeadSize, MiddleSize
    <2> QED BY <2>5, <2>7, <2>8, <2>9 DEF PerPacket, Buffer, Answer
  <1> QED BY <1>1, Invariance, PTL
=============================================================================
