------------------------ MODULE BorderRouter_proofs ------------------------
(***************************************************************************)
(* Proofs about what stands at the edge of an AS: BorderRouter, for any    *)
(* number of routers and negotiated PIDs, and FlowServer, for any numbers  *)
(* of packets, sizes and GETs.                                             *)
(*                                                                         *)
(* Routers.  All negotiated PIDs make one key, the empty one, and no       *)
(* configured PID makes it.  So the entry of a router's own name stays as  *)
(* it was (OwnInv).  The empty key leads over the own link, once a PID of  *)
(* the link was learned, for as long as no other router has a negotiated   *)
(* PID (KeyInv).  Packets arrive in any order, so nothing is said of which *)
(* comes first; only what an announcement can be (PacketOK), and that the  *)
(* one to the own router is still to be sent, on its way, learned or lost  *)
(* (ToldInv).                                                              *)
(*                                                                         *)
(* Flow server.  A thread is given its flow through a structure that main  *)
(* goes on using.  That it copies the right one is inductive with what is  *)
(* in the structure at each point of main (ArgumentInv), and with the      *)
(* threads that exist being those of GETs that main is done with           *)
(* (CreatedInv).  That a flow is not larger than asked for is arithmetic:  *)
(* what is divided by the number of packets or by 1514, multiplied again,  *)
(* with the remainder added, is at most what it was (FlowSentBound).       *)
(***************************************************************************)
EXTENDS BorderRouter, FlowServer, TLAPS

Packet == [to : Routers, kind : {"announce", "control", "get"}, pid : Nat, of : Routers]

\* The values of the variables.
TypeOK ==
    /\ pid \in [Routers -> Nat]
    /\ telling \in [Routers -> SUBSET Routers]
    /\ onway \in SUBSET Packet
    /\ pid_ip \in [Routers -> [Keys -> Addresses]]
    /\ reached \in SUBSET Routers
    /\ lost \in SUBSET Routers

\* A router whose link has a negotiated PID keeps having one.
Negotiated(r) == pid[r] \in NewPids
Alone(r) == \A q \in Routers \ {r} : ~Negotiated(q)

\* What the RM sends to a router.
PacketOK(m) ==
    /\ m.kind = "announce" => m.pid \in NewPids /\ Negotiated(m.of)
    /\ m.kind = "control" => m.pid \in NewPids \cup {Name[m.to]}
    /\ m.kind = "get" => m.pid = Name[m.to]

PidInv ==
    /\ \A r \in Routers : Negotiated(r) \/ pid[r] = Name[r]
    /\ \A r \in Routers : telling[r] # {} => Negotiated(r)
    /\ \A m \in onway : PacketOK(m)

\* The configured PID of a router leads over its link.
OwnInv == \A r \in Routers : pid_ip[r][CString(Name[r])] = Neighbour(r)

\* So do the negotiated ones, if they are all of one link and were learned.
KeyInv == \A r \in reached : Alone(r) => pid_ip[r][0] = Neighbour(r)

\* Where the announcement to the own router can be.
Told(r) ==
    \/ r \in reached
    \/ r \in lost
    \/ r \in telling[r]
    \/ \E m \in onway : m.to = r /\ m.kind = "announce" /\ m.of = r

ToldInv == \A r \in Routers : pid[r] # Name[r] => Told(r)

\* What ControlLeaves says of the last packet, said of all negotiated PIDs
\* instead of their keys.
OutInv ==
    /\ GetsLeave
    /\ out.kind = "control" =>
         \/ out.nic = 1
         \/ out.pid \in NewPids /\ out.router \notin reached
         \/ out.pid \in NewPids /\ \E q \in Routers \ {out.router} : Negotiated(q)

Inv == TypeOK /\ PidInv /\ OwnInv /\ KeyInv /\ ToldInv /\ OutInv

-----------------------------------------------------------------------------
(* Keys and outputs *)

\* All negotiated PIDs have the empty key, a configured one its own.
LEMMA KeyFacts ==
    /\ \A p \in NewPids : CString(p) = 0 /\ 0 \in Keys
    /\ \A r \in Routers : CString(Name[r]) # 0 /\ CString(Name[r]) \in Keys /\ Name[r] \notin NewPids
  <1>1. \A p \in NewPids : CString(p) = 0
    BY RouterAssumption DEF CString
  <1>2. ASSUME NEW r \in Routers
        PROVE  CString(Name[r]) = Name[r] /\ Name[r] # 0 /\ Name[r] \notin NewPids
    <2>1. /\ Byte(Name[r], 1) # 0 /\ Byte(Name[r], 2) # 0 /\ Byte(Name[r], 3) # 0
          /\ Name[r] # 0 /\ Name[r] \notin NewPids
      BY RouterAssumption
    <2> QED BY <2>1 DEF CString
  <1> QED BY <1>1, <1>2 DEF Keys

\* The neighbour of a router is reached over its link.
LEMMA OverLink == ASSUME NEW r \in Routers PROVE ip_nic(r, Neighbour(r)) = 1
  <1>1. Neighbour(r) # RM
    BY DEF Neighbour, RM
  <1> QED BY <1>1 DEF ip_nic

\* The invariant holds initially.
LEMMA InitInv == Init => Inv
  <1> SUFFICES ASSUME Init PROVE Inv
    OBVIOUS
  <1>1. TypeOK
    <2>1. \A r \in Routers : Name[r] \in Nat
      BY RouterAssumption
    <2>2. Name \in [Routers -> Nat]
      BY <2>1, RouterAssumption
    <2>3. pid_ip \in [Routers -> [Keys -> Addresses]]
      BY DEF Init, Addresses
    <2> QED BY <2>2, <2>3 DEF Init, TypeOK
  <1>2. PidInv /\ OutInv /\ KeyInv /\ ToldInv
    BY DEF Init, PidInv, OutInv, KeyInv, ToldInv, GetsLeave
  <1>3. OwnInv
    BY KeyFacts DEF Init, OwnInv
  <1> QED BY <1>1, <1>2, <1>3 DEF Inv

-----------------------------------------------------------------------------
(* Steps *)

\* The RM takes over a new PID.
LEMMA AdoptInv ==
    ASSUME Inv, NEW r \in Routers, NEW p \in NewPids, Adopt(r, p)
    PROVE  Inv'
  <1> USE DEF Inv
  <1>1. /\ pid' = [pid EXCEPT ![r] = p]
        /\ telling' = [telling EXCEPT ![r] = Routers]
        /\ UNCHANGED <<onway, pid_ip, out, reached, lost>>
    BY DEF Adopt, history
  <1>2. p \in Nat
    BY RouterAssumption
  <1>3. /\ Negotiated(r)'
        /\ \A q \in Routers : Negotiated(q) => Negotiated(q)'
        /\ \A q \in Routers \ {r} : pid'[q] = pid[q] /\ telling'[q] = telling[q]
        /\ telling'[r] = Routers
    BY <1>1 DEF Negotiated, TypeOK
  <1>4. TypeOK'
    BY <1>1, <1>2 DEF TypeOK
  <1>5. PidInv'
    <2>1. ASSUME NEW m \in onway' PROVE PacketOK(m)'
      <3>1. m \in Packet /\ PacketOK(m)
        BY <1>1, <2>1 DEF PidInv, TypeOK
      <3> QED BY <1>3, <3>1 DEF PacketOK, Packet
    <2>2. \A q \in Routers : Negotiated(q)' \/ pid'[q] = Name[q]
      BY <1>3 DEF PidInv
    <2>3. \A q \in Routers : telling'[q] # {} => Negotiated(q)'
      BY <1>3 DEF PidInv
    <2> QED BY <2>1, <2>2, <2>3 DEF PidInv
  <1>6. OwnInv'
    BY <1>1 DEF OwnInv
  <1>7. KeyInv'
    BY <1>1, <1>3 DEF KeyInv, Alone, TypeOK
  <1>8. ToldInv'
    BY <1>1, <1>3 DEF ToldInv, Told
  <1>9. OutInv'
    BY <1>1, <1>3 DEF OutInv, GetsLeave
  <1> QED BY <1>4, <1>5, <1>6, <1>7, <1>8, <1>9

\* The loop of the announcements goes on to router q, and the card takes the
\* packet.
LEMMA AnnounceInv ==
    ASSUME Inv, NEW r \in Routers, NEW q \in Routers, Announce(r, q)
    PROVE  Inv'
  <1> USE DEF Inv
  <1> DEFINE m == Announcement(r, q)
  <1>1. /\ q \in telling[r]
        /\ telling' = [telling EXCEPT ![r] = @ \ {q}]
        /\ onway' = onway \cup {m}
        /\ UNCHANGED <<pid, pid_ip, out, reached, lost>>
    BY DEF Announce, history
  <1>2. /\ telling'[r] = telling[r] \ {q}
        /\ \A s \in Routers \ {r} : telling'[s] = telling[s]
    BY <1>1 DEF TypeOK
  <1>3. m \in Packet /\ m.to = q /\ m.kind = "announce" /\ m.pid = pid[r] /\ m.of = r
    BY DEF Announcement, Packet, TypeOK
  <1>4. TypeOK'
    BY <1>1, <1>3 DEF TypeOK
  <1>5. PidInv'
    <2>1. Negotiated(r) /\ PacketOK(m)
      BY <1>1, <1>3 DEF PidInv, PacketOK, Negotiated
    <2>2. ASSUME NEW n \in onway' PROVE PacketOK(n)'
      BY <1>1, <2>1 DEF PidInv, PacketOK, Negotiated
    <2> QED BY <1>1, <1>2, <2>1, <2>2 DEF PidInv, Negotiated
  <1>6. OwnInv' /\ KeyInv' /\ OutInv'
    BY <1>1 DEF OwnInv, KeyInv, Alone, OutInv, GetsLeave, Negotiated
  <1>7. ToldInv'
    BY <1>1, <1>2, <1>3 DEF ToldInv, Told
  <1> QED BY <1>4, <1>5, <1>6, <1>7

\* The card does not take it.
LEMMA RefusedInv ==
    ASSUME Inv, NEW r \in Routers, NEW q \in Routers, AnnounceRefused(r, q)
    PROVE  Inv'
  <1> USE DEF Inv
  <1>1. /\ telling' = [telling EXCEPT ![r] = @ \ {q}]
        /\ lost' = IF q = r THEN lost \cup {r} ELSE lost
        /\ UNCHANGED <<pid, onway, pid_ip, out, reached>>
    BY DEF AnnounceRefused
  <1>2. /\ telling'[r] = telling[r] \ {q}
        /\ \A s \in Routers \ {r} : telling'[s] = telling[s]
    BY <1>1 DEF TypeOK
  <1>3. TypeOK'
    BY <1>1 DEF TypeOK
  <1>4. PidInv'
    BY <1>1, <1>2 DEF PidInv, PacketOK, Negotiated
  <1>5. OwnInv' /\ KeyInv' /\ OutInv'
    BY <1>1 DEF OwnInv, KeyInv, Alone, OutInv, GetsLeave, Negotiated
  <1>6. ToldInv'
    BY <1>1, <1>2 DEF ToldInv, Told
  <1> QED BY <1>3, <1>4, <1>5, <1>6

\* The RM sends a control packet or a GET.
LEMMA SendInsideInv ==
    ASSUME Inv, NEW r \in Routers, NEW kind \in {"control", "get"}, SendInside(r, kind)
    PROVE  Inv'
  <1> USE DEF Inv
  <1> DEFINE p == IF kind = "control" THEN pid[r] ELSE Name[r]
             m == [to |-> r, kind |-> kind, pid |-> p, of |-> r]
  <1>1. /\ onway' = onway \cup {m}
        /\ UNCHANGED <<pid, telling, pid_ip, out, reached, lost>>
    BY DEF SendInside, rm, history
  <1>2. m \in Packet
    BY RouterAssumption DEF Packet, TypeOK
  <1>3. TypeOK'
    BY <1>1, <1>2 DEF TypeOK
  <1>4. PidInv'
    <2>1. PacketOK(m)
      BY DEF PidInv, PacketOK, Negotiated
    <2> QED BY <1>1, <2>1 DEF PidInv, PacketOK, Negotiated
  <1>5. OwnInv' /\ KeyInv' /\ OutInv' /\ ToldInv'
    BY <1>1 DEF OwnInv, KeyInv, Alone, OutInv, GetsLeave, Negotiated, ToldInv, Told
  <1> QED BY <1>3, <1>4, <1>5

\* A packet gets lost.
LEMMA LoseInv ==
    ASSUME Inv, NEW m \in onway, Lose(m)
    PROVE  Inv'
  <1> USE DEF Inv
  <1>1. /\ onway' = onway \ {m}
        /\ lost' = IF m.kind = "announce" /\ m.of = m.to THEN lost \cup {m.to} ELSE lost
        /\ UNCHANGED <<pid, telling, pid_ip, out, reached>>
    BY DEF Lose, rm
  <1>2. m \in Packet /\ m.to \in Routers
    BY DEF TypeOK, Packet
  <1>3. TypeOK'
    BY <1>1, <1>2 DEF TypeOK
  <1>4. PidInv' /\ OwnInv' /\ KeyInv' /\ OutInv'
    BY <1>1 DEF PidInv, PacketOK, OwnInv, KeyInv, Alone, OutInv, GetsLeave, Negotiated
  <1>5. ToldInv'
    BY <1>1, <1>2 DEF ToldInv, Told
  <1> QED BY <1>3, <1>4, <1>5

\* A router learns a PID.
LEMMA LearnInv ==
    ASSUME Inv, NEW r \in Routers, NEW m \in onway, Learn(r, m)
    PROVE  Inv'
  <1> USE DEF Inv
  <1> DEFINE a == Route(r, Outer(m.of), m.of = r)
  <1>1. /\ m.to = r /\ m.kind = "announce" /\ onway' = onway \ {m}
        /\ pid_ip' = [pid_ip EXCEPT ![r][CString(m.pid)] = a]
        /\ reached' = IF m.of = r THEN reached \cup {r} ELSE reached
        /\ out'.kind = "announce"
        /\ UNCHANGED <<pid, telling, lost>>
    BY DEF Learn, Arrives, Push, rm
  <1>2. m.pid \in NewPids /\ Negotiated(m.of) /\ m.of \in Routers
    BY <1>1 DEF PidInv, PacketOK, Packet, TypeOK
  <1>3. CString(m.pid) = 0 /\ 0 \in Keys
    BY <1>2, KeyFacts
  <1>4. /\ pid_ip'[r][0] = a
        /\ \A k \in Keys \ {0} : pid_ip'[r][k] = pid_ip[r][k]
        /\ \A q \in Routers \ {r} : pid_ip'[q] = pid_ip[q]
    BY <1>1, <1>3 DEF TypeOK
  <1>5. TypeOK'
    <2>1. a \in Addresses
      BY <1>2 DEF Route, Addresses
    <2>2. pid_ip' \in [Routers -> [Keys -> Addresses]]
      BY <1>1, <1>3, <2>1 DEF TypeOK
    <2> QED BY <1>1, <2>2 DEF TypeOK
  <1>6. PidInv'
    BY <1>1 DEF PidInv, PacketOK, Negotiated
  <1>7. OwnInv'
    BY <1>4, KeyFacts DEF OwnInv
  <1>8. KeyInv'
    <2> SUFFICES ASSUME NEW q \in reached', Alone(q)' PROVE pid_ip'[q][0] = Neighbour(q)
      BY DEF KeyInv
    <2>1. Alone(q) /\ q \in Routers
      BY <1>1 DEF Alone, Negotiated, TypeOK
    <2>2. CASE q # r
      BY <1>1, <1>4, <2>1, <2>2 DEF KeyInv
    <2>3. CASE q = r
      <3>1. m.of = r
        BY <1>2, <2>1, <2>3 DEF Alone
      <3> QED BY <1>4, <2>3, <3>1 DEF Route
    <2> QED BY <2>2, <2>3
  <1>9. ToldInv'
    BY <1>1 DEF ToldInv, Told
  <1>10. OutInv'
    BY <1>1 DEF OutInv, GetsLeave
  <1> QED BY <1>5, <1>6, <1>7, <1>8, <1>9, <1>10

\* A router forwards a GET or a control packet of the RM.
LEMMA FromInsideInv ==
    ASSUME Inv, NEW r \in Routers, NEW m \in onway,
           GetFromInside(r, m) \/ ControlFromInside(r, m)
    PROVE  Inv'
  <1> USE DEF Inv
  <1> DEFINE nic == ip_nic(r, pid_ip[r][CString(m.pid)])
  <1>1. /\ m.to = r /\ m.kind \in {"get", "control"} /\ onway' = onway \ {m}
        /\ out' = [router |-> r, kind |-> m.kind, pid |-> m.pid, nic |-> nic]
        /\ UNCHANGED <<pid, telling, pid_ip, reached, lost>>
    BY DEF GetFromInside, ControlFromInside, Arrives, Push, rm, history
  <1>2. TypeOK' /\ OwnInv'
    BY <1>1 DEF TypeOK, OwnInv
  <1>3. PidInv' /\ KeyInv'
    BY <1>1 DEF PidInv, PacketOK, Negotiated, KeyInv, Alone
  <1>4. ToldInv'
    BY <1>1 DEF ToldInv, Told
  <1>5. OutInv'
    <2>1. PacketOK(m)
      BY DEF PidInv
    <2>2. CASE m.pid = Name[r]
      BY <1>1, <2>2, OverLink DEF OwnInv, OutInv, GetsLeave
    <2>3. CASE m.pid \in NewPids /\ m.kind = "control"
      <3>1. CASE r \notin reached \/ ~Alone(r)
        BY <1>1, <2>3, <3>1 DEF OutInv, GetsLeave, Alone, Negotiated
      <3>2. CASE r \in reached /\ Alone(r)
        <4>1. pid_ip[r][0] = Neighbour(r)
          BY <3>2 DEF KeyInv
        <4>2. nic = 1
          BY <2>3, <4>1, KeyFacts, OverLink
        <4> QED BY <1>1, <2>3, <4>2 DEF OutInv, GetsLeave
      <3> QED BY <3>1, <3>2
    <2> QED BY <1>1, <2>1, <2>2, <2>3 DEF PacketOK
  <1> QED BY <1>2, <1>3, <1>4, <1>5

\* A packet that is neither a GET nor a control packet of the RM says nothing
\* about them.
LEMMA OtherInv ==
    ASSUME Inv, UNCHANGED <<pid, telling, onway, pid_ip, reached, lost>>,
           out' = out \/ out'.kind \notin {"control", "get"}
    PROVE  Inv'
  <1> USE DEF Inv
  <1>1. TypeOK' /\ PidInv' /\ OwnInv'
    BY DEF TypeOK, PidInv, OwnInv, PacketOK, Negotiated
  <1>2. KeyInv' /\ ToldInv'
    BY DEF KeyInv, ToldInv, Told, Alone, Negotiated
  <1>3. OutInv'
    BY DEF OutInv, GetsLeave, Negotiated
  <1> QED BY <1>1, <1>2, <1>3

\* Every step of the RM and the routers keeps the invariant.
LEMMA NextInv == Inv /\ [Next]_vars => Inv'
  <1> SUFFICES ASSUME Inv, [Next]_vars PROVE Inv'
    OBVIOUS
  <1>1. ASSUME NEW r \in Routers, NEW p \in NewPids, Adopt(r, p) PROVE Inv'
    BY <1>1, AdoptInv
  <1>2. ASSUME NEW r \in Routers, NEW q \in Routers, Announce(r, q) \/ AnnounceRefused(r, q)
        PROVE  Inv'
    BY <1>2, AnnounceInv, RefusedInv
  <1>3. ASSUME NEW r \in Routers, NEW kind \in {"control", "get"}, SendInside(r, kind)
        PROVE  Inv'
    BY <1>3, SendInsideInv
  <1>4. ASSUME NEW r \in Routers, NEW m \in onway,
               Lose(m) \/ Learn(r, m) \/ GetFromInside(r, m) \/ ControlFromInside(r, m)
        PROVE  Inv'
    BY <1>4, LoseInv, LearnInv, FromInsideInv
  <1>5. ASSUME NEW r \in Routers, GetFromOutside(r) \/ ControlFromOutside(r) PROVE Inv'
    BY <1>5, OtherInv DEF GetFromOutside, ControlFromOutside, Push, rm, history
  <1>6. ASSUME NEW r \in Routers, NEW p \in InUse, Data(r, p) PROVE Inv'
    BY <1>6, OtherInv DEF Data, Push, rm, history
  <1>7. ASSUME NEW r \in Routers, NEW known \in BOOLEAN, DataByNid(r, known) PROVE Inv'
    BY <1>7, OtherInv DEF DataByNid, Push, rm, history
  <1>8. ASSUME NEW r \in Routers, NEW a \in Addresses \ {Outer(r)}, Transit(r, a) PROVE Inv'
    BY <1>8, OtherInv DEF Transit, Push, rm, history
  <1>9. CASE UNCHANGED vars
    BY <1>9, OtherInv DEF vars
  <1> QED BY <1>1, <1>2, <1>3, <1>4, <1>5, <1>6, <1>7, <1>8, <1>9 DEF Next

\* The inductive invariant of the routers holds in every state.
THEOREM Invariance == Spec => []Inv
  BY InitInv, NextInv, PTL DEF Spec

\* push: a GET of the RM leaves by the link whose configured PID it carries,
\* whatever is announced, lost or overtaken.
THEOREM GetsLeaveOwnLink == Spec => []GetsLeave
  <1>1. Inv => GetsLeave
    BY DEF Inv, OutInv
  <1> QED BY <1>1, Invariance, PTL

\* push, announce_ip_nid_ip: in whatever order packets arrive, a control
\* packet leaves by the link whose PID it carries, once its router has learned
\* a PID of the link and unless another link has a PID of the same key; and
\* the router has learned one unless the announcement to it is still to be
\* sent, on its way, refused by the card or lost.
THEOREM ControlLeavesOwnLink == Spec => []ControlLeaves
  <1>1. Inv => ControlLeaves
    BY KeyFacts DEF Inv, OutInv, ControlLeaves, Negotiated, ToldInv, Told
  <1> QED BY <1>1, Invariance, PTL

-----------------------------------------------------------------------------
(* The flow server *)

Argument == [flow_packets : Nat, flow_size : Nat]

\* The values of the variables.
FlowTypeOK ==
    /\ A \in Argument
    /\ get \in [Gets -> Argument]
    /\ gets \in 0..MaxGets
    /\ main \in {"recv", "store", "create"}
    /\ at \in [Gets -> {"none", "packets", "size", "send", "ended"}]
    /\ B \in [Gets -> Argument]
    /\ sent \in [Gets -> Int]
    /\ overtaken \in SUBSET Gets

\* Threads exist for the GETs that main is done with.
CreatedInv ==
    /\ main # "recv" => gets # 0
    /\ \A g \in Gets : at[g] # "none" => g <= gets /\ (main # "recv" => g # gets)

\* What the argument holds: while main fills it, what was stored so far; while
\* a thread copies it that was not overtaken, the flow of its GET.
ArgumentInv ==
    /\ main = "store" => A.flow_packets = get[gets].flow_packets
    /\ main = "create" => A = get[gets]
    /\ \A g \in Copying \ overtaken :
         /\ main = "recv" /\ A = get[g]
         /\ at[g] = "size" => B[g].flow_packets = get[g].flow_packets

\* A flow was sent in at least one packet.
SentInv ==
    \A g \in Gets : at[g] = "ended" => B[g].flow_packets # 0 /\ sent[g] = FlowSent(B[g])

FlowInv == FlowTypeOK /\ CreatedInv /\ ArgumentInv /\ SentInv /\ OwnFlow

-----------------------------------------------------------------------------
(* The size of a flow *)

\* Division with remainder.
LEMMA DivMod ==
    ASSUME NEW x \in Nat, NEW d \in Nat \ {0}
    PROVE  /\ x \div d \in Nat /\ x % d \in Nat
           /\ x = d * (x \div d) + (x % d)
OBVIOUS

\* A frame never carries more content than it is given.
LEMMA ContentBound ==
    ASSUME NEW p \in Nat
    PROVE  Content(p) \in Nat /\ Content(p) <= p
BY DEF Content, Header

\* n packets that carry at most p each.
LEMMA ProductBound ==
    ASSUME NEW n \in Nat, NEW p \in Nat, NEW q \in Nat, q <= p
    PROVE  /\ n * q \in Nat /\ n * p \in Nat
           /\ n * q <= n * p
OBVIOUS

LEMMA FlowSentBound ==
    ASSUME NEW f \in Argument, f.flow_packets # 0
    PROVE  FlowSent(f) \in Int /\ FlowSent(f) <= f.flow_size
<1>. DEFINE size == f.flow_size
            n == f.flow_packets
            psize == size \div n
<1>1. size \in Nat /\ n \in Nat \ {0}  BY DEF Argument
<1>. HIDE DEF size, n
<1>2. psize \in Nat /\ size % n \in Nat /\ size = n * psize + (size % n)  BY <1>1, DivMod
<1>3. /\ size \div 1514 \in Nat /\ size % 1514 \in Nat
      /\ size = 1514 * (size \div 1514) + (size % 1514)
  BY <1>1, DivMod
<1>. HIDE DEF psize
<1>4. Content(psize) \in Nat /\ Content(psize) <= psize /\ Content(psize) <= 1514
  BY <1>2 DEF Content, Header
<1>5. /\ Content(size % n) \in Nat /\ Content(size % n) <= size % n
      /\ Content(size % 1514) \in Nat /\ Content(size % 1514) <= size % 1514
  BY <1>2, <1>3, ContentBound
<1>6. CASE psize > 1514
  <2>1. /\ (size \div 1514) * Content(psize) \in Nat
        /\ (size \div 1514) * Content(psize) <= (size \div 1514) * 1514
    BY <1>3, <1>4, ProductBound
  <2>2. CASE size % 1514 = 0
    <3>1. FlowSent(f) = (size \div 1514 + 0) * Content(psize)
      BY <1>6, <2>2 DEF FlowSent, size, n, psize
    <3>2. size \div 1514 + 0 = size \div 1514  BY <1>3
    <3>. QED  BY <1>3, <2>1, <2>2, <3>1, <3>2 DEF size
  <2>3. CASE size % 1514 # 0
    <3>1. FlowSent(f) = ((size \div 1514 + 1) - 1) * Content(psize) + Content(size % 1514)
      BY <1>6, <2>3 DEF FlowSent, size, n, psize
    <3>2. (size \div 1514 + 1) - 1 = size \div 1514  BY <1>3
    <3>. QED  BY <1>3, <1>5, <2>1, <3>1, <3>2 DEF size
  <2>. QED  BY <2>2, <2>3
<1>7. CASE ~(psize > 1514)
  <2>1. n * Content(psize) \in Nat /\ n * psize \in Nat /\ n * Content(psize) <= n * psize
    BY <1>1, <1>2, <1>4, ProductBound
  <2>2. CASE size % n = 0
    <3>1. FlowSent(f) = n * Content(psize)
      BY <1>7, <2>2 DEF FlowSent, size, n, psize
    <3>. QED  BY <1>2, <2>1, <2>2, <3>1 DEF size
  <2>3. CASE size % n # 0
    <3>1. FlowSent(f) = (n - 1) * Content(psize) + Content(size % n)
      BY <1>7, <2>3 DEF FlowSent, size, n, psize
    <3>2. n - 1 \in Nat  BY <1>1
    <3>3. (n - 1) * Content(psize) \in Nat /\ (n - 1) * Content(psize) <= n * Content(psize)
      <4>1. /\ Content(psize) * (n - 1) \in Nat
            /\ Content(psize) * (n - 1) <= Content(psize) * n
        BY <1>1, <1>4, <3>2, ProductBound
      <4>. QED  BY <1>1, <1>4, <3>2, <4>1
    <3>. QED  BY <1>2, <1>5, <2>1, <3>1, <3>3 DEF size
  <2>. QED  BY <2>2, <2>3
<1>. QED  BY <1>6, <1>7

-----------------------------------------------------------------------------
(* The invariant *)

LEMMA FlowInitInv == FlowInit => FlowInv
<1>. SUFFICES ASSUME FlowInit PROVE FlowInv  OBVIOUS
<1>1. NoFlow \in Argument  BY DEF NoFlow, Argument
<1>2. FlowTypeOK
  <2>1. A \in Argument /\ get \in [Gets -> Argument] /\ B \in [Gets -> Argument]
    BY <1>1 DEF FlowInit
  <2>2. at \in [Gets -> {"none", "packets", "size", "send", "ended"}]  BY DEF FlowInit
  <2>3. gets \in 0..MaxGets /\ sent \in [Gets -> Int]  BY FlowAssumption DEF FlowInit
  <2>. QED  BY <2>1, <2>2, <2>3 DEF FlowInit, FlowTypeOK
<1>3. \A g \in Gets : at[g] = "none"  BY DEF FlowInit
<1>4. Copying = {}  BY <1>3 DEF Copying
<1>5. main = "recv"  BY DEF FlowInit
<1>. QED  BY <1>2, <1>3, <1>4, <1>5 DEF FlowInv, CreatedInv, ArgumentInv, SentInv, OwnFlow

LEMMA ReceiveGetInv ==
    ASSUME FlowInv, NEW f \in Flow, ReceiveGet(f)
    PROVE  FlowInv'
<1>. USE DEF FlowInv
<1>1. f \in Argument  BY FlowAssumption DEF Flow, Argument
<1>2. gets \in Nat /\ gets + 1 \in Gets /\ gets + 1 \in 0..MaxGets
  BY FlowAssumption DEF FlowTypeOK, ReceiveGet, Gets
<1>3. /\ get' = [get EXCEPT ![gets + 1] = f]
      /\ A' = [A EXCEPT !.flow_packets = f.flow_packets]
      /\ gets' = gets + 1 /\ main = "recv" /\ main' = "store"
      /\ at' = at /\ B' = B /\ sent' = sent
      /\ overtaken' = overtaken \cup Copying
  BY DEF ReceiveGet
<1>4. FlowTypeOK'
  <2>1. get' \in [Gets -> Argument]  BY <1>1, <1>3 DEF FlowTypeOK
  <2>2. A' \in Argument  BY <1>1, <1>3 DEF FlowTypeOK, Argument
  <2>3. overtaken' \in SUBSET Gets  BY <1>3 DEF FlowTypeOK, Copying
  <2>. QED  BY <1>2, <1>3, <2>1, <2>2, <2>3 DEF FlowTypeOK
<1>5. \A g \in Gets : at[g] # "none" => g # gets + 1 /\ get'[g] = get[g]
  BY <1>2, <1>3 DEF FlowTypeOK, CreatedInv, Gets
<1>6. CreatedInv'
  BY <1>2, <1>3, <1>5 DEF CreatedInv, FlowTypeOK, Gets
<1>7. Copying' = Copying  BY <1>3 DEF Copying
<1>8. ArgumentInv'
  <2>1. A'.flow_packets = f.flow_packets /\ get'[gets'] = f
    BY <1>2, <1>3 DEF FlowTypeOK, Argument
  <2>. QED  BY <1>3, <1>7, <2>1 DEF ArgumentInv
<1>9. SentInv'  BY <1>3 DEF SentInv
<1>10. OwnFlow'  BY <1>3, <1>5 DEF OwnFlow
<1>. QED  BY <1>4, <1>6, <1>8, <1>9, <1>10

LEMMA StoreSizeInv ==
    ASSUME FlowInv, StoreSize
    PROVE  FlowInv'
<1>. USE DEF FlowInv
<1>1. gets \in Gets  BY FlowAssumption DEF FlowTypeOK, CreatedInv, StoreSize, Gets
<1>2. /\ A' = [A EXCEPT !.flow_size = get[gets].flow_size]
      /\ get' = get /\ gets' = gets /\ main = "store" /\ main' = "create"
      /\ at' = at /\ B' = B /\ sent' = sent
      /\ overtaken' = overtaken \cup Copying
  BY DEF StoreSize
<1>3. get[gets] \in Argument  BY <1>1 DEF FlowTypeOK
<1>4. FlowTypeOK'
  <2>1. A' \in Argument  BY <1>2, <1>3 DEF FlowTypeOK, Argument
  <2>2. overtaken' \in SUBSET Gets  BY <1>2 DEF FlowTypeOK, Copying
  <2>. QED  BY <1>2, <2>1, <2>2 DEF FlowTypeOK
<1>5. CreatedInv'  BY <1>2 DEF CreatedInv
<1>6. Copying' = Copying  BY <1>2 DEF Copying
<1>7. A' = get[gets]
  <2>1. A \in Argument /\ A.flow_packets = get[gets].flow_packets
    BY <1>2 DEF FlowTypeOK, ArgumentInv
  <2>. QED  BY <1>2, <1>3, <2>1 DEF Argument
<1>8. ArgumentInv'  BY <1>2, <1>6, <1>7 DEF ArgumentInv
<1>9. SentInv' /\ OwnFlow'  BY <1>2 DEF SentInv, OwnFlow
<1>. QED  BY <1>4, <1>5, <1>8, <1>9

LEMMA CreateInv ==
    ASSUME FlowInv, Create
    PROVE  FlowInv'
<1>. USE DEF FlowInv
<1>1. gets \in Gets  BY FlowAssumption DEF FlowTypeOK, CreatedInv, Create, Gets
<1>2. /\ at' = [at EXCEPT ![gets] = "packets"]
      /\ A' = A /\ get' = get /\ gets' = gets /\ main = "create" /\ main' = "recv"
      /\ B' = B /\ sent' = sent /\ overtaken' = overtaken
  BY DEF Create
<1>3. /\ at' \in [Gets -> {"none", "packets", "size", "send", "ended"}]
      /\ at'[gets] = "packets"
      /\ \A g \in Gets \ {gets} : at'[g] = at[g]
  BY <1>1, <1>2 DEF FlowTypeOK
<1>4. FlowTypeOK'  BY <1>2, <1>3 DEF FlowTypeOK
<1>5. CreatedInv'
  <2>1. gets <= gets  BY DEF FlowTypeOK
  <2>. QED  BY <1>2, <1>3, <2>1 DEF CreatedInv
<1>6. Copying' = Copying \cup {gets}  BY <1>1, <1>3 DEF Copying
<1>7. Copying \ overtaken = {}  BY <1>2 DEF ArgumentInv
<1>8. ArgumentInv'  BY <1>2, <1>3, <1>6, <1>7 DEF ArgumentInv
<1>9. SentInv' /\ OwnFlow'  BY <1>2, <1>3 DEF SentInv, OwnFlow
<1>. QED  BY <1>4, <1>5, <1>8, <1>9

LEMMA CopyPacketsInv ==
    ASSUME FlowInv, NEW g \in Gets, CopyPackets(g)
    PROVE  FlowInv'
<1>. USE DEF FlowInv
<1>1. /\ at[g] = "packets" /\ at' = [at EXCEPT ![g] = "size"]
      /\ B' = [B EXCEPT ![g].flow_packets = A.flow_packets]
      /\ A' = A /\ get' = get /\ gets' = gets /\ main' = main
      /\ sent' = sent /\ overtaken' = overtaken
  BY DEF CopyPackets
<1>2. /\ at' \in [Gets -> {"none", "packets", "size", "send", "ended"}]
      /\ at'[g] = "size"
      /\ \A h \in Gets \ {g} : at'[h] = at[h]
  BY <1>1 DEF FlowTypeOK
<1>3. /\ B' \in [Gets -> Argument]
      /\ B'[g].flow_packets = A.flow_packets
      /\ \A h \in Gets \ {g} : B'[h] = B[h]
  BY <1>1 DEF FlowTypeOK, Argument
<1>4. FlowTypeOK'  BY <1>1, <1>2, <1>3 DEF FlowTypeOK
<1>5. CreatedInv'  BY <1>1, <1>2 DEF CreatedInv
<1>6. Copying' = Copying /\ g \in Copying  BY <1>1, <1>2 DEF Copying
<1>7. ArgumentInv'
  BY <1>1, <1>2, <1>3, <1>6 DEF ArgumentInv, Copying
<1>8. SentInv' /\ OwnFlow'  BY <1>1, <1>2, <1>3 DEF SentInv, OwnFlow
<1>. QED  BY <1>4, <1>5, <1>7, <1>8

LEMMA CopySizeInv ==
    ASSUME FlowInv, NEW g \in Gets, CopySize(g)
    PROVE  FlowInv'
<1>. USE DEF FlowInv
<1>1. /\ at[g] = "size" /\ at' = [at EXCEPT ![g] = "send"]
      /\ B' = [B EXCEPT ![g].flow_size = A.flow_size]
      /\ A' = A /\ get' = get /\ gets' = gets /\ main' = main
      /\ sent' = sent /\ overtaken' = overtaken
  BY DEF CopySize
<1>2. /\ at' \in [Gets -> {"none", "packets", "size", "send", "ended"}]
      /\ at'[g] = "send"
      /\ \A h \in Gets \ {g} : at'[h] = at[h]
  BY <1>1 DEF FlowTypeOK
<1>3. /\ B' \in [Gets -> Argument]
      /\ B'[g].flow_size = A.flow_size /\ B'[g].flow_packets = B[g].flow_packets
      /\ \A h \in Gets \ {g} : B'[h] = B[h]
  BY <1>1 DEF FlowTypeOK, Argument
<1>4. FlowTypeOK'  BY <1>1, <1>2, <1>3 DEF FlowTypeOK
<1>5. CreatedInv'  BY <1>1, <1>2 DEF CreatedInv
<1>6. Copying' = Copying \ {g} /\ g \in Copying  BY <1>1, <1>2 DEF Copying
<1>7. ArgumentInv'  BY <1>1, <1>2, <1>3, <1>6 DEF ArgumentInv
<1>8. g \notin overtaken => B'[g] = get[g]
  <2>1. ASSUME g \notin overtaken
        PROVE  A = get[g] /\ B[g].flow_packets = get[g].flow_packets
    BY <1>1, <1>6, <2>1 DEF ArgumentInv
  <2>2. get[g] \in Argument /\ B'[g] \in Argument  BY <1>3 DEF FlowTypeOK
  <2>. QED  BY <1>3, <2>1, <2>2 DEF Argument
<1>9. SentInv' /\ OwnFlow'  BY <1>1, <1>2, <1>3, <1>8 DEF SentInv, OwnFlow
<1>. QED  BY <1>4, <1>5, <1>7, <1>9

LEMMA SendInv ==
    ASSUME FlowInv, NEW g \in Gets, Send(g)
    PROVE  FlowInv'
<1>. USE DEF FlowInv
<1>1. /\ at[g] = "send" /\ at' = [at EXCEPT ![g] = "ended"]
      /\ B[g].flow_packets # 0
      /\ sent' = [sent EXCEPT ![g] = FlowSent(B[g])]
      /\ A' = A /\ get' = get /\ gets' = gets /\ main' = main
      /\ B' = B /\ overtaken' = overtaken
  BY DEF Send
<1>2. /\ at' \in [Gets -> {"none", "packets", "size", "send", "ended"}]
      /\ at'[g] = "ended"
      /\ \A h \in Gets \ {g} : at'[h] = at[h]
  BY <1>1 DEF FlowTypeOK
<1>3. FlowSent(B[g]) \in Int  BY <1>1, FlowSentBound DEF FlowTypeOK
<1>4. /\ sent' \in [Gets -> Int]
      /\ sent'[g] = FlowSent(B[g])
      /\ \A h \in Gets \ {g} : sent'[h] = sent[h]
  BY <1>1, <1>3 DEF FlowTypeOK
<1>5. FlowTypeOK'  BY <1>1, <1>2, <1>4 DEF FlowTypeOK
<1>6. CreatedInv'  BY <1>1, <1>2 DEF CreatedInv
<1>7. Copying' = Copying /\ g \notin Copying  BY <1>1, <1>2 DEF Copying
<1>8. ArgumentInv'  BY <1>1, <1>2, <1>7 DEF ArgumentInv
<1>9. SentInv' /\ OwnFlow'  BY <1>1, <1>2, <1>4 DEF SentInv, OwnFlow
<1>. QED  BY <1>5, <1>6, <1>8, <1>9

LEMMA FlowNextInv == FlowInv /\ [FlowNext]_flowVars => FlowInv'
<1>. SUFFICES ASSUME FlowInv, [FlowNext]_flowVars PROVE FlowInv'  OBVIOUS
<1>1. CASE UNCHANGED <<A, get, gets, main, at, B, sent, overtaken>>
  BY <1>1 DEF FlowInv, FlowTypeOK, CreatedInv, ArgumentInv, Copying, SentInv, OwnFlow
<1>2. ASSUME \/ RecvError
             \/ DataError
             \/ CreateError
             \/ \E g \in Gets : SendNone(g) \/ SendError(g)
      PROVE  UNCHANGED <<A, get, gets, main, at, B, sent, overtaken>>
  BY <1>2 DEF RecvError, DataError, CreateError, SendNone, SendError
<1>. QED
  BY <1>1, <1>2, ReceiveGetInv, StoreSizeInv, CreateInv, CopyPacketsInv, CopySizeInv, SendInv
     DEF FlowNext, flowVars

\* FlowServer keeps its invariant.
THEOREM FlowInvariance == FlowSpec => []FlowInv
BY FlowInitInv, FlowNextInv, PTL DEF FlowSpec

\* A thread sends the flow of its own GET, unless the next one arrived before
\* it had copied the structure main passes to all threads.
THEOREM ThreadsSendTheirFlow == FlowSpec => []OwnFlow
<1>1. FlowInv => OwnFlow  BY DEF FlowInv
<1>. QED  BY <1>1, FlowInvariance, PTL

\* Whatever the size and the number of packets of a flow, the frames that the
\* division by packets or by 1514 makes of it never carry more than it.
THEOREM FlowsNeverMore == FlowSpec => []NeverMore
<1>1. FlowInv => NeverMore
  BY FlowSentBound DEF FlowInv, FlowTypeOK, SentInv, NeverMore
<1>. QED  BY <1>1, FlowInvariance, PTL
=============================================================================
