------------------------- MODULE PacketLoop_proofs -------------------------
(***************************************************************************)
(* Proofs about DataPlane, LunXun and their composition PacketLoop.        *)
(*                                                                         *)
(* Buffers: an lcore that has a packet has its buffer, an lcore that polls *)
(* has none, and a transmit table always has room for one buffer more      *)
(* (TypeOK).  With that, that a buffer has one owner is inductive.         *)
(* PacketLoop implements DataPlane, so what is proved of the latter holds  *)
(* with the round robin in it.                                             *)
(*                                                                         *)
(* Round robin: as long as no two lcores were in lunxun at a time, k2 and  *)
(* flag2 tell which path was chosen last, and what the lcore inside has    *)
(* loaded is what they still hold (TurnInv).                               *)
(***************************************************************************)
EXTENDS PacketLoop, TLAPS

\* The values of the variables of DataPlane.
TypeOK ==
    /\ pool \in SUBSET Mbufs
    /\ nic \in SUBSET Mbufs
    /\ table \in [Lcores -> Seq(Mbufs)]
    /\ \A c \in Lcores : Len(table[c]) < Burst
    /\ cur \in [Lcores -> Mbufs \cup {NoMbuf}]
    /\ pc \in [Lcores -> Kinds \cup {"poll"}]
    /\ \A c \in Lcores : cur[c] = NoMbuf <=> pc[c] = "poll"
    /\ sender \in SUBSET Mbufs

Inv == TypeOK /\ OneOwner

\* Where the round robin is, as long as no two calls overlapped.
Turn(path) ==
    /\ last = path
    /\ \/ path = 1 /\ k2 = 1 /\ flag2 = 0
       \/ path = 2 /\ k2 = 1 /\ flag2 = 1
       \/ path = 3 /\ k2 = 0 /\ flag2 = 0

TurnInv ==
    /\ at \in [Lcores -> {"out", "k2", "flag2", "store", "reset", "send"}]
    /\ reg \in [Lcores -> {0, 1} \X {0, 1}]
    /\ k \in [Lcores -> 0..3]
    /\ k2 \in {0, 1} /\ flag2 \in {0, 1}
    /\ overlapped \in BOOLEAN
    /\ ~overlapped =>
         /\ \A c, d \in Lcores : L!Inside(c) /\ L!Inside(d) => c = d
         /\ (\A c \in Lcores : at[c] # "reset") => \E path \in 1..3 : Turn(path)
         /\ \A c \in Lcores :
              /\ at[c] = "flag2" => reg[c] = <<k2, 0>>
              /\ at[c] = "store" => reg[c] = <<k2, flag2>>
              /\ at[c] = "reset" => last = 3 /\ k2 = 0

-----------------------------------------------------------------------------
(* The owner of one buffer *)

\* What OneOwner says of buffer m.
Owned(m) ==
    /\ m \in pool => m \notin nic /\ ~InTable(m) /\ ~InUse(m)
    /\ m \in nic => ~InTable(m) /\ ~InUse(m)
    /\ InTable(m) => ~InUse(m)
    /\ \A c, d \in Lcores :
         /\ cur[c] = m /\ cur[d] = m => c = d
         /\ \A i \in DOMAIN table[c] : \A j \in DOMAIN table[d] :
              table[c][i] = m /\ table[d][j] = m => c = d /\ i = j

LEMMA OneOwnerOwned == OneOwner <=> \A m \in Mbufs \ sender : Owned(m)
BY DEF OneOwner, Owned

\* send_burst gives each of its buffers to the card or to the pool, and a
\* buffer that occurs once in the table not to both.
LEMMA SendBurst ==
    ASSUME NEW bufs \in Seq(Mbufs), NEW n \in 0..Len(bufs), NEW m \in Mbufs,
           send_burst(bufs, n)
    PROVE  /\ pool \subseteq pool' /\ nic \subseteq nic'
           /\ m \in pool' => m \in pool \/ m \in Elems(bufs)
           /\ m \in nic' => m \in nic \/ m \in Elems(bufs)
           /\ m \in Elems(bufs) => m \in pool' \/ m \in nic'
           /\ (/\ m \in pool => m \notin nic
               /\ m \in Elems(bufs) => m \notin pool /\ m \notin nic
               /\ \A i, j \in DOMAIN bufs : bufs[i] = m /\ bufs[j] = m => i = j)
                => (m \in pool' => m \notin nic')
BY DEF send_burst, Elems

\* A table with one buffer more.
LEMMA AppendTable ==
    ASSUME NEW s \in Seq(Mbufs), NEW e \in Mbufs
    PROVE  /\ Append(s, e) \in Seq(Mbufs)
           /\ Len(Append(s, e)) = Len(s) + 1
           /\ Elems(Append(s, e)) = Elems(s) \cup {e}
           /\ \A i \in DOMAIN Append(s, e) :
                \/ i \in DOMAIN s /\ Append(s, e)[i] = s[i]
                \/ i = Len(s) + 1 /\ Append(s, e)[i] = e
<1>1. Append(s, e) \in Seq(Mbufs) /\ Len(Append(s, e)) = Len(s) + 1  OBVIOUS
<1>2. DOMAIN s = 1..Len(s) /\ DOMAIN Append(s, e) = 1..(Len(s) + 1)  OBVIOUS
<1>3. \A i \in 1..Len(s) : Append(s, e)[i] = s[i]  OBVIOUS
<1>4. Append(s, e)[Len(s) + 1] = e  OBVIOUS
<1>5. \A i \in 1..(Len(s) + 1) : i \in 1..Len(s) \/ i = Len(s) + 1  OBVIOUS
<1>6. Len(s) + 1 \in 1..(Len(s) + 1) /\ 1..Len(s) \subseteq 1..(Len(s) + 1)  OBVIOUS
<1>7. Elems(Append(s, e)) = Elems(s) \cup {e}
  BY <1>2, <1>3, <1>4, <1>5, <1>6 DEF Elems
<1>. QED  BY <1>1, <1>2, <1>3, <1>4, <1>5, <1>7

-----------------------------------------------------------------------------
(* The invariant of DataPlane *)

LEMMA InitInv == Init => Inv
<1>. SUFFICES ASSUME Init PROVE Inv  OBVIOUS
<1>1. TypeOK
  <2>1. table \in [Lcores -> Seq(Mbufs)]  BY DEF Init
  <2>2. \A c \in Lcores : Len(table[c]) < Burst  BY DataPlaneAssumption DEF Init
  <2>3. cur \in [Lcores -> Mbufs \cup {NoMbuf}]  BY DEF Init
  <2>4. pc \in [Lcores -> Kinds \cup {"poll"}]  BY DEF Init
  <2>. QED  BY <2>1, <2>2, <2>3, <2>4 DEF Init, TypeOK
<1>2. OneOwner  BY DataPlaneAssumption DEF Init, OneOwner, InTable, InUse, Elems
<1>. QED  BY <1>1, <1>2 DEF Inv

LEMMA RxInv ==
    ASSUME Inv, NEW c \in Lcores, NEW m \in Mbufs, NEW kind \in Kinds, Rx(c, m, kind)
    PROVE  Inv'
<1>. USE DEF Inv
<1>1. TypeOK'  BY DataPlaneAssumption DEF TypeOK, Rx, Kinds
<1>2. ASSUME NEW x \in Mbufs \ sender', Owned(x)  PROVE Owned(x)'
  BY <1>2, DataPlaneAssumption DEF Rx, Owned, TypeOK, InTable, InUse
<1>. QED  BY <1>1, <1>2, OneOwnerOwned DEF Rx, OneOwner, Owned, InTable, InUse

LEMMA ReflectInv ==
    ASSUME Inv, NEW c \in Lcores, Reflect(c)
    PROVE  Inv'
<1>. USE DEF Inv
<1>. DEFINE bufs == Append(table[c], cur[c])
<1>1. table[c] \in Seq(Mbufs) /\ cur[c] \in Mbufs  BY DEF TypeOK, Reflect
<1>2. /\ bufs \in Seq(Mbufs)
      /\ Len(bufs) = Len(table[c]) + 1
      /\ Elems(bufs) = Elems(table[c]) \cup {cur[c]}
      /\ \A i \in DOMAIN bufs :
           \/ i \in DOMAIN table[c] /\ bufs[i] = table[c][i]
           \/ i = Len(table[c]) + 1 /\ bufs[i] = cur[c]
  BY <1>1, AppendTable
<1>3. TypeOK'
  <2>1. pool' \in SUBSET Mbufs /\ nic' \in SUBSET Mbufs
    <3>1. ASSUME NEW n \in 0..Len(bufs), send_burst(bufs, n)
          PROVE  pool' \in SUBSET Mbufs /\ nic' \in SUBSET Mbufs
      <4>. HIDE DEF bufs
      <4>. QED  BY <1>2, <3>1 DEF TypeOK, send_burst
    <3>2. \/ pool' = pool /\ nic' = nic
          \/ \E n \in 0..Len(bufs) : send_burst(bufs, n)
      BY DEF Reflect
    <3>. QED  BY <3>1, <3>2 DEF TypeOK
  <2>2. /\ table' \in [Lcores -> Seq(Mbufs)]
        /\ \A d \in Lcores : Len(table'[d]) < Burst
    <3>1. \/ table' = [table EXCEPT ![c] = <<>>]
          \/ table' = [table EXCEPT ![c] = bufs] /\ Len(bufs) # Burst
      BY DEF Reflect, Full
    <3>2. CASE table' = [table EXCEPT ![c] = <<>>]
      BY <3>2, DataPlaneAssumption DEF TypeOK
    <3>3. CASE table' = [table EXCEPT ![c] = bufs] /\ Len(bufs) # Burst
      <4>1. Len(bufs) < Burst  BY <1>1, <1>2, <3>3, DataPlaneAssumption DEF TypeOK
      <4>. HIDE DEF bufs
      <4>. QED  BY <1>2, <3>3, <4>1 DEF TypeOK
    <3>. QED  BY <3>1, <3>2, <3>3
  <2>. QED  BY <2>1, <2>2, DataPlaneAssumption DEF Reflect, TypeOK, Done, Kinds
<1>4. ASSUME NEW x \in Mbufs \ sender', Owned(x)  PROVE Owned(x)'
  <2>1. CASE Full(bufs)
    <3>1. PICK n \in 0..Len(bufs) : send_burst(bufs, n)  BY <2>1 DEF Reflect
    <3>2. \A d \in Lcores :
             /\ table'[d] = IF d = c THEN <<>> ELSE table[d]
             /\ cur'[d] = IF d = c THEN NoMbuf ELSE cur[d]
      BY <2>1 DEF Reflect, Done, TypeOK
    <3>3. /\ x \in Elems(bufs) => x \notin pool /\ x \notin nic
          /\ \A i, j \in DOMAIN bufs : bufs[i] = x /\ bufs[j] = x => i = j
      BY <1>1, <1>2, <1>4 DEF Owned, InTable, InUse, Elems
    <3>4. /\ x \in pool' => x \notin nic'
          /\ x \in pool' => x \in pool \/ x \in Elems(bufs)
          /\ x \in nic' => x \in nic \/ x \in Elems(bufs)
      <4>. HIDE DEF bufs
      <4>. QED  BY <1>2, <1>4, <3>1, <3>3, SendBurst DEF Owned
    <3>5. x \in Elems(bufs) => ~InTable(x)' /\ ~InUse(x)'
      BY <1>1, <1>2, <1>4, <3>2, DataPlaneAssumption DEF Owned, InTable, InUse, Elems
    <3>6. InTable(x)' => InTable(x)  BY <3>2 DEF InTable, Elems
    <3>7. InUse(x)' => InUse(x)  BY <3>2, DataPlaneAssumption DEF InUse
    <3>. QED  BY <1>4, <3>2, <3>4, <3>5, <3>6, <3>7, DataPlaneAssumption DEF Owned
  <2>2. CASE ~Full(bufs)
    <3>1. \A d \in Lcores :
             /\ table'[d] = IF d = c THEN bufs ELSE table[d]
             /\ cur'[d] = IF d = c THEN NoMbuf ELSE cur[d]
      BY <2>2 DEF Reflect, Done, TypeOK
    <3>2. pool' = pool /\ nic' = nic  BY <2>2 DEF Reflect
    <3>3. InTable(x)' => InTable(x) \/ x = cur[c]  BY <1>2, <3>1 DEF InTable
    <3>4. InUse(x)' => InUse(x) /\ x # cur[c]
      BY <1>4, <3>1, DataPlaneAssumption DEF InUse, Owned
    <3>5. \A d, e \in Lcores : \A i \in DOMAIN table'[d] : \A j \in DOMAIN table'[e] :
             table'[d][i] = x /\ table'[e][j] = x => d = e /\ i = j
      <4>. HIDE DEF bufs
      <4>. QED  BY <1>1, <1>2, <1>4, <3>1 DEF Owned, InTable, InUse, Elems
    <3>6. \A d, e \in Lcores : cur'[d] = x /\ cur'[e] = x => d = e
      BY <1>4, <3>1, DataPlaneAssumption DEF Owned
    <3>. QED  BY <1>4, <3>2, <3>3, <3>4, <3>5, <3>6 DEF Owned, InUse
  <2>. QED  BY <2>1, <2>2
<1>. QED  BY <1>3, <1>4, OneOwnerOwned DEF Reflect, OneOwner, Owned, InTable, InUse

LEMMA DrainInv ==
    ASSUME Inv, NEW c \in Lcores, Drain(c)
    PROVE  Inv'
<1>. USE DEF Inv
<1>1. table[c] \in Seq(Mbufs)  BY DEF TypeOK
<1>2. PICK n \in 0..Len(table[c]) : send_burst(table[c], n)  BY DEF Drain
<1>3. TypeOK'
  <2>1. pool' \in SUBSET Mbufs /\ nic' \in SUBSET Mbufs
    BY <1>1, <1>2 DEF TypeOK, send_burst
  <2>. QED  BY <2>1, DataPlaneAssumption DEF Drain, TypeOK, core
<1>4. ASSUME NEW x \in Mbufs \ sender', Owned(x)  PROVE Owned(x)'
  <2>1. \A d \in Lcores : table'[d] = IF d = c THEN <<>> ELSE table[d]
    BY DEF Drain, TypeOK
  <2>2. cur' = cur  BY DEF Drain, core
  <2>3. /\ x \in Elems(table[c]) => x \notin pool /\ x \notin nic /\ InTable(x)
        /\ \A i, j \in DOMAIN table[c] : table[c][i] = x /\ table[c][j] = x => i = j
    BY <1>4 DEF Owned, InTable
  <2>4. /\ x \in pool' => x \notin nic'
        /\ x \in pool' => x \in pool \/ x \in Elems(table[c])
        /\ x \in nic' => x \in nic \/ x \in Elems(table[c])
    BY <1>1, <1>2, <1>4, <2>3, SendBurst DEF Owned
  <2>5. x \in Elems(table[c]) => ~InTable(x)' /\ ~InUse(x)'
    BY <1>4, <2>1, <2>2, <2>3 DEF Owned, InTable, InUse, Elems
  <2>6. InTable(x)' => InTable(x)  BY <2>1 DEF InTable, Elems
  <2>7. InUse(x)' <=> InUse(x)  BY <2>2 DEF InUse
  <2>. QED  BY <1>4, <2>1, <2>2, <2>4, <2>5, <2>6, <2>7 DEF Owned
<1>. QED  BY <1>3, <1>4, OneOwnerOwned DEF Drain, OneOwner, Owned, InTable, InUse

LEMMA FreeInv ==
    ASSUME Inv, NEW c \in Lcores, Free(c)
    PROVE  Inv'
<1>. USE DEF Inv
<1>1. cur[c] \in Mbufs  BY DEF Free, TypeOK
<1>2. TypeOK'  BY <1>1, DataPlaneAssumption DEF Free, TypeOK, Done
<1>3. ASSUME NEW x \in Mbufs \ sender', Owned(x)  PROVE Owned(x)'
  <2>1. \A d \in Lcores : cur'[d] = IF d = c THEN NoMbuf ELSE cur[d]
    BY DEF Free, Done, TypeOK
  <2>2. InUse(x)' => InUse(x) /\ x # cur[c]
    BY <1>3, <2>1, DataPlaneAssumption DEF InUse, Owned
  <2>3. InTable(x)' <=> InTable(x)  BY DEF Free, InTable
  <2>4. x = cur[c] => InUse(x)  BY DEF InUse
  <2>. QED  BY <1>3, <2>1, <2>2, <2>3, <2>4, DataPlaneAssumption DEF Free, Owned
<1>. QED  BY <1>2, <1>3, OneOwnerOwned DEF Free, OneOwner, Owned, InTable, InUse

LEMMA ForwardNowhereInv ==
    ASSUME Inv, NEW c \in Lcores, ForwardNowhere(c)
    PROVE  Inv'
<1>. USE DEF Inv
<1>1. UNCHANGED <<pool, nic, table, cur, pc, todo, sender>>
  BY DEF ForwardNowhere, mem, core
<1>2. TypeOK'  BY <1>1, DataPlaneAssumption DEF TypeOK
<1>. QED  BY <1>1, <1>2 DEF OneOwner, InTable, InUse

LEMMA IgnoreInv ==
    ASSUME Inv, NEW c \in Lcores, Ignore(c)
    PROVE  Inv'
<1>. USE DEF Inv
<1>1. TypeOK'  BY DataPlaneAssumption DEF Ignore, TypeOK, Done, mem
<1>2. ASSUME NEW x \in Mbufs \ sender', Owned(x)  PROVE Owned(x)'
  BY <1>2, DataPlaneAssumption DEF Ignore, Done, mem, Owned, TypeOK, InTable, InUse
<1>. QED  BY <1>1, <1>2, OneOwnerOwned DEF Ignore, OneOwner, Owned, InTable, InUse

LEMMA SendReplyInv ==
    ASSUME Inv, NEW c \in Lcores, SendReply(c)
    PROVE  Inv'
<1>. USE DEF Inv
<1>1. TypeOK'  BY DEF SendReply, TypeOK
<1>2. OneOwner'  BY DEF SendReply, TypeOK, OneOwner, InTable, InUse
<1>. QED  BY <1>1, <1>2

LEMMA NicDoneInv ==
    ASSUME Inv, NEW m \in Mbufs, NicDone(m)
    PROVE  Inv'
<1>. USE DEF Inv
<1>1. TypeOK'  BY DEF NicDone, TypeOK, core
<1>2. OneOwner'  BY DEF NicDone, core, TypeOK, OneOwner, InTable, InUse
<1>. QED  BY <1>1, <1>2

LEMMA ForwardInv ==
    ASSUME Inv, NEW c \in Lcores, Forward(c)
    PROVE  Inv'
<1>. USE DEF Inv
<1>1. cur[c] \in Mbufs  BY DEF Forward, TypeOK
<1>2. TypeOK'  BY <1>1, DataPlaneAssumption DEF Forward, TypeOK, Done
<1>3. ASSUME NEW x \in Mbufs \ sender', Owned(x)  PROVE Owned(x)'
  <2>1. \A d \in Lcores : cur'[d] = IF d = c THEN NoMbuf ELSE cur[d]
    BY DEF Forward, Done, TypeOK
  <2>2. InUse(x)' => InUse(x) /\ x # cur[c]
    BY <1>3, <2>1, DataPlaneAssumption DEF InUse, Owned
  <2>3. InTable(x)' <=> InTable(x)  BY DEF Forward, InTable
  <2>4. x = cur[c] => InUse(x)  BY DEF InUse
  <2>. QED  BY <1>3, <2>1, <2>2, <2>3, <2>4, DataPlaneAssumption DEF Forward, Owned
<1>. QED  BY <1>2, <1>3, OneOwnerOwned DEF Forward, OneOwner, Owned, InTable, InUse

LEMMA NextInv == Inv /\ [Next]_vars => Inv'
<1>. SUFFICES ASSUME Inv, [Next]_vars PROVE Inv'  OBVIOUS
<1>1. CASE UNCHANGED vars
  BY <1>1 DEF vars, Inv, TypeOK, OneOwner, InTable, InUse
<1>2. ASSUME NEW c \in Lcores, Step(c)  PROVE Inv'
  BY <1>2, ReflectInv, FreeInv, IgnoreInv, SendReplyInv, ForwardInv, ForwardNowhereInv DEF Step
<1>. QED  BY <1>1, <1>2, DrainInv, RxInv, NicDoneInv DEF Next

\* DataPlane keeps its invariant.
THEOREM Invariance == Spec => []Inv
BY InitInv, NextInv, PTL DEF Spec

\* A buffer has one owner, unless it carried an answer: what send_burst does
\* with the buffers the card does not take, what the drain leaves in a table
\* and when main_loop frees a packet fit together.
THEOREM BuffersOwned == Spec => []OneOwner
<1>1. Inv => OneOwner  BY DEF Inv
<1>. QED  BY <1>1, Invariance, PTL

-----------------------------------------------------------------------------
(* Where buffers are lost *)

\* Buffer m is lost by an lcore that ignores its packet or forwards a GET.
LostHere(m) == \E c \in Lcores : cur[c] = m /\ pc[c] \in {"ignored", "get"}

LEMMA NextLoses ==
    ASSUME TypeOK, [Next]_vars, NEW m \in Mbufs, Held(m), ~Held(m)'
    PROVE  LostHere(m)
<1>1. CASE UNCHANGED vars
  BY <1>1 DEF vars, Held, InTable, InUse
<1>2. ASSUME NEW c \in Lcores, Reflect(c)  PROVE FALSE
  <2>. DEFINE bufs == Append(table[c], cur[c])
  <2>1. table[c] \in Seq(Mbufs) /\ cur[c] \in Mbufs  BY <1>2 DEF TypeOK, Reflect
  <2>2. bufs \in Seq(Mbufs) /\ Elems(bufs) = Elems(table[c]) \cup {cur[c]}
    BY <2>1, AppendTable
  <2>3. /\ pool \subseteq pool' /\ nic \subseteq nic'
        /\ m \in Elems(bufs) => m \in pool' \/ m \in nic' \/ InTable(m)'
    <3>1. CASE Full(bufs)
      <4>1. PICK n \in 0..Len(bufs) : send_burst(bufs, n)  BY <1>2, <3>1 DEF Reflect
      <4>. HIDE DEF bufs
      <4>. QED  BY <2>2, <4>1, SendBurst
    <3>2. CASE ~Full(bufs)
      <4>1. table'[c] = bufs /\ pool' = pool /\ nic' = nic
        BY <1>2, <3>2 DEF Reflect, TypeOK
      <4>. HIDE DEF bufs
      <4>. QED  BY <4>1 DEF InTable
    <3>. QED  BY <3>1, <3>2
  <2>4. \A d \in Lcores \ {c} : table'[d] = table[d] /\ cur'[d] = cur[d]
    BY <1>2 DEF Reflect, Done, TypeOK
  <2>. HIDE DEF bufs
  <2>. QED  BY <2>2, <2>3, <2>4 DEF Held, InTable, InUse
<1>3. ASSUME NEW c \in Lcores, Drain(c)  PROVE FALSE
  <2>1. table[c] \in Seq(Mbufs)  BY DEF TypeOK
  <2>2. PICK n \in 0..Len(table[c]) : send_burst(table[c], n)  BY <1>3 DEF Drain
  <2>3. /\ pool \subseteq pool' /\ nic \subseteq nic'
        /\ m \in Elems(table[c]) => m \in pool' \/ m \in nic'
    BY <2>1, <2>2, SendBurst
  <2>4. \A d \in Lcores \ {c} : table'[d] = table[d]
    BY <1>3 DEF Drain, TypeOK
  <2>5. cur' = cur  BY <1>3 DEF Drain, core
  <2>. QED  BY <2>3, <2>4, <2>5 DEF Held, InTable, InUse
<1>4. ASSUME NEW c \in Lcores, Free(c)  PROVE FALSE
  BY <1>4 DEF Free, Done, TypeOK, Held, InTable, InUse
<1>5. ASSUME NEW c \in Lcores, Ignore(c) \/ Forward(c) \/ ForwardNowhere(c)
      PROVE  LostHere(m)
  <2>1. /\ pool \subseteq pool' /\ nic \subseteq nic' /\ table' = table
        /\ pc[c] \in {"ignored", "get"}
        /\ \A d \in Lcores \ {c} : cur'[d] = cur[d]
    BY <1>5 DEF Ignore, Forward, ForwardNowhere, Done, mem, core, TypeOK
  <2>. QED  BY <2>1 DEF Held, InTable, InUse, LostHere
<1>6. ASSUME NEW c \in Lcores, SendReply(c)  PROVE FALSE
  BY <1>6 DEF SendReply, Held, InTable, InUse
<1>7. ASSUME NEW c \in Lcores, NEW x \in Mbufs, NEW kind \in Kinds, Rx(c, x, kind)
      PROVE  FALSE
  <2>1. /\ cur'[c] = x /\ cur[c] = NoMbuf
        /\ \A d \in Lcores \ {c} : cur'[d] = cur[d]
        /\ pool' = pool \ {x} /\ nic' = nic /\ table' = table
    BY <1>7 DEF Rx, TypeOK
  <2>. QED  BY <2>1, DataPlaneAssumption DEF Held, InTable, InUse
<1>8. ASSUME NEW x \in Mbufs, NicDone(x)  PROVE FALSE
  BY <1>8 DEF NicDone, core, Held, InTable, InUse
<1>. QED  BY <1>1, <1>2, <1>3, <1>4, <1>5, <1>6, <1>7, <1>8 DEF Next, Step

\* A buffer leaves the program for good only with a packet that no branch of
\* main_loop takes or with a GET that the card does not take.
THEOREM LossesKnown == Spec => LostOnlyHere
<1>1. TypeOK /\ [Next]_vars =>
        [\A m \in Mbufs : Held(m) /\ ~Held(m)' =>
           \E c \in Lcores : cur[c] = m /\ pc[c] \in {"ignored", "get"}]_vars
  BY NextLoses DEF LostHere
<1>2. Inv => TypeOK  BY DEF Inv
<1>. QED  BY <1>1, <1>2, Invariance, PTL DEF Spec, LostOnlyHere

-----------------------------------------------------------------------------
(* The round robin in the loop *)

LEMMA LoopNextImplements == [LoopNext]_loopVars => [Next]_vars
<1>. SUFFICES ASSUME LoopNext PROVE [Next]_vars  BY DEF loopVars, vars
<1>1. CASE Other  BY <1>1 DEF LoopNext, Other, Next, Step
<1>2. ASSUME NEW c \in Lcores, NEW m \in Mbufs, RxGet(c, m)  PROVE Next
  BY <1>2 DEF LoopNext, RxGet, Next, Kinds
<1>3. ASSUME NEW c \in Lcores, ChoosePath(c)  PROVE UNCHANGED vars
  BY <1>3 DEF ChoosePath
<1>4. ASSUME NEW c \in Lcores, ForwardGet(c)  PROVE Next
  BY <1>4 DEF LoopNext, ForwardGet, Next, Step
<1>5. ASSUME NEW c \in Lcores, ForwardNoPath(c)  PROVE Next
  BY <1>5 DEF LoopNext, ForwardNoPath, Next, Step
<1>. QED  BY <1>1, <1>2, <1>3, <1>4, <1>5 DEF LoopNext

\* The packet loop with the round robin implements the one without it, so
\* whatever lunxun does about its shared variables, the buffers are safe.
THEOREM LoopImplements == LoopSpec => Spec
BY LoopNextImplements, PTL DEF LoopSpec, LoopInit, Spec

THEOREM LoopBuffersOwned == LoopSpec => []OneOwner
BY LoopImplements, BuffersOwned, PTL

THEOREM LoopLossesKnown == LoopSpec => LostOnlyHere
BY LoopImplements, LossesKnown, PTL

-----------------------------------------------------------------------------
(* The paths in turn *)

LEMMA LoopInitTurn == LoopInit => TurnInv
<1>. SUFFICES ASSUME LoopInit PROVE TurnInv  OBVIOUS
<1>. USE DEF LoopInit, L!Init
<1>1. at \in [Lcores -> {"out", "k2", "flag2", "store", "reset", "send"}]  OBVIOUS
<1>2. reg \in [Lcores -> {0, 1} \X {0, 1}] /\ k \in [Lcores -> 0..3]  OBVIOUS
<1>3. \A c \in Lcores : at[c] = "out"  OBVIOUS
<1>4. \E path \in 1..3 : Turn(path)  BY DEF Turn
<1>5. k2 \in {0, 1} /\ flag2 \in {0, 1} /\ overlapped \in BOOLEAN  OBVIOUS
<1>6. \A c \in Lcores : at[c] \notin {"flag2", "store", "reset"}  BY <1>3
<1>. QED  BY <1>1, <1>2, <1>4, <1>5, <1>6 DEF TurnInv, L!Inside

\* A GET that comes in or is sent leaves the shared variables alone and is
\* outside of lunxun.
LEMMA OutsideTurn ==
    ASSUME TurnInv, NEW c \in Lcores, L!Get(c) \/ L!Send(c)
    PROVE  TurnInv'
<1>1. PICK x \in {"out", "k2"} : at' = [at EXCEPT ![c] = x]  BY DEF L!Get, L!Send
<1>2. at[c] \in {"out", "send"}  BY DEF L!Get, L!Send
<1>3. /\ k2' = k2 /\ flag2' = flag2 /\ last' = last /\ overlapped' = overlapped
      /\ reg' \in [Lcores -> {0, 1} \X {0, 1}] /\ k' \in [Lcores -> 0..3]
      /\ \A d \in Lcores \ {c} : reg'[d] = reg[d]
  BY DEF L!Get, L!Send, TurnInv
<1>4. /\ at' \in [Lcores -> {"out", "k2", "flag2", "store", "reset", "send"}]
      /\ at'[c] = x
      /\ \A d \in Lcores \ {c} : at'[d] = at[d]
  BY <1>1 DEF TurnInv
<1>5. \A d \in Lcores : at'[d] \in {"flag2", "store", "reset"} => d # c /\ at[d] = at'[d]
  BY <1>4
<1>6. \A d \in Lcores : at[d] = "reset" => at'[d] = "reset"  BY <1>2, <1>4
<1>. QED  BY <1>3, <1>4, <1>5, <1>6 DEF TurnInv, Turn, L!Inside

LEMMA LoadK2Turn ==
    ASSUME TurnInv, NEW c \in Lcores, L!LoadK2(c)
    PROVE  TurnInv'
<1>1. /\ k2' = k2 /\ flag2' = flag2 /\ last' = last /\ k' = k
      /\ reg' \in [Lcores -> {0, 1} \X {0, 1}]
      /\ reg'[c] = <<k2, 0>>
      /\ \A d \in Lcores \ {c} : reg'[d] = reg[d]
  BY DEF L!LoadK2, TurnInv
<1>2. /\ at' \in [Lcores -> {"out", "k2", "flag2", "store", "reset", "send"}]
      /\ at[c] = "k2" /\ at'[c] = "flag2"
      /\ \A d \in Lcores \ {c} : at'[d] = at[d]
  BY DEF L!LoadK2, TurnInv
<1>3. overlapped' = (overlapped \/ \E d \in Lcores \ {c} : L!Inside(d))
  BY DEF L!LoadK2
<1>4. overlapped' \in BOOLEAN  BY <1>3
<1>5. ASSUME ~overlapped'
      PROVE  /\ ~overlapped
             /\ \A d \in Lcores \ {c} : at[d] \notin {"flag2", "store", "reset"}
  BY <1>3, <1>5 DEF L!Inside
<1>. QED  BY <1>1, <1>2, <1>4, <1>5 DEF TurnInv, Turn, L!Inside

LEMMA LoadFlag2Turn ==
    ASSUME TurnInv, NEW c \in Lcores, L!LoadFlag2(c)
    PROVE  TurnInv'
<1>1. /\ k2' = k2 /\ flag2' = flag2 /\ last' = last /\ k' = k
      /\ overlapped' = overlapped
      /\ reg' \in [Lcores -> {0, 1} \X {0, 1}]
      /\ reg'[c] = <<reg[c][1], flag2>>
      /\ \A d \in Lcores \ {c} : reg'[d] = reg[d]
  BY DEF L!LoadFlag2, TurnInv
<1>2. /\ at' \in [Lcores -> {"out", "k2", "flag2", "store", "reset", "send"}]
      /\ at[c] = "flag2" /\ at'[c] = "store"
      /\ \A d \in Lcores \ {c} : at'[d] = at[d]
  BY DEF L!LoadFlag2, TurnInv
<1>3. CASE overlapped  BY <1>1, <1>2, <1>3 DEF TurnInv
<1>4. CASE ~overlapped
  <2>1. \A d \in Lcores \ {c} : at'[d] \notin {"flag2", "store", "reset"}
    BY <1>2, <1>4 DEF TurnInv, L!Inside
  <2>2. reg[c] = <<k2, 0>> /\ reg'[c] = <<k2, flag2>>
    BY <1>1, <1>2, <1>4 DEF TurnInv
  <2>3. \E path \in 1..3 : Turn(path)'
    BY <1>1, <1>2, <1>4, <2>1 DEF TurnInv, Turn
  <2>. QED  BY <1>1, <1>2, <2>1, <2>2, <2>3 DEF TurnInv, L!Inside
<1>. QED  BY <1>3, <1>4

\* A branch of lunxun: the lcore leaves with the path that follows, or goes
\* on to reset flag2.
LEMMA StoreTurn ==
    ASSUME TurnInv, NEW c \in Lcores,
           \/ L!StoreFirst(c)
           \/ L!StoreSecond(c)
           \/ L!StoreThird(c)
           \/ L!StoreNothing(c)
    PROVE  /\ TurnInv'
           /\ ~overlapped => k'[c] = (last % 3) + 1
<1>1. PICK choice \in 0..3, y \in {"send", "reset"} :
        /\ L!Choose(c, choice)
        /\ at' = [at EXCEPT ![c] = y]
        /\ y = "reset" <=> choice = 3
        /\ choice = 1 => reg[c] = <<0, 0>> /\ k2' = 1 /\ flag2' = flag2
        /\ choice = 2 => reg[c] = <<1, 0>> /\ k2' = k2 /\ flag2' = 1
        /\ choice = 3 => reg[c] = <<1, 1>> /\ k2' = 0 /\ flag2' = flag2
        /\ choice = 0 => reg[c] = <<0, 1>> /\ k2' = k2 /\ flag2' = flag2
  <2>1. CASE L!StoreFirst(c)
    <3>. WITNESS 1 \in 0..3, "send" \in {"send", "reset"}
    <3>. QED  BY <2>1 DEF L!StoreFirst
  <2>2. CASE L!StoreSecond(c)
    <3>. WITNESS 2 \in 0..3, "send" \in {"send", "reset"}
    <3>. QED  BY <2>2 DEF L!StoreSecond
  <2>3. CASE L!StoreThird(c)
    <3>. WITNESS 3 \in 0..3, "reset" \in {"send", "reset"}
    <3>. QED  BY <2>3 DEF L!StoreThird
  <2>4. CASE L!StoreNothing(c)
    <3>. WITNESS 0 \in 0..3, "send" \in {"send", "reset"}
    <3>. QED  BY <2>4 DEF L!StoreNothing
  <2>. QED  BY <2>1, <2>2, <2>3, <2>4
<1>2. /\ at[c] = "store" /\ reg' = reg /\ overlapped' = overlapped
      /\ k' \in [Lcores -> 0..3] /\ k'[c] = choice
      /\ ~overlapped => last' = choice
  BY <1>1 DEF L!Choose, TurnInv
<1>3. /\ at' \in [Lcores -> {"out", "k2", "flag2", "store", "reset", "send"}]
      /\ at'[c] = y
      /\ \A d \in Lcores \ {c} : at'[d] = at[d]
  BY <1>1 DEF TurnInv
<1>4. k2' \in {0, 1} /\ flag2' \in {0, 1}  BY <1>1 DEF TurnInv
<1>5. CASE overlapped  BY <1>2, <1>3, <1>4, <1>5 DEF TurnInv
<1>6. CASE ~overlapped
  <2>1. /\ \A d \in Lcores \ {c} : at[d] \notin {"flag2", "store", "reset"}
        /\ reg[c] = <<k2, flag2>>
    BY <1>2, <1>6 DEF TurnInv, L!Inside
  <2>2. PICK path \in 1..3 : Turn(path)  BY <1>2, <1>6, <2>1 DEF TurnInv
  <2>3. choice = (last % 3) + 1
    BY <1>1, <2>1, <2>2 DEF Turn
  <2>4. choice = 3 => last' = 3 /\ k2' = 0  BY <1>1, <1>2, <1>6
  <2>5. choice # 3 => \E p \in 1..3 : Turn(p)'
    BY <1>1, <1>2, <1>6, <2>1, <2>2 DEF Turn
  <2>6. \A d \in Lcores : at'[d] \in {"flag2", "store", "reset"} => d = c /\ choice = 3
    BY <1>1, <1>3, <2>1
  <2>7. TurnInv'
    BY <1>1, <1>2, <1>3, <1>4, <1>6, <2>4, <2>5, <2>6 DEF TurnInv, L!Inside
  <2>. QED  BY <1>2, <2>3, <2>7
<1>. QED  BY <1>5, <1>6

LEMMA ResetFlag2Turn ==
    ASSUME TurnInv, NEW c \in Lcores, L!ResetFlag2(c)
    PROVE  TurnInv'
<1>1. /\ k2' = k2 /\ flag2' = 0 /\ last' = last /\ k' = k
      /\ overlapped' = overlapped /\ reg' = reg
  BY DEF L!ResetFlag2
<1>2. /\ at' \in [Lcores -> {"out", "k2", "flag2", "store", "reset", "send"}]
      /\ at[c] = "reset" /\ at'[c] = "send"
      /\ \A d \in Lcores \ {c} : at'[d] = at[d]
  BY DEF L!ResetFlag2, TurnInv
<1>3. ~overlapped => Turn(3)'  BY <1>1, <1>2 DEF TurnInv, Turn
<1>. QED  BY <1>1, <1>2, <1>3 DEF TurnInv, L!Inside

LEMMA LoopNextTurn == TurnInv /\ [LoopNext]_loopVars => TurnInv'
<1>. SUFFICES ASSUME TurnInv, [LoopNext]_loopVars PROVE TurnInv'  OBVIOUS
<1>1. CASE UNCHANGED robin
  BY <1>1 DEF robin, TurnInv, Turn, L!Inside
<1>2. ASSUME NEW c \in Lcores, L!Get(c) \/ L!Send(c) \/ L!Lunxun(c)  PROVE TurnInv'
  BY <1>2, OutsideTurn, LoadK2Turn, LoadFlag2Turn, StoreTurn, ResetFlag2Turn DEF L!Lunxun
<1>. QED  BY <1>1, <1>2 DEF LoopNext, Other, RxGet, ChoosePath, ForwardGet, ForwardNoPath, loopVars

\* An lcore leaves the choice of lunxun only by a branch of it.
LEMMA LoopNextInTurn ==
    ASSUME TurnInv, [LoopNext]_loopVars, NEW c \in Lcores,
           ~overlapped, at[c] = "store", at'[c] # "store"
    PROVE  k'[c] = (last % 3) + 1
<1>1. CASE UNCHANGED robin  BY <1>1 DEF robin
<1>2. ASSUME NEW d \in Lcores, L!Get(d) \/ L!Send(d) \/ L!Lunxun(d)
      PROVE  k'[c] = (last % 3) + 1
  <2>1. \A x \in {"out", "k2", "flag2", "store", "reset", "send"} :
          at' = [at EXCEPT ![d] = x] => c = d
    BY DEF TurnInv
  <2>2. c = d
    BY <1>2, <2>1 DEF L!Get, L!Send, L!Lunxun, L!LoadK2, L!LoadFlag2, L!StoreFirst,
       L!StoreSecond, L!StoreThird, L!ResetFlag2, L!StoreNothing
  <2>3. \/ L!StoreFirst(c)
        \/ L!StoreSecond(c)
        \/ L!StoreThird(c)
        \/ L!StoreNothing(c)
    BY <1>2, <2>2 DEF L!Get, L!Send, L!Lunxun, L!LoadK2, L!LoadFlag2, L!ResetFlag2
  <2>. QED  BY <2>3, StoreTurn
<1>. QED  BY <1>1, <1>2 DEF LoopNext, Other, RxGet, ChoosePath, ForwardGet, ForwardNoPath, loopVars

\* GETs are given the paths 1, 2, 3, 1, ... as long as no two lcores were in
\* lunxun at a time: the two variables it keeps are then enough, and the
\* combination no branch handles does not come about.
THEOREM RobinInTurn == LoopSpec => PathsInTurn
<1>1. LoopSpec => []TurnInv
  BY LoopInitTurn, LoopNextTurn, PTL DEF LoopSpec
<1>2. TurnInv /\ [LoopNext]_loopVars =>
        [\A c \in Lcores : ~overlapped /\ at[c] = "store" /\ at[c]' # "store" =>
           k[c]' = (last % 3) + 1]_L!vars
  BY LoopNextInTurn
<1>. QED  BY <1>1, <1>2, PTL DEF LoopSpec, PathsInTurn, L!InTurn
=============================================================================
