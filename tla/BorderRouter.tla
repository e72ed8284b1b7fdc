---------------------------- MODULE BorderRouter ----------------------------
(***************************************************************************)
(* The border routers of one AS (ipborderrouter.cc) and what their RM      *)
(* sends them.                                                             *)
(*                                                                         *)
(* A router stands at the end of one link.  It forwards what comes from    *)
(* inside by the PID in the packet and hands what comes from outside to    *)
(* the RM, or, if it is data, forwards it by the next PID.  It learns PIDs *)
(* from the RM, which announces every new PID to every router.  The table  *)
(* is keyed by character strings made from the four bytes of a PID.        *)
(*                                                                         *)
(* The RM announces on queue 0 of its first port, from the lcore that      *)
(* handles the negotiation of the link, router by router, after its table  *)
(* is changed; replies leave on the port and queue of arrival, requests    *)
(* from the timer's lcore, GETs from any.  So what is on the way to a      *)
(* router arrives in any order.                                            *)
(*                                                                         *)
(* pid_time and the ring of known PIDs are written and never read, and are *)
(* left out.                                                               *)
(*                                                                         *)
(* A definition marked "Mistake" is a wrong version of the one after it;   *)
(* with it in place a property must fail.                                  *)
(***************************************************************************)
EXTENDS Integers, FiniteSets

CONSTANTS
    Routers,
    Name,         \* the PID each router is configured with, such as 'PID2'
    NewPids,      \* PIDs that are negotiated
    MaxOnWay      \* bound: packets from the RM on their way

Byte(p, i) == (p \div 256 ^ (4 - i)) % 256

\* A configured PID is four characters; a negotiated one is a proposal of less
\* than 100, or a little more after collisions, and has a leading zero byte.
ASSUME RouterAssumption ==
    /\ Name \in [Routers -> Nat \ {0}]
    /\ \A r \in Routers : \A i \in 1..4 : Byte(Name[r], i) # 0
    /\ NewPids \subseteq Nat
    /\ \A p \in NewPids : Byte(p, 1) = 0
    /\ MaxOnWay \in Nat

VARIABLES
    pid,          \* the RM's table: the PID of the link of a router
    telling,      \* the routers still to be told the new PID of a link
    onway,        \* packets from the RM on their way to a router
    pid_ip,       \* per router: next hop of a key
    out,          \* what was done last: router, kind of packet, its PID if it is
                  \* the RM's, and output
    reached,      \* history: routers that learned a PID of their own link
    lost          \* history: routers that such an announcement did not reach

rm == <<pid, telling>>
history == <<reached, lost>>
vars == <<pid, telling, onway, pid_ip, out, reached, lost>>

\* Addresses: of a router (its outer one), of its neighbour, of the RM.
Outer(r) == <<"router", r>>
Neighbour(r) == <<"neighbour", r>>
RM == <<"rm">>
NoAddress == <<"none">>
Addresses ==
    {RM, NoAddress} \cup {Outer(r) : r \in Routers} \cup {Neighbour(r) : r \in Routers}

-----------------------------------------------------------------------------
\* Mistake: the key is made from the last byte.
CStringLow(p) == p % 256

\* A PID in network byte order read as a character string: what follows the
\* first zero byte is cut off.
CString(p) ==
    CASE Byte(p, 1) = 0 -> 0
      [] Byte(p, 1) # 0 /\ Byte(p, 2) = 0 -> p - (p % (256 ^ 3))
      [] Byte(p, 1) # 0 /\ Byte(p, 2) # 0 /\ Byte(p, 3) = 0 -> p - (p % (256 ^ 2))
      [] OTHER -> p

\* The same from the four bytes that the data branches read into, which no
\* zero need follow: a full PID may be continued by what is on the stack.
DataKeys(p) == IF Byte(p, 4) = 0 \/ CString(p) # p THEN {CString(p)} ELSE {p, -1}

Keys == {CString(p) : p \in NewPids} \cup {CString(Name[r]) : r \in Routers} \cup {-1}

\* ip_nic: the neighbour, the RM, and 0, which discards, for the rest.
ip_nic(r, a) ==
    CASE a = Neighbour(r) -> 1
      [] a = RM -> 2
      [] OTHER -> 0

\* Mistake: the packet goes to the router itself.
RouteSelf(r, announced, own) == IF own THEN Outer(r) ELSE announced

\* Where an announced PID leads: over the own link, or to the router that
\* has the link.
Route(r, announced, own) == IF own THEN Neighbour(r) ELSE announced

Push(r, kind, p, nic) == out' = [router |-> r, kind |-> kind, pid |-> p, nic |-> nic]

-----------------------------------------------------------------------------
Init ==
    /\ pid = Name
    /\ telling = [r \in Routers |-> {}]
    /\ onway = {}
    /\ pid_ip = [r \in Routers |->
         [k \in Keys |-> IF k = CString(Name[r]) THEN Neighbour(r) ELSE NoAddress]]
    /\ out = [router |-> CHOOSE r \in Routers : TRUE, kind |-> "none", pid |-> 0, nic |-> 0]
    /\ reached = {}
    /\ lost = {}

\* The RM takes over a new PID, when the handler of the last one is through.
Adopt(r, p) ==
    /\ telling[r] = {}
    /\ p \notin {pid[q] : q \in Routers}
    /\ pid' = [pid EXCEPT ![r] = p]
    /\ telling' = [telling EXCEPT ![r] = Routers]
    /\ UNCHANGED <<onway, pid_ip, out, history>>

\* The announcement of the new PID to router q.
Announcement(r, q) == [to |-> q, kind |-> "announce", pid |-> pid[r], of |-> r]

\* Mistake: the own router of the link is left out.
AnnounceOthers(r, q) ==
    /\ q \in telling[r]
    /\ telling' = [telling EXCEPT ![r] = @ \ {q}]
    /\ Cardinality(onway) < MaxOnWay
    /\ onway' = IF q = r THEN onway ELSE onway \cup {Announcement(r, q)}
    /\ UNCHANGED <<pid, pid_ip, out, history>>

\* The loop of announce_ip_nid_ip goes on to router q.
Announce(r, q) ==
    /\ q \in telling[r]
    /\ telling' = [telling EXCEPT ![r] = @ \ {q}]
    /\ Cardinality(onway) < MaxOnWay
    /\ onway' = onway \cup {Announcement(r, q)}
    /\ UNCHANGED <<pid, pid_ip, out, history>>

\* The card does not take the packet: it is gone but for a message.
AnnounceRefused(r, q) ==
    /\ q \in telling[r]
    /\ telling' = [telling EXCEPT ![r] = @ \ {q}]
    /\ lost' = IF q = r THEN lost \cup {r} ELSE lost
    /\ UNCHANGED <<pid, onway, pid_ip, out, reached>>

\* The RM sends a control packet or a GET over the link of a router: control
\* packets carry the negotiated PID, GETs the configured one.  Equal packets
\* are one.
SendInside(r, kind) ==
    /\ Cardinality(onway) < MaxOnWay
    /\ onway' = onway \cup
         {[to |-> r, kind |-> kind, pid |-> IF kind = "control" THEN pid[r] ELSE Name[r], of |-> r]}
    /\ UNCHANGED <<rm, pid_ip, out, history>>

\* A packet gets lost in the network.
Lose(m) ==
    /\ onway' = onway \ {m}
    /\ lost' = IF m.kind = "announce" /\ m.of = m.to THEN lost \cup {m.to} ELSE lost
    /\ UNCHANGED <<rm, pid_ip, out, reached>>

Arrives(r, m, kind) ==
    /\ m.to = r /\ m.kind = kind
    /\ onway' = onway \ {m}

\* Control packet 129.  items=!0 makes it the first item, whatever the packet
\* says.  Nothing is pushed.
Learn(r, m) ==
    /\ Arrives(r, m, "announce")
    /\ pid_ip' = [pid_ip EXCEPT ![r][CString(m.pid)] =
                     Route(r, Outer(m.of), m.of = r)]
    /\ reached' = IF m.of = r THEN reached \cup {r} ELSE reached
    /\ Push(r, "announce", 0, 0)
    /\ UNCHANGED <<rm, lost>>

\* A GET from inside leaves by the PID at its end.
GetFromInside(r, m) ==
    /\ Arrives(r, m, "get")
    /\ Push(r, "get", m.pid, ip_nic(r, pid_ip[r][CString(m.pid)]))
    /\ UNCHANGED <<rm, pid_ip, history>>

\* So does a control packet.
ControlFromInside(r, m) ==
    /\ Arrives(r, m, "control")
    /\ Push(r, "control", m.pid, ip_nic(r, pid_ip[r][CString(m.pid)]))
    /\ UNCHANGED <<rm, pid_ip, history>>

\* A GET from outside: to the RM.
GetFromOutside(r) ==
    /\ Push(r, "outside", 0, ip_nic(r, RM))
    /\ UNCHANGED <<rm, onway, pid_ip, history>>

\* A control packet from outside: to the RM, without its PID.
ControlFromOutside(r) ==
    /\ Push(r, "outside", 0, ip_nic(r, RM))
    /\ UNCHANGED <<rm, onway, pid_ip, history>>

\* Data by its last PID, which is taken off when it comes from inside.  Data
\* from inside without a PID is forgotten.
Data(r, p) ==
    /\ \E k \in DataKeys(p) : Push(r, "data", 0, ip_nic(r, pid_ip[r][k]))
    /\ UNCHANGED <<rm, onway, pid_ip, history>>

\* Data from outside without a PID, by the NID, of which only the RM's is
\* known.
DataByNid(r, known) ==
    /\ Push(r, "data", 0, ip_nic(r, IF known THEN RM ELSE NoAddress))
    /\ UNCHANGED <<rm, onway, pid_ip, history>>

\* A packet for somebody else.
Transit(r, a) ==
    /\ Push(r, "transit", 0, ip_nic(r, a))
    /\ UNCHANGED <<rm, onway, pid_ip, history>>

InUse == NewPids \cup {Name[r] : r \in Routers}

Next ==
    \E r \in Routers :
        \/ \E p \in NewPids : Adopt(r, p)
        \/ \E q \in Routers : Announce(r, q) \/ AnnounceRefused(r, q)
        \/ \E kind \in {"control", "get"} : SendInside(r, kind)
        \/ \E m \in onway :
             \/ Lose(m)
             \/ Learn(r, m)
             \/ GetFromInside(r, m)
             \/ ControlFromInside(r, m)
        \/ GetFromOutside(r) \/ ControlFromOutside(r)
        \/ \E p \in InUse : Data(r, p)
        \/ \E known \in BOOLEAN : DataByNid(r, known)
        \/ \E a \in Addresses \ {Outer(r)} : Transit(r, a)

Spec == Init /\ [][Next]_vars

-----------------------------------------------------------------------------
(* Properties *)

\* A GET that the RM sends over a link leaves by that link, whatever PIDs are
\* announced and lost: no negotiated PID replaces the configured one.
GetsLeave == out.kind = "get" => out.nic = 1

\* A control packet leaves by the link whose PID it carries, if the router
\* has learned a PID of its link and no other link has a PID of the same key;
\* and a router has learned one unless the announcement was lost, is on its
\* way, or is still to be sent.  Only in these windows a control packet that
\* overtakes the announcement goes astray.
ControlLeaves ==
    /\ out.kind = "control" =>
         \/ out.nic = 1
         \/ out.pid \in NewPids /\ out.router \notin reached
         \/ \E q \in Routers \ {out.router} : CString(pid[q]) = CString(out.pid)
    /\ \A r \in Routers :
         pid[r] # Name[r] =>
            \/ r \in reached
            \/ r \in lost
            \/ r \in telling[r]
            \/ \E m \in onway : m.to = r /\ m.kind = "announce" /\ m.of = r
=============================================================================
