----------------------------- MODULE LocalInform -----------------------------
(***************************************************************************)
(* The tool that asks the monitor for statistics (local_inform.c) and the  *)
(* size of the answer (parse_inform_message of local_comm.c).              *)
(*                                                                         *)
(* The tool packs one entry per port into a buffer and starts another      *)
(* packet when the next entry does not fit.  Sizes are bytes of the build  *)
(* for 64 bits.  What an entry asks for is fixed in the code (_information *)
(* and _type); addresses and times are left out.                           *)
(*                                                                         *)
(* A definition marked "Mistake" is a wrong version of the one after it;   *)
(* with it in place a property must fail.                                  *)
(***************************************************************************)
EXTENDS Integers, Sequences, SequencesExt, FiniteSets

Buffer == 1024     \* of the tool, and recv_buf of the monitor
Answer == 1280     \* send_buf of the monitor
TypeSize == 4
HeadSize == 36     \* INFORM_GET_HEAD: host_name, count
MiddleSize == 20   \* INFORM_GET_MIDDLE: ip, request
TailSize == 52     \* INFORM_GET_TAIL: content_type, start, end
ValueSize == 8

Elements == {"total_packets", "rx_packets", "tx_packets", "total_bytes",
             "rx_bytes", "tx_bytes", "rtt_avg", "packets_loss"}
Information == <<"rtt_avg">>

\* What is known is counted, as often as it is asked for.
Items == Cardinality({k \in DOMAIN Information : Information[k] \in Elements})

\* The bits of request: asking twice clears one.
set_request ==
    {e \in Elements : Cardinality({k \in DOMAIN Information : Information[k] = e}) % 2 = 1}

Entry == MiddleSize + Items * TailSize

-----------------------------------------------------------------------------
\* The packet in the buffer: count is what its head says, ports the entries
\* in it.
Fresh(count) == [count |-> count, ports |-> <<>>]

Used(packet) == TypeSize + HeadSize + Len(packet.ports) * Entry

\* Mistake: the entry's tails are not looked at.
NoRoom_tails(packet) == Used(packet) + MiddleSize > Buffer

NoRoom(packet) == Used(packet) + Entry > Buffer

\* Mistake: the next packet repeats the number of all the ports.
AddPort_all(b, port) ==
    IF NoRoom(b.packet)
    THEN LET full == [b.packet EXCEPT !.count = Len(b.packet.ports)]
         IN  [sent |-> Append(b.sent, full), packet |-> [Fresh(b.left) EXCEPT !.ports = <<port>>],
              left |-> b.left]
    ELSE [b EXCEPT !.packet.ports = Append(@, port)]

\* One turn of the loop of main.  A full packet gets the number of its entries
\* and is sent; the next one starts with what is left.
AddPort(b, port) ==
    IF NoRoom(b.packet)
    THEN LET full == [b.packet EXCEPT !.count = Len(b.packet.ports)]
             left == b.left - full.count
         IN  [sent |-> Append(b.sent, full), packet |-> [Fresh(left) EXCEPT !.ports = <<port>>],
              left |-> left]
    ELSE [b EXCEPT !.packet.ports = Append(@, port)]

\* What was sent and what the buffer holds after each turn, for n ports.
Packing(n) ==
    LET b[k \in 0..n] == IF k = 0
                         THEN [sent |-> <<>>, packet |-> Fresh(n), left |-> n]
                         ELSE AddPort(b[k - 1], k)
    IN  b

\* The packets of a question about n ports, the last one included.
Question(n) ==
    LET b == Packing(n)[n]
    IN  Append(b.sent, b.packet)

-----------------------------------------------------------------------------
\* How far parse_inform_message reads and writes.  It trusts the head, and
\* copies one more INFORM_GET_MIDDLE than there are entries.
ReadEnd(packet) ==
    TypeSize + HeadSize
        + packet.count * (MiddleSize + Cardinality(set_request) * TailSize) + MiddleSize

WriteEnd(packet) ==
    HeadSize + MiddleSize
        + packet.count * (Cardinality(set_request) * (TailSize + ValueSize) + MiddleSize)
=============================================================================
