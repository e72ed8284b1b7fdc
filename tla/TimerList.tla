------------------------------ MODULE TimerList ------------------------------
(***************************************************************************)
(* The timers of the monitor that start and stop the watching of a port    *)
(* (local_timer.c, sig_func and thread_local_listen of main.c, local_comm.c).*)
(*                                                                         *)
(* A thread takes requests from a local socket and inserts timers into an  *)
(* ordered list; SIGALRM, once a second, runs what is due.  The two share  *)
(* the list without a lock, and the thread reads the head of the list      *)
(* before it waits for a request and writes it back after.                 *)
(*                                                                         *)
(* set_timer_id finds a port if it and all the ports before it have a      *)
(* type.  Types are set by get_dest_ip, whose call in main is commented    *)
(* out in this commit (see MonitorStart): Ports is then empty.             *)
(*                                                                         *)
(* A node is removed by free, except the last one of a list, which is only *)
(* forgotten.  What follows the use of a freed node is not modelled.       *)
(*                                                                         *)
(* A definition marked "Mistake" is a wrong version of the one after it;   *)
(* with it in place a property must fail.                                  *)
(***************************************************************************)
EXTENDS LocalInform

CONSTANTS
    Ports,        \* timer_id of the ports that set_timer_id finds
    Asked,        \* numbers of ports that local_inform asks for
    Delays,       \* seconds between two runs of sig_func: 1, more when a
                  \* signal is late or merged with the next
    MaxTime,      \* bound: the clock
    MaxRequests,  \* bound: requests
    Batches       \* bound: the timers that a request holds

Flags == {0, 1}   \* 0 starts the process of a port, 1 ends it

\* struct TIMER_MESSAGE, and one with an address that set_timer_id does not find.
TimerMessage == [id : Ports, flag : Flags, time : 0..(MaxTime - 1)]
Unknown == [id |-> -1, flag |-> 0, time |-> 0]
TimerSize == 80

\* local_sender reads timer.lst, a timer from each line and at least one.  The
\* model is for files whose timers fit into recv_buf: the monitor trusts count
\* and would take what follows in its memory for further timers.
get_timer_message(lines) ==
    /\ lines \in Seq(TimerMessage \cup {Unknown})
    /\ Len(lines) \in 1..((Buffer - 2 * TypeSize) \div TimerSize)

ASSUME TimerAssumption ==
    /\ Ports \subseteq Nat
    /\ Asked \subseteq Nat
    /\ Delays \subseteq Nat \ {0}
    /\ MaxTime \in Nat
    /\ MaxRequests \in Nat
    /\ \A batch \in Batches : get_timer_message(batch)

VARIABLES
    now,          \* time(NULL)
    list,         \* timer_manage.timer_info and what follows it
    head,         \* the list whose head the thread has read
    waiting,      \* the thread is in recvfrom
    type,         \* kind of the last known request
    requests,     \* number of requests
    inbox,        \* packets of local_inform that wait at the socket
    asked,        \* the number of ports they are about, -1 before
    answered,     \* and those of them that were answered
    alive,        \* the process has not died
    undefined,    \* a freed node was used
    accepted,     \* history: timers that were inserted, not replaced, and have not run
    done,         \* history: nodes that ran
    early, twice, \* history: some node ran before its time, ran again
    stale,        \* history: a head was written back after a node had run
    replaced,     \* history: a repeated timer was deleted
    wiped         \* history: a packet of unknown type emptied the list

thread == <<head, waiting, type, requests>>
inform == <<inbox, asked, answered>>
history == <<accepted, done, early, twice, stale, replaced, wiped>>
vars == <<now, list, thread, inform, alive, undefined, history>>

-----------------------------------------------------------------------------
(* Operations on the list. *)

\* The least i in lo..hi that satisfies P, or hi + 1.
First(lo, hi, P(_)) ==
    IF \E i \in lo..hi : P(i)
    THEN CHOOSE i \in lo..hi : P(i) /\ \A j \in lo..(i - 1) : ~P(j)
    ELSE hi + 1

SameTimer(a, b) == a.id = b.id /\ a.flag = b.flag

\* The node with the same port and flag as x, if there is one.
Repeated(s, x) == First(1, Len(s), LAMBDA i : SameTimer(s[i], x))

\* The elapse of the node after the deleted one is left as it is.
delete_repete_timer(s, x) ==
    LET i == Repeated(s, x)
    IN  SubSeq(s, 1, i - 1) \o SubSeq(s, i + 1, Len(s))

\* Mistake: every new timer goes to the end.
insert_a_timer_last(s, x, t) ==
    IF x.time < t
    THEN s
    ELSE Append(delete_repete_timer(s, x), [x EXCEPT !.elapse = x.time - t])

\* Mistake: the node after the new one counts as due together with it.
insert_a_timer_zero(s, x, t) ==
    IF x.time < t
    THEN s
    ELSE LET rest == delete_repete_timer(s, x)
             k == First(1, Len(rest), LAMBDA i : rest[i].time >= x.time)
             from == IF k = 1 THEN t ELSE rest[k - 1].time
         IN  SubSeq(rest, 1, k - 1)
               \o <<[x EXCEPT !.elapse = x.time - from]>>
               \o [i \in 1..(Len(rest) - k + 1) |-> [rest[i + k - 1] EXCEPT !.elapse = 0]]

\* Ascending in time, before equals.  A time that is past is ignored.
insert_a_timer(s, x, t) ==
    IF x.time < t
    THEN s
    ELSE LET rest == delete_repete_timer(s, x)
             k == First(1, Len(rest), LAMBDA i : rest[i].time >= x.time)
             from == IF k = 1 THEN t ELSE rest[k - 1].time
             after == IF k > Len(rest)
                      THEN <<>>
                      ELSE <<[rest[k] EXCEPT !.elapse = rest[k].time - x.time]>>
         IN  SubSeq(rest, 1, k - 1)
               \o <<[x EXCEPT !.elapse = x.time - from]>>
               \o after
               \o SubSeq(rest, k + 1, Len(rest))

\* Mistake: the last timer stays.
del_a_timer_but_last(s, n) ==
    IF n > 0 /\ n = Len(s) THEN <<s[n]>> ELSE SubSeq(s, n + 1, Len(s))

\* A timer that ran is deleted; it is the head.
del_a_timer(s, n) == SubSeq(s, n + 1, Len(s))

\* Mistake: one late timer a second.
LateOne(s, t) == IF s # <<>> /\ s[1].time < t THEN 1 ELSE 0

\* The first loop of sig_func: timers whose time is past.
Late(s, t) == First(1, Len(s), LAMBDA i : s[i].time >= t) - 1

\* The second loop: elapse is computed for the head only, the others are
\* taken at their word.
Due(s, t) ==
    IF s = <<>> \/ s[1].time # t THEN 0 ELSE First(2, Len(s), LAMBDA i : s[i].elapse # 0) - 1

-----------------------------------------------------------------------------
Init ==
    /\ now = 0
    /\ list = <<>>
    /\ head = <<>>
    /\ waiting = FALSE
    /\ type = 0
    /\ requests = 0
    /\ inbox = <<>> /\ asked = -1 /\ answered = <<>>
    /\ alive = TRUE
    /\ undefined = FALSE
    /\ accepted = {} /\ done = {}
    /\ early = FALSE /\ twice = FALSE /\ stale = FALSE /\ replaced = FALSE /\ wiped = FALSE

\* The first n nodes have run.
Ran(n) ==
    /\ done' = done \cup {list[i].req : i \in 1..n}
    /\ accepted' = {x \in accepted : x.req \notin done'}
    /\ early' = (early \/ \E i \in 1..n : list[i].time > now')
    /\ twice' = (twice \/ \E i \in 1..n : list[i].req \in done)
    /\ UNCHANGED <<stale, replaced, wiped>>

\* SIGALRM.  When the first loop empties the list, the second one reads
\* through the null pointer.
sig_func(delay) ==
    /\ now + delay <= MaxTime
    /\ now' = now + delay
    /\ LET late == Late(list, now')
           rest == del_a_timer(list, late)
           due == Due(rest, now')
           left == del_a_timer(rest, due)
       IN  /\ alive' = ~(late > 0 /\ rest = <<>>)
           /\ list' = IF due = 0 /\ left # <<>>
                      THEN [left EXCEPT ![1].elapse = left[1].time - now']
                      ELSE left
           /\ Ran(late + due)
    /\ UNCHANGED <<thread, inform, undefined>>

\* The head is read and the thread waits.
ReadHead ==
    /\ ~waiting
    /\ requests < MaxRequests
    /\ head' = list
    /\ waiting' = TRUE
    /\ UNCHANGED <<now, list, type, requests, inform, alive, undefined, history>>

Received ==
    /\ waiting
    /\ waiting' = FALSE
    /\ requests' = requests + 1
    /\ head' = <<>>
    /\ UNCHANGED <<now, alive, done, early, twice>>

\* Nodes ran since the head was read.
Moved == Len(head) # Len(list)

\* The list that the head read before leads to.
FromHead == IF Moved THEN head ELSE list

\* The list that starts at the head read before is written back.  If nodes
\* ran since, that head is a freed node, unless it was the last one.
WriteBack(s) ==
    /\ list' = s
    /\ stale' = (stale \/ Moved)
    /\ undefined' = (Moved /\ Len(head) > 1)

\* b has the list so far, what was accepted, and whether a repeated timer was
\* deleted.
set_child_timer(b, x) ==
    IF x.id = -1 \/ x.time < now
    THEN b
    ELSE [list |-> insert_a_timer(b.list, x, now),
          accepted |-> {y \in b.accepted : ~SameTimer(x, y)} \cup {x},
          replaced |-> b.replaced \/ Repeated(b.list, x) <= Len(b.list)]

\* b after each of the timers of a request.
set_timers(before, timers) ==
    LET b[k \in 0..Len(timers)] == IF k = 0 THEN before ELSE set_child_timer(b[k - 1], timers[k])
    IN  b

\* A request: each of its timers starts or ends a port at some time.  The
\* number of the request and of the timer in it stands for the address of the
\* struct _timer_info.
parse_timer_message(batch) ==
    /\ Received
    /\ type' = 1
    /\ LET timers == [k \in DOMAIN batch |->
                        [id |-> batch[k].id, flag |-> batch[k].flag, time |-> batch[k].time,
                         elapse |-> 0, req |-> <<requests, k>>]]
           before == [list |-> FromHead, accepted |-> accepted, replaced |-> replaced]
           b == set_timers(before, timers)[Len(batch)]
       IN  WriteBack(b.list) /\ accepted' = b.accepted /\ replaced' = b.replaced
    /\ UNCHANGED <<inform, wiped>>

\* An acknowledgement.
Ack ==
    /\ Received
    /\ type' = 2
    /\ UNCHANGED <<list, inform, undefined, accepted, stale, replaced, wiped>>

\* The tool sends its packets and does not wait for answers.
local_inform(n) ==
    /\ asked = -1
    /\ asked' = n
    /\ inbox' = Question(n)
    /\ UNCHANGED <<now, list, thread, answered, alive, undefined, history>>

\* A packet of the tool is answered.
parse_inform_message ==
    /\ Received
    /\ inbox # <<>>
    /\ type' = 3
    /\ inbox' = Tail(inbox)
    /\ answered' = Append(answered, Head(inbox))
    /\ UNCHANGED <<list, asked, undefined, accepted, stale, replaced, wiped>>

\* Any other packet: type keeps the kind of an earlier one, and after a timer
\* request the null result becomes the list.
UnknownType ==
    /\ Received
    /\ list' = IF type = 1 THEN <<>> ELSE list
    /\ wiped' = (wiped \/ list # list')
    /\ UNCHANGED <<type, inform, undefined, accepted, stale, replaced>>

Next ==
    /\ alive /\ ~undefined
    /\ \/ \E delay \in Delays : sig_func(delay)
       \/ ReadHead
       \/ \E batch \in Batches : parse_timer_message(batch)
       \/ Ack
       \/ \E n \in Asked : local_inform(n)
       \/ parse_inform_message
       \/ UnknownType

Spec == Init /\ [][Next]_vars

-----------------------------------------------------------------------------
(* Properties *)

\* The list stays ordered and free of repetitions, also when a timer that ran
\* comes back into it: sig_func looks only at the head.
Ordered ==
    ~undefined => \A i, j \in DOMAIN list : i < j =>
        list[i].time <= list[j].time /\ ~SameTimer(list[i], list[j])

\* A timer that was accepted has run when its time is past, unless the thread
\* wrote back a head that was out of date or a packet of unknown type emptied
\* the list.
OnTime == stale \/ wiped \/ ~alive \/ \A x \in accepted : x.time >= now

\* No timer runs early, as long as no timer was replaced.
NeverEarly == replaced \/ ~early

\* A timer runs once, as long as the thread's head was not out of date.
RunsOnceAlone == stale \/ ~twice

Packets == answered \o inbox

\* The packets of a question ask for each port once, in turn, and the head of
\* each says how many entries it has, wherever the buffer was full.
AskedOnce ==
    asked # -1 =>
        /\ \A k \in DOMAIN Packets : Packets[k].count = Len(Packets[k].ports)
        /\ FlattenSeq([k \in DOMAIN Packets |-> Packets[k].ports]) = [k \in 1..asked |-> k]

\* The monitor, which trusts the head, stays within the bytes of a packet that
\* it has received and of the answer that it builds.
AnswerFits ==
    \A k \in DOMAIN Packets :
        /\ Used(Packets[k]) <= Buffer
        /\ ReadEnd(Packets[k]) <= Buffer
        /\ WriteEnd(Packets[k]) <= Answer
=============================================================================
