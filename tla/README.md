# ICNPrototype in TLA+

TLA+ models of ICNPrototype, TLC configurations that check them on small instances, and TLAPS proofs of the
properties that matter most. Paths such as `RM/main.c` are relative to the repository root.

## 1. The system

ICNPrototype is an information-centric network on top of IPv4. Clients ask for content (GET), servers answer
(DATA), and each autonomous system (AS) has one **resource manager** (RM) and several **border routers**. Two
neighbouring ASes name the paths between them with path identifiers (PIDs), which they keep changing. A GET
collects the PID of every link it crosses; the DATA gives them back one by one. **Port monitors** watch the
links and report faults to the RM by a small hello/GET/DATA exchange.

| Component | Code | State | Operations | Talks to |
|---|---|---|---|---|
| PID negotiation | `RM/main.c` handlers 2900-3200, senders 2200-2560, chain and table 80-330, 1700-2000; `RM/wenxingbeng.c` is an earlier copy | chain of neighbours (PIDs, change time), the table `nid_ip_nid_ip_nid_array`, proposals kept in variables of `main_loop` | request, `a`, `b`, `ack`, announce | the RMs of the neighbours, the border routers of its AS |
| Packet loop | `RM/main.c` `main_loop`, `send_burst`, `send_single_packet`, `get_packets_forward` | mbuf pool, transmit tables, one lcore per port | receive, classify, answer, forward, drain | network cards, every other part of the RM |
| Path selection | `RM/main.c` `lunxun` and the pickers that are not called | `k2`, `flag2`, shared by all lcores | pick a path for a GET | packet loop |
| Traffic counters | `get_port_info.c` capture thread and `record_counter` | `stats_info` under a mutex | count, reset, copy | port monitor |
| Port monitor | `NetworkMonitoringTools/stats_send_ver_test1/get_port_info.c`, `trap.c` | trap bits, trap file, descriptors | probe, compare, toggle, report, wait | its parent, the RM |
| Trap exchange | the same two, `RM/main.c` `get_trap_message`, `data_trap_message` | hellos and answers under way, `traffic_temp` | hello, reflection, answer | monitor and RM |
| RM start-up | `RM/main.c` `MAIN`, `parse_args`, `init_mem` and the checks; `RM/wenxingbeng.c` `setup_hash_wxb` | port mask, `lcore_params`, queues of lcores and ports, pools and tables per socket | parse, check, set up, wait for links, launch | DPDK, packet loop |
| Monitor supervisor | `.../stats_send_ver_test1/main.c`, `get_host_info.c` | `port_info`, `child_count`, `port_child_pid` | look ports up, fork, watch, restart, kill | monitors |
| Timers, local requests | `local_timer.c`, `local_comm.c`; the tools `local_sender.c`, `local_inform.c` | ordered list of timers, the head the thread has read, packets | add, delete, SIGALRM, answer a question | local tools, supervisor |
| Border router | `border_router/local/ipborderrouter.cc` | `pid_ip`, `pid_time`, rings | learn PIDs, forward control, GET and DATA | RM, neighbour routers |
| Flow server | `server/flow_generator2.c` | argument shared with its threads | answer a GET with a stream of DATA | border router |
| Clients and demonstration elements | `client/`, `border_router/local/client.cc` and others | none worth a model | build or rewrite a packet | border router |

**What is hard.** Rounds of the negotiation have no numbers, no retransmission and no timeout, and rounds with
several neighbours share variables. Several lcores share the round robin without a lock. Buffers change owner
between pool, lcore, transmit table and card on a dozen paths. The monitor's trap bits are toggled and never
assigned, over restarts and failures. A signal handler changes the timer list and the children of a program
whose main thread and listening thread work on the same. Threads answer from files that other processes are
rewriting. The border router makes character strings of binary numbers. The start-up has to bring a command line,
ports, sockets and queues together, after which three kinds of packet go out on queues chosen in three ways. Each of these is a hazard in `PROJECT.json`, at its line.

**What makes each part correct.**

- Negotiation: both ends of a link agree when a round is over; no two paths that must be told apart share a PID; a PID in use is known to the border routers that have to route by it, outside
  windows that the properties name; every round ends.
- Packet loop: a buffer has one owner; a buffer is lost only where the code loses it.
- Path selection: one of the configured paths, in turn.
- Monitor: the bits say what the program last saw; an outage is reported, and cleared only by a real recovery,
  unless a call was refused from outside.
- Border router: a packet tagged with a PID it was told leaves for the router that serves that PID.
- Trap exchange: an answer is not older than the hello it answers; nobody waits for ever for a lock
  unless a failed call left it behind.
- Counters: the recorded numbers belong together.
- RM start-up: the program gives up only for a cause; when it runs, every queue is served and, as long as
  two lcores do not choose a path at a time, no send goes to a queue that is not there; a transmit table has one user.
- Supervisor: all ports are watched; a child that crashes is replaced, a port has one process, a slot names a child
  that is there, the parent survives.
- Timers: each that was accepted runs once, at its time; the list stays ordered. Questions and answers fit their
  buffers, and a question that is split asks for every port once.
- Flow server: a thread serves the GET it was created for and sends no more than it asks.

## 2. Modules

One module per component. An action is a handler or a step between two points at which another actor can get in;
`PROJECT.json` "map" gives the lines of each definition. Every module has definitions marked *Mistake*: each is
a plausible wrong version of the definition after it, with which a property of the module must fail. They are used
nowhere else.

| Module | Models | Steps are atomic because | Left out |
|---|---|---|---|
| `PidNegotiation` | request, `a`, `b`, `ack`; chain, table, cached proposals; update and announcement after the ack, which the card may refuse; ordered channels with loss | the handlers of one RM run on one polling lcore, as in the shipped start line; the timer on another reads the table only, so a handler is cut before its update and before its announcement | series numbers (always 0), checksums, two lcores inside handlers |
| `DataPlane` | receive, classification, transmit tables, drain, replies, forwarding; the owner of each mbuf | a buffer is touched by one lcore; pool and card operations are atomic in DPDK | header rewriting, `getchar()` in `ADD_PID` (returns at once when input is closed) |
| `LunXun` (part of `PacketLoop`) | `lunxun`, load by load and store by store | single loads and stores | pickers that nothing calls |
| `PortMonitor` | probe, thresholds, trap bits, file, hello, descriptor leak, every call that can fail, the capture thread's start, what answering threads leave open, the end of the process, restart | the cycle is cut where it sleeps, reports or can die | counters, what answering threads do (own modules) |
| `TrafficCounters` | both critical sections of the capture thread, reset and copy | all under one mutex | bytes, which go with the packets |
| `TrapReport` | traffic file, trap file, fcntl locks, hello, reflection, answering threads, the RM's value; calls that fail at any time | one system call per step | torn reads: a message is one small `write` and one `read` |
| `TimerList` (on `LocalInform`) | ordered list, SIGALRM, listening thread with the head it read, packets of every kind, several timers in one | receiving, inserting and storing are one step, so the handler does not interrupt an insertion | use of freed memory: the model stops there (`undefined`) |
| `LocalInform` | how `local_inform` packs a question and splits it, and how far the monitor reads and writes for the answer, in bytes | operators without state | addresses, times, values (constant -1 in this commit) |
| `MonitorStart` | options, look-up of the ports with every failure, log directory, port list, shared region, clock, thread | `main` is sequential here | names, addresses, adapter parameters |
| `Supervisor` (on `MonitorStart`) | children, `child_count`, slots, faults, a fork that fails, SIGINT, timers that launch and end | kernel calls; `port_child_proc` and `port_kill_proc` are one step each | contents of the shared memory, reuse of process numbers |
| `RmStartup` | command line, checks, queues, pools, start of the ports, link check, failures of DPDK | `MAIN` is sequential | contents of the lookup tables, MAC addresses, options that change nothing else |
| `TxQueues` (on `RmStartup`) | the transmit queue each kind of send uses, on every lcore, and the port of a GET for which no path was chosen | a call of `rte_eth_tx_burst` is entered and left | what is sent (`DataPlane`) |
| `BorderRouter` | PID table, announcements router by router, GET, DATA, control, transit; PID to key; arrival in any order | Click runs one packet through the element; the RM hands one packet at a time to the card | `pid_time` and the ring, which are only written; the expiry is commented out |
| `FlowServer` | shared argument, copy field by field, sizes of a flow, exits | stores and loads of one field | sleeps, `thread_num` (never read) |

`MC*` modules hold constants for TLC. `*_proofs` modules hold theorems.

`PacketLoop` composes `DataPlane` and `LunXun`: an lcore that received a GET goes through `lunxun` before it forwards
the buffer, while the others receive, answer and drain. The other modules meet at shared operations. `PidNegotiation` records in
`announced` what `BorderRouter` receives as announcements; `DataPlane` reflects the hello that `PortMonitor` and
`TrapReport` send; `Supervisor` supplies the restart in `PortMonitor`, and takes its launches and ends from
`TimerList`. `TxQueues` starts where `RmStartup` ends and says on which queues the sends of `DataPlane` go out; of `LunXun` it keeps that two
lcores inside at a time may end in no path.

Readings of the code that the models rest on:

- `timer0_cb` has its call of `send_pid_change_request` commented out (`RM/main.c:2691`); the model sends the
  request from there, which is what the handlers are for.
- The cached proposals of `main_loop` are uninitialised locals of a block; `Garbage` is their first value.
- `rand()%101` gives 0 to 100; the proposal is reduced modulo 100, the counter-proposal is not.
- The handlers of `b` and `ack` send or take the ack, change the chain, update the table and announce, in this order. The
  chain is read by handlers only, and the handlers of an RM run one after the other, so its change is part of the step
  of the ack; the update and the announcement are steps of their own.
- An announcement that `rte_eth_tx_burst` does not take is gone: the return value is printed
  (`RM/main.c:2597`).
- What the RM sends to a border router arrives in any order: announcements leave on port 0 queue 0
  (`RM/main.c:2636`), replies on the port and queue of arrival, requests from the timer's lcore, GETs from any.
- When no branch of `lunxun` is taken, its `k` is what was on the stack. If that is 1 to 3 the GET gets a path; if not,
  `ADD_PID` returns 0 and `port_id` is an uninitialised local, which may name a port or none. Both happen in `PacketLoop`
  and in `TxQueues` (`StrayPorts`).
- The sending functions free an mbuf that they also handed to the card. `OneOwner` names these buffers as its
  exception (`sender`).
- GETs carry the configured PIDs (`'PID1'` to `'PID3'`), control packets the negotiated ones.
- `check_port` returns -1 when it has no socket, which counts as connected; the model writes it as 2.
- System calls of the monitor fail for reasons outside the process while `trouble` holds; it comes and goes at will.
- The comment in `trap.h:3-4` has 1 for a port that is up and 0 for one that is down. The code toggles the bit to 1 when the
  link is lost, and the RM is told so; the model follows the code.
- `items=!0` in the border router makes the item count 1, whatever the packet says.
- `kill` and `waitpid` with 0 address the process group and any child of it.
- The call of `get_dest_ip` is commented out in this commit (`main.c:367` of the monitor), so no port has a type,
  `set_timer_id` finds none and no timer is accepted. The constant `ReadPortList` says whether the call is there; the
  runs `supervisor` and `timer_lists` have it, `supervisor_drift` is the program as it is.
- A port mask of 0, or one that is no number, becomes -1: every port. That starting a port whose rx queue was never set
  up is a crash (`dead`) is an assumption about the driver, which is no part of the repository: it runs through all
  configured queues. `LaunchedServed` rests on it where the configuration has a gap.
- Pools have names, so creating one again fails.

## 3. Runs

| Run | Checks | Shows |
|---|---|---|
| `negotiation_pair` | `LinkDistinct`, `QuiescentAgreement`, `TimeAgreementOne`, `SponsorPidsKnown`, `ViaKnown` | three overlapping rounds on a link with two paths; every packet may be lost, every announcement refused |
| `negotiation_settles` | `Settles`, `ResponderDistinct` | a responder with two sponsors: rounds end although counter-proposals are rejected, and the links keep apart |
| `monitor` | `TrapStateExact`, `DownIsReported`, `NoFalseRecovery`, `Recovers` | bits and file through leaks, calls that fail for any reason, kills, restarts; when a recovered link is reported |
| `packet_loop` | `OneOwner`, `LostOnlyHere`, `PathsInTurn` | buffers and the round robin on two lcores |
| `rm_startup` | `GivesUpForCause`, `LaunchedServed`, `LinksPrinted`, `TablesAlone`, `QueuesExist` | command lines against machines, from the options to the sends of the running program |
| `counters` | `OneStraddles` | recorded counters are off by one frame at most |
| `trap_reports` | `StateNotOlder`, `TrafficNotOlder`, `Excluded`, `NeverBack`, `Answered` | what an answer may carry; who waits for ever when calls fail and leave locks behind |
| `timer_lists` | `Ordered`, `OnTime`, `NeverEarly`, `RunsOnceAlone`, `AskedOnce`, `AnswerFits` | three packets of any kind, late signals, stale heads; questions that fill several packets |
| `supervisor` | `AllOrNone`, `CountExact`, `OneProcess`, `SlotTrue`, `RestartedCounted` | from the options to faults and orders in any order |
| `supervisor_drift` | violates `Restarted` | what one stop does to the crash of another child |
| `router` | `GetsLeave`, `ControlLeaves` | no negotiated PID displaces a configured one; control packets and announcements that overtake each other |
| `flow_threads` | `OwnFlow`, `NeverMore` | which flow a thread sends and how much of it |

Types are part of what is proved (section 4); no run repeats them.

The violation run states what a comment of the repository says; `PROJECT.json` "findings" quotes it. In other places,
too, the code does less than one would ask, and the properties name the exception instead:

- `TimeAgreementOne` speaks of a sponsor of one link. The proposed change time is kept in one variable for all
  neighbours (`RM/main.c:2892`), so rounds with two neighbours mix their times.
- `PathsInTurn`: overlapping calls of `lunxun` reach `k2 = 0`, `flag2 = 1`, for which no branch
  assigns `k`.
- `OneOwner` excepts the buffers of the sending functions, which free what the card still has.
- `Recovers` excepts a process in `do { } while(ret)` with an uninitialised `ret` other than 0, which never leaves
  the loop, and one that ended and is not started again: the parent answers neither a clean end nor, as
  `supervisor_drift` shows, every crash.
- `ViaKnown` excepts an end of which the card refused an announcement, and a request that the timer sends between the
  update of the table and the announcement. `SponsorPidsKnown` excepts a refused announcement and the time until the
  responder's handler, which acknowledges first, is through.
- `DownIsReported`: the process that cannot get the lock or writes too little goes on to wait for its link and reports
  nothing more until it is back (`trap.c:114-126`). That is the exception `write_refused`; that the process has used its
  own descriptors up is none.
- `NoFalseRecovery`: a probe that is refused a socket returns -1, which counts as connected (`probe_refused`). Again the
  process' own leak is no exception: then it has no descriptor for the file, either.
- `Answered`: a short write leaves the file open and locked. A process whose port stays down, or whose disk stays full,
  never unlocks it, and the answering thread of another process waits for ever (`Barred`); so may a port whose file a
  thread failed to read. `StateNotOlder` excepts answers for a file that could not be read, which carry a state of 0.
- `OneStraddles`: a reset between the two critical sections of a frame records one GET more than packets.
- `RunsOnceAlone`: a head that is out of date brings a timer back that already ran. `NeverEarly`:
  deleting a repeated timer leaves the next one's `elapse` as it was. When the last timer is late,
  `sig_func` goes on with a null pointer (`alive`). `OnTime` excepts stale heads and packets of unknown type, which
  after a timer request leave the thread with a null list that it stores (`wiped`).
- `RestartedCounted`: after a stop, `waitpid` with the cleared slot may take another child's crash away, and each
  kill by the parent is counted twice. A timer that ends a port without a process calls `kill(0, SIGKILL)`
  (`EndNone`). `SlotTrue` excepts a child that somebody else killed: its slot is never cleared, and a timer that
  ends the port then loops for ever (`EndGone`).
- `AllOrNone`: when one interface cannot be read, `port_count` stays 0 and the monitor watches nothing.
- `TablesAlone`: only the transmit tables keep to the queue of their lcore. Replies, GETs and announcements may meet
  another lcore in its queue.
- `QueuesExist`: GETs and announcements take ports 0 to 3 for granted, replies a transmit queue for every rx queue. Once
  two lcores were in `lunxun` at a time, a GET may be sent to a port that was never set (`RM/main.c:1395`).
- `ControlLeaves`: negotiated PIDs are small numbers whose first byte is 0, so that all become the empty key, and
  the route announced last replaces the others. A control packet may also reach a router before the first announcement
  of its link. The property ties this to windows: the announcement is still to be sent, on its way, refused or lost.

**Bounds.** They are constants, named in each module. `MaxRequests` is 3 on the one link of
`negotiation_pair`, which lets a round begin while the ack of the one before is under way and a third one follow; 2 and
1 on the two links of `negotiation_settles` give overlapping rounds of one responder. `Draws` holds 0, a proposal that
stays or moves by one to the other path's PID, and 99, which wraps. `MaxFd` 5
is above the two files of a cycle and the socket of the capture thread, so that probes succeed, fail and succeed again
after a restart. `Burst` 2 with
three buffers lets a table fill, be sent in part and be drained while the other lcore answers a control packet. Two
lcores are enough to interleave in `lunxun`. Five frames cover a reset between any two critical sections, with
earlier periods. In `trap_reports` two periods of port 0 and one of the other port let a
failed write follow a hello or come before it; nothing bounds the failures.
`MaxTime` 3 and three requests of up to two timers let a timer be inserted, replaced, run late, come back and be
wiped out; questions about 0, 13 and 27 ports need one packet, empty and full, and three. Two
faults and two orders let a stop, a crash and an end meet; `supervisor_drift` has three faults and needs two. The
machines of `rm_startup` have up to three ports, lcores and sockets against two queues per port and lcore and two
sockets with memory, so that every limit is met and passed; three entries allow gaps and repetitions; `MAX_CHECK_TIME`
3 has a first, a middle and a last round. Two routers are needed for one announcement to replace the other's route;
`MaxOnWay` 2 lets an
announcement and a control packet overtake each other, and two announcements; `NewPids` holds 49, the last byte of
`'PID1'`. `StrayPorts` holds a port that is set up on some machines and one that is on none. `Sizes` lie on both sides of 1302 and 1514 bytes.

**Deadlock** is checked except where requests, time or faults are bounded or the program may end (`CHECK_DEADLOCK
FALSE`): there the model comes to rest when its bounds are used up.

**Fairness.** `main_loop` polls for ever: weak fairness of `Receive` and `HandlerGoesOn`. `rand` is seeded with the clock: strong
fairness of a rejection with each draw. The kernel schedules processes and threads: weak fairness of the monitor,
and its capture thread, of `Main` of the supervisor, of the processes and threads of `TrapReport` once they have begun
a report or an answer. Nothing is assumed fair about losses, faults, cables or requests, about `Restart` (nobody need start a
monitor that ended) or about `Wake` (a port that is down may stay in its period for ever). A probe of the monitor that fails while the process waits and leaves nothing behind is a stuttering step;
`Recovers` speaks of behaviours in which such failures do not go on for ever.

## 4. Proofs

Of the 40 properties that the passing runs check, four are about liveness; the other 36 are theorems, for every value
of the constants that the named `ASSUME`s of the modules allow. TLC evaluates those assumptions in the runs.

| Module | Proves, besides types | Inductive invariant |
|---|---|---|
| `PidNegotiation_proofs` | `Agreement` (`QuiescentAgreement`), `PathsDistinct` (`LinkDistinct`), `ResponderLinksDistinct` (`ResponderDistinct`), `PacketsTagged` (`ViaKnown`), `SponsorsKnown` (`SponsorPidsKnown`), `TimesAgree` (`TimeAgreementOne`) | `Inv`, and on top of it `RowsInv`, `TaggedInv`, `KnownInv`, `TimeInv` |
| `PacketLoop_proofs` | `LoopBuffersOwned` (`OneOwner`), `LoopLossesKnown` (`LostOnlyHere`), `RobinInTurn` (`PathsInTurn`), `LoopImplements` (`LoopSpec => Spec`) | `Inv`; `TurnInv` for the round robin |
| `TrapReport_proofs` | `AnswersNotOlder` (`StateNotOlder`), `AnswersTrafficNotOlder` (`TrafficNotOlder`), `ReadersExcluded` (`Excluded`), `KnownNeverBack` (`NeverBack`) | `FilesInv`, `UnderWayInv`, `AloneInv`, `LockInv`, `KnownInv` |
| `PortMonitor_proofs` | `BitsInStep` (`TrapStateExact`), `DownReported` (`DownIsReported`), `RecoverySeen` (`NoFalseRecovery`); of `TrafficCounters`: `Straddles` (`OneStraddles`) | `ProbeInv` with the properties; `Balanced` |
| `Supervisor_proofs` | `WatchesAllOrNone` (`AllOrNone`), `CountIsExact` (`CountExact`), `OneProcessPerPort` (`OneProcess`), `SlotsTrue` (`SlotTrue`) | `PortsInv`, `FoundInv`, `SlotInv`, `LiveInv`, `CountExact`, `SlotTrue` |
| `TxQueues_proofs` | `GivesUpOnlyForCause` (`GivesUpForCause`), `LaunchedIsServed` (`LaunchedServed`), `LinksArePrinted` (`LinksPrinted`), `TablesAreAlone` (`TablesAlone`), `QueuesAreThere` (`QueuesExist`) | `ConfInv`, `PortsInv`, `StartedInv`, `LinkInv`, `SendInv` |
| `TimerList_proofs` | `OrderedList` (`Ordered`), `RunInTime` (`OnTime`), `NoneEarly` (`NeverEarly`), `RunOnce` (`RunsOnceAlone`); of `LocalInform`: `QuestionsComplete` (`AskedOnce`), `AnswersFit` (`AnswerFits`) | `ReqInv`, `OrderInv`, `FreshInv`, `HeldInv`, `GapInv`, `InformInv` with the properties |
| `BorderRouter_proofs` | `GetsLeaveOwnLink` (`GetsLeave`), `ControlLeavesOwnLink` (`ControlLeaves`); of `FlowServer`: `ThreadsSendTheirFlow` (`OwnFlow`), `FlowsNeverMore` (`NeverMore`) | `PidInv`, `OwnInv`, `KeyInv`, `ToldInv`, `OutInv`; `CreatedInv`, `ArgumentInv`, `SentInv` |

Why the invariants are needed:

- **`PidNegotiation`.** None of the properties is inductive alone: agreement after an ack depends on what the
  variables held since the `b`. `Inv` has `Roles` (sponsors send requests and `b`, responders `a` and `ack`),
  `AllDistinct` (every vector of PIDs, in a chain, in the variables or in a packet, has distinct entries modulo 100),
  `LastB` (the last `b` under way carries what the sponsor has in its variables), `Agree` (with nothing lost, the
  responder's PIDs are those in the sponsor's variables whenever an ack is under way and no `b` is, and the sponsor's
  own when neither is) and `ResponderDistinct`. The table holds the chain's PIDs except between the ack and the update
  (`RowsInv`). Everything in the table has been announced except between update and announcement, and only the timer
  sends in that window, because a handler that is under way takes no packet (`TaggedInv`). A sponsor's new PIDs are known,
  or will be when the responder's handler is through, because on a link without overlapping rounds at most one packet
  is under way, and the responder's handler of a `b` starts with the ack that lets the sponsor use the PIDs (`KnownInv`).
  Change times follow the PIDs, but only for a sponsor of one link: there is one variable for the time of all links
  (`TimeInv`).
- **`PacketLoop`.** A buffer has one owner because an lcore has a buffer exactly while it is not polling, and a table
  has room for one more (`TypeOK`). Every step of the loop is a step of `DataPlane` or leaves its variables alone, so
  the theorems about `DataPlane` carry over. `PathsInTurn` needs what the lcore inside `lunxun` has loaded: it is what
  `k2` and `flag2` still hold as long as no second one was inside (`TurnInv`).
- **`TrapReport`.** A file is written before the hello and only moves forward (`FilesInv`), so what is under way keeps
  its bounds (`UnderWayInv`). A write that fails covers an older message at the most with the
  state of its own period, and a read that fails carries no state. The locks say something only while a single thread answers (`AloneInv`, `LockInv`). The
  file of port 0's own process is not among them: a lock of the process that already has one is converted, so
  writer and reader do not exclude each other there. What an answer under way carries
  is not older than what the RM knows (`KnownInv`).
- **`PortMonitor`.** A process about to report that it is connected holds the result of a probe that did not see a missing
  link, and a probe without a socket, if none was refused from outside, means that no descriptor is left to write the file
  with (`ProbeInv`); none is given back while the process lives. What `TrafficCounters`
  records is a copy of the running counters: GETs and DATA packets, with the frame between its two critical sections
  counted among them, exceed the frames by one at the most (`Balanced`).
- **`Supervisor`.** `child_count` and the slots agree with the children because what `waitpid` returned stays what it
  was until main has handled it (`FoundInv`), a slot belongs to one port (`SlotInv`), and a process that lives is in
  the slot of its port unless another was launched over it (`LiveInv`). All ports or none are watched because the
  list has each port that was looked at once (`PortsInv`), a fact about cardinalities.
- **`TxQueues`.** Each phase of the start leaves behind what the next relies on. That MAIN gives up only for a cause
  is the converse: on a command line that is well formed every check of the code comes out right (`WellFormedPasses`).
- **`TimerList`.** `sig_func` looks only at the head and then believes each `elapse`. That it passes over nothing needs
  the order of the list (`OrderInv`) and every accepted timer in it (`HeldInv`); that it runs nothing early needs each
  `elapse` to be the time since the node before, which an insertion keeps and the replacement of a timer does not
  (`GapInv`). A timer runs once because nodes that ran came with other requests than those in the list (`ReqInv`,
  `FreshInv`). The exceptions in the properties are the steps that break these parts: a stale head, an emptied list, a
  replaced timer. `insert_a_timer` is described by where each node stood before (`Merged`), from which order,
  completeness and different requests all follow.
- **`LocalInform`.** After `13 q + r` ports there are `q` full packets and one with `r` (`PackingIs`), so the packets of
  a question, answered or not (`InformInv`), join to all the ports, and none holds more than thirteen.
- **`BorderRouter`.** All negotiated PIDs make the empty key and no configured one does, so the entry of a router's
  own name stays (`OwnInv`). The entry of the empty key leads over the own link once the router has learned a PID of its link and
  while no other link has a negotiated PID (`KeyInv`); where the announcement of a link is, if its router has not learned
  it, is `ToldInv`. Nothing is said of the order of packets.
- **`FlowServer`.** A thread copies the right flow because of what the shared argument holds at each point of main
  (`ArgumentInv`). That no flow is too large is arithmetic (`FlowSentBound`).

Assumptions beyond types: there are finitely many links, configured PIDs of different links differ and those of one
link differ modulo 100; the interfaces of a host have different names, and there is one; a machine has no more ports
than a mask has bits; a burst has room for a buffer; configured PIDs are four characters and negotiated ones have a
leading zero byte (they are proposals below 100, moved a little further after collisions).

Only model-checked:

- `Settles`, `Recovers`, `RestartedCounted` and `Answered`: liveness under fairness, which TLAPS cannot prove.

The loops of `local_inform` and `parse_timer_message` are functions on `0..n` that compute each value from the one
before. The library's induction theorems take an operator as a parameter and cannot be used here; `Induction` and
`Recursion` in `TimerList_proofs` say the same of sets and functions and follow from `NatLessThanWellFounded`. The
invariant of `TimerList` was an invariant of the run `timer_lists` before it was proved.

## 5. Not modelled

- Code that nothing calls in this commit: the lookups and `l3fwd_simple_forward`, the LPM and vector paths, the
  pickers other than `lunxun`, `populate_ipv4_many_flow...`, `signal_handler`'s flag (its readers are commented out)
  in the RM; `get_link_stats.c`, `mysql_operate.c`, `ntp.c` and `list_handle.c` in the monitor.
- Input and output without state: `dump.c`, `get_adapter.c`, printing, the parsing of times in `local_inform.c`, and
  the text files of the port's statistics.
- Clients and demonstration elements, which build or rewrite one packet each; Click's and DPDK's stock examples.
- `IPN/trap_rm.cc`, which does not compile, and the parts of `RM/wenxingbeng.c` that repeat `RM/main.c`.

Weaknesses of the code that need neither interleaving nor several steps, and that no property is about: an `a` or an
`ack` from an unknown EID dereferences a null pointer (`RM/main.c:2998`); `ADD_PID` waits for a key with `getchar()`
(`RM/main.c:1338`); a port mask that is no number enables every port (`RM/main.c:3549`, in `RmStartup`); the same rx
queue may be given to two lcores (`RM/main.c:3388`, in `RmStartup`); the key made of a DATA packet's PID may run on
past its four bytes (`ipborderrouter.cc:129`, `DataKeys`); `local_sender` sends four bytes less than its packet holds
(`local_sender.c:172`); the nested `getopt_long` of `--enable-jumbo` may swallow the option after it (`RM/main.c:3596`).

## 6. Plan

1. A finer `PidNegotiation`: check and adoption of a `b` as two steps on two lcores.
2. The negotiation and the border routers composed: announcements of one as input of the other.
3. `Supervisor` with `port_kill_proc` interrupted by the handler; `TimerList` with an interrupted insertion.
4. An abstract specification of the negotiation (both ends move from one vector to the next) and the refinement.
5. The cache element `apcache`.
6. Proofs: what remains beyond liveness are the properties of finer models, 1 and 3 above.
