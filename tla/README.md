# TLA+ models of the EVB-LAN9646 PTP stack and MVRP daemon

The repository is the software of an evaluation board for a LAN9646 Ethernet
switch. Most of it is bundled (buildroot trees, kernel patches, linuxptp,
Open-AVB) or consists of sequential tools around driver requests. The part with
concurrent, long-lived protocol state are the PTP stack,
`ung_apps_external/app_utils/ptp_stack`, and the registration daemon `mrpd` in
the repository's version of Open-AVB
(`ung_apps_external/ptp/Open-AVB/main/daemons/mrpd`, built with
`MICREL_1588_PTP`). This directory models the core of both. Paths below are
relative to the first unless they start with `app_utils/` or `mrpd/`.

## The system

| Part | Source | State | Operations | Model |
|---|---|---|---|---|
| Best master clock algorithm | `ptp_bmca.c` | none (pure) | compare data sets, pick the best entry, look a sender up, decide a port's role | `Bmca`, `BmcaProofs` |
| Port and clock state machine | `ptp_port.c`, `ptp_clock.c`, `ptp_protocol.c`, `ptp_config.c` | port states, foreign master tables, best masters, parent data set, timers, works | Announce reception and processing, three timeouts, link change, fault, servo result, stop, start | `PtpClock`, `PtpClockProofs` |
| Schedule system | `os/sw_support.c`, `socket/signalthread.c` | linked list of works, delayed timer, condition variable | schedule, schedule delayed, walk and run, timer tick | `WorkQueue`, `WorkRequests`, `WorkQueueProofs` |
| Message queue | `ptp_stack.c`, `ptp_msg.c`, `ptp_sock.c`, `ptp_forward.c` | POSIX queue, `rx_lock`, `tx_lock`, reference counts | receive, forward, save, build, transmit, process, release | `MsgQueue`, `MsgQueueProofs` |
| Timer table | `os/sw_support.c` | poll set, index, timer descriptors | init, start, stop, expire | start and stop of one timer in `WorkQueue` |
| Sync and Follow_Up | `ptp_protocol.c`, `ptp_sync.c`, `ptp_forward.c`, `ptp_clock.c` | saved messages, sequence numbers, receipt timeouts | receive, forward, time out | the resulting events in `PtpClock` |
| Peer delay, asCapable | `ptp_protocol.c`, `ptp_port.c`, `ptp_sync.c` | outstanding request, saved responses, response counters, asCapable | request, response, follow-up, transmit timestamp, lost or repeated response, fault, link change | `Pdelay`, `PdelayProofs`; the fault it raises also in `PtpClock` |
| MRP state machines | `mrpd/mrp.c` | applicant, registrar, timers | the events of 802.1Q MRP | `Mrp` |
| MVRP | `mrpd/mvrp.c`, `mrpd/mrpd.c` | attribute list, three timers, clients | declare, withdraw, send, receive, LeaveAll, periodic, reclaim | `Mvrp`, `MvrpProofs`, `MvrpAnswerProofs`, `MvrpKeepsProofs` |
| MMRP, MSRP | `mrpd/mmrp.c`, `mrpd/msrp.c` | attribute lists | as MVRP, with streams and domains | not modelled |
| Delay filter | `ptp_filter.c` | sample window | add, median | not modelled |
| Servo | `ptp_servo.c` | floating point controller | sample | not modelled; its verdict is `PtpClock!Servo` |
| Signaling, intervals | `ptp_signal.c`, `ptp_clock.c` | interval per message, Signaling timer | negotiate, convert | the timer in `PtpClock` |
| Management, commands | `ptp_manage.c`, `ptp_stack.c`, `ptp_main.c` | none of its own | get and set, stop and start | stop and start in `PtpClock` |
| Sockets, driver, trigger units | `ptp_sock.c`, `lan937x_ptp_api.c`, `ptp_ptu.c` | hardware | I/O | the use of `rx_lock` in `MsgQueue` |
| Device level ring | `app_utils/nettest/network/dlr*.c` | node list | configure, display | not modelled |
| 802.1X | `app_utils/nettest/network/authtest.c` | port access state machines | EAPOL and RADIUS exchange | not modelled |
| Tools, web pages, board support | the rest | | | not modelled: parsing, I/O, configuration |

### Threads and how the parts interact

* A receive thread per socket and the notify thread call `ptp_rx` under
  `rx_lock`. What needs more work goes through the queue to `ptp_process_task`,
  which takes `rx_lock` to process and `tx_lock` to transmit.
* The timer thread runs timer callbacks. A callback schedules a work; the
  schedule thread (`ScheduleTask`) runs it. A timeout is therefore two steps,
  and anything may happen between them.
* Announces, works, link changes and commands all end in
  `handle_state_decision`, which recomputes the best master of every port and
  of the clock and moves the ports.
* A peer delay request is sent by the schedule thread under `tx_lock`; its
  responses are taken in under `rx_lock`. Nothing orders the two.
* `mrpd` is one thread: `select` reports PDUs, timers and client commands, and
  the loop handles what it has reported one after the other, PDUs before
  timers. A timer that a PDU has set again is then handled as run out. What is
  concurrent is the daemon at the other end of the link.

### What is hard here

A timeout whose work runs after the state it was meant for has gone; an
Announce that was queued before a restart or a timeout; a list that is walked
and appended to at once; a timer started and stopped by two threads; wake-ups
that are lost; a bounded queue whose reader needs the writer's lock; tables of
two entries; one clock-wide timer switched by several ports; a request that is
replaced while its response is handled; two daemons whose LeaveAlls cross and
whose PDUs get lost; an expiry that is handled after its timer was set again.
`PROJECT.json` lists each at its line with the properties that watch it.

## Modules

### Bmca
The functions of `ptp_bmca.c` as operators. A data set keeps the order in which
the code compares its attributes: `key` is priority 1, class, accuracy,
variance and priority 2, then the identity, the steps and the port identities.
Identities are numbers; `memcmp` on port identities agrees with the numeric
order for port numbers below 256.

### PtpClock
One clock with ports `1..N` and the host port 0. The variables are the fields
of `struct ptp_port` and `struct ptp_clock` that the handlers use (each is
commented in the module). `ann`, `qual` and `fault` hold the ports whose timer
is armed, `annw`, `qualw` and `faultw` those whose work is scheduled, `rxq` the
Announces that wait for `ptp_process_task`.

| Action | Code |
|---|---|
| `HandleAnnounce` | `ptp_rx`, `handle_announce` |
| `ProcAnnounce` | `proc_announce`, `add_foreign_master`, `update_current_master` |
| `AnnTimer`, `QualTimer`, `FaultTimer` | the timer callbacks of `ptp_port.c` |
| `AnnWork`, `QualWork`, `FaultWork` | the works they schedule |
| `LinkUp`, `LinkDown` | `proc_link_status` |
| `SetFault` | `port_set_fault_timeout`, from the peer delay handlers |
| `Servo` | the state changes of `port_sync` |
| `ClockStop`, `ClockStart` | `clock_stop` with `reset_ptp_clock`, `clock_start` |

Every action contains the whole of `handle_state_decision` where the code calls
it. A handler is one step. Three abstractions deserve a word:
`ClockStart` keeps any subset of the scheduled works, since `init_work` on a
scheduled work may drop it from the list or not; `crashed` records that
`update_current_master` read a null `p->best`, after which nothing happens; and
the clock is one that uses Announces (`c->no_announce` is not set), so the
automotive profile without them is outside the model. The sync receipt timeout
of gPTP also switches the Sync timer and is not modelled, hence `SyncOfMaster`
speaks of the default profile only. It also leaves slave-only clocks out, for
which it does not hold (see Observations). `HeardIsGenuine` is an assumption on
the other clocks that one theorem has: none of them announces this clock as a
grandmaster at zero steps.

### WorkQueue and WorkRequests
`WorkQueue` splits `ScheduleTask` and its callers where a lock is taken or
released and where unlocked data is touched: `ksz_start_timer` and
`ksz_stop_timer` are three steps each. Callers are any threads, and
`ScheduleTask` itself while it runs a function. `owed` is a history variable,
the works requested since their function last started. `WorkRequests` is what
the schedule system promises: requested functions run one at a time. The
refinement maps its `pending` to `owed` and its `running` to the work whose
function ScheduleTask has popped. Not modelled: `schedule_pause` and
`schedule_resume`, the end of the task, and ticks that pass 0.

### MsgQueue
The way of a message through receive thread or sender, queue and
`ptp_process_task`, with both locks, the bound of the queue and the reference
counts. Handlers are abstracted to what they do with the message: forward it,
save it for processing, send a reply through the queue or directly, or nothing.
Not modelled: references kept by `msg_save`, counts that are not atomic,
`mq_open` that fails, and the empty message that ends the task.

### Pdelay
One port that measures the delay to its neighbour in gPTP, with one response
expected. The four threads are places in `pc`: the timer task
(`TimerFires`, `port_pdelay_req_func`), the work task (`port_tx_pdelay_req`),
the receive task (`Rx`, `RxOther`, `RxSave`, `handle_delayed_pdelay_req`) and
the message task (`Proc`, `ProcAnswered`). The last two exclude each other
(`rx_lock`); the work task may run between any two of their steps, and they
between any two of its six, which end where they can see the difference:

| Step | `port_tx_pdelay_req` |
|---|---|
| `TxMissing` | a request without response is counted, asCapable checked |
| `TxCount` | `resp_cnt` and `resp_fup_cnt` are reset, `mult_resp` cleared |
| `TxClear` | `clear_pdelay_req`: the request |
| `TxDrop` | the same: response and follow-up |
| `TxSave` | `msg_info_save` sets `valid` (`TxFails`: no message was to be had) |
| `TxSend` | it goes on to the sequence number, and the request is sent |

A sequence number is only compared with that of the last request, so messages
and saved records are of that request or `old`. Transmit timestamps are on
their way like messages, and nothing in the code compares theirs. `RxOther` is
the workaround in `ptp_rx` that sets `resp_missing` when `transportSpecific`
changes. The delay itself is abstracted to whether it is too large (`big`) and
whether the rate ratio is valid yet (`nrate`). What goes wrong (a lost or
repeated message, a follow-up before its response, a timer that fires before
the last exchange is over, a second responder, a bad sample, a link that goes
down) is counted in `trouble`.

`silent`, `racing`, `raced`, `doubt` and `mixed` are history variables. `raced`
says that a response or follow-up was handled while the last request was
being prepared, from `TxCount` to `TxSend`; `racing` carries this over `TxDrop`
if it is still in hand there. `NoMixedSample` and `NoFalseMultiple` make an
exception of it, since the code does fail then (see Observations). `doubt` says
that a follow-up to the last request was saved before any response to it, or
that several were counted; whether a sample then joins two responders is left
out of `NoMixedSample`.

### Mrp and Mvrp
`Mrp` has the tables of `mrp_applicant_fsm` and `mrp_registrar_fsm` as
functions from state to state. `Mvrp` runs them in two daemons at the ends of a
link, with one port each.

| Action | Code |
|---|---|
| `ClientAdd`, `ClientBye`, `New`, `Join`, `Leave` | `mvrp_recv_cmd`, `mvrp_bye` |
| `JoinTimer` | `mvrp_event(MRP_EVENT_TX)`, `mvrp_txpdu`, then `mvrp_reclaim` if asked for |
| `Receive` | `mvrp_recv_msg`, the first part of a pass of the event loop |
| `LvTimer`, `LvaTimer`, `Periodic`, `GcTimer` | the timers of the event loop in `mrpd.c` |
| `Lose` | the network |
| `Tick` | a join time passes, once nothing is due |

One `select` serves a pass of the loop, and the PDU comes first in it. If the
PDU sets a timer again that `select` may have found run out, that timer may be
in `stale`; it is then handled before anything else of this daemon, the LeaveAll
timer first. What a PDU does not set again is run out before and after it, so
that only these two timers need the distinction.

A PDU is a function from VLAN to event. `Room` is the number of attributes it
has room for. The periodic timer is not tied to `Tick` and may expire at any
time. Two history variables serve `KeepsDeclared`: `held`, the VLANs a daemon
has declared since before the last tick, and `due`, how many Joins of its peer a
leaving registration can still count on. That is two when the registration
starts to leave and the peer holds the VLAN; a lost Join takes one off, a lost
LeaveAll or the peer's Leave takes them all. It is none for a VLAN that starts
to leave in a pass that has found the leave timer run out, since that pass ends
its leave time at once (see Observations).

## Runs

`tlc -config <run>.cfg <module>`. The clock runs use `MCPtpClock`, the others
`MCWorkQueue`, `MCMsgQueue`, `MCPdelay` and `MCMvrp`.

| Run | Shows |
|---|---|
| `default_profile` | one grandmaster over two paths, attributes change: choice, slave port, host port and Sync timer agree, and a changed Announce is taken in |
| `many_senders` | three senders for two entries and a looped port, with restarts: one entry per sender, no stale best, no untimed master, a stopped clock stays stopped |
| `live_faults` | gPTP, two senders on one port, faults and link changes in any order: FAULTY has a cause, is timed and ends, and a silent network is taken over unless the port stays FAULTY |
| `work_list` | the list stays sound under concurrent appends, requests are served although wake-ups are lost, `WorkRequests` is implemented |
| `messages` | exact reference counts, one user at a time, every message released |
| `pdelay` | asCapable follows a neighbour whose messages get lost, late or doubled while link and port fail; the port keeps asking; except in the cases named above (`raced`, `doubt`) no sample is mixed, and no late answer counts twice |
| `mvrp` | two daemons with a lost PDU: what is declared stays registered through LeaveAlls and expiries that are handled late, what is withdrawn goes, nothing that leaves or must be sent is without its timer, clients are told |

Five runs end in a violation of what a comment in the code says; each is a
finding in `PROJECT.json`:

| Run | The code |
|---|---|
| `signaling_moves` | the slave role moves to a lower port and Signaling stops |
| `null_best` | a port made PASSIVE by a loop has no best master to read |
| `delayed_timer` | start and stop of the delayed timer race; the two second wait still serves the work, late |
| `queue_full` | a full queue blocks a thread that holds the reader's lock |
| `mvrp_join_in` | the second VLAN of a vector is joined with the registrar state of the first |

### Observations
The models also reach the following, each seen with TLC in an instance that is
described here and not kept as a run.

* `AnnounceIsKept` fails in gPTP, where the threshold is 1: with a master on
  port 1 and a second on port 2 whose attributes change, the changed Announce
  of the second is dropped (`ptp_protocol.c:1512`; the comment at 1522 asks for
  a decision).
* `ParentIsBest` fails in gPTP: a changed Announce at a PASSIVE port overwrites
  the parent data set of the chosen grandmaster, and since `best_id` stays, no
  decision repairs it.
* `FaultIsTimed` fails with restarts (`Spec`, `HeardEach`): `clock_stop` cancels
  the fault timer, `last_fault` stays set, and a link that comes up afterwards
  does not clear FAULTY.
* `TakesOver` says nothing of a clock with a FAULTY port, because there the code
  may never take over. In gPTP with two ports and two senders on port 1, the
  link of port 1 goes down between the announce timer and its work. The work
  forgets one sender, the timer is not armed again on a FAULTY port, and the
  other sender's entry keeps the host port SLAVE although port 2 is up. With the
  same senders and no faults (`SpecNoFault` with fairness) `TakesOver` holds for
  two ports: 14,224 states, six minutes.
* `ListIsSound` fails when `InitWork` is a step (`SpecInitWork`): a restart
  that initialises a scheduled work detaches it while it is linked.
* Without the exception for `raced`, `NoMixedSample` and `NoFalseMultiple` fail.
  A request that is sent between the checks of a receive handler and its
  `msg_info_save` has the old response saved, or counted, as its own. So has
  one that is being prepared: from `resp_cnt = 0` until the new sequence number
  is saved, the old one is what a response is compared with.
* Without the exception for early follow-ups (`doubt`), `NoMixedSample` fails
  with two two-step responders. `msg_info_clear` leaves the identity in `rx_delay_resp`, so that
  after a new request the identity there is that of an earlier responder. Its
  follow-up, overtaking its response, is accepted against it; the response of
  the other responder then completes the pair, and the delay is computed from
  the two. The comment at `ptp_protocol.c:2188` says "sourcePortIdentity has to
  be the same for both responses."
* A transmit timestamp that is reported after the next request was sent is taken
  for that of the next request (`handle_delayed_pdelay_req` compares nothing).
  `NoMixedSample` is about response and follow-up only.
* `SyncOfMaster` fails for a slave-only clock (class 255): its port goes on
  following when the last master is forgotten, the host port becomes MASTER and
  starts the Sync timer, and the next servo result of that port stops it.
* `as_capable` is not reset when a link comes back (`port_initialize`), though
  `resp_missing` is; the comment at `ptp_port.c:773` says "Indicate not capable
  until getting a response."
* A PDU that is full (`Room` = 1 with two VLANs): `AnxiousIsTimed` fails, since
  the second Join of what the first part held is not sent; `KeepsDeclared`
  fails, since a VLAN gets fewer chances in a leave time and one loss uses them
  up; `DeclaredIsRegistered` fails if the periodic timer keeps expiring within
  a join time, which the model allows and the real timer values do not.
  `ToldIsRegistered`, `LeavingIsTimed` and `WithdrawnIsGone` hold there too.
* `tx_attrib` is not cleared by `mvrp_reclaim` and may point to what was freed;
  the model then goes on anywhere in the list (`Dangling`).
* An applicant in LO stays there when a LeaveAll is sent and has no join timer;
  `AnxiousIsTimed` therefore leaves LO out.
* When a LeaveAll PDU is lost its sender alone starts to leave, and may give up
  what the peer still declares; `KeepsDeclared` expects no answer then (`due`
  is 0).
* A VLAN that starts to leave in a pass of the event loop that has found the
  leave timer run out is given up in the same pass: the timer ran for another
  VLAN, the PDU with the LeaveAll sets it again, and the expiry that `select`
  found is handled nevertheless (`mrpd/mrpd.c:1091`). The comment at
  `mrpd/mrp.c:316` says that the timer "controls how long the Registrar state
  machine stays in the LV state before transitioning to the MT state". Without
  the exception for such a pass, `KeepsDeclared` fails with three requests (two
  VLANs joined, one of them left; LeaveAll times of four and of five). The
  `mvrp` run has two requests; its stale expiries of the leave timer find
  nothing that has just begun to leave. The theorem covers both.
* A stale expiry of the LeaveAll timer makes a daemon send a LeaveAll of its own
  with its answer to one, and Joins only a tick later. With a leave time of
  three join times `KeepsDeclared` fails for this reason.
* When both daemons declare two neighbouring VLANs, the false JoinIn that
  `mvrp_join_in` shows makes the peer content: its applicant goes from AA to QA
  and does not send its second Join. With one more loss the registration is
  given up, and `KeepsDeclared` fails (two VLANs used by both, six requests, one
  loss, leave times of four and of five).
* A client that joins while a registrar is LV is not told of the VLAN, nor when
  the registrar goes back to IN. `ToldIsRegistered` is about the other
  direction: what a client was told ends when the registration does.
* By reading the code only, not from a model: `TimerTask` reads a timer
  descriptor after `poll`, and a timer stopped in between makes that read block
  all timers.

### Bounds
Two ports are the least with a choice between ports, a loop and a role that
moves; `live_faults` has one since faults multiply the behaviours (for
`TakesOver` with two, see Observations), and gPTP since two senders in the
default profile take TLC too long. `QMax` = 1
lets one Announce be overtaken by every other event; a longer queue delays
Announces further and keeps their order, and the theorems hold for any `QMax`.
The tables have their real size of two, so three senders overflow them. Three
works and two callers (a thread, and the functions the task runs) give a list
with a first, a middle and a last work and appends on both sides of the walk.
`messages` has one message more than the queue of two holds: the queue fills
and a writer may have to wait, but never for a reader that needs its lock.
`queue_full` adds one more message, and that happens. The real queue holds ten.
Some runs leave out events their question does not need: `SpecPath` (of
`default_profile`) has no faults, servo or stop and only port 1 loses its link,
`SpecNoFault` lets both lose it, `SpecNoRestart` has no servo and no stop,
`SpecRestart` no faults; the theorems are about all of them.

`pdelay` has a two-step neighbour and two more responders, one of each kind; two
things may go wrong, enough for a lost message and a late one, or a second
answer and a link change (its invariants were also checked with three: 22.8
million states). The thresholds are 2 and `resp_missing` stops at 4 instead of
10, still above the threshold. `mvrp` has two VLANs that the clients of one
daemon use, a leave time and a LeaveAll time of four join times, one lost PDU
and two requests; all its properties also hold when the other daemon declares
one of the VLANs as well (`TwoAndOne`, 536,481 states, under four minutes) and
with a LeaveAll time of five. The leave time matters: with three join times
`KeepsDeclared` fails (see Observations). The code's values are 200 ms for the join timer and 1 s
for the leave timer (`mrpd/mrp.h:130`). `Room` = 2 holds both VLANs, so that
PDUs are never full in this run (see Observations).

### Fairness
An armed timer expires and its callback runs, a scheduled work runs, a queued
message is processed: the threads that do this are never disabled. Nothing is
assumed of messages, links, faults or the servo. `TakesOver` speaks of
executions in which these eventually cease (`Quiet`). `WorkQueue` assumes that
threads go on, that the timed wait of two seconds ends and that time passes;
it assumes neither signals nor ticks. `Drains` is for callers that eventually
stop calling: a work that is re-armed for ever is postponed for ever by design,
and one that reschedules itself at once keeps the walk from ending. `MsgQueue`
assumes that a mutex released again and again is eventually obtained, and room
in the queue likewise. `Pdelay` assumes the same of its four tasks, and of a
neighbour that is alive that it answers, asks, and has its link back; a bounded
number of things go wrong, so that `CapableAgain` is about the time after the
last of them. Its timer is only assumed to fire once an exchange is over; that
it fires earlier is a trouble. `Mvrp` assumes that the event loop handles every
timer that has run out and every PDU, and that time goes on; the number of losses is bounded.

## Proofs

All theorems hold for every value of the constants that satisfies the named
assumptions (`PtpClockAssumption`, `WorkQueueAssumption`, `MsgQueueAssumption`,
`PdelayAssumption`, `MvrpAssumption`, `PduAssumption`): any number of ports,
any Announces, any works, callers, threads, messages, VLANs and losses.

* `BmcaProofs`: `Antisymmetric` (two clocks comparing each other never both
  win) and `FindsBest` (no valid entry beats the one chosen). The scan over two
  entries is unfolded, since `MAX_FOREIGN_MASTERS` is 2 in the code.
* `PtpClockProofs`: `Spec => []P` for `OneSlave`, `SlaveIsBest`,
  `BestIsCurrent`, `OneEntryPerSender`, `StoppedIsDisabled`, `FaultyHasCause`,
  `MasterIsTimed`, `SyncOfMaster` and `TypeOK`, and under a hypothesis for
  `HostAgrees`, `AnnounceIsKept` and `FaultIsTimed`. The inductive invariant `Inv` joins them and
  adds what they lack by themselves. `EntriesOK`: an entry is valid exactly when
  its count is the threshold. Without it a count could outgrow its type, and an
  Announce that is stored without a decision could change a valid entry behind
  `p->best`. `CauseOK`: the ports of a stopped clock are DISABLED and those of a
  running one are not, so that late works and messages find nothing to revive.
  `DecisionEffect` says what `handle_state_decision` makes of whatever a handler
  hands it; one lemma per action then shows that the action preserves `Inv`.
  `GrandmasterLeads`, that a clock of class below 128 never follows, is proved
  too and has no run. The rest adds to `Inv`:
  * `SyncOfMaster` needs `SyncOK`, which ties the timer to the host port in what
    a decision is handed as well as in what it leaves, since `port_to_slave` and
    `port_to_master` switch it in the middle of one.
  * `HostAgrees` needs `HostOK`: besides the agreement, what is in the tables and
    in the queue is genuine. Its hypothesis is `HeardIsGenuine`: an Announce of
    this clock's identity at zero steps ties with its own data set, and port
    identities would then decide. `MCPtpClock` assumes it, so that TLC checks
    that the Announces of the runs satisfy it.
  * `AnnounceIsKept` is an action property; it follows from `Inv` (one entry
    per sender, counts at the threshold) and the effect of
    `add_foreign_master`. Its hypothesis is `~Gptp`; it fails otherwise (see
    Observations).
  * `FaultIsTimed` is proved for `SpecUnstopped`, in which the clock is not
    stopped: `clock_stop` cancels the timer and keeps the fault (see
    Observations).
* `WorkQueueProofs`: one theorem for each of `TypeOK`, `RequestIsQueued`,
  `ListIsSound`, `PlaceIsSound` and `AllReachable`, from their conjunction,
  which is inductive; the walk keeps its place because callers change only
  `last` and its `next`. `Implements` proves the refinement of `WorkRequests`.
* `MsgQueueProofs`: `OneUser`, `RefcntIsHolders` and `TypeOK`. The inductive invariant says
  by the two locks which thread is where (`Receivers`, `Senders`, `Processing`),
  and for each message that its count is at most one holder on the way to being
  sent or processed, plus the receiving thread (`CountOK`); `Shared` says in
  which places both may hold it.
* `PdelayProofs`: `KeepsAsking` is inductive but for the range of `state`.
  `CapableIsFresh` needs `Fresh`, which bounds `silent` by `resp_missing` and by
  where the work task is, whenever the port is or may become asCapable.
  `NoFalseMultiple` needs `Multiple`: unless raced, the answers of the last
  request that are on their way, in hand or counted are never more than were
  given, and nothing is counted while a request is prepared.
  `NoMixedSample` needs `Unmixed`: unless raced, the saved response and
  follow-up are of the last request, so is what the receive task has in hand,
  and a saved follow-up has a saved response of the same sender beside it unless
  there is doubt. `TypeOK` is `Typed`,
  proved part by part (`Flags`, `Numbers`, `Counters`, `Infos`, `Messages`).
* `MvrpProofs`: `LeavingIsTimed` and `ToldIsRegistered` for each daemon, with
  the shape of the attribute list; what the applicant does is irrelevant. For
  `TypeOK` and `AnxiousIsTimed` it is not: `TInv` adds the types of applicants,
  PDUs and timers. Each event is then shown, list by list, to give applicants
  again (`Typed`) and to make none anxious without asking for the join timer
  (`Pressing`, `Prompt`). `AnxiousIsTimed` needs `Served`, which adds that no
  PDU is to be continued (`tx_attrib` is 0). That holds if a PDU has room for
  every VLAN, the hypothesis `Room >= Cardinality(Vid)`; with less room the
  property fails (see Observations).
* `MvrpAnswerProofs` and `MvrpKeepsProofs`: `DeclaredIsKept` is `KeepsDeclared`,
  for any VLANs, clients, requests and losses. Its hypothesis is `Fits`:
  * a PDU has room for every VLAN (it fails with less, see Observations);
  * the leave timer runs for four join times at least and the LeaveAll timer for
    three (it fails for a leave time of three; the code has five and fifty);
  * a VLAN that both daemons use does not follow another one in a vector (it
    fails otherwise, see Observations).

  The inductive invariant `Answers` says of every point of the exchange how much
  of the leave time is left. `Answered` is its core: as long as answers are due,
  one is on its way and early enough, or the LeaveAll that asks for it is, or
  the peer's applicant is in a state that sends it with the next PDU (`Come`,
  with the ticks it takes; one more if the peer owes a LeaveAll first, `Owes`,
  which a stale expiry may be the reason of). `EndedEarly` says that none is due
  when a stale expiry ends a leave time. What it rests on: a PDU is delivered or lost before
  the next is sent (`OneInFlight`); what is held is declared, and only by
  clients that use it (`HeldDeclared`, `DeclaredUsed`); no PDU on its way
  withdraws what is held (`NoLeaveHeld`); a LeaveAll that is on its way has
  restarted its own sender's Joins (`LeaveAllSent`); and a PDU that tells the
  peer that a leaving VLAN is registered, having been sent before it started to
  leave, finds the peer at the start of its two Joins, which it does not silence
  (`Truthful`). `Truthful` is where a vector's false JoinIn breaks the argument.
* `LoneJoinTellsRegistrar`, in `MvrpKeepsProofs`, is the counterpart of
  `mvrp_join_in`: if no two VLANs are neighbours, every Join tells the state of
  its own registrar, for PDUs of any size, with or without a LeaveAll.

Only model-checked is liveness under fairness, which is out of the prover's
reach: `FaultyRecovers`,
`TakesOver`, `Drains`, `EveryMessageReleased`, `CapableAgain`, `SilenceNoticed`,
`DeclaredIsRegistered` and `WithdrawnIsGone`. `ImplementsRequests` is proved for
the whole of `WorkRequests`, which states no fairness.

## Not modelled

* Sync and Follow_Up beyond their outcome: the saved messages and their
  references, sequence numbers, receipt timeouts, forwarding.
* The state decision split by port and thread. A handler of `PtpClock` is one
  step; interleaving two decisions is beyond TLC for two ports.
* The timer table: poll set and index growth. The models assume what it is for,
  that an armed timer fires.
* The responder of peer delay, `multi_pdelay`, and the interval negotiation of
  the automotive profile.
* Several ports of one `mrpd`, queries, the propagation of registrations to the
  switch, MMRP and MSRP.
* Arithmetic: the delay filter (a moving median), the servo (floating point),
  interval conversion.
* The 802.1X state machines of `authtest.c`, a program of its own.
* The ring supervisor, which the repository has only in kernel patches, and the
  programs that configure it.
* Parsing, formatting, sockets, register access, web pages, board support and
  bundled projects: no protocol state of their own, or code of other projects.
