------------------------------ MODULE PtpClock ------------------------------
(***************************************************************************)
(* The port state machine of one PTP clock: reception of Announce          *)
(* messages, the foreign master tables, the state decision, the announce,  *)
(* qualification and fault timeouts, link changes, and stopping and        *)
(* restarting the clock (ptp_port.c, ptp_clock.c and the Announce part of  *)
(* ptp_protocol.c).                                                        *)
(*                                                                         *)
(* Port 0 is the host port, ports 1..N are the ports of the switch.  Every *)
(* action is one complete handler.  The threads that run the handlers are  *)
(* visible as what they leave for each other: messages in rxq, armed       *)
(* timers, and works that have been scheduled but have not run.            *)
(***************************************************************************)
EXTENDS Bmca

CONSTANTS
    N,          \* number of ports, c->cnt
    Gptp,       \* the clock runs the 802.1AS profile
    OwnKey,     \* attributes of the clock itself, clockClass among them
    OwnId,      \* identity of the clock itself
    Heard,      \* Heard[p]: what can arrive at port p as an Announce
    QMax        \* bound on the messages waiting in rxq

Port == 1..N
AnyPort == 0..N
NoId == 0       \* an identity of all zeroes
SlaveOnly == 255

\* An Announce: its data set without rx, and whether its path trace names
\* this clock.
Announce == [key : Key, id : Clock, steps : Nat, tx : PortId, looped : BOOLEAN]

ASSUME PtpClockAssumption ==
    /\ N \in Nat \ {0}
    /\ Gptp \in BOOLEAN
    /\ OwnKey \in Key
    /\ OwnId \in Clock \ {NoId}
    /\ Heard \in [Port -> SUBSET Announce]
    /\ QMax \in Nat

\* Another clock that announces this one as its grandmaster is a step away
\* at least: only the grandmaster itself announces stepsRemoved = 0.
HeardIsGenuine ==
    \A p \in Port : \A a \in Heard[p] : a.tx.clock # OwnId /\ a.id = OwnId => a.steps > 0

VARIABLES
    state,       \* p->state, also of the host port
    no_link,     \* p->no_link
    last_fault,  \* p->last_fault
    fm,          \* p->foreign_masters
    best,        \* p->best, an index into fm[p]
    cbest,       \* c->best: <<port, index>>, <<0, 0>> for NULL
    best_id,     \* c->best_id
    pds,         \* c->pds and c->cur.stepsRemoved
    ann, qual, fault,       \* ports whose timer is armed
    annw, qualw, faultw,    \* ports whose timeout work is scheduled
    rxq,         \* Announce messages queued for ptp_process_task
    tx_sync,     \* the Sync timer of the host port runs
    signaling,   \* the Signaling timer runs
    stop,        \* c->stop
    crashed      \* a null pointer was dereferenced

tables == <<fm, best, cbest, best_id, pds>>
timers == <<ann, qual, fault>>
works  == <<annw, qualw, faultw>>
syncs  == <<tx_sync, signaling>>
vars == <<state, no_link, last_fault, tables, timers, works, rxq, syncs, stop, crashed>>

Class == OwnKey[2]
Threshold == IF Gptp THEN 1 ELSE 3      \* FOREIGN_MASTER_THRESHOLD
Following == {"UNCALIBRATED", "SLAVE"}
Null2 == <<0, 0>>

\* clock_default_ds; bmca_decision sets tx.port to the port it decides for.
clock_default_ds(port) ==
    [key |-> OwnKey, id |-> OwnId, steps |-> 0,
     tx |-> [clock |-> OwnId, port |-> port], rx |-> [clock |-> OwnId, port |-> 0]]

announce_to_dataset(a, p) ==
    [key |-> a.key, id |-> a.id, steps |-> a.steps, tx |-> a.tx,
     rx |-> [clock |-> OwnId, port |-> p]]

Entry == [valid : BOOLEAN, cnt : 0..3, dataset : Dataset]
FreeEntry == [valid |-> FALSE, cnt |-> 0, dataset |-> clock_default_ds(0)]

\* ptp_update_parent_ds(c, f), with NULL for the clock itself.
ptp_update_parent_ds(ds) ==
    IF ds = NULL
    THEN [gm |-> OwnId, key |-> OwnKey, parent |-> [clock |-> OwnId, port |-> 0], steps |-> 0]
    ELSE [gm |-> ds.id, key |-> ds.key, parent |-> ds.tx, steps |-> ds.steps + 1]

\* The part of two data sets that dataset_cmp compares.
dataset_cmp(old, new) ==
    old.key # new.key \/ old.id # new.id \/ old.steps # new.steps

-----------------------------------------------------------------------------
(***************************************************************************)
(* The transition tables of the ports and of the host port.                *)
(***************************************************************************)
ReadyMaster == IF Gptp THEN "MASTER" ELSE "PRE_MASTER"

port_event(s, event) ==
    CASE event = "FAULT_SET" /\ s \notin {"INIT", "FAULTY", "DISABLED"} -> "FAULTY"
      [] event = "FAULT_CLEAR" /\ s = "FAULTY" -> "INITIALIZING"
      [] event = "ANNOUNCE_TIMEOUT" /\ s = "LISTENING" /\ Class # SlaveOnly -> ReadyMaster
      [] event = "ANNOUNCE_TIMEOUT" /\ s = "PASSIVE" -> "MASTER"
      [] event = "ANNOUNCE_TIMEOUT" /\ s \in Following ->
            IF Class # SlaveOnly THEN "MASTER" ELSE "LISTENING"
      [] event = "QUALIFICATION_TIMEOUT" /\ s = "PRE_MASTER" -> "MASTER"
      [] event = "BECOME_SLAVE" /\ s \in {"LISTENING", "PRE_MASTER", "MASTER", "PASSIVE"} ->
            "UNCALIBRATED"
      [] event = "READY_MASTER" /\ s \in {"LISTENING", "PASSIVE"} \cup Following -> ReadyMaster
      [] event = "BECOME_MASTER" /\ s \in {"LISTENING", "PRE_MASTER", "PASSIVE"} \cup Following ->
            "MASTER"
      [] event = "BECOME_PASSIVE" /\ s \in {"LISTENING", "PRE_MASTER", "MASTER"} \cup Following ->
            "PASSIVE"
      [] event = "CLOCK_STABLE" /\ s = "UNCALIBRATED" -> "SLAVE"
      [] event = "CLOCK_UNSTABLE" /\ s = "SLAVE" -> "UNCALIBRATED"
      [] OTHER -> s

\* Mutant: a host port that follows does not take over.
host_event_keeps_slave(s, event, allFaulty) ==
    CASE event = "BECOME_PASSIVE" -> IF allFaulty THEN "LISTENING" ELSE "PASSIVE"
      [] event = "BECOME_SLAVE" /\ s \in {"LISTENING", "PASSIVE", "MASTER"} -> "SLAVE"
      [] event = "BECOME_MASTER" /\ s \in {"LISTENING", "PASSIVE"} -> "MASTER"
      [] OTHER -> s

\* allFaulty: every port other than the host is FAULTY.
host_event(s, event, allFaulty) ==
    CASE event = "BECOME_PASSIVE" -> IF allFaulty THEN "LISTENING" ELSE "PASSIVE"
      [] event = "BECOME_SLAVE" /\ s \in {"LISTENING", "PASSIVE", "MASTER"} -> "SLAVE"
      [] event = "BECOME_MASTER" /\ s \in {"LISTENING", "PASSIVE", "SLAVE"} -> "MASTER"
      [] OTHER -> s

(***************************************************************************)
(* What port_set_state does besides changing the state.  A port that       *)
(* enters INITIALIZING leaves it at once through port_initialize.          *)
(***************************************************************************)
\* Mutant: a port that starts to follow arms no announce timeout.
ArmsAnnounce_not_following(old, new) ==
    old # new /\ Class # SlaveOnly /\ new \in {"LISTENING", "PASSIVE"}

ArmsAnnounce(old, new) ==
    old # new /\ Class # SlaveOnly /\ new \in {"LISTENING", "PASSIVE"} \cup Following

ArmsQualification(old, new) == old # new /\ ~Gptp /\ new = "PRE_MASTER"

Starts(old, new) == old # new /\ new \in Following
Leaves(old, new) == old \in Following /\ new \notin Following

\* The Signaling timer after the ports go from old to new in port order: the
\* last port to start or leave decides.
SignalingAfter(sig, old, new) ==
    LET touched == {p \in Port : Starts(old[p], new[p]) \/ Leaves(old[p], new[p])}
    IN  IF ~Gptp \/ touched = {} THEN sig
        ELSE \E p \in touched : Starts(old[p], new[p]) /\ \A q \in touched : q <= p

\* Mutant: the timer is not stopped when the host port leaves MASTER.
TxSyncAfter_keeps(tx, old, new) ==
    \/ old[0] # "MASTER" /\ new[0] = "MASTER"
    \/ tx /\ ~(\E p \in Port : Starts(old[p], new[p]))

\* The Sync timer after the ports and then the host go from old to new.
TxSyncAfter(tx, old, new) ==
    \/ old[0] # "MASTER" /\ new[0] = "MASTER"
    \/ /\ tx
       /\ ~(\E p \in Port : Starts(old[p], new[p]))
       /\ ~(old[0] = "MASTER" /\ new[0] # "MASTER")

-----------------------------------------------------------------------------
(***************************************************************************)
(* handle_state_decision, the last call of most handlers.  Its argument m  *)
(* is what the handler has made of the variables before the call; Now is   *)
(* their value before the handler.                                         *)
(***************************************************************************)
Now == [st |-> state, tab |-> fm, pd |-> pds, armed |-> ann, quals |-> qual,
        sig |-> signaling, tx |-> tx_sync]

PortBest(tab, p) ==
    LET i == find_best_master(tab[p])
    IN  IF i = NoSlot THEN NULL ELSE tab[p][i].dataset

\* scan[i] is the port whose best entry is the best of ports 1..i.
IsScan(tab, scan) ==
    /\ scan[0] = 0
    /\ \A i \in Port :
          scan[i] = IF /\ PortBest(tab, i) # NULL
                       /\ \/ scan[i - 1] = 0
                          \/ Better(PortBest(tab, i), PortBest(tab, scan[i - 1]))
                    THEN i
                    ELSE scan[i - 1]

\* The port that c->best comes from, 0 when no data set beats the clock's own.
BestPort(tab, e) ==
    IF e # 0 /\ Better(PortBest(tab, e), clock_default_ds(0)) THEN e ELSE 0

ClockBest(tab, b) == IF b = 0 THEN NULL ELSE PortBest(tab, b)

Decision(st, tab, b, p) ==
    bmca_decision(Class, clock_default_ds(p), ClockBest(tab, b), b, p,
                  PortBest(tab, p), st[p])

EventOf(decision) ==
    CASE decision = "LISTENING"  -> "NONE"
      [] decision = "PRE_MASTER" -> "READY_MASTER"
      [] decision = "MASTER"     -> "BECOME_MASTER"
      [] decision = "PASSIVE"    -> "BECOME_PASSIVE"
      [] decision = "SLAVE"      -> "BECOME_SLAVE"
      [] OTHER                   -> "FAULT_SET"

PortsAfter(st, tab, b) ==
    [p \in Port |-> port_event(st[p], EventOf(Decision(st, tab, b, p)))]

HostAfter(st, tab, b) ==
    LET ports == PortsAfter(st, tab, b)
        have_slave == \E p \in Port : Decision(st, tab, b, p) = "SLAVE"
        have_master == \E p \in Port :
            Decision(st, tab, b, p) = "MASTER" \/ ports[p] = "MASTER"
    IN  host_event(st[0],
                   IF have_slave THEN "BECOME_SLAVE"
                   ELSE IF have_master THEN "BECOME_MASTER" ELSE "BECOME_PASSIVE",
                   \A p \in Port : ports[p] = "FAULTY")

StatesAfter(st, tab, b) ==
    [p \in AnyPort |-> IF p = 0 THEN HostAfter(st, tab, b) ELSE PortsAfter(st, tab, b)[p]]

\* Mutant: p->best is chosen from the table as it was before the handler.
BestAfter_stale(tab) == [p \in Port |-> find_best_master(fm[p])]

\* p->best of every port.
BestAfter(tab) == [p \in Port |-> find_best_master(tab[p])]

\* What the decision does once the port b of c->best and the new states are known.
Decide(m, b, new) ==
    LET ds  == ClockBest(m.tab, b)
        id  == IF b = 0 THEN OwnId ELSE ds.id
    IN  /\ fm' = m.tab
        /\ best' = BestAfter(m.tab)
        /\ cbest' = IF b = 0 THEN Null2 ELSE <<b, find_best_master(m.tab[b])>>
        /\ best_id' = id
        /\ pds' = IF id # best_id THEN ptp_update_parent_ds(ds) ELSE m.pd
        /\ state' = new
        /\ ann' = m.armed \cup {p \in Port : ArmsAnnounce(m.st[p], new[p])}
        /\ qual' = m.quals \cup {p \in Port : ArmsQualification(m.st[p], new[p])}
        /\ signaling' = SignalingAfter(m.sig, m.st, new)
        /\ tx_sync' = TxSyncAfter(m.tx, m.st, new)

\* The singleton sets make TLC evaluate m and the new states once.
handle_state_decision(handed) ==
    \E m \in {handed} :
    \E scan \in [AnyPort -> AnyPort] :
        /\ IsScan(m.tab, scan)
        /\ \E b \in {BestPort(m.tab, scan[N])} :
           \E new \in {StatesAfter(m.st, m.tab, b)} : Decide(m, b, new)

\* The variables that a decision may change.
decided == <<state, tables, ann, qual, syncs>>

-----------------------------------------------------------------------------
(***************************************************************************)
(* Announce messages: handle_announce in the receive thread, under the     *)
(* conditions of ptp_rx, and proc_announce in ptp_process_task.            *)
(***************************************************************************)
\* Mutant: a DISABLED port still receives.
Receiving_disabled == State \ {"INIT", "INITIALIZING", "FAULTY"}

\* The states in which ptp_rx and proc_announce do not drop a message.
Receiving == State \ {"INIT", "INITIALIZING", "FAULTY", "DISABLED"}
Maintaining == {"PASSIVE"} \cup Following

\* Announces of this clock itself show that two of its ports are connected.
HandleAnnounce(p, a) ==
    /\ ~crashed
    /\ state[p] \in Receiving
    /\ a.steps < 255
    /\ \/ /\ a.tx.clock = OwnId
          /\ a.tx.port < p
          /\ state' = [state EXCEPT ![p] = "PASSIVE"]
          /\ ann' = IF state[p] = "PASSIVE" \/ Class # SlaveOnly THEN ann \cup {p} ELSE ann
          /\ signaling' = SignalingAfter(signaling, state, state')
          /\ UNCHANGED rxq
       \/ /\ a.tx.clock # OwnId
          /\ ~a.looped
          /\ Len(rxq) < QMax
          /\ rxq' = Append(rxq, [port |-> p, ds |-> announce_to_dataset(a, p)])
          /\ UNCHANGED <<state, ann, signaling>>
    /\ UNCHANGED <<no_link, last_fault, tables, qual, fault, works, tx_sync, stop, crashed>>

\* Whether ds makes the entry f of the table valid, and whether it changes it.
MeetsThreshold(f) == f.cnt = Threshold - 1

\* Mutant: a valid entry is not compared any more.
Differs_above(f, ds) == f.cnt > Threshold /\ dataset_cmp(f.dataset, ds)

Differs(f, ds) == f.cnt > 1 /\ dataset_cmp(f.dataset, ds)

\* Mutant: a valid entry is still counted.
AddedEntry_counts_on(f, ds) ==
    [valid   |-> f.valid \/ MeetsThreshold(f),
     cnt     |-> f.cnt + 1,
     dataset |-> IF f.cnt = 0 \/ Differs(f, ds) THEN ds ELSE f.dataset]

AddedEntry(f, ds) ==
    [valid   |-> f.valid \/ MeetsThreshold(f),
     cnt     |-> IF f.valid THEN f.cnt ELSE f.cnt + 1,
     dataset |-> IF f.cnt = 0 \/ Differs(f, ds) THEN ds ELSE f.dataset]

add_foreign_master(p, ds) ==
    LET i   == find_foreign_master(fm[p], ds)
        f   == fm[p][i]
        tab == [fm EXCEPT ![p][i] = AddedEntry(f, ds)]
    IN  \/ i = NoSlot /\ UNCHANGED decided
        \/ /\ i # NoSlot
           /\ MeetsThreshold(f) \/ Differs(f, ds)
           /\ handle_state_decision([Now EXCEPT !.tab = tab, !.armed = @ \cup {p}])
        \/ /\ i # NoSlot
           /\ ~(MeetsThreshold(f) \/ Differs(f, ds))
           /\ fm' = tab
           /\ ann' = ann \cup {p}
           /\ UNCHANGED <<state, best, cbest, best_id, pds, qual, syncs>>

update_current_master(p, ds) ==
    LET f     == fm[p][best[p]]
        armed == ann \cup {p} \cup (IF state[p] = "PASSIVE" THEN {} ELSE {0})
        diff  == f.cnt > 0 /\ dataset_cmp(f.dataset, ds)
        tab   == [fm EXCEPT ![p][best[p]].dataset = ds]
    IN  \/ /\ f.dataset.tx # ds.tx
           /\ add_foreign_master(p, ds)
        \/ /\ f.dataset.tx = ds.tx
           /\ diff
           /\ handle_state_decision([Now EXCEPT !.tab = tab, !.armed = armed,
                                                !.pd = ptp_update_parent_ds(ds)])
        \/ /\ f.dataset.tx = ds.tx
           /\ ~diff
           /\ ann' = armed
           /\ UNCHANGED <<state, tables, qual, syncs>>

\* p->best is read without a check in the states that maintain a master.
ProcAnnounce ==
    /\ ~crashed
    /\ rxq # <<>>
    /\ rxq' = Tail(rxq)
    /\ LET p == Head(rxq).port
           ds == Head(rxq).ds
           null == state[p] \in Maintaining /\ best[p] = NoSlot
       IN  /\ crashed' = null
           /\ \/ (state[p] \notin Receiving \/ null) /\ UNCHANGED decided
              \/ state[p] \in Maintaining /\ ~null /\ update_current_master(p, ds)
              \/ state[p] \in Receiving \ Maintaining /\ add_foreign_master(p, ds)
    /\ UNCHANGED <<no_link, last_fault, fault, works, stop>>

-----------------------------------------------------------------------------
(***************************************************************************)
(* Timers and works.  A timer's callback schedules the work of its port    *)
(* unless the port is DISABLED; the works run in the schedule thread.      *)
(***************************************************************************)
\* Mutant: the timeout of a port that still listens is ignored.
AnnTimer_maintaining(p) ==
    /\ ~crashed
    /\ p \in ann
    /\ ann' = ann \ {p}
    /\ annw' = IF state[p] \in Maintaining THEN annw \cup {p} ELSE annw
    /\ UNCHANGED <<state, no_link, last_fault, tables, qual, fault, qualw, faultw,
                   rxq, syncs, stop, crashed>>

AnnTimer(p) ==
    /\ ~crashed
    /\ p \in ann
    /\ ann' = ann \ {p}
    /\ annw' = IF state[p] = "DISABLED" THEN annw ELSE annw \cup {p}
    /\ UNCHANGED <<state, no_link, last_fault, tables, qual, fault, qualw, faultw,
                   rxq, syncs, stop, crashed>>

QualTimer(p) ==
    /\ ~crashed
    /\ p \in qual
    /\ qual' = qual \ {p}
    /\ qualw' = IF state[p] = "DISABLED" THEN qualw ELSE qualw \cup {p}
    /\ UNCHANGED <<state, no_link, last_fault, tables, ann, fault, annw, faultw,
                   rxq, syncs, stop, crashed>>

\* Mutant: the timeout of a port without a link is ignored.
FaultTimer_linked(p) ==
    /\ ~crashed
    /\ p \in fault
    /\ fault' = fault \ {p}
    /\ faultw' = IF no_link[p] THEN faultw ELSE faultw \cup {p}
    /\ UNCHANGED <<state, no_link, last_fault, tables, ann, qual, annw, qualw,
                   rxq, syncs, stop, crashed>>

FaultTimer(p) ==
    /\ ~crashed
    /\ p \in fault
    /\ fault' = fault \ {p}
    /\ faultw' = IF state[p] = "DISABLED" THEN faultw ELSE faultw \cup {p}
    /\ UNCHANGED <<state, no_link, last_fault, tables, ann, qual, annw, qualw,
                   rxq, syncs, stop, crashed>>

\* port_set_state(p, s) on the way to a decision: s is never a following state.
\* Entering INITIALIZING runs port_initialize.
SetState(m, p, s, nolink, lastfault) ==
    LET t   == IF s # "INITIALIZING" THEN s ELSE IF nolink THEN "FAULTY" ELSE "LISTENING"
        st  == [m.st EXCEPT ![p] = t]
        arm == IF s = "INITIALIZING"
               THEN ~nolink /\ Class # SlaveOnly /\ ~lastfault
               ELSE ArmsAnnounce(m.st[p], s)
    IN  [m EXCEPT !.st = st,
                  !.armed = IF arm THEN @ \cup {p} ELSE @,
                  !.quals = IF ArmsQualification(m.st[p], s) THEN @ \cup {p} ELSE @,
                  !.sig = SignalingAfter(@, m.st, st)]

\* port_announce_timeout: the best entry of the port is forgotten.
Forget(p) ==
    IF best[p] = NoSlot THEN fm
    ELSE [fm EXCEPT ![p][best[p]] = [valid |-> FALSE, cnt |-> 0, dataset |-> @.dataset]]

\* The host port has no table; its timeout only causes a decision.
AnnWork(p) ==
    /\ ~crashed
    /\ p \in annw
    /\ annw' = annw \ {p}
    /\ handle_state_decision(
          IF p = 0 THEN Now
          ELSE SetState([Now EXCEPT !.tab = Forget(p)], p,
                        port_event(state[p], "ANNOUNCE_TIMEOUT"), no_link[p], last_fault[p]))
    /\ UNCHANGED <<no_link, last_fault, fault, qualw, faultw, rxq, stop, crashed>>

QualWork(p) ==
    /\ ~crashed
    /\ p \in qualw
    /\ qualw' = qualw \ {p}
    /\ handle_state_decision(
          SetState(Now, p, port_event(state[p], "QUALIFICATION_TIMEOUT"),
                   no_link[p], last_fault[p]))
    /\ UNCHANGED <<no_link, last_fault, fault, annw, faultw, rxq, stop, crashed>>

\* Mutant: the end of a fault brings a port without a link back.
FaultWork_ignores_link(p) ==
    /\ ~crashed
    /\ p \in faultw
    /\ faultw' = faultw \ {p}
    /\ last_fault' = [last_fault EXCEPT ![p] = FALSE]
    /\ handle_state_decision(
          SetState(Now, p, port_event(state[p], "FAULT_CLEAR"), FALSE, FALSE))
    /\ UNCHANGED <<no_link, fault, annw, qualw, rxq, stop, crashed>>

FaultWork(p) ==
    /\ ~crashed
    /\ p \in faultw
    /\ faultw' = faultw \ {p}
    /\ last_fault' = [last_fault EXCEPT ![p] = FALSE]
    /\ \/ no_link[p] /\ UNCHANGED decided
       \/ ~no_link[p] /\ handle_state_decision(
             SetState(Now, p, port_event(state[p], "FAULT_CLEAR"), FALSE, FALSE))
    /\ UNCHANGED <<no_link, fault, annw, qualw, rxq, stop, crashed>>

-----------------------------------------------------------------------------
(***************************************************************************)
(* Link changes (notify thread), faults and servo results (receive and     *)
(* process threads), and the commands that stop and start the clock.       *)
(***************************************************************************)
DecideUnlessStopped(m) ==
    \/ ~stop /\ handle_state_decision(m)
    \/ stop /\ state' = m.st /\ ann' = m.armed /\ qual' = m.quals /\ signaling' = m.sig
            /\ UNCHANGED <<tables, tx_sync>>

LinkUp(p) ==
    /\ ~crashed
    /\ no_link' = [no_link EXCEPT ![p] = FALSE]
    /\ DecideUnlessStopped(
          SetState(Now, p,
                   IF last_fault[p] THEN state[p] ELSE port_event(state[p], "FAULT_CLEAR"),
                   FALSE, last_fault[p]))
    /\ UNCHANGED <<last_fault, fault, works, rxq, stop, crashed>>

LinkDown(p) ==
    /\ ~crashed
    /\ no_link' = [no_link EXCEPT ![p] = TRUE]
    /\ DecideUnlessStopped(
          SetState(Now, p, port_event(state[p], "FAULT_SET"), TRUE, last_fault[p]))
    /\ UNCHANGED <<last_fault, fault, works, rxq, stop, crashed>>

\* Too many peer delay responses: port_set_fault_timeout, with no decision.
SetFault(p) ==
    /\ ~crashed
    /\ state[p] \in Receiving
    /\ last_fault' = [last_fault EXCEPT ![p] = TRUE]
    /\ fault' = fault \cup {p}
    /\ state' = [state EXCEPT ![p] = port_event(@, "FAULT_SET")]
    /\ signaling' = SignalingAfter(signaling, state, state')
    /\ UNCHANGED <<no_link, tables, ann, qual, works, rxq, tx_sync, stop, crashed>>

\* The servo locks or loses the master: port_sync.
Servo(p, event) ==
    /\ ~crashed
    /\ state[p] \in Following
    /\ state' = [state EXCEPT ![p] = port_event(@, event)]
    /\ ann' = IF ArmsAnnounce(state[p], state'[p]) THEN ann \cup {p} ELSE ann
    /\ signaling' = SignalingAfter(signaling, state, state')
    /\ tx_sync' = TxSyncAfter(tx_sync, state, state')
    /\ UNCHANGED <<no_link, last_fault, tables, qual, fault, works, rxq, stop, crashed>>

\* clock_stop and reset_ptp_clock; scheduled works and queued messages stay.
ClockStop ==
    /\ ~crashed
    /\ ~stop
    /\ stop' = TRUE
    /\ state' = [p \in AnyPort |-> "DISABLED"]
    /\ ann' = {} /\ qual' = {} /\ fault' = {}
    /\ tx_sync' = FALSE /\ signaling' = FALSE
    /\ best_id' = NoId
    /\ UNCHANGED <<no_link, last_fault, fm, best, cbest, pds, works, rxq, crashed>>

\* clock_start.  init_work on a work that is still scheduled may drop it.
ClockStart ==
    /\ ~crashed
    /\ stop
    /\ stop' = FALSE
    /\ annw' \in SUBSET annw /\ qualw' \in SUBSET qualw /\ faultw' \in SUBSET faultw
    /\ handle_state_decision(
          [st |-> [p \in AnyPort |-> IF p # 0 /\ no_link[p] THEN "FAULTY" ELSE "LISTENING"],
           tab |-> [p \in Port |-> [i \in Slot |-> FreeEntry]],
           pd |-> ptp_update_parent_ds(NULL),
           armed |-> ann \cup {p \in Port : ~no_link[p] /\ Class # SlaveOnly /\ ~last_fault[p]},
           quals |-> qual,
           sig |-> signaling,
           tx |-> tx_sync /\ state[0] # "MASTER"])
    /\ UNCHANGED <<no_link, last_fault, fault, rxq, crashed>>

Init ==
    /\ state = [p \in AnyPort |-> IF p = 0 THEN "INIT" ELSE "DISABLED"]
    /\ no_link = [p \in Port |-> TRUE]
    /\ last_fault = [p \in Port |-> FALSE]
    /\ fm = [p \in Port |-> [i \in Slot |-> FreeEntry]]
    /\ best = [p \in Port |-> NoSlot]
    /\ cbest = Null2
    /\ best_id = NoId
    /\ pds = ptp_update_parent_ds(NULL)
    /\ ann = {} /\ qual = {} /\ fault = {}
    /\ annw = {} /\ qualw = {} /\ faultw = {}
    /\ rxq = <<>>
    /\ tx_sync = FALSE /\ signaling = FALSE
    /\ stop = TRUE
    /\ crashed = FALSE

Announces ==
    \/ \E p \in Port : \E a \in Heard[p] : HandleAnnounce(p, a)
    \/ ProcAnnounce
    \/ \E p \in AnyPort : AnnTimer(p) \/ AnnWork(p)
    \/ \E p \in Port : QualTimer(p) \/ QualWork(p)
Links == \E p \in Port : LinkUp(p) \/ LinkDown(p)
Faults == \E p \in Port : SetFault(p) \/ FaultTimer(p) \/ FaultWork(p)
Servos == \E p \in Port : \E event \in {"CLOCK_STABLE", "CLOCK_UNSTABLE"} : Servo(p, event)

Next == Announces \/ Links \/ Faults \/ Servos \/ ClockStop \/ ClockStart

Spec == Init /\ [][Next]_vars

-----------------------------------------------------------------------------
(* Types of the variables. *)
Message == [port : Port, ds : Dataset]
TypeOK ==
    /\ state \in [AnyPort -> State]
    /\ no_link \in [Port -> BOOLEAN]
    /\ last_fault \in [Port -> BOOLEAN]
    /\ fm \in [Port -> [Slot -> Entry]]
    /\ best \in [Port -> Slot \cup {NoSlot}]
    /\ cbest \in (Port \X Slot) \cup {Null2}
    /\ best_id \in Clock
    /\ pds \in [gm : Clock, key : Key, parent : PortId, steps : Nat]
    /\ ann \in SUBSET AnyPort /\ annw \in SUBSET AnyPort
    /\ qual \in SUBSET Port /\ qualw \in SUBSET Port
    /\ fault \in SUBSET Port /\ faultw \in SUBSET Port
    /\ rxq \in Seq(Message)
    /\ tx_sync \in BOOLEAN /\ signaling \in BOOLEAN
    /\ stop \in BOOLEAN
    /\ crashed \in BOOLEAN

(***************************************************************************)
(* At most one port follows a master (bmca_decision: "Only one will be a   *)
(* slave port"), whatever timers, faults and restarts are in between.      *)
(***************************************************************************)
OneSlave ==
    \A p, q \in Port : state[p] \in Following /\ state[q] \in Following => p = q

(***************************************************************************)
(* No decision is missed: between handlers p->best and c->best are what    *)
(* handle_state_decision would choose from the tables as they are.  In     *)
(* particular neither points to an entry that the announce timeout freed   *)
(* or that a later Announce made worse.                                    *)
(***************************************************************************)
BestIsCurrent ==
    /\ \A p \in Port : best[p] = find_best_master(fm[p])
    /\ \E scan \in [AnyPort -> AnyPort] :
          /\ IsScan(fm, scan)
          /\ cbest[1] = BestPort(fm, scan[N])
    /\ cbest[1] # 0 => cbest[2] = best[cbest[1]]

(***************************************************************************)
(* find_foreign_master never gives one sender two entries of a table, so   *)
(* an announce timeout of the best entry forgets its sender completely.    *)
(***************************************************************************)
OneEntryPerSender ==
    \A p \in Port : \A i, j \in Slot :
        /\ fm[p][i].cnt > 0 /\ fm[p][j].cnt > 0
        /\ fm[p][i].dataset.tx = fm[p][j].dataset.tx
        => i = j

(***************************************************************************)
(* A stopped clock stays stopped: works and messages left over from before *)
(* clock_stop bring no port back to life.                                  *)
(***************************************************************************)
StoppedIsDisabled == stop => \A p \in Port : state[p] = "DISABLED"

(***************************************************************************)
(* A clock that is not slave-only never waits for a silent master: a port  *)
(* that follows one or is held passive by one has its announce timeout     *)
(* armed or about to run.                                                  *)
(***************************************************************************)
MasterIsTimed ==
    Class # SlaveOnly =>
        \A p \in Port : state[p] \in Maintaining => p \in ann \cup annw

(***************************************************************************)
(* The port a clock follows is the one its best master was heard on.       *)
(***************************************************************************)
SlaveIsBest ==
    Class # SlaveOnly =>
        \A p \in Port : state[p] \in Following => cbest[1] = p

(***************************************************************************)
(* In the default profile, and unless the clock is slave-only, the Sync    *)
(* timer runs exactly while the host port is MASTER: a clock neither keeps *)
(* sending Sync once it follows a master nor forgets to when it takes      *)
(* over, and no port follows meanwhile whose servo would stop the timer.   *)
(***************************************************************************)
SyncOfMaster ==
    ~Gptp /\ Class # SlaveOnly =>
        /\ tx_sync <=> state[0] = "MASTER"
        /\ (\E p \in Port : state[p] \in Following) => state[0] # "MASTER"

(***************************************************************************)
(* While the clock runs, a port without a link is FAULTY, and a port is    *)
(* FAULTY only without a link or during a fault: no late work, message or  *)
(* decision moves it early, whichever of link and fault goes away first.   *)
(***************************************************************************)
FaultyHasCause ==
    ~stop => \A p \in Port :
        /\ no_link[p] => state[p] = "FAULTY"
        /\ state[p] = "FAULTY" => no_link[p] \/ last_fault[p]

(***************************************************************************)
(* A clock of class 127 or better only ever leads: no port of it and not   *)
(* its host port follow a master, however good the masters it hears.       *)
(***************************************************************************)
GrandmasterLeads ==
    Class < 128 => state[0] # "SLAVE" /\ \A p \in Port : state[p] \notin Following

(***************************************************************************)
(* A fault set by port_set_fault_timeout always has its timeout armed or   *)
(* about to run; the link change that waits for it ("Need to wait for the  *)
(* full timeout before clearing fault?") waits for something.              *)
(***************************************************************************)
FaultIsTimed == \A p \in Port : ~stop /\ last_fault[p] => p \in fault \cup faultw

(***************************************************************************)
(* The host port follows exactly while a master better than this clock is  *)
(* known, whichever port, timer or link change brought the last decision   *)
(* about.                                                                  *)
(***************************************************************************)
HostAgrees == ~stop /\ Class > 127 => (state[0] = "SLAVE" <=> cbest # Null2)

(***************************************************************************)
(* The parent data set names the grandmaster that was chosen (comment in   *)
(* ptp_update_parent_ds: "There is a master better than this clock").      *)
(***************************************************************************)
ParentIsBest == ~stop /\ cbest # Null2 => pds.gm = fm[cbest[1]][cbest[2]].dataset.id

(***************************************************************************)
(* A changed Announce of a known master is acted on: after an Announce of  *)
(* the sender of an entry has been processed, the entry holds what it said *)
(* (add_foreign_master: "Need decision if significant or not same").       *)
(***************************************************************************)
AnnounceIsKept ==
    [][ProcAnnounce =>
          LET p == Head(rxq).port
              ds == Head(rxq).ds
          IN  \A i \in Slot :
                  /\ state[p] \in Receiving
                  /\ fm[p][i].valid /\ fm[p][i].dataset.tx = ds.tx
                  => ~dataset_cmp(fm'[p][i].dataset, ds)]_vars

(***************************************************************************)
(* Signaling runs on when the role of slave moves from one port to another *)
(* (port_to_slave: "Start signalling timer if not already started").       *)
(***************************************************************************)
SignalingStarted ==
    [][\A p \in Port : Gptp /\ state[p] \notin Following /\ state'[p] \in Following
                                 => signaling']_vars

(***************************************************************************)
(* update_current_master reads p->best without a check: a port that        *)
(* maintains a master must have one ("Add new one if not matched with the  *)
(* one being used").                                                       *)
(***************************************************************************)
NoNullBest == ~crashed


-----------------------------------------------------------------------------
(***************************************************************************)
(* Liveness.  The timer thread runs the callback of an expired timer, the  *)
(* schedule thread every scheduled work, ptp_process_task the queue.       *)
(***************************************************************************)
Fairness ==
    /\ WF_vars(ProcAnnounce)
    /\ \A p \in AnyPort : WF_vars(AnnTimer(p)) /\ WF_vars(AnnWork(p))
    /\ \A p \in Port : WF_vars(QualTimer(p)) /\ WF_vars(QualWork(p))
    /\ \A p \in Port : WF_vars(FaultTimer(p)) /\ WF_vars(FaultWork(p))

\* Nothing happens outside: no Announce is queued, no link changes, no fault is set.
Quiet ==
    /\ Len(rxq') <= Len(rxq)
    /\ no_link' = no_link
    /\ \A p \in Port : last_fault'[p] => last_fault[p]

(***************************************************************************)
(* A port whose link is up does not stay FAULTY.                           *)
(***************************************************************************)
FaultyRecovers ==
    \A p \in Port :
        ~stop /\ state[p] = "FAULTY" /\ ~no_link[p]
        ~> stop \/ state[p] # "FAULTY" \/ no_link[p]

(***************************************************************************)
(* When every master has fallen silent and no port is FAULTY, a clock that *)
(* is not slave-only takes over: the host port becomes MASTER, although    *)
(* each timeout forgets only one of the senders (port_announce_timeout).   *)
(* With a FAULTY port the clock may fail to take over: an entry of that    *)
(* port, whose timeout is not armed again, is still used.                  *)
(***************************************************************************)
TakesOver ==
    Class # SlaveOnly /\ <>[][Quiet]_vars
    => <>[](state[0] = "MASTER" \/ \E p \in Port : state[p] = "FAULTY")

=============================================================================
