--------------------------- MODULE PtpClockProofs ---------------------------
(***************************************************************************)
(* Proofs about PtpClock, for any number of ports, either profile, any     *)
(* attributes of the clock and any Announces that may be heard.            *)
(***************************************************************************)
EXTENDS PtpClock, BmcaProofs

\* The argument of handle_state_decision.
ParentDs == [gm : Clock, key : Key, parent : PortId, steps : Nat]
Handed == [st : [AnyPort -> State], tab : [Port -> [Slot -> Entry]], pd : ParentDs,
           armed : SUBSET AnyPort, quals : SUBSET Port, sig : BOOLEAN, tx : BOOLEAN]

\* The states of a port of a running clock.
RunningState == State \ {"INIT", "INITIALIZING", "DISABLED"}

-----------------------------------------------------------------------------
LEMMA Constants ==
    /\ N \in Nat /\ N >= 1
    /\ Port \subseteq AnyPort /\ 0 \in AnyPort /\ 0 \notin Port
    /\ OwnKey \in Key /\ OwnId \in Nat /\ Class \in Nat
    /\ AnyPort = Port \cup {0}
    /\ Port \subseteq Nat /\ AnyPort \subseteq Nat
<1>1. Class \in Nat
  BY PtpClockAssumption DEF Class, Key, KeyLen
<1>. QED  BY <1>1, PtpClockAssumption DEF Port, AnyPort, Clock, NoId

LEMMA PortEventType ==
    ASSUME NEW s \in State, NEW event
    PROVE  port_event(s, event) \in State
BY DEF port_event, State, ReadyMaster, Following

LEMMA HostEventType ==
    ASSUME NEW s \in State, NEW event, NEW allFaulty
    PROVE  host_event(s, event, allFaulty) \in State
BY DEF host_event, State

LEMMA DefaultDsType ==
    ASSUME NEW p \in Nat
    PROVE  clock_default_ds(p) \in Dataset
BY Constants DEF clock_default_ds, Dataset, PortId, Clock

LEMMA FreeEntryType == FreeEntry \in Entry
BY DefaultDsType DEF FreeEntry, Entry

LEMMA ParentType ==
    ASSUME NEW ds \in Dataset \cup {NULL}
    PROVE  ptp_update_parent_ds(ds) \in ParentDs
<1>1. CASE ds = NULL
  BY <1>1, Constants DEF ptp_update_parent_ds, ParentDs, PortId, Clock
<1>2. CASE ds # NULL
  BY <1>2 DEF ptp_update_parent_ds, ParentDs, Dataset, PortId, Clock
<1>. QED  BY <1>1, <1>2

LEMMA PortBestType ==
    ASSUME NEW tab \in [Port -> [Slot -> Entry]], NEW p \in Port
    PROVE  PortBest(tab, p) \in Dataset \cup {NULL}
BY FindBestType DEF PortBest, Entry, NoSlot

\* c->best is NULL or a data set better than the clock's own.
LEMMA BestPortType ==
    ASSUME NEW tab \in [Port -> [Slot -> Entry]], NEW e \in AnyPort
    PROVE  /\ BestPort(tab, e) \in AnyPort
           /\ BestPort(tab, e) # 0 => PortBest(tab, BestPort(tab, e)) \in Dataset
           /\ ClockBest(tab, BestPort(tab, e)) \in Dataset \cup {NULL}
<1>1. CASE e # 0 /\ Better(PortBest(tab, e), clock_default_ds(0))
  <2>1. e \in Port /\ BestPort(tab, e) = e
    BY <1>1, Constants DEF BestPort
  <2>2. PortBest(tab, e) # NULL
    BY <1>1, BetterIsData, DefaultDsType
  <2>. QED  BY <2>1, <2>2, <1>1, PortBestType, Constants DEF ClockBest
<1>2. CASE ~(e # 0 /\ Better(PortBest(tab, e), clock_default_ds(0)))
  BY <1>2, Constants DEF BestPort, ClockBest
<1>. QED  BY <1>1, <1>2

-----------------------------------------------------------------------------
(***************************************************************************)
(* What bmca_decision recommends to a port, and what becomes of its state. *)
(***************************************************************************)
LEMMA DecisionIs ==
    ASSUME NEW st \in [AnyPort -> State], NEW tab, NEW b \in AnyPort, NEW p \in Port
    PROVE  LET d == Decision(st, tab, b, p)
           IN  /\ d \in {"LISTENING", "PRE_MASTER", "MASTER", "PASSIVE", "SLAVE", "FAULTY"}
               /\ d = "FAULTY" => st[p] = "FAULTY"
               /\ d = "SLAVE" => p = b
               /\ d = "LISTENING" => st[p] = "LISTENING" \/ (b = 0 /\ Class = SlaveOnly)
<1>1. b = 0 => Better(clock_default_ds(p), ClockBest(tab, b))
  BY Zenon, DefaultDsType, BetterThanNull, Constants DEF ClockBest
<1>. QED  BY <1>1 DEF Decision, bmca_decision, SlaveOnly

LEMMA PortAfterIs ==
    ASSUME NEW st \in [AnyPort -> State], NEW tab, NEW b \in AnyPort, NEW p \in Port
    PROVE  LET new == port_event(st[p], EventOf(Decision(st, tab, b, p)))
           IN  /\ new \in State
               /\ new = "FAULTY" <=> st[p] = "FAULTY"
               /\ st[p] = "DISABLED" => new = "DISABLED"
               /\ st[p] \in RunningState => new \in RunningState
               /\ new \in Following =>
                     p = b \/ (b = 0 /\ Class = SlaveOnly /\ new = st[p])
<1>. DEFINE d == Decision(st, tab, b, p)
<1>. DEFINE new == port_event(st[p], EventOf(d))
<1>1. /\ d \in {"LISTENING", "PRE_MASTER", "MASTER", "PASSIVE", "SLAVE", "FAULTY"}
      /\ d = "FAULTY" => st[p] = "FAULTY"
      /\ d = "SLAVE" => p = b
      /\ d = "LISTENING" => st[p] = "LISTENING" \/ (b = 0 /\ Class = SlaveOnly)
  BY DecisionIs
<1>2. st[p] \in State
  BY Constants
<1>3. new \in State
  BY <1>2, PortEventType
<1>4. CASE d = "LISTENING" \/ d = "FAULTY"
  <2>1. EventOf(d) \in {"NONE", "FAULT_SET"} /\ (EventOf(d) = "FAULT_SET" => st[p] = "FAULTY")
    BY <1>1, <1>4 DEF EventOf
  <2>2. new = st[p]
    BY Zenon, <2>1 DEF port_event
  <2>. QED  BY <1>1, <1>2, <1>4, <2>2 DEF Following
<1>5. CASE d = "PRE_MASTER"
  BY <1>2, <1>3, <1>5 DEF EventOf, port_event, ReadyMaster, RunningState, Following, State
<1>6. CASE d = "MASTER"
  BY <1>2, <1>3, <1>6 DEF EventOf, port_event, RunningState, Following, State
<1>7. CASE d = "PASSIVE"
  BY <1>2, <1>3, <1>7 DEF EventOf, port_event, RunningState, Following, State
<1>8. CASE d = "SLAVE"
  BY <1>1, <1>2, <1>3, <1>8 DEF EventOf, port_event, RunningState, Following, State
<1>. QED  BY <1>1, <1>4, <1>5, <1>6, <1>7, <1>8

(***************************************************************************)
(* handle_state_decision: the effect of a decision on what it is handed.   *)
(***************************************************************************)
Chosen(m, b) ==
    /\ b \in AnyPort
    /\ b # 0 => PortBest(m.tab, b) \in Dataset
    /\ Decide(m, b, StatesAfter(m.st, m.tab, b))
    /\ \E scan \in [AnyPort -> AnyPort] :
          IsScan(m.tab, scan) /\ b = BestPort(m.tab, scan[N])

LEMMA DecisionChooses ==
    ASSUME NEW m \in Handed, handle_state_decision(m)
    PROVE  \E b : Chosen(m, b)
<1>1. PICK scan \in [AnyPort -> AnyPort] :
        /\ IsScan(m.tab, scan)
        /\ Decide(m, BestPort(m.tab, scan[N]), StatesAfter(m.st, m.tab, BestPort(m.tab, scan[N])))
  BY DEF handle_state_decision
<1>2. scan[N] \in AnyPort
  BY Constants DEF AnyPort
<1>3. m.tab \in [Port -> [Slot -> Entry]]
  BY DEF Handed
<1>4. Chosen(m, BestPort(m.tab, scan[N]))
  BY <1>1, <1>2, <1>3, BestPortType DEF Chosen
<1>. QED  BY <1>4

LEMMA SignalingType ==
    ASSUME NEW sig \in BOOLEAN, NEW old, NEW new
    PROVE  SignalingAfter(sig, old, new) \in BOOLEAN
BY Zenon DEF SignalingAfter

LEMMA TxSyncType ==
    ASSUME NEW tx, NEW old, NEW new
    PROVE  TxSyncAfter(tx, old, new) \in BOOLEAN
BY DEF TxSyncAfter

LEMMA DecisionType ==
    ASSUME TypeOK, NEW m \in Handed, handle_state_decision(m)
    PROVE  /\ state' \in [AnyPort -> State]
           /\ fm' = m.tab /\ fm' \in [Port -> [Slot -> Entry]]
           /\ best' \in [Port -> Slot \cup {NoSlot}]
           /\ cbest' \in (Port \X Slot) \cup {Null2}
           /\ best_id' \in Clock /\ pds' \in ParentDs
           /\ ann' \in SUBSET AnyPort /\ qual' \in SUBSET Port
           /\ signaling' \in BOOLEAN /\ tx_sync' \in BOOLEAN
<1>1. PICK b : Chosen(m, b)
  BY DecisionChooses
<1>. DEFINE new == StatesAfter(m.st, m.tab, b)
<1>2. /\ m.st \in [AnyPort -> State] /\ m.tab \in [Port -> [Slot -> Entry]]
      /\ m.pd \in ParentDs /\ m.armed \in SUBSET AnyPort /\ m.quals \in SUBSET Port
      /\ m.sig \in BOOLEAN
      /\ b \in AnyPort
      /\ b # 0 => b \in Port /\ PortBest(m.tab, b) \in Dataset
  BY <1>1, Constants DEF Handed, Chosen
<1>3. Decide(m, b, new)
  BY <1>1 DEF Chosen
<1>4. new \in [AnyPort -> State]
  <2>1. \A p \in Port : PortsAfter(m.st, m.tab, b)[p] \in State
    BY <1>2, PortAfterIs DEF PortsAfter
  <2>2. HostAfter(m.st, m.tab, b) \in State
    BY Zenon, <1>2, HostEventType, Constants DEF HostAfter
  <2>. QED  BY <2>1, <2>2, Constants DEF StatesAfter
<1>5. state' \in [AnyPort -> State] /\ fm' = m.tab
  BY <1>3, <1>4 DEF Decide
<1>6. /\ best' \in [Port -> Slot \cup {NoSlot}]
      /\ cbest' \in (Port \X Slot) \cup {Null2}
  <2>1. best' \in [Port -> Slot \cup {NoSlot}]
    BY <1>3, FindBestType DEF Decide, BestAfter
  <2>2. b # 0 => find_best_master(m.tab[b]) \in Slot
    BY Zenon, <1>2, NullAssumption, FindBestType DEF PortBest
  <2>3. cbest' \in (Port \X Slot) \cup {Null2}
    BY Zenon, <1>2, <1>3, <2>2 DEF Decide
  <2>. QED  BY Zenon, <2>1, <2>3
<1>7. best_id' \in Clock /\ pds' \in ParentDs
  <2>1. ClockBest(m.tab, b) \in Dataset \cup {NULL}
    BY <1>2 DEF ClockBest
  <2>2. ptp_update_parent_ds(ClockBest(m.tab, b)) \in ParentDs
    BY <2>1, ParentType
  <2>3. b # 0 => ClockBest(m.tab, b).id \in Clock
    BY Zenon, <1>2 DEF ClockBest, Dataset
  <2>. QED  BY <1>2, <1>3, <2>2, <2>3, Constants DEF Decide, Clock
<1>8. ann' \in SUBSET AnyPort /\ qual' \in SUBSET Port
  BY Zenon, <1>2, <1>3, Constants DEF Decide, TypeOK
<1>9. signaling' \in BOOLEAN /\ tx_sync' \in BOOLEAN
  BY Zenon, <1>2, <1>3, SignalingType, TxSyncType DEF Decide
<1>. QED  BY <1>2, <1>5, <1>6, <1>7, <1>8, <1>9

(***************************************************************************)
(* What a decision guarantees, whatever handler calls it.                  *)
(***************************************************************************)
OneFollows(st) == \A p, q \in Port : st[p] \in Following /\ st[q] \in Following => p = q

LEMMA DecisionEffect ==
    ASSUME NEW m \in Handed, handle_state_decision(m)
    PROVE  /\ \A p \in Port :
                 /\ state'[p] = "FAULTY" <=> m.st[p] = "FAULTY"
                 /\ m.st[p] = "DISABLED" => state'[p] = "DISABLED"
                 /\ m.st[p] \in RunningState => state'[p] \in RunningState
           /\ OneFollows(m.st) => OneSlave'
           /\ SlaveIsBest'
           /\ m.armed \subseteq ann'
           /\ Class # SlaveOnly => \A p \in Port :
                 state'[p] \in Maintaining => state'[p] = m.st[p] \/ p \in ann'
           /\ BestIsCurrent'
<1>1. PICK b : Chosen(m, b)
  BY DecisionChooses
<1>. DEFINE new == StatesAfter(m.st, m.tab, b)
<1>2. m.st \in [AnyPort -> State] /\ b \in AnyPort
  BY Zenon, <1>1 DEF Handed, Chosen
<1>3. /\ state' = new /\ fm' = m.tab
      /\ best' = [p \in Port |-> find_best_master(m.tab[p])]
      /\ cbest' = IF b = 0 THEN Null2 ELSE <<b, find_best_master(m.tab[b])>>
      /\ ann' = m.armed \cup {p \in Port : ArmsAnnounce(m.st[p], new[p])}
  BY Zenon, <1>1 DEF Chosen, Decide, BestAfter
<1>4. \A p \in Port : new[p] = port_event(m.st[p], EventOf(Decision(m.st, m.tab, b, p)))
  BY Zenon, Constants DEF StatesAfter, PortsAfter
<1>5. \A p \in Port :
        /\ state'[p] = "FAULTY" <=> m.st[p] = "FAULTY"
        /\ m.st[p] = "DISABLED" => state'[p] = "DISABLED"
        /\ m.st[p] \in RunningState => state'[p] \in RunningState
        /\ state'[p] \in Following =>
              p = b \/ (b = 0 /\ Class = SlaveOnly /\ state'[p] = m.st[p])
  BY <1>2, <1>3, <1>4, PortAfterIs
<1>6. OneFollows(m.st) => OneSlave'
  BY Zenon, <1>5, Constants DEF OneFollows, OneSlave
<1>7. SlaveIsBest'
  BY <1>3, <1>5, Constants DEF SlaveIsBest
<1>8. Class # SlaveOnly => \A p \in Port :
        state'[p] \in Maintaining => state'[p] = m.st[p] \/ p \in ann'
  BY Zenon, <1>3 DEF ArmsAnnounce, Maintaining
<1>9. BestIsCurrent'
  <2>1. cbest'[1] = b /\ (b # 0 => b \in Port /\ cbest'[2] = best'[b])
    BY <1>2, <1>3, Constants DEF Null2
  <2>2. PICK scan \in [AnyPort -> AnyPort] :
          IsScan(m.tab, scan) /\ b = BestPort(m.tab, scan[N])
    BY <1>1 DEF Chosen
  <2>. QED  BY <1>3, <2>1, <2>2 DEF BestIsCurrent
<1>. QED  BY <1>3, <1>5, <1>6, <1>7, <1>8, <1>9

-----------------------------------------------------------------------------
(***************************************************************************)
(* The inductive invariant.  Besides the properties themselves it says     *)
(* that an entry is valid exactly when its count has reached the threshold *)
(* and that the ports of a running clock are past initialization.  Its     *)
(* parts are predicates of what they are about, so that they can be stated *)
(* of the argument of a decision too.                                      *)
(***************************************************************************)
EntriesOK(tab) ==
    \A p \in Port : \A i \in Slot :
        /\ tab[p][i].cnt <= Threshold
        /\ tab[p][i].valid <=> tab[p][i].cnt = Threshold

SendersOK(tab) ==
    \A p \in Port : \A i, j \in Slot :
        /\ tab[p][i].cnt > 0 /\ tab[p][j].cnt > 0
        /\ tab[p][i].dataset.tx = tab[p][j].dataset.tx
        => i = j

CauseOK(st, stopped, nolink, lastfault) ==
    \A p \in Port :
        /\ stopped => st[p] = "DISABLED"
        /\ ~stopped => /\ st[p] \in RunningState
                       /\ nolink[p] => st[p] = "FAULTY"
                       /\ st[p] = "FAULTY" => nolink[p] \/ lastfault[p]

TimedOK(st, timed) ==
    Class # SlaveOnly => \A p \in Port : st[p] \in Maintaining => p \in timed

Inv ==
    /\ TypeOK
    /\ EntriesOK(fm) /\ SendersOK(fm)
    /\ OneFollows(state) /\ SlaveIsBest
    /\ CauseOK(state, stop, no_link, last_fault)
    /\ TimedOK(state, ann \cup annw)
    /\ BestIsCurrent

LEMMA InvImplies ==
    Inv => /\ TypeOK /\ OneSlave /\ SlaveIsBest /\ BestIsCurrent /\ OneEntryPerSender
           /\ StoppedIsDisabled /\ FaultyHasCause /\ MasterIsTimed
BY DEF Inv, OneFollows, OneSlave, SendersOK, OneEntryPerSender, CauseOK, StoppedIsDisabled,
    FaultyHasCause, TimedOK, MasterIsTimed

\* A port that is moved without making it follow, or wait for Announces, leaves the rest alone.
Moved(r, p, new) == \A q \in Port : r[q] = IF q = p THEN new ELSE state[q]

LEMMA MovedIs ==
    ASSUME NEW p \in Port, NEW new, state \in [AnyPort -> State]
    PROVE  Moved([state EXCEPT ![p] = new], p, new)
BY Constants DEF Moved

LEMMA MovedFollows ==
    ASSUME NEW p \in Port, NEW new, NEW r, Moved(r, p, new), OneFollows(state),
           new \in Following => new = state[p]
    PROVE  OneFollows(r)
<1>1. \A q \in Port : r[q] \in Following => state[q] \in Following
  BY DEF Moved
<1>. QED  BY <1>1 DEF OneFollows

LEMMA MovedTimed ==
    ASSUME NEW p \in Port, NEW new, NEW r, Moved(r, p, new), NEW more,
           TimedOK(state, ann \cup annw),
           \A q \in Port : q \in ann \cup annw => q = p \/ q \in more,
           Class # SlaveOnly /\ new \in Maintaining => p \in more
    PROVE  TimedOK(r, more)
<1>1. ASSUME Class # SlaveOnly, NEW q \in Port, r[q] \in Maintaining
      PROVE  q \in more
  <2>1. CASE q = p
    BY <1>1, <2>1 DEF Moved
  <2>2. CASE q # p
    BY <1>1, <2>2 DEF Moved, TimedOK
  <2>. QED  BY <2>1, <2>2
<1>. QED  BY <1>1 DEF TimedOK

LEMMA MovedCause ==
    ASSUME NEW p \in Port, NEW new, NEW r, Moved(r, p, new), NEW nolink, NEW lastfault,
           CauseOK(state, stop, no_link, last_fault),
           \A q \in Port : q # p => nolink[q] = no_link[q] /\ lastfault[q] = last_fault[q],
           stop => new = "DISABLED",
           ~stop => /\ new \in RunningState
                    /\ nolink[p] => new = "FAULTY"
                    /\ new = "FAULTY" => nolink[p] \/ lastfault[p]
    PROVE  CauseOK(r, stop, nolink, lastfault)
<1>1. ASSUME NEW q \in Port
      PROVE  /\ stop => r[q] = "DISABLED"
             /\ ~stop => /\ r[q] \in RunningState
                         /\ nolink[q] => r[q] = "FAULTY"
                         /\ r[q] = "FAULTY" => nolink[q] \/ lastfault[q]
  <2>1. CASE q = p
    BY Zenon, <2>1 DEF Moved
  <2>2. CASE q # p
    BY Zenon, <2>2 DEF Moved, CauseOK
  <2>. QED  BY <2>1, <2>2
<1>. QED  BY Zenon, <1>1 DEF CauseOK

\* The variables no decision touches.
OthersType ==
    /\ no_link \in [Port -> BOOLEAN]
    /\ last_fault \in [Port -> BOOLEAN]
    /\ annw \in SUBSET AnyPort /\ qualw \in SUBSET Port
    /\ fault \in SUBSET Port /\ faultw \in SUBSET Port
    /\ rxq \in Seq(Message)
    /\ stop \in BOOLEAN
    /\ crashed \in BOOLEAN

\* A handler that ends in a decision only has to hand it what is in order.
LEMMA DecisionInv ==
    ASSUME Inv, NEW m \in Handed, handle_state_decision(m), OthersType',
           EntriesOK(m.tab), SendersOK(m.tab), OneFollows(m.st),
           CauseOK(m.st, stop', no_link', last_fault'),
           TimedOK(m.st, m.armed \cup annw')
    PROVE  Inv'
<1>1. TypeOK' /\ fm' = m.tab
  BY Zenon, DecisionType DEF Inv, OthersType, TypeOK, ParentDs
<1>2. SlaveIsBest' /\ BestIsCurrent' /\ OneSlave'
  BY Zenon, DecisionEffect
<1>3. OneFollows(state)'
  BY Zenon, <1>2 DEF OneFollows, OneSlave
<1>4. EntriesOK(fm)' /\ SendersOK(fm)'
  BY Zenon, <1>1 DEF EntriesOK, SendersOK
<1>5. CauseOK(state, stop, no_link, last_fault)'
  BY Zenon, DecisionEffect DEF CauseOK
<1>6. TimedOK(state, ann \cup annw)'
  BY Zenon, DecisionEffect DEF TimedOK
<1>. QED  BY Zenon, <1>1, <1>2, <1>3, <1>4, <1>5, <1>6 DEF Inv

LEMMA NowHanded ==
    ASSUME TypeOK
    PROVE  /\ Now \in Handed
           /\ Now.st = state /\ Now.tab = fm /\ Now.pd = pds /\ Now.armed = ann /\ Now.quals = qual
           /\ Now.sig = signaling /\ Now.tx = tx_sync
BY DEF Now, Handed, TypeOK, ParentDs

\* port_set_state on the way to a decision.
Reached(s, nolink) == IF s # "INITIALIZING" THEN s ELSE IF nolink THEN "FAULTY" ELSE "LISTENING"

IsSet(r, m, p, s, nolink) ==
    /\ r \in Handed
    /\ r.tab = m.tab /\ r.tx = m.tx
    /\ r.st = [m.st EXCEPT ![p] = Reached(s, nolink)]
    /\ m.armed \subseteq r.armed

LEMMA SetStateIs ==
    ASSUME NEW m \in Handed, NEW p \in Port, NEW s \in State, NEW nolink, NEW lastfault
    PROVE  IsSet(SetState(m, p, s, nolink, lastfault), m, p, s, nolink)
<1>. DEFINE st == [m.st EXCEPT ![p] = Reached(s, nolink)]
<1>1. st \in [AnyPort -> State] /\ p \in AnyPort
  BY Constants DEF Handed, Reached, State
<1>2. SignalingAfter(m.sig, m.st, st) \in BOOLEAN
  BY SMTT(30), SignalingType DEF Handed
<1>3. PICK arm \in BOOLEAN :
        SetState(m, p, s, nolink, lastfault) =
              [m EXCEPT !.st = st, !.armed = IF arm THEN @ \cup {p} ELSE @,
                        !.quals = IF ArmsQualification(m.st[p], s) THEN @ \cup {p} ELSE @,
                        !.sig = SignalingAfter(@, m.st, st)]
  BY Zenon DEF SetState, Reached, ArmsAnnounce
<1>. DEFINE r == SetState(m, p, s, nolink, lastfault)
<1>4. /\ r.st = st /\ r.tab = m.tab /\ r.pd = m.pd /\ r.tx = m.tx
      /\ r.armed = IF arm THEN m.armed \cup {p} ELSE m.armed
      /\ r.quals = IF ArmsQualification(m.st[p], s) THEN m.quals \cup {p} ELSE m.quals
      /\ r.sig = SignalingAfter(m.sig, m.st, st)
      /\ r = [st |-> r.st, tab |-> r.tab, pd |-> r.pd, armed |-> r.armed, quals |-> r.quals,
              sig |-> r.sig, tx |-> r.tx]
  BY Zenon, <1>3 DEF Handed
<1>5. r \in Handed
  <2>1. /\ r.st \in [AnyPort -> State] /\ r.tab \in [Port -> [Slot -> Entry]]
        /\ r.pd \in ParentDs /\ r.armed \in SUBSET AnyPort /\ r.quals \in SUBSET Port
        /\ r.sig \in BOOLEAN /\ r.tx \in BOOLEAN
    BY <1>1, <1>2, <1>4 DEF Handed
  <2>. HIDE DEF r
  <2>. QED  BY Zenon, <1>4, <2>1 DEF Handed
<1>6. m.armed \subseteq r.armed
  BY <1>4
<1>. QED  BY Zenon, <1>4, <1>5, <1>6 DEF IsSet

-----------------------------------------------------------------------------
LEMMA ThresholdIs == Threshold \in {1, 3}
BY DEF Threshold

LEMMA EmptyTable ==
    LET tab == [p \in Port |-> [i \in Slot |-> FreeEntry]]
    IN  /\ tab \in [Port -> [Slot -> Entry]]
        /\ EntriesOK(tab) /\ SendersOK(tab)
        /\ \A p \in Port : find_best_master(tab[p]) = NoSlot
<1>1. FreeEntry.cnt = 0 /\ FreeEntry.valid = FALSE
  BY DEF FreeEntry
<1>. QED
  BY <1>1, FreeEntryType, ThresholdIs, SlotIs DEF EntriesOK, SendersOK, find_best_master

LEMMA InitInv == Init => Inv
<1> SUFFICES ASSUME Init  PROVE Inv
  OBVIOUS
<1>. DEFINE tab == [p \in Port |-> [i \in Slot |-> FreeEntry]]
<1>1. /\ fm = tab /\ tab \in [Port -> [Slot -> Entry]]
      /\ EntriesOK(tab) /\ SendersOK(tab)
      /\ \A p \in Port : find_best_master(tab[p]) = NoSlot
  BY EmptyTable DEF Init
<1>2. pds \in ParentDs
  BY ParentType DEF Init
<1>3. TypeOK
  <2>1. state \in [AnyPort -> State] /\ no_link \in [Port -> BOOLEAN] /\ last_fault \in [Port -> BOOLEAN]
    BY DEF Init, State
  <2>2. best \in [Port -> Slot \cup {NoSlot}] /\ cbest \in (Port \X Slot) \cup {Null2} /\ best_id \in Clock
    BY DEF Init, Clock, NoId
  <2>3. rxq \in Seq(Message)
    BY DEF Init
  <2>. QED  BY Zenon, <1>1, <1>2, <2>1, <2>2, <2>3 DEF Init, TypeOK, ParentDs
<1>4. OneFollows(state) /\ SlaveIsBest /\ CauseOK(state, stop, no_link, last_fault)
      /\ TimedOK(state, ann \cup annw)
  BY Zenon, Constants DEF Init, OneFollows, SlaveIsBest, CauseOK, TimedOK, Following, Maintaining
<1>5. BestIsCurrent
  <2>. DEFINE scan == [i \in AnyPort |-> 0]
  <2>1. \A p \in Port : PortBest(fm, p) = NULL
    BY <1>1 DEF PortBest
  <2>2. scan \in [AnyPort -> AnyPort] /\ scan[0] = 0 /\ scan[N] = 0
    BY Constants DEF AnyPort
  <2>3. \A i \in Port : i \in AnyPort /\ i - 1 \in AnyPort
    BY PtpClockAssumption DEF Port, AnyPort
  <2>4. IsScan(fm, scan)
    BY <2>1, <2>2, <2>3 DEF IsScan
  <2>5. BestPort(fm, scan[N]) = 0 /\ cbest[1] = 0
    BY <2>2 DEF BestPort, Init, Null2
  <2>. HIDE DEF scan
  <2>. QED  BY <1>1, <2>2, <2>4, <2>5 DEF BestIsCurrent, Init
<1>. QED  BY <1>1, <1>3, <1>4, <1>5 DEF Inv

-----------------------------------------------------------------------------
(***************************************************************************)
(* Timers and works.                                                       *)
(***************************************************************************)
LEMMA TimerInv ==
    ASSUME Inv, NEW p \in AnyPort, AnnTimer(p) \/ QualTimer(p) \/ FaultTimer(p),
           p = 0 => AnnTimer(p)
    PROVE  Inv'
<1>1. UNCHANGED <<state, no_link, last_fault, tables, rxq, syncs, stop, crashed>>
  BY DEF AnnTimer, QualTimer, FaultTimer
<1>2. TypeOK'
  BY ZenonT(30), <1>1, Constants DEF Inv, TypeOK, AnnTimer, QualTimer, FaultTimer, tables, syncs
<1>3. /\ EntriesOK(fm)' /\ SendersOK(fm)' /\ OneFollows(state)' /\ SlaveIsBest'
      /\ CauseOK(state, stop, no_link, last_fault)' /\ BestIsCurrent'
  BY ZenonT(30), <1>1
     DEF Inv, tables, EntriesOK, SendersOK, OneFollows, SlaveIsBest, CauseOK, BestIsCurrent
<1>4. TimedOK(state, ann \cup annw)'
  BY <1>1 DEF Inv, TimedOK, Maintaining, Following, AnnTimer, QualTimer, FaultTimer
<1>. QED  BY Zenon, <1>2, <1>3, <1>4 DEF Inv

\* Announce and qualification timeouts never fault, revive or enslave a port.
LEMMA TimeoutEventIs ==
    ASSUME NEW s \in State, NEW event \in {"ANNOUNCE_TIMEOUT", "QUALIFICATION_TIMEOUT"}
    PROVE  LET t == port_event(s, event)
           IN  /\ t \in State
               /\ t = "FAULTY" <=> s = "FAULTY"
               /\ t = "DISABLED" <=> s = "DISABLED"
               /\ t = "INITIALIZING" <=> s = "INITIALIZING"
               /\ t = "INIT" <=> s = "INIT"
               /\ t \in Maintaining => t = s
               /\ event = "ANNOUNCE_TIMEOUT" /\ Class # SlaveOnly => t \notin Maintaining
<1>1. CASE event = "ANNOUNCE_TIMEOUT"
  BY <1>1 DEF port_event, State, ReadyMaster, Following, Maintaining
<1>2. CASE event = "QUALIFICATION_TIMEOUT"
  BY <1>2 DEF port_event, State, ReadyMaster, Following, Maintaining
<1>. QED  BY <1>1, <1>2

LEMMA FreedEntry ==
    ASSUME NEW f \in Entry
    PROVE  LET e == [valid |-> FALSE, cnt |-> 0, dataset |-> f.dataset]
           IN  e \in Entry /\ e.cnt = 0 /\ e.valid = FALSE
<1>1. f.dataset \in Dataset
  BY DEF Entry
<1>. QED  BY <1>1 DEF Entry

LEMMA ForgetKeeps ==
    ASSUME Inv, NEW p \in Port
    PROVE  Forget(p) \in [Port -> [Slot -> Entry]] /\ EntriesOK(Forget(p)) /\ SendersOK(Forget(p))
<1>1. CASE best[p] = NoSlot
  BY <1>1 DEF Inv, TypeOK, Forget
<1>2. CASE best[p] # NoSlot
  <2>1. best[p] \in Slot /\ fm \in [Port -> [Slot -> Entry]]
    BY <1>2 DEF Inv, TypeOK
  <2>. DEFINE e == [valid |-> FALSE, cnt |-> 0, dataset |-> fm[p][best[p]].dataset]
  <2>a. e \in Entry /\ e.cnt = 0 /\ e.valid = FALSE
    BY <2>1, FreedEntry
  <2>b. Forget(p) = [fm EXCEPT ![p] = [fm[p] EXCEPT ![best[p]] = e]]
    BY <1>2, <2>1 DEF Forget
  <2>. HIDE DEF e
  <2>2. /\ Forget(p) \in [Port -> [Slot -> Entry]]
        /\ \A q \in Port : \A i \in Slot :
              \/ Forget(p)[q][i] = fm[q][i]
              \/ Forget(p)[q][i].cnt = 0 /\ Forget(p)[q][i].valid = FALSE
    BY <2>1, <2>a, <2>b
  <2>. HIDE DEF Forget
  <2>3. EntriesOK(Forget(p))
    BY <2>2, ThresholdIs DEF Inv, EntriesOK
  <2>4. SendersOK(Forget(p))
    BY <2>2 DEF Inv, SendersOK
  <2>. QED  BY <2>2, <2>3, <2>4
<1>. QED  BY Zenon, <1>1, <1>2

LEMMA AnnWorkInv ==
    ASSUME Inv, NEW p \in AnyPort, AnnWork(p)
    PROVE  Inv'
<1>1. OthersType' /\ UNCHANGED <<stop, no_link, last_fault>> /\ annw' = annw \ {p}
  BY Zenon DEF AnnWork, Inv, TypeOK, OthersType
<1>2. CASE p = 0
  <2>1. handle_state_decision(Now)
    BY <1>2 DEF AnnWork
  <2>2. /\ Now \in Handed /\ Now.st = state /\ Now.tab = fm /\ Now.armed = ann
    BY NowHanded DEF Inv
  <2>3. TimedOK(state, ann \cup annw')
    BY SMTT(30), <1>1, <1>2, Constants DEF Inv, TimedOK
  <2>. QED  BY Zenon, <1>1, <2>1, <2>2, <2>3, DecisionInv DEF Inv, CauseOK
<1>3. CASE p # 0
  <2>. DEFINE s == port_event(state[p], "ANNOUNCE_TIMEOUT")
  <2>. DEFINE m0 == [Now EXCEPT !.tab = Forget(p)]
  <2>. DEFINE m == SetState(m0, p, s, no_link[p], last_fault[p])
  <2>1. p \in Port /\ handle_state_decision(m)
    BY <1>3, Constants DEF AnnWork
  <2>2. m0 \in Handed /\ m0.st = state /\ m0.tab = Forget(p) /\ m0.armed = ann
    BY Zenon, <2>1, NowHanded, ForgetKeeps DEF Inv, Handed, Now
  <2>3. state[p] \in State /\ state \in [AnyPort -> State]
    BY Zenon, <2>1 DEF Inv, TypeOK
  <2>4. /\ s \in State
        /\ s = "FAULTY" <=> state[p] = "FAULTY"
        /\ s = "DISABLED" <=> state[p] = "DISABLED"
        /\ s = "INITIALIZING" <=> state[p] = "INITIALIZING"
        /\ s = "INIT" <=> state[p] = "INIT"
        /\ s \in Maintaining => s = state[p]
        /\ Class # SlaveOnly => s \notin Maintaining
    BY SMTT(30), <2>3, TimeoutEventIs
  <2>. HIDE DEF s, m0
  <2>i. IsSet(m, m0, p, s, no_link[p])
    BY Zenon, <2>1, <2>2, <2>4, SetStateIs
  <2>. HIDE DEF m
  <2>5. /\ m \in Handed /\ m.tab = Forget(p) /\ ann \subseteq m.armed
        /\ m.st = [state EXCEPT ![p] = Reached(s, no_link[p])]
    BY Zenon, <2>i, <2>2 DEF IsSet
  <2>6. m.st = [state EXCEPT ![p] = s]
    BY Zenon, <2>1, <2>4, <2>5 DEF Inv, CauseOK, Reached, RunningState
  <2>m. Moved(m.st, p, s)
    BY Zenon, <2>1, <2>3, <2>6, MovedIs
  <2>7. OneFollows(m.st)
    BY Zenon, <2>1, <2>4, <2>m, MovedFollows DEF Inv, Maintaining
  <2>8. CauseOK(m.st, stop', no_link', last_fault')
    <3>1. /\ stop => s = "DISABLED"
          /\ ~stop => /\ s \in RunningState
                      /\ no_link[p] => s = "FAULTY"
                      /\ s = "FAULTY" => no_link[p] \/ last_fault[p]
      BY <2>1, <2>4 DEF Inv, CauseOK, RunningState
    <3>. QED  BY Zenon, <1>1, <2>1, <2>m, <3>1, MovedCause DEF Inv
  <2>9. TimedOK(m.st, m.armed \cup annw')
    <3>. DEFINE more == m.armed \cup annw'
    <3>1. \A q \in Port : q \in ann \cup annw => q = p \/ q \in more
      BY <1>1, <2>5
    <3>. HIDE DEF more
    <3>2. TimedOK(m.st, more)
      BY Zenon, <2>1, <2>4, <2>m, <3>1, MovedTimed DEF Inv
    <3>. QED  BY Zenon, <3>2 DEF more
  <2>10. EntriesOK(m.tab) /\ SendersOK(m.tab)
    BY SMTT(30), <2>1, <2>5, ForgetKeeps
  <2>. QED  BY Zenon, <1>1, <2>1, <2>5, <2>7, <2>8, <2>9, <2>10, DecisionInv
<1>. QED  BY <1>2, <1>3

LEMMA QualWorkInv ==
    ASSUME Inv, NEW p \in Port, QualWork(p)
    PROVE  Inv'
<1>1. OthersType' /\ UNCHANGED <<stop, no_link, last_fault, annw>>
  BY Zenon DEF QualWork, Inv, TypeOK, OthersType
<1>. DEFINE s == port_event(state[p], "QUALIFICATION_TIMEOUT")
<1>. DEFINE m == SetState(Now, p, s, no_link[p], last_fault[p])
<1>2. handle_state_decision(m)
  BY Zenon DEF QualWork
<1>3. state[p] \in State /\ state \in [AnyPort -> State] /\ p \in AnyPort
  BY Constants DEF Inv, TypeOK
<1>4. /\ s \in State
      /\ s = "FAULTY" <=> state[p] = "FAULTY"
      /\ s = "DISABLED" <=> state[p] = "DISABLED"
      /\ s = "INITIALIZING" <=> state[p] = "INITIALIZING"
      /\ s = "INIT" <=> state[p] = "INIT"
      /\ s \in Maintaining => s = state[p]
  BY Zenon, <1>3, TimeoutEventIs
<1>. HIDE DEF s
<1>n. Now \in Handed /\ Now.st = state /\ Now.tab = fm /\ Now.armed = ann
  BY NowHanded DEF Inv
<1>i. IsSet(m, Now, p, s, no_link[p])
  BY Zenon, <1>4, <1>n, SetStateIs
<1>. HIDE DEF m
<1>5. /\ m \in Handed /\ m.tab = fm /\ ann \subseteq m.armed
      /\ m.st = [state EXCEPT ![p] = Reached(s, no_link[p])]
  BY Zenon, <1>i, <1>n DEF IsSet
<1>6. m.st = [state EXCEPT ![p] = s]
  BY Zenon, <1>4, <1>5 DEF Inv, CauseOK, Reached, RunningState
<1>m. Moved(m.st, p, s)
  BY Zenon, <1>3, <1>6, MovedIs
<1>7. OneFollows(m.st)
  BY Zenon, <1>4, <1>m, MovedFollows DEF Inv, Maintaining
<1>8. CauseOK(m.st, stop', no_link', last_fault')
  <2>1. /\ stop => s = "DISABLED"
        /\ ~stop => /\ s \in RunningState
                    /\ no_link[p] => s = "FAULTY"
                    /\ s = "FAULTY" => no_link[p] \/ last_fault[p]
    BY Zenon, <1>4 DEF Inv, CauseOK, RunningState
  <2>. QED  BY Zenon, <1>1, <1>m, <2>1, MovedCause DEF Inv
<1>9. TimedOK(m.st, m.armed \cup annw')
  <2>. DEFINE more == m.armed \cup annw'
  <2>1. \A q \in Port : q \in ann \cup annw => q \in more
    BY <1>1, <1>5
  <2>. HIDE DEF more
  <2>2. Class # SlaveOnly /\ s \in Maintaining => p \in more
    BY Zenon, <1>4, <2>1 DEF Inv, TimedOK
  <2>3. TimedOK(m.st, more)
    BY Zenon, <1>m, <2>1, <2>2, MovedTimed DEF Inv
  <2>. QED  BY Zenon, <2>3 DEF more
<1>. QED  BY Zenon, <1>1, <1>2, <1>5, <1>7, <1>8, <1>9, DecisionInv DEF Inv

\* A step without a decision that leaves the tables alone.
LEMMA PlainInv ==
    ASSUME Inv, TypeOK', UNCHANGED tables, OneFollows(state)', SlaveIsBest',
           CauseOK(state, stop, no_link, last_fault)', TimedOK(state, ann \cup annw)'
    PROVE  Inv'
BY Zenon DEF Inv, tables, EntriesOK, SendersOK, BestIsCurrent

\* FAULT_CLEAR ends in LISTENING when there is a link.
LEMMA FaultEventIs ==
    ASSUME NEW s \in State
    PROVE  /\ port_event(s, "FAULT_CLEAR") = IF s = "FAULTY" THEN "INITIALIZING" ELSE s
           /\ port_event(s, "FAULT_SET") =
                 IF s \in {"INIT", "FAULTY", "DISABLED"} THEN s ELSE "FAULTY"
BY DEF port_event

LEMMA FaultWorkInv ==
    ASSUME Inv, NEW p \in Port, FaultWork(p)
    PROVE  Inv'
<1>1. OthersType' /\ UNCHANGED <<stop, no_link, annw>>
      /\ last_fault' = [last_fault EXCEPT ![p] = FALSE]
  BY Zenon DEF FaultWork, Inv, TypeOK, OthersType
<1>2. state \in [AnyPort -> State] /\ p \in AnyPort /\ state[p] \in State
      /\ last_fault \in [Port -> BOOLEAN]
  BY Constants DEF Inv, TypeOK
<1>3. CASE no_link[p]
  <2>1. UNCHANGED decided
    BY Zenon, <1>3 DEF FaultWork
  <2>2. TypeOK'
    BY Zenon, <1>1, <2>1 DEF Inv, TypeOK, OthersType, decided, tables, syncs
  <2>3. CauseOK(state, stop, no_link, last_fault)'
    BY SMTT(30), <1>1, <1>2, <1>3, <2>1 DEF Inv, CauseOK, decided
  <2>4. OneFollows(state)' /\ SlaveIsBest' /\ TimedOK(state, ann \cup annw)' /\ UNCHANGED tables
    BY Zenon, <1>1, <2>1 DEF Inv, OneFollows, SlaveIsBest, TimedOK, decided, tables
  <2>. QED  BY Zenon, <2>2, <2>3, <2>4, PlainInv
<1>4. CASE ~no_link[p]
  <2>. DEFINE s == port_event(state[p], "FAULT_CLEAR")
  <2>. DEFINE m == SetState(Now, p, s, no_link[p], last_fault'[p])
  <2>0. no_link[p] = FALSE /\ last_fault'[p] = FALSE
    BY <1>1, <1>2, <1>4 DEF Inv, TypeOK
  <2>1. handle_state_decision(m)
    BY Zenon, <1>4, <2>0 DEF FaultWork
  <2>2. s \in State /\ s = IF state[p] = "FAULTY" THEN "INITIALIZING" ELSE state[p]
    BY <1>2, FaultEventIs DEF State
  <2>n. Now \in Handed /\ Now.st = state /\ Now.tab = fm /\ Now.armed = ann
    BY SMTT(30), NowHanded DEF Inv
  <2>. HIDE DEF s
  <2>i. IsSet(m, Now, p, s, no_link[p])
    BY Zenon, <2>2, <2>n, SetStateIs
  <2>. HIDE DEF m
  <2>3. /\ m \in Handed /\ m.tab = fm /\ ann \subseteq m.armed
        /\ m.st = [state EXCEPT ![p] = Reached(s, no_link[p])]
    BY Zenon, <2>i, <2>n DEF IsSet
  <2>4. m.st = [state EXCEPT ![p] = IF @ = "FAULTY" THEN "LISTENING" ELSE @]
    BY Zenon, <1>2, <1>4, <2>2, <2>3 DEF Reached, Inv, CauseOK, RunningState
  <2>. DEFINE new == IF state[p] = "FAULTY" THEN "LISTENING" ELSE state[p]
  <2>m. Moved(m.st, p, new)
    BY Zenon, <1>2, <2>4, MovedIs
  <2>k. new \in Maintaining => new = state[p]
    BY DEF Maintaining, Following
  <2>c. /\ stop => new = "DISABLED"
        /\ ~stop => new \in RunningState /\ new # "FAULTY"
    BY <1>2 DEF Inv, CauseOK, RunningState, State
  <2>. HIDE DEF new
  <2>5. OneFollows(m.st)
    BY Zenon, <2>m, <2>k, MovedFollows DEF Inv, Maintaining
  <2>6. CauseOK(m.st, stop', no_link', last_fault')
    <3>1. \A q \in Port : q # p => no_link'[q] = no_link[q] /\ last_fault'[q] = last_fault[q]
      BY <1>1, <1>2 DEF Inv, TypeOK
    <3>2. ~no_link'[p]
      BY Zenon, <1>1, <1>4
    <3>. QED  BY Zenon, <1>1, <2>c, <2>m, <3>1, <3>2, MovedCause DEF Inv
  <2>7. TimedOK(m.st, m.armed \cup annw')
    <3>. DEFINE more == m.armed \cup annw'
    <3>1. \A q \in Port : q \in ann \cup annw => q \in more
      BY <1>1, <2>3
    <3>. HIDE DEF more
    <3>2. Class # SlaveOnly /\ new \in Maintaining => p \in more
      BY Zenon, <2>k, <3>1 DEF Inv, TimedOK
    <3>3. TimedOK(m.st, more)
      BY Zenon, <2>m, <3>1, <3>2, MovedTimed DEF Inv
    <3>. QED  BY Zenon, <3>3 DEF more
  <2>. QED  BY Zenon, <1>1, <2>1, <2>3, <2>5, <2>6, <2>7, DecisionInv DEF Inv
<1>. QED  BY Zenon, <1>3, <1>4

-----------------------------------------------------------------------------
(***************************************************************************)
(* Links and faults.                                                       *)
(***************************************************************************)
LEMMA DecideUnlessStoppedInv ==
    ASSUME Inv, NEW m \in Handed, DecideUnlessStopped(m), OthersType', UNCHANGED <<stop, annw>>,
           m.tab = fm, OneFollows(m.st), CauseOK(m.st, stop, no_link', last_fault'),
           TimedOK(m.st, m.armed \cup annw)
    PROVE  Inv'
<1>1. CASE ~stop
  <2>1. handle_state_decision(m)
    BY Zenon, <1>1 DEF DecideUnlessStopped
  <2>. QED  BY Zenon, <2>1, DecisionInv DEF Inv
<1>2. CASE stop
  <2>1. /\ state' = m.st /\ ann' = m.armed /\ qual' = m.quals /\ signaling' = m.sig
        /\ UNCHANGED <<tables, tx_sync>>
    BY Zenon, <1>2 DEF DecideUnlessStopped
  <2>2. TypeOK'
    BY Zenon, <2>1 DEF Inv, TypeOK, OthersType, tables, Handed
  <2>3. SlaveIsBest'
    BY Zenon, <1>2, <2>1 DEF CauseOK, SlaveIsBest, Following
  <2>4. OneFollows(state)' /\ CauseOK(state, stop, no_link, last_fault)'
        /\ TimedOK(state, ann \cup annw)'
    BY <2>1 DEF OneFollows, CauseOK, TimedOK
  <2>. QED  BY Zenon, <2>1, <2>2, <2>3, <2>4, PlainInv
<1>. QED  BY SMTT(30), <1>1, <1>2

LEMMA LinkInv ==
    ASSUME Inv, NEW p \in Port, LinkUp(p) \/ LinkDown(p)
    PROVE  Inv'
<1>1. OthersType' /\ UNCHANGED <<stop, last_fault, annw>>
  BY Zenon DEF LinkUp, LinkDown, Inv, TypeOK, OthersType, works
<1>2. state \in [AnyPort -> State] /\ p \in AnyPort /\ state[p] \in State
      /\ no_link \in [Port -> BOOLEAN]
  BY Constants DEF Inv, TypeOK
<1>3. CASE LinkUp(p)
  <2>. DEFINE s == IF last_fault[p] THEN state[p] ELSE port_event(state[p], "FAULT_CLEAR")
  <2>. DEFINE nl == FALSE
  <2>. DEFINE m == SetState(Now, p, s, nl, last_fault[p])
  <2>1. DecideUnlessStopped(m) /\ no_link' = [no_link EXCEPT ![p] = FALSE]
    BY Zenon, <1>3 DEF LinkUp
  <2>2. s \in State /\ s = IF state[p] = "FAULTY" /\ ~last_fault[p] THEN "INITIALIZING" ELSE state[p]
    BY Zenon, <1>2, FaultEventIs DEF State
  <2>n. Now \in Handed /\ Now.st = state /\ Now.tab = fm /\ Now.armed = ann
    BY SMTT(30), NowHanded DEF Inv
  <2>. HIDE DEF s, nl
  <2>i. IsSet(m, Now, p, s, nl)
    BY Zenon, <2>2, <2>n, SetStateIs
  <2>. HIDE DEF m
  <2>3. /\ m \in Handed /\ m.tab = fm /\ ann \subseteq m.armed
        /\ m.st = [state EXCEPT ![p] = Reached(s, nl)]
    BY Zenon, <2>i, <2>n DEF IsSet
  <2>4. m.st = [state EXCEPT ![p] = IF @ = "FAULTY" /\ ~last_fault[p] THEN "LISTENING" ELSE @]
    BY Zenon, <1>2, <2>2, <2>3 DEF nl, Reached, Inv, CauseOK, RunningState
  <2>. DEFINE new == IF state[p] = "FAULTY" /\ ~last_fault[p] THEN "LISTENING" ELSE state[p]
  <2>m. Moved(m.st, p, new)
    BY ZenonT(30), <1>2, <2>4, MovedIs
  <2>k. new \in Maintaining => new = state[p]
    BY Zenon DEF Maintaining, Following
  <2>c. /\ stop => new = "DISABLED"
        /\ ~stop => new \in RunningState /\ (new = "FAULTY" => last_fault[p])
    BY <1>2 DEF Inv, CauseOK, RunningState, State
  <2>. HIDE DEF new
  <2>5. OneFollows(m.st)
    BY Zenon, <2>m, <2>k, MovedFollows DEF Inv, Maintaining
  <2>6. CauseOK(m.st, stop, no_link', last_fault')
    <3>1. \A q \in Port : q # p => no_link'[q] = no_link[q] /\ last_fault'[q] = last_fault[q]
      BY <1>1, <1>2, <2>1
    <3>2. ~no_link'[p] /\ last_fault'[p] = last_fault[p]
      BY <1>1, <1>2, <2>1
    <3>. QED  BY Zenon, <2>c, <2>m, <3>1, <3>2, MovedCause DEF Inv
  <2>7. TimedOK(m.st, m.armed \cup annw)
    <3>. DEFINE more == m.armed \cup annw
    <3>1. \A q \in Port : q \in ann \cup annw => q \in more
      BY <2>3
    <3>. HIDE DEF more
    <3>2. Class # SlaveOnly /\ new \in Maintaining => p \in more
      BY Zenon, <2>k, <3>1 DEF Inv, TimedOK
    <3>3. TimedOK(m.st, more)
      BY Zenon, <2>m, <3>1, <3>2, MovedTimed DEF Inv
    <3>. QED  BY Zenon, <3>3 DEF more
  <2>. QED  BY Zenon, <1>1, <2>1, <2>3, <2>5, <2>6, <2>7, DecideUnlessStoppedInv
<1>4. CASE LinkDown(p)
  <2>. DEFINE s == port_event(state[p], "FAULT_SET")
  <2>. DEFINE nl == TRUE
  <2>. DEFINE m == SetState(Now, p, s, nl, last_fault[p])
  <2>1. DecideUnlessStopped(m) /\ no_link' = [no_link EXCEPT ![p] = TRUE]
    BY Zenon, <1>4 DEF LinkDown
  <2>2. s \in State /\ s = IF state[p] \in {"INIT", "FAULTY", "DISABLED"} THEN state[p] ELSE "FAULTY"
    BY SMTT(30), <1>2, FaultEventIs DEF State
  <2>n. Now \in Handed /\ Now.st = state /\ Now.tab = fm /\ Now.armed = ann
    BY NowHanded DEF Inv
  <2>. HIDE DEF s, nl
  <2>i. IsSet(m, Now, p, s, nl)
    BY Zenon, <2>2, <2>n, SetStateIs
  <2>. HIDE DEF m
  <2>3. /\ m \in Handed /\ m.tab = fm /\ ann \subseteq m.armed
        /\ m.st = [state EXCEPT ![p] = Reached(s, nl)]
    BY Zenon, <2>i, <2>n DEF IsSet
  <2>4. m.st = [state EXCEPT ![p] = s]
    BY Zenon, <1>2, <2>2, <2>3 DEF nl, Reached
  <2>m. Moved(m.st, p, s)
    BY Zenon, <1>2, <2>4, MovedIs
  <2>k. s \notin Maintaining
    BY <2>2 DEF Maintaining, Following
  <2>5. OneFollows(m.st)
    BY Zenon, <2>m, <2>k, MovedFollows DEF Inv, Maintaining
  <2>6. CauseOK(m.st, stop, no_link', last_fault')
    <3>1. \A q \in Port : q # p => no_link'[q] = no_link[q] /\ last_fault'[q] = last_fault[q]
      BY <1>1, <1>2, <2>1
    <3>2. no_link'[p]
      BY Zenon, <1>2, <2>1
    <3>3. /\ stop => s = "DISABLED"
          /\ ~stop => s \in RunningState /\ s = "FAULTY"
      BY <1>2, <2>2 DEF Inv, CauseOK, RunningState, State
    <3>. QED  BY Zenon, <2>m, <3>1, <3>2, <3>3, MovedCause DEF Inv
  <2>7. TimedOK(m.st, m.armed \cup annw)
    <3>. DEFINE more == m.armed \cup annw
    <3>1. \A q \in Port : q \in ann \cup annw => q \in more
      BY <2>3
    <3>. HIDE DEF more
    <3>2. TimedOK(m.st, more)
      BY Zenon, <2>k, <2>m, <3>1, MovedTimed DEF Inv
    <3>. QED  BY Zenon, <3>2 DEF more
  <2>. QED  BY Zenon, <1>1, <2>1, <2>3, <2>5, <2>6, <2>7, DecideUnlessStoppedInv
<1>. QED  BY <1>3, <1>4

\* A port that receives is neither FAULTY nor DISABLED: the clock runs and
\* the port has a link.
LEMMA ReceivingIs ==
    ASSUME Inv, NEW p \in Port, state[p] \in Receiving
    PROVE  ~stop /\ ~no_link[p]
BY DEF Inv, CauseOK, Receiving

LEMMA SetFaultInv ==
    ASSUME Inv, NEW p \in Port, SetFault(p)
    PROVE  Inv'
<1>1. /\ state \in [AnyPort -> State] /\ p \in AnyPort /\ state[p] \in Receiving
      /\ last_fault \in [Port -> BOOLEAN] /\ ~stop /\ ~no_link[p]
  BY Zenon, Constants, ReceivingIs DEF Inv, TypeOK, SetFault
<1>2. state' = [state EXCEPT ![p] = "FAULTY"]
  BY Zenon, <1>1, FaultEventIs DEF SetFault, Receiving
<1>3. /\ UNCHANGED <<no_link, tables, ann, qual, works, rxq, tx_sync, stop, crashed>>
      /\ fault' = fault \cup {p} /\ last_fault' = [last_fault EXCEPT ![p] = TRUE]
      /\ signaling' = SignalingAfter(signaling, state, state')
  BY DEF SetFault
<1>4. signaling' \in BOOLEAN /\ state' \in [AnyPort -> State]
  BY Zenon, <1>1, <1>2, <1>3, SignalingType DEF Inv, TypeOK, State
<1>5. TypeOK'
  BY <1>1, <1>3, <1>4 DEF Inv, TypeOK, tables, works
<1>6. \A q \in Port : \/ q # p /\ state'[q] = state[q]
                      \/ q = p /\ state'[q] = "FAULTY"
  BY <1>1, <1>2, Constants
<1>n. UNCHANGED <<cbest, ann, annw, stop, no_link>>
  BY <1>3 DEF tables, works
<1>f. "FAULTY" \notin Maintaining /\ "FAULTY" \notin Following
  BY SMTT(30) DEF Maintaining, Following
<1>8. OneFollows(state)' /\ SlaveIsBest'
  BY Zenon, <1>6, <1>n, <1>f DEF Inv, OneFollows, SlaveIsBest
<1>9. TimedOK(state, ann \cup annw)'
  BY Zenon, <1>6, <1>n, <1>f DEF Inv, TimedOK
<1>7. CauseOK(state, stop, no_link, last_fault)'
  BY <1>1, <1>2, <1>3 DEF Inv, CauseOK, RunningState, State
<1>. QED  BY Zenon, <1>3, <1>5, <1>8, <1>9, <1>7, PlainInv

LEMMA ServoInv ==
    ASSUME Inv, NEW p \in Port, NEW event \in {"CLOCK_STABLE", "CLOCK_UNSTABLE"}, Servo(p, event)
    PROVE  Inv'
<1>1. state \in [AnyPort -> State] /\ p \in AnyPort /\ state[p] \in Following
  BY SMTT(30), Constants DEF Inv, TypeOK, Servo
<1>2. PICK s \in Following : state' = [state EXCEPT ![p] = s]
  BY Zenon, <1>1 DEF Servo, port_event, Following
<1>3. /\ UNCHANGED <<no_link, last_fault, tables, qual, fault, works, rxq, stop, crashed>>
      /\ ann' \in SUBSET AnyPort /\ ann \subseteq ann'
      /\ signaling' = SignalingAfter(signaling, state, state')
      /\ tx_sync' = TxSyncAfter(tx_sync, state, state')
  BY Zenon, <1>1 DEF Servo, Inv, TypeOK
<1>4. signaling' \in BOOLEAN /\ tx_sync' \in BOOLEAN /\ state' \in [AnyPort -> State]
  BY Zenon, <1>1, <1>2, <1>3, SignalingType, TxSyncType DEF Inv, TypeOK, State, Following
<1>5. TypeOK'
  BY Zenon, <1>3, <1>4 DEF Inv, TypeOK, tables, works
<1>6. \A q \in Port : \/ state'[q] = state[q]
                      \/ q = p /\ state'[q] \in Following /\ state[q] \in Following
  BY <1>1, <1>2, Constants
<1>7. UNCHANGED <<cbest, annw, stop, no_link, last_fault>>
  BY SMTT(30), <1>3 DEF tables, works
<1>8. OneFollows(state)' /\ SlaveIsBest'
  BY Zenon, <1>6, <1>7 DEF Inv, OneFollows, SlaveIsBest
<1>9. TimedOK(state, ann \cup annw)'
  BY Zenon, <1>3, <1>6, <1>7 DEF Inv, TimedOK, Maintaining
<1>10. Following \subseteq RunningState /\ "FAULTY" \notin Following /\ "DISABLED" \notin Following
  BY SMTT(30) DEF Following, RunningState, State
<1>11. CauseOK(state, stop, no_link, last_fault)'
  BY Zenon, <1>6, <1>7, <1>10 DEF Inv, CauseOK
<1>. QED  BY Zenon, <1>3, <1>5, <1>8, <1>9, <1>11, PlainInv

LEMMA ClockStopInv ==
    ASSUME Inv, ClockStop
    PROVE  Inv'
<1>1. \A q \in Port : state'[q] = "DISABLED"
  BY Constants DEF ClockStop
<1>2. TypeOK'
  BY Zenon DEF ClockStop, Inv, TypeOK, State, works, Clock, NoId
<1>3. OneFollows(state)' /\ SlaveIsBest' /\ TimedOK(state, ann \cup annw)'
  BY Zenon, <1>1 DEF OneFollows, SlaveIsBest, TimedOK, Maintaining, Following
<1>4. CauseOK(state, stop, no_link, last_fault)'
  BY <1>1 DEF CauseOK, ClockStop
<1>5. EntriesOK(fm)' /\ SendersOK(fm)' /\ BestIsCurrent'
  BY Zenon DEF ClockStop, Inv, EntriesOK, SendersOK, BestIsCurrent
<1>. QED  BY <1>2, <1>3, <1>4, <1>5 DEF Inv

LEMMA ClockStartInv ==
    ASSUME Inv, ClockStart
    PROVE  Inv'
<1>. DEFINE st == [p \in AnyPort |-> IF p # 0 /\ no_link[p] THEN "FAULTY" ELSE "LISTENING"]
<1>. DEFINE tab == [p \in Port |-> [i \in Slot |-> FreeEntry]]
<1>. DEFINE armed == ann \cup {p \in Port : ~no_link[p] /\ Class # SlaveOnly /\ ~last_fault[p]}
<1>. DEFINE tx == tx_sync /\ state[0] # "MASTER"
<1>. DEFINE pd == ptp_update_parent_ds(NULL)
<1>. DEFINE m == [st |-> st, tab |-> tab, pd |-> pd, armed |-> armed, quals |-> qual,
                  sig |-> signaling, tx |-> tx]
<1>1. OthersType'
  BY Zenon DEF ClockStart, Inv, TypeOK, OthersType
<1>2. handle_state_decision(m) /\ ~stop' /\ UNCHANGED <<no_link, last_fault>>
  BY Zenon DEF ClockStart
<1>3. st \in [AnyPort -> State]
  BY Zenon DEF State
<1>4. /\ OneFollows(st) /\ CauseOK(st, stop', no_link', last_fault')
      /\ TimedOK(st, armed \cup annw')
  BY <1>2, Constants DEF OneFollows, CauseOK, TimedOK, Following, Maintaining, RunningState, State
<1>5. tab \in [Port -> [Slot -> Entry]] /\ EntriesOK(tab) /\ SendersOK(tab)
  BY Zenon, EmptyTable
<1>6. armed \in SUBSET AnyPort /\ qual \in SUBSET Port /\ signaling \in BOOLEAN
  BY Zenon, Constants DEF Inv, TypeOK
<1>7. tx \in BOOLEAN
  OBVIOUS
<1>8. pd \in ParentDs
  BY Zenon, ParentType
<1>. HIDE DEF st, tab, armed, tx, pd
<1>9. m \in Handed
  BY Zenon, <1>3, <1>5, <1>6, <1>7, <1>8 DEF Handed
<1>10. m.st = st /\ m.tab = tab /\ m.armed = armed
  OBVIOUS
<1>. HIDE DEF m
<1>. QED  BY Zenon, <1>1, <1>2, <1>4, <1>5, <1>9, <1>10, DecisionInv

-----------------------------------------------------------------------------
(***************************************************************************)
(* Announce messages.                                                      *)
(***************************************************************************)
LEMMA DatasetOfAnnounce ==
    ASSUME NEW p \in Port, NEW a \in Announce
    PROVE  announce_to_dataset(a, p) \in Dataset
BY Constants DEF announce_to_dataset, Announce, Dataset, PortId, Clock

LEMMA HandleAnnounceInv ==
    ASSUME Inv, NEW p \in Port, NEW a \in Heard[p], HandleAnnounce(p, a)
    PROVE  Inv'
<1>1. /\ state \in [AnyPort -> State] /\ p \in AnyPort /\ state[p] \in Receiving
      /\ ~stop /\ ~no_link[p] /\ a \in Announce
  BY Zenon, Constants, ReceivingIs, PtpClockAssumption DEF Inv, TypeOK, HandleAnnounce
<1>2. UNCHANGED <<no_link, last_fault, tables, qual, fault, works, tx_sync, stop, crashed>>
  BY Zenon DEF HandleAnnounce
<1>3. CASE a.tx.clock = OwnId
  <2>1. /\ state' = [state EXCEPT ![p] = "PASSIVE"]
        /\ ann' = IF state[p] = "PASSIVE" \/ Class # SlaveOnly THEN ann \cup {p} ELSE ann
        /\ signaling' = SignalingAfter(signaling, state, state')
        /\ UNCHANGED rxq
    BY Zenon, <1>3 DEF HandleAnnounce
  <2>2. signaling' \in BOOLEAN /\ state' \in [AnyPort -> State]
    BY Zenon, <1>1, <2>1, SignalingType DEF Inv, TypeOK, State
  <2>3. TypeOK'
    BY Zenon, <1>1, <1>2, <2>1, <2>2 DEF Inv, TypeOK, tables, works
  <2>4. \A q \in Port : state'[q] = state[q] \/ (q = p /\ state'[q] = "PASSIVE")
    BY Zenon, <1>1, <2>1, Constants
  <2>5. OneFollows(state)' /\ SlaveIsBest'
    BY Zenon, <1>2, <2>4 DEF Inv, OneFollows, SlaveIsBest, Following, tables
  <2>6. TimedOK(state, ann \cup annw)'
    BY SMTT(30), <1>2, <2>1, <2>4 DEF Inv, TimedOK, works
  <2>7. CauseOK(state, stop, no_link, last_fault)'
    BY Zenon, <1>1, <1>2, <2>4 DEF Inv, CauseOK, RunningState, State
  <2>. QED  BY Zenon, <1>2, <2>3, <2>5, <2>6, <2>7, PlainInv
<1>4. CASE a.tx.clock # OwnId
  <2>1. /\ rxq' = Append(rxq, [port |-> p, ds |-> announce_to_dataset(a, p)])
        /\ UNCHANGED <<state, ann, signaling>>
    BY Zenon, <1>4 DEF HandleAnnounce
  <2>2. [port |-> p, ds |-> announce_to_dataset(a, p)] \in Message
    BY Zenon, <1>1, DatasetOfAnnounce DEF Message
  <2>r. rxq' \in Seq(Message)
    <3>1. rxq \in Seq(Message)
      BY Zenon DEF Inv, TypeOK
    <3>. QED  BY <3>1, <2>1, <2>2
  <2>3. TypeOK'
    BY ZenonT(30), <1>2, <2>1, <2>r DEF Inv, TypeOK, tables, works
  <2>4. /\ OneFollows(state)' /\ SlaveIsBest' /\ TimedOK(state, ann \cup annw)'
        /\ CauseOK(state, stop, no_link, last_fault)'
    BY Zenon, <1>2, <2>1 DEF Inv, OneFollows, SlaveIsBest, TimedOK, CauseOK, tables, works
  <2>. QED  BY Zenon, <1>2, <2>3, <2>4, PlainInv
<1>. QED  BY SMTT(30), <1>3, <1>4

\* find_foreign_master finds the only entry the sender may have.
LEMMA FindForeignIs ==
    ASSUME Inv, NEW p \in Port, NEW ds \in Dataset, NEW i,
           i = find_foreign_master(fm[p], ds), i # NoSlot
    PROVE  /\ i \in Slot
           /\ fm[p][i].cnt > 0 => fm[p][i].dataset.tx = ds.tx
           /\ \A j \in Slot : j # i /\ fm[p][j].cnt > 0 => fm[p][j].dataset.tx # ds.tx
<1>1. i \in Slot
  BY Zenon, SlotIs DEF find_foreign_master
<1>2. \A j \in Slot : fm[p][j].cnt \in Nat
  <2>1. \A f \in Entry : f.cnt \in Nat
    BY DEF Entry
  <2>2. \A j \in Slot : fm[p][j] \in Entry
    BY Zenon DEF Inv, TypeOK
  <2>. QED  BY <2>1, <2>2
<1>3. CASE fm[p][i].cnt > 0
  <2>1. Known(fm[p], ds, i) \/ fm[p][i].cnt = 0
    BY Zenon DEF find_foreign_master
  <2>2. fm[p][i].cnt # 0
    BY <1>3
  <2>3. fm[p][i].dataset.tx = ds.tx
    BY Zenon, <2>1, <2>2 DEF Known
  <2>. QED  BY Zenon, <1>1, <1>3, <2>3 DEF Inv, SendersOK
<1>4. CASE ~(fm[p][i].cnt > 0)
  <2>1. \A j \in Slot : ~Known(fm[p], ds, j)
    BY Zenon, <1>1, <1>2, <1>4, SlotIs DEF find_foreign_master, Known
  <2>. QED  BY Zenon, <1>1, <1>4, <2>1 DEF Known
<1>. QED  BY Zenon, <1>3, <1>4

LEMMA AddedEntryIs ==
    ASSUME NEW f \in Entry, NEW ds \in Dataset, f.cnt <= Threshold,
           f.valid <=> f.cnt = Threshold, f.cnt > 0 => f.dataset.tx = ds.tx
    PROVE  LET e == AddedEntry(f, ds)
           IN  /\ e \in Entry /\ e.cnt <= Threshold
               /\ e.valid <=> e.cnt = Threshold
               /\ e.dataset.tx = ds.tx
               /\ ~(MeetsThreshold(f) \/ Differs(f, ds)) =>
                     /\ e.valid <=> f.valid
                     /\ f.valid => e.dataset = f.dataset
<1>. DEFINE v == f.valid \/ MeetsThreshold(f)
<1>. DEFINE c == IF f.valid THEN f.cnt ELSE f.cnt + 1
<1>. DEFINE d == IF f.cnt = 0 \/ Differs(f, ds) THEN ds ELSE f.dataset
<1>1. f.cnt \in 0..3 /\ f.dataset \in Dataset
  BY Zenon DEF Entry
<1>2. c \in 0..3 /\ c <= Threshold /\ (v <=> c = Threshold)
  BY <1>1, ThresholdIs DEF MeetsThreshold
<1>3. v \in BOOLEAN
  OBVIOUS
<1>4. d \in Dataset /\ d.tx = ds.tx
  BY <1>1
<1>5. ~(MeetsThreshold(f) \/ Differs(f, ds)) => (v <=> f.valid) /\ (f.valid => d = f.dataset)
  BY SMTT(30), <1>1, ThresholdIs
<1>6. AddedEntry(f, ds) = [valid |-> v, cnt |-> c, dataset |-> d]
  BY Zenon DEF AddedEntry
<1>. HIDE DEF v, c, d
<1>7. AddedEntry(f, ds) \in Entry
  BY SMTT(30), <1>2, <1>3, <1>4, <1>6 DEF Entry
<1>8. /\ AddedEntry(f, ds).cnt = c /\ AddedEntry(f, ds).dataset = d
      /\ AddedEntry(f, ds).valid = v
  BY <1>6
<1>. QED  BY Zenon, <1>2, <1>4, <1>5, <1>7, <1>8

\* An entry of a sender without another entry can be put into a table.
LEMMA PutEntry ==
    ASSUME Inv, NEW p \in Port, NEW i \in Slot, NEW e \in Entry,
           e.cnt <= Threshold, e.valid <=> e.cnt = Threshold,
           \A j \in Slot : j # i /\ fm[p][j].cnt > 0 => fm[p][j].dataset.tx # e.dataset.tx
    PROVE  LET tab == [fm EXCEPT ![p][i] = e]
           IN  /\ tab \in [Port -> [Slot -> Entry]]
               /\ EntriesOK(tab) /\ SendersOK(tab)
<1>. DEFINE tab == [fm EXCEPT ![p][i] = e]
<1>1. fm \in [Port -> [Slot -> Entry]]
  BY Zenon DEF Inv, TypeOK
<1>2. /\ tab \in [Port -> [Slot -> Entry]]
      /\ tab[p][i] = e
      /\ \A q \in Port, j \in Slot : ~(q = p /\ j = i) => tab[q][j] = fm[q][j]
  BY Zenon, <1>1
<1>. HIDE DEF tab
<1>3. EntriesOK(tab)
  BY SMTT(30), <1>2 DEF Inv, EntriesOK
<1>4. SendersOK(tab)
  BY SMTT(30), <1>2 DEF Inv, SendersOK
<1>5. tab \in [Port -> [Slot -> Entry]] /\ EntriesOK(tab) /\ SendersOK(tab)
  BY Zenon, <1>2, <1>3, <1>4
<1>. QED  BY Zenon, <1>5 DEF tab

\* Entries that are not valid do not influence a choice.
LEMMA SameBest ==
    ASSUME NEW tab \in [Port -> [Slot -> Entry]], NEW old \in [Port -> [Slot -> Entry]],
           \A q \in Port, j \in Slot :
              /\ tab[q][j].valid <=> old[q][j].valid
              /\ old[q][j].valid => tab[q][j].dataset = old[q][j].dataset,
           NEW q \in Port
    PROVE  find_best_master(tab[q]) = find_best_master(old[q]) /\ PortBest(tab, q) = PortBest(old, q)
<1>1. find_best_master(tab[q]) = find_best_master(old[q])
  BY Zenon, SlotIs DEF find_best_master
<1>2. find_best_master(old[q]) # NoSlot =>
         /\ find_best_master(old[q]) \in Slot
         /\ old[q][find_best_master(old[q])].valid
  BY SlotIs DEF find_best_master, NoSlot
<1>. QED  BY <1>1, <1>2 DEF PortBest

LEMMA AddForeignInv ==
    ASSUME Inv, NEW p \in Port, NEW ds \in Dataset, add_foreign_master(p, ds),
           OthersType', UNCHANGED <<no_link, last_fault, annw, stop>>
    PROVE  Inv'
<1>. DEFINE i == find_foreign_master(fm[p], ds)
<1>. DEFINE f == fm[p][i]
<1>. DEFINE e == AddedEntry(f, ds)
<1>. DEFINE tab == [fm EXCEPT ![p][i] = e]
<1>0. fm \in [Port -> [Slot -> Entry]] /\ p \in AnyPort /\ ann \in SUBSET AnyPort
  BY Constants DEF Inv, TypeOK
<1>1. CASE i = NoSlot
  <2>1. UNCHANGED decided
    BY Zenon, <1>1 DEF add_foreign_master
  <2>2. TypeOK'
    BY Zenon, <2>1 DEF Inv, TypeOK, OthersType, decided, tables, syncs
  <2>. QED
    BY Zenon, <2>1, <2>2, PlainInv
    DEF Inv, decided, tables, OneFollows, SlaveIsBest, CauseOK, TimedOK
<1>2. CASE i # NoSlot
  <2>1. /\ i \in Slot
        /\ f.cnt > 0 => f.dataset.tx = ds.tx
        /\ \A j \in Slot : j # i /\ fm[p][j].cnt > 0 => fm[p][j].dataset.tx # ds.tx
    <3>1. i = find_foreign_master(fm[p], ds)
      OBVIOUS
    <3>. HIDE DEF i
    <3>. QED  BY SMTT(30), <1>2, <3>1, FindForeignIs
  <2>2. f \in Entry /\ f.cnt <= Threshold /\ (f.valid <=> f.cnt = Threshold)
    BY Zenon, <1>0, <2>1 DEF Inv, EntriesOK
  <2>3. /\ e \in Entry /\ e.cnt <= Threshold /\ (e.valid <=> e.cnt = Threshold)
        /\ e.dataset.tx = ds.tx
        /\ ~(MeetsThreshold(f) \/ Differs(f, ds)) =>
              (e.valid <=> f.valid) /\ (f.valid => e.dataset = f.dataset)
    BY Zenon, <2>1, <2>2, AddedEntryIs
  <2>4. CASE MeetsThreshold(f) \/ Differs(f, ds)
    <3>. DEFINE m == [Now EXCEPT !.tab = tab, !.armed = @ \cup {p}]
    <3>1. handle_state_decision(m)
      BY Zenon, <1>2, <2>4 DEF add_foreign_master
    <3>. HIDE DEF i, e
    <3>2. tab \in [Port -> [Slot -> Entry]] /\ EntriesOK(tab) /\ SendersOK(tab)
      BY SMTT(30), <2>1, <2>3, PutEntry
    <3>. HIDE DEF tab
    <3>3. /\ m \in Handed /\ m.st = state /\ m.tab = tab /\ m.armed = ann \cup {p}
      BY Zenon, <1>0, <3>2, NowHanded DEF Inv, Handed
    <3>. HIDE DEF m
    <3>4. OneFollows(m.st) /\ CauseOK(m.st, stop', no_link', last_fault')
      BY Zenon, <3>3 DEF Inv, CauseOK
    <3>5. TimedOK(m.st, m.armed \cup annw')
      BY Zenon, <3>3 DEF Inv, TimedOK
    <3>. QED  BY Zenon, <3>1, <3>2, <3>3, <3>4, <3>5, DecisionInv
  <2>5. CASE ~(MeetsThreshold(f) \/ Differs(f, ds))
    <3>1. /\ fm' = tab /\ ann' = ann \cup {p}
          /\ UNCHANGED <<state, best, cbest, best_id, pds, qual, syncs>>
      BY SMTT(30), <1>2, <2>5 DEF add_foreign_master
    <3>2. e.valid <=> f.valid
      BY Zenon, <2>3, <2>5
    <3>3. f.valid => e.dataset = f.dataset
      BY Zenon, <2>3, <2>5
    <3>. HIDE DEF i, e
    <3>4. tab \in [Port -> [Slot -> Entry]] /\ EntriesOK(tab) /\ SendersOK(tab)
      BY <2>1, <2>3, PutEntry
    <3>5. \A q \in Port, j \in Slot :
             /\ tab[q][j].valid <=> fm[q][j].valid
             /\ fm[q][j].valid => tab[q][j].dataset = fm[q][j].dataset
      BY Zenon, <1>0, <2>1, <3>2, <3>3
    <3>. HIDE DEF tab
    <3>6. \A q \in Port : /\ find_best_master(tab[q]) = find_best_master(fm[q])
                         /\ PortBest(tab, q) = PortBest(fm, q)
      BY Zenon, <1>0, <3>4, <3>5, SameBest
    <3>7. BestIsCurrent'
      <4>1. \A q \in Port : best'[q] = find_best_master(fm'[q])
        BY Zenon, <3>1, <3>6 DEF Inv, BestIsCurrent
      <4>2. PICK scan \in [AnyPort -> AnyPort] :
               IsScan(fm, scan) /\ cbest[1] = BestPort(fm, scan[N])
        BY Zenon DEF Inv, BestIsCurrent
      <4>3. N \in AnyPort /\ \A q \in Port : q \in AnyPort /\ q - 1 \in AnyPort
        BY Constants DEF Port, AnyPort
      <4>4. \A q \in AnyPort : q # 0 => q \in Port
        BY Zenon, Constants
      <4>5. IsScan(fm', scan)
        BY Zenon, <3>1, <3>6, <4>2, <4>3, <4>4 DEF IsScan
      <4>6. BestPort(fm', scan[N]) = BestPort(fm, scan[N])
        BY SMTT(30), <3>1, <3>6, <4>3, <4>4 DEF BestPort
      <4>. QED  BY Zenon, <3>1, <4>1, <4>2, <4>5, <4>6 DEF Inv, BestIsCurrent
    <3>8. TypeOK'
      BY SMTT(30), <1>0, <3>1, <3>4 DEF Inv, TypeOK, OthersType, syncs
    <3>9. /\ OneFollows(state)' /\ SlaveIsBest' /\ CauseOK(state, stop, no_link, last_fault)'
          /\ TimedOK(state, ann \cup annw)'
      BY Zenon, <3>1 DEF Inv, OneFollows, SlaveIsBest, CauseOK, TimedOK
    <3>10. EntriesOK(fm)' /\ SendersOK(fm)'
      BY SMTT(30), <3>1, <3>4 DEF EntriesOK, SendersOK
    <3>. QED  BY Zenon, <3>7, <3>8, <3>9, <3>10 DEF Inv
  <2>. QED  BY Zenon, <2>4, <2>5
<1>. QED  BY Zenon, <1>1, <1>2

LEMMA UpdateMasterInv ==
    ASSUME Inv, NEW p \in Port, NEW ds \in Dataset, best[p] # NoSlot, update_current_master(p, ds),
           OthersType', UNCHANGED <<no_link, last_fault, annw, stop>>
    PROVE  Inv'
<1>. DEFINE i == best[p]
<1>. DEFINE f == fm[p][i]
<1>. DEFINE armed == ann \cup {p} \cup (IF state[p] = "PASSIVE" THEN {} ELSE {0})
<1>. DEFINE diff == f.cnt > 0 /\ dataset_cmp(f.dataset, ds)
<1>. DEFINE tab == [fm EXCEPT ![p][i].dataset = ds]
<1>0. fm \in [Port -> [Slot -> Entry]] /\ p \in AnyPort /\ armed \in SUBSET AnyPort
  BY Zenon, Constants DEF Inv, TypeOK
<1>1. CASE f.dataset.tx # ds.tx
  BY SMTT(30), <1>1, AddForeignInv DEF update_current_master
<1>2. CASE f.dataset.tx = ds.tx /\ diff
  <2>. DEFINE pd == ptp_update_parent_ds(ds)
  <2>. DEFINE m == [Now EXCEPT !.tab = tab, !.armed = armed, !.pd = pd]
  <2>1. handle_state_decision(m)
    BY Zenon, <1>2 DEF update_current_master
  <2>2. i \in Slot /\ f \in Entry /\ f.cnt <= Threshold /\ (f.valid <=> f.cnt = Threshold)
    BY Zenon, <1>0 DEF Inv, TypeOK, EntriesOK
  <2>3. f.dataset \in Dataset /\ f.valid \in BOOLEAN /\ f.cnt \in 0..3
    BY <2>2 DEF Entry
  <2>. DEFINE e == [f EXCEPT !.dataset = ds]
  <2>4. e \in Entry
    BY <2>2 DEF Entry
  <2>5. e.cnt = f.cnt /\ e.dataset = ds /\ (e.valid <=> f.valid)
    BY <2>2 DEF Entry
  <2>6. tab = [fm EXCEPT ![p][i] = e]
    BY Zenon, <1>0, <2>2
  <2>7. \A j \in Slot : j # i /\ fm[p][j].cnt > 0 => fm[p][j].dataset.tx # e.dataset.tx
    BY SMTT(30), <1>2, <2>2, <2>5 DEF Inv, SendersOK
  <2>. HIDE DEF i, e, tab
  <2>8. tab \in [Port -> [Slot -> Entry]] /\ EntriesOK(tab) /\ SendersOK(tab)
    BY Zenon, <2>2, <2>4, <2>5, <2>6, <2>7, PutEntry
  <2>9. pd \in ParentDs
    BY ParentType
  <2>. HIDE DEF armed, pd
  <2>10. m \in Handed /\ m.st = state /\ m.tab = tab /\ m.armed = armed
    BY Zenon, <1>0, <2>8, <2>9, NowHanded DEF Inv, Handed
  <2>. HIDE DEF m
  <2>11. OneFollows(m.st) /\ CauseOK(m.st, stop', no_link', last_fault')
    BY Zenon, <2>10 DEF Inv, CauseOK
  <2>12. TimedOK(m.st, m.armed \cup annw')
    BY Zenon, <2>10 DEF Inv, TimedOK, armed
  <2>. QED  BY Zenon, <2>1, <2>8, <2>10, <2>11, <2>12, DecisionInv
<1>3. CASE f.dataset.tx = ds.tx /\ ~diff
  <2>1. ann' = armed /\ UNCHANGED <<state, tables, qual, syncs>>
    BY Zenon, <1>3 DEF update_current_master
  <2>2. TypeOK'
    BY SMTT(30), <1>0, <2>1 DEF Inv, TypeOK, OthersType, tables, syncs
  <2>. QED
    BY Zenon, <2>1, <2>2, PlainInv DEF Inv, tables, OneFollows, SlaveIsBest, CauseOK, TimedOK
<1>. QED  BY Zenon, <1>1, <1>2, <1>3

LEMMA ProcAnnounceInv ==
    ASSUME Inv, ProcAnnounce
    PROVE  Inv'
<1>. DEFINE p == Head(rxq).port
<1>. DEFINE ds == Head(rxq).ds
<1>. DEFINE null == state[p] \in Maintaining /\ best[p] = NoSlot
<1>1. rxq \in Seq(Message) /\ rxq # <<>> /\ rxq' = Tail(rxq) /\ crashed' = null
  BY Zenon DEF ProcAnnounce, Inv, TypeOK
<1>2. Head(rxq) \in Message /\ rxq' \in Seq(Message)
  BY <1>1
<1>3. p \in Port /\ ds \in Dataset
  BY SMTT(30), <1>2 DEF Message
<1>4. UNCHANGED <<no_link, last_fault, fault, works, stop>>
  BY Zenon DEF ProcAnnounce
<1>5. OthersType' /\ UNCHANGED annw
  BY SMTT(30), <1>1, <1>2, <1>4 DEF Inv, TypeOK, OthersType, works
<1>6. CASE (state[p] \notin Receiving \/ null) /\ UNCHANGED decided
  <2>1. TypeOK'
    BY Zenon, <1>5, <1>6 DEF Inv, TypeOK, OthersType, decided, tables, syncs
  <2>. QED
    BY Zenon, <1>4, <1>5, <1>6, <2>1, PlainInv
    DEF Inv, decided, tables, OneFollows, SlaveIsBest, CauseOK, TimedOK
<1>7. CASE state[p] \in Maintaining /\ ~null /\ update_current_master(p, ds)
  BY Zenon, <1>3, <1>4, <1>5, <1>7, UpdateMasterInv
<1>8. CASE state[p] \in Receiving \ Maintaining /\ add_foreign_master(p, ds)
  BY Zenon, <1>3, <1>4, <1>5, <1>8, AddForeignInv
<1>. QED  BY Zenon, <1>6, <1>7, <1>8 DEF ProcAnnounce

-----------------------------------------------------------------------------
LEMMA NextInv == Inv /\ [Next]_vars => Inv'
<1>. SUFFICES ASSUME Inv, [Next]_vars  PROVE Inv'
  OBVIOUS
<1>1. CASE UNCHANGED vars
  <2>1. TypeOK'
    BY SMTT(30), <1>1 DEF Inv, TypeOK, vars, tables, timers, works, syncs
  <2>. QED
    BY ZenonT(30), <1>1, <2>1, PlainInv
    DEF Inv, vars, tables, timers, works, OneFollows, SlaveIsBest, CauseOK, TimedOK
<1>2. CASE Announces
  <2>1. ASSUME NEW p \in AnyPort, AnnTimer(p)  PROVE Inv'
    BY Zenon, <2>1, TimerInv
  <2>2. ASSUME NEW p \in Port, QualTimer(p)  PROVE Inv'
    BY <2>2, TimerInv, Constants
  <2>. QED
    BY Zenon, <1>2, <2>1, <2>2, HandleAnnounceInv, ProcAnnounceInv, AnnWorkInv, QualWorkInv
    DEF Announces
<1>3. CASE Links
  BY Zenon, <1>3, LinkInv DEF Links
<1>4. CASE Faults
  <2>1. ASSUME NEW p \in Port, FaultTimer(p)  PROVE Inv'
    BY Zenon, <2>1, TimerInv, Constants
  <2>. QED  BY Zenon, <1>4, <2>1, SetFaultInv, FaultWorkInv DEF Faults
<1>5. CASE Servos
  BY <1>5, ServoInv DEF Servos
<1>6. CASE ClockStop
  BY <1>6, ClockStopInv
<1>7. CASE ClockStart
  BY <1>7, ClockStartInv
<1>. QED  BY Zenon, <1>1, <1>2, <1>3, <1>4, <1>5, <1>6, <1>7 DEF Next

LEMMA Invariance == Spec => []Inv
BY InitInv, NextInv, PTL DEF Spec

(***************************************************************************)
(* At most one port follows a master, whatever the interleaving of         *)
(* handlers, timers and works: a clock never steers by two references.     *)
(***************************************************************************)
THEOREM OnePortFollows == Spec => []OneSlave
BY Invariance, InvImplies, PTL

(***************************************************************************)
(* That port is the one c->best points to, so the best master the clock    *)
(* has heard is the one it follows.                                        *)
(***************************************************************************)
THEOREM FollowsTheBest == Spec => []SlaveIsBest
BY Invariance, InvImplies, PTL

(***************************************************************************)
(* p->best and c->best are never stale: they are what find_best_master and *)
(* find_best_clock would choose now, between any two handlers.             *)
(***************************************************************************)
THEOREM BestIsNeverStale == Spec => []BestIsCurrent
BY Invariance, InvImplies, PTL

(***************************************************************************)
(* No sender ever holds two entries of a foreign master table.             *)
(***************************************************************************)
THEOREM SenderHasOneEntry == Spec => []OneEntryPerSender
BY Invariance, InvImplies, PTL

(***************************************************************************)
(* The ports of a stopped clock stay DISABLED, whatever works, messages    *)
(* and link changes are still to be handled.                               *)
(***************************************************************************)
THEOREM StopsEveryPort == Spec => []StoppedIsDisabled
BY Invariance, InvImplies, PTL

(***************************************************************************)
(* A port without a link is FAULTY, and a FAULTY port has lost its link or *)
(* has an unexpired fault.                                                 *)
(***************************************************************************)
THEOREM FaultyOnlyWithCause == Spec => []FaultyHasCause
BY Invariance, InvImplies, PTL

(***************************************************************************)
(* A port that relies on a master has its announce timer armed or its      *)
(* timeout work scheduled, so a master that falls silent is noticed.       *)
(***************************************************************************)
THEOREM SilenceIsNoticed == Spec => []MasterIsTimed
BY Invariance, InvImplies, PTL

(***************************************************************************)
(* Type correctness.                                                       *)
(***************************************************************************)
THEOREM TypeCorrect == Spec => []TypeOK
BY Invariance, InvImplies, PTL
-----------------------------------------------------------------------------
(***************************************************************************)
(* A clock of class 127 or better.  bmca_decision recommends no port of it *)
(* to follow, and no event other than that recommendation makes a port     *)
(* that does not follow do so.                                             *)
(***************************************************************************)
Leads(st) == st[0] # "SLAVE" /\ \A p \in Port : st[p] \notin Following

LEMMA LeaderDecides ==
    ASSUME Class < 128, Class \in Nat, NEW st, NEW tab, NEW b, NEW p \in Port
    PROVE  EventOf(Decision(st, tab, b, p)) \in
               {"NONE", "BECOME_MASTER", "BECOME_PASSIVE", "FAULT_SET"}
<1>1. ~(Class > 127)
  OBVIOUS
<1>2. Decision(st, tab, b, p) \in {"LISTENING", "FAULTY", "MASTER", "PASSIVE"}
  BY Zenon, <1>1 DEF Decision, bmca_decision, port_can_accept_announce
<1>. QED  BY <1>2 DEF EventOf

LEMMA LeaderKeeps ==
    ASSUME NEW s, s \notin Following, NEW event, event # "BECOME_SLAVE"
    PROVE  port_event(s, event) \notin Following
BY DEF port_event, ReadyMaster, Following

LEMMA LeaderDecision ==
    ASSUME Class < 128, Class \in Nat, NEW m, Leads(m.st), handle_state_decision(m)
    PROVE  Leads(state')
<1>1. PICK b : state' = StatesAfter(m.st, m.tab, b)
  <2>1. PICK b : \E new \in {StatesAfter(m.st, m.tab, b)} : Decide(m, b, new)
    BY Zenon DEF handle_state_decision
  <2>2. Decide(m, b, StatesAfter(m.st, m.tab, b))
    BY Zenon, <2>1
  <2>. QED  BY Zenon, <2>2 DEF Decide
<1>2. ASSUME NEW p \in Port
      PROVE  PortsAfter(m.st, m.tab, b)[p] \notin Following
  BY <1>2, LeaderDecides, LeaderKeeps DEF PortsAfter, Leads
<1>3. \A p \in Port : Decision(m.st, m.tab, b, p) # "SLAVE"
  BY LeaderDecides DEF EventOf
<1>4. HostAfter(m.st, m.tab, b) # "SLAVE"
  BY <1>3 DEF HostAfter, host_event, Leads
<1>. QED  BY <1>1, <1>2, <1>4, Constants DEF StatesAfter, Leads

LEMMA LeaderMoves ==
    ASSUME TypeOK, Leads(state), NEW p \in Port, NEW new, new \notin Following
    PROVE  Leads([state EXCEPT ![p] = new])
BY Constants DEF Leads, TypeOK

LEMMA LeaderSet ==
    ASSUME TypeOK, Leads(state), NEW m \in Handed, m.st = state, NEW p \in Port,
           NEW event, event # "BECOME_SLAVE", NEW nolink, NEW lastfault
    PROVE  Leads(SetState(m, p, port_event(state[p], event), nolink, lastfault).st)
<1>. DEFINE s == port_event(state[p], event)
<1>. DEFINE r == SetState(m, p, s, nolink, lastfault)
<1>1. s \in State /\ s \notin Following
  BY LeaderKeeps, PortEventType, Constants DEF TypeOK, Leads
<1>2. Reached(s, nolink) \notin Following
  BY <1>1 DEF Reached, Following
<1>. HIDE DEF s
<1>3. IsSet(r, m, p, s, nolink)
  BY Zenon, <1>1, SetStateIs
<1>. HIDE DEF r
<1>4. r.st = [state EXCEPT ![p] = Reached(s, nolink)]
  BY Zenon, <1>3 DEF IsSet
<1>5. Leads([state EXCEPT ![p] = Reached(s, nolink)])
  BY <1>2, LeaderMoves
<1>6. Leads(r.st)
  BY Zenon, <1>4, <1>5
<1>. QED  BY Zenon, <1>6 DEF s, r

LEMMA LeaderTable ==
    ASSUME Class < 128, Class \in Nat, Leads(state), NEW tab, NEW armed, NEW pd,
           \/ handle_state_decision([Now EXCEPT !.tab = tab, !.armed = armed])
           \/ handle_state_decision([Now EXCEPT !.tab = tab, !.armed = armed, !.pd = pd])
    PROVE  Leads(state')
<1>1. /\ [Now EXCEPT !.tab = tab, !.armed = armed].st = state
      /\ [Now EXCEPT !.tab = tab, !.armed = armed, !.pd = pd].st = state
  BY Zenon DEF Now
<1>. HIDE DEF Now
<1>2. \A m : handle_state_decision(m) /\ Leads(m.st) => Leads(state')
  BY LeaderDecision
<1>. QED  BY Zenon, <1>1, <1>2

LEMMA LeaderAdds ==
    ASSUME Class < 128, Class \in Nat, Leads(state), NEW p \in Port, NEW ds,
           add_foreign_master(p, ds) \/ update_current_master(p, ds)
    PROVE  Leads(state')
<1>1. ASSUME add_foreign_master(p, ds)  PROVE Leads(state')
  <2>1. CASE UNCHANGED state
    BY <2>1
  <2>2. CASE \E tab, armed :
               handle_state_decision([Now EXCEPT !.tab = tab, !.armed = armed])
    BY Zenon, <2>2, LeaderTable
  <2>. QED  BY ZenonT(30), <1>1, <2>1, <2>2 DEF add_foreign_master, decided, Now
<1>2. ASSUME update_current_master(p, ds)  PROVE Leads(state')
  <2>1. CASE UNCHANGED state
    BY <2>1
  <2>2. CASE \E tab, armed, pd :
               handle_state_decision([Now EXCEPT !.tab = tab, !.armed = armed, !.pd = pd])
    BY Zenon, <2>2, LeaderTable
  <2>. QED  BY ZenonT(30), <1>1, <1>2, <2>1, <2>2 DEF update_current_master
<1>. QED  BY <1>1, <1>2

LEMMA LeaderStep ==
    ASSUME Class < 128, Inv, Leads(state), [Next]_vars
    PROVE  Leads(state')
<1>1. TypeOK /\ Class \in Nat
  BY Constants DEF Inv
<1>2. Now \in Handed /\ Now.st = state
  BY <1>1, NowHanded
<1>3. CASE UNCHANGED state
  BY <1>3
<1>4. ASSUME NEW m, Leads(m.st), handle_state_decision(m)  PROVE Leads(state')
  BY <1>1, <1>4, LeaderDecision
<1>5. ASSUME NEW p \in Port, NEW a \in Heard[p], HandleAnnounce(p, a)  PROVE Leads(state')
  <2>1. state' \in {state, [state EXCEPT ![p] = "PASSIVE"]}
    BY Zenon, <1>5 DEF HandleAnnounce
  <2>2. Leads([state EXCEPT ![p] = "PASSIVE"])
    BY <1>1, LeaderMoves DEF Following
  <2>. QED  BY Zenon, <2>1, <2>2
<1>6. CASE ProcAnnounce
  <2>1. rxq \in Seq(Message) /\ rxq # <<>>
    BY Zenon, <1>1, <1>6 DEF ProcAnnounce, TypeOK
  <2>2. Head(rxq) \in Message
    BY <2>1
  <2>3. Head(rxq).port \in Port
    BY <2>2 DEF Message
  <2>. QED  BY Zenon, <1>1, <1>3, <1>6, <2>3, LeaderAdds DEF ProcAnnounce, decided
<1>7. ASSUME NEW p \in AnyPort, AnnWork(p)  PROVE Leads(state')
  <2>1. CASE p = 0
    BY Zenon, <1>2, <1>4, <1>7, <2>1 DEF AnnWork
  <2>2. CASE p # 0
    <3>. DEFINE m0 == [Now EXCEPT !.tab = Forget(p)]
    <3>1. p \in Port
      BY <2>2, Constants
    <3>2. m0 \in Handed /\ m0.st = state
      BY Zenon, <3>1, <1>2, NowHanded, ForgetKeeps DEF Inv, Handed, Now
    <3>. HIDE DEF m0
    <3>3. Leads(SetState(m0, p, port_event(state[p], "ANNOUNCE_TIMEOUT"),
                         no_link[p], last_fault[p]).st)
      BY Zenon, <1>1, <3>1, <3>2, LeaderSet
    <3>. QED  BY Zenon, <1>4, <1>7, <2>2, <3>3 DEF AnnWork, m0
  <2>. QED  BY <2>1, <2>2
<1>8. ASSUME NEW p \in Port, QualWork(p) \/ FaultWork(p) \/ LinkUp(p) \/ LinkDown(p)
      PROVE  Leads(state')
  <2>1. ASSUME NEW event \in {"QUALIFICATION_TIMEOUT", "FAULT_CLEAR", "FAULT_SET", "NONE"},
               NEW nolink, NEW lastfault
        PROVE  Leads(SetState(Now, p, port_event(state[p], event), nolink, lastfault).st)
    BY Zenon, <1>1, <1>2, <2>1, LeaderSet
  <2>2. port_event(state[p], "NONE") = state[p]
    BY DEF port_event
  <2>3. CASE QualWork(p)
    BY Zenon, <1>4, <2>1, <2>3 DEF QualWork
  <2>4. CASE FaultWork(p)
    BY Zenon, <1>3, <1>4, <2>1, <2>4 DEF FaultWork, decided
  <2>5. ASSUME NEW m, Leads(m.st), DecideUnlessStopped(m)  PROVE Leads(state')
    BY Zenon, <1>4, <2>5 DEF DecideUnlessStopped
  <2>6. CASE LinkUp(p)
    BY Zenon, <2>1, <2>2, <2>5, <2>6 DEF LinkUp
  <2>7. CASE LinkDown(p)
    BY Zenon, <2>1, <2>5, <2>7 DEF LinkDown
  <2>. QED  BY <1>8, <2>3, <2>4, <2>6, <2>7
<1>9. ASSUME NEW p \in Port, SetFault(p)  PROVE Leads(state')
  <2>1. state' = [state EXCEPT ![p] = port_event(state[p], "FAULT_SET")]
    BY Zenon, <1>9 DEF SetFault
  <2>2. port_event(state[p], "FAULT_SET") \notin Following
    BY LeaderKeeps DEF Leads
  <2>3. Leads([state EXCEPT ![p] = port_event(state[p], "FAULT_SET")])
    BY Zenon, <1>1, <2>2, LeaderMoves
  <2>. QED  BY Zenon, <2>1, <2>3
<1>10. CASE Servos
  BY <1>10 DEF Servos, Servo, Leads
<1>11. CASE ClockStop
  BY <1>11, Constants DEF ClockStop, Leads, Following
<1>12. CASE ClockStart
  <2>. DEFINE st == [p \in AnyPort |-> IF p # 0 /\ no_link[p] THEN "FAULTY" ELSE "LISTENING"]
  <2>1. \E m : m.st = st /\ handle_state_decision(m)
    BY Zenon, <1>12 DEF ClockStart
  <2>2. Leads(st)
    BY Constants DEF Leads, Following
  <2>. HIDE DEF st
  <2>. QED  BY Zenon, <1>4, <2>1, <2>2
<1>13. ASSUME NEW p, AnnTimer(p) \/ QualTimer(p) \/ FaultTimer(p)  PROVE UNCHANGED state
  BY Zenon, <1>13 DEF AnnTimer, QualTimer, FaultTimer
<1>. QED
  BY Zenon, <1>3, <1>5, <1>6, <1>7, <1>8, <1>9, <1>10, <1>11, <1>12, <1>13
  DEF Next, Announces, Links, Faults, vars

(***************************************************************************)
(* A clock of class 127 or better never follows: no port of it and not its *)
(* host port, whatever Announces, timeouts, links, faults and restarts     *)
(* handle_state_decision is called for (GrandmasterLeads).                 *)
(***************************************************************************)
THEOREM GrandmasterNeverFollows == Spec => []GrandmasterLeads
<1>1. Init => GrandmasterLeads
  BY Constants DEF Init, GrandmasterLeads, Following
<1>2. Inv /\ GrandmasterLeads /\ [Next]_vars => GrandmasterLeads'
  <2>. SUFFICES ASSUME Inv, GrandmasterLeads, [Next]_vars, Class < 128  PROVE Leads(state')
    BY Zenon DEF GrandmasterLeads, Leads
  <2>1. Leads(state)
    BY Zenon DEF GrandmasterLeads, Leads
  <2>. QED  BY <2>1, LeaderStep
<1>. QED  BY <1>1, <1>2, Invariance, PTL DEF Spec

-----------------------------------------------------------------------------
(***************************************************************************)
(* What the handlers do to the host port, to the Sync timer and to the     *)
(* tables, said once for all of them: a handler ends in a decision on what *)
(* it has made of the variables, or starts or stops the clock, or reports  *)
(* a servo result, or leaves host port, timer and c->best alone.           *)
(***************************************************************************)
\* What another clock announces of this one has taken a step at least.
Genuine(ds) == ds.id = OwnId => ds.steps > 0
GenuineTab(tab) == \A p \in Port : \A i \in Slot : tab[p][i].cnt > 0 => Genuine(tab[p][i].dataset)
Genuinely == GenuineTab(fm) /\ \A i \in 1..Len(rxq) : Genuine(rxq[i].ds)

Decides(m) ==
    /\ m \in Handed
    /\ m.st[0] = state[0] /\ m.tx = tx_sync
    /\ Genuinely => GenuineTab(m.tab)
    /\ handle_state_decision(m)
    /\ UNCHANGED stop

Begins(m) ==
    /\ m \in Handed
    /\ m.st[0] = "LISTENING" /\ m.tx = (tx_sync /\ state[0] # "MASTER")
    /\ GenuineTab(m.tab)
    /\ handle_state_decision(m)
    /\ ~stop'

Abides ==
    /\ UNCHANGED <<cbest, tx_sync, stop>>
    /\ state'[0] = state[0]
    /\ \A p \in Port : state'[p] \in Following => state[p] \in Following
    /\ Genuinely => GenuineTab(fm')

\* port_set_state before a decision leaves host port, timer and tables alone.
LEMMA SetStateHost ==
    ASSUME Inv, NEW m \in Handed, m.st = state, m.tx = tx_sync,
           Genuinely => GenuineTab(m.tab), NEW p \in Port, NEW s \in State,
           NEW nolink, NEW lastfault, NEW r, r = SetState(m, p, s, nolink, lastfault),
           handle_state_decision(r), UNCHANGED stop
    PROVE  Decides(r)
<1>1. IsSet(r, m, p, s, nolink)
  BY Zenon, SetStateIs
<1>2. r \in Handed /\ r.tx = tx_sync /\ (Genuinely => GenuineTab(r.tab))
      /\ r.st = [state EXCEPT ![p] = Reached(s, nolink)]
  BY Zenon, <1>1 DEF IsSet
<1>3. state \in [AnyPort -> State] /\ 0 \in AnyPort /\ p # 0
  BY Zenon, Constants DEF Inv, TypeOK
<1>4. r.st[0] = state[0]
  BY Zenon, <1>2, <1>3
<1>. QED  BY Zenon, <1>2, <1>4 DEF Decides

LEMMA ForgetGenuine ==
    ASSUME Inv, NEW p \in Port, GenuineTab(fm)
    PROVE  GenuineTab(Forget(p))
<1>1. CASE best[p] = NoSlot
  BY Zenon, <1>1 DEF Forget
<1>2. CASE best[p] # NoSlot
  <2>1. best[p] \in Slot /\ fm \in [Port -> [Slot -> Entry]]
    BY <1>2 DEF Inv, TypeOK
  <2>. DEFINE e == [valid |-> FALSE, cnt |-> 0, dataset |-> fm[p][best[p]].dataset]
  <2>2. e.cnt = 0
    OBVIOUS
  <2>3. Forget(p) = [fm EXCEPT ![p] = [fm[p] EXCEPT ![best[p]] = e]]
    BY <1>2, <2>1 DEF Forget
  <2>. HIDE DEF e
  <2>4. \A q \in Port : \A i \in Slot : Forget(p)[q][i] \in {fm[q][i], e}
    BY Zenon, <2>1, <2>3
  <2>. HIDE DEF Forget
  <2>. QED  BY <2>2, <2>4 DEF GenuineTab
<1>. QED  BY Zenon, <1>1, <1>2

LEMMA PutGenuine ==
    ASSUME TypeOK, GenuineTab(fm), NEW p \in Port, NEW i \in Slot, NEW e,
           e.cnt > 0 => Genuine(e.dataset)
    PROVE  GenuineTab([fm EXCEPT ![p][i] = e])
<1>. DEFINE tab == [fm EXCEPT ![p][i] = e]
<1>1. \A q \in Port : \A j \in Slot : tab[q][j] \in {fm[q][j], e}
  BY Zenon DEF TypeOK
<1>. HIDE DEF tab
<1>2. GenuineTab(tab)
  BY Zenon, <1>1 DEF GenuineTab
<1>. QED  BY Zenon, <1>2 DEF tab

LEMMA AddGenuine ==
    ASSUME Inv, NEW p \in Port, NEW ds \in Dataset, GenuineTab(fm), Genuine(ds),
           NEW i, i = find_foreign_master(fm[p], ds), i # NoSlot
    PROVE  GenuineTab([fm EXCEPT ![p][i] = AddedEntry(fm[p][i], ds)])
<1>1. i \in Slot /\ TypeOK
  BY FindForeignIs DEF Inv
<1>. DEFINE f == fm[p][i]
<1>. DEFINE e == AddedEntry(f, ds)
<1>2. f \in Entry /\ (f.cnt > 0 => Genuine(f.dataset))
  BY Zenon, <1>1 DEF TypeOK, GenuineTab
<1>3. f.cnt \in 0..3
  BY <1>2 DEF Entry
<1>4. e.dataset = IF f.cnt = 0 \/ Differs(f, ds) THEN ds ELSE f.dataset
  BY Zenon DEF AddedEntry
<1>5. f.cnt # 0 => f.cnt > 0
  BY <1>3
<1>6. Genuine(e.dataset)
  BY Zenon, <1>2, <1>4, <1>5
<1>. HIDE DEF e
<1>7. GenuineTab([fm EXCEPT ![p][i] = e])
  BY Zenon, <1>1, <1>6, PutGenuine
<1>. QED  BY Zenon, <1>7 DEF e

LEMMA AddForeignHost ==
    ASSUME Inv, NEW p \in Port, NEW ds \in Dataset, Genuinely => Genuine(ds),
           add_foreign_master(p, ds), UNCHANGED stop
    PROVE  Abides \/ \E m : Decides(m)
<1>. DEFINE i == find_foreign_master(fm[p], ds)
<1>. DEFINE f == fm[p][i]
<1>. DEFINE tab == [fm EXCEPT ![p][i] = AddedEntry(f, ds)]
<1>1. CASE i = NoSlot
  <2>1. UNCHANGED <<state, cbest, tx_sync, fm>>
    BY Zenon, <1>1 DEF add_foreign_master, decided, tables, syncs
  <2>. QED  BY Zenon, <2>1 DEF Abides, Genuinely
<1>2. CASE i # NoSlot
  <2>0. i \in Slot /\ (f.cnt > 0 => f.dataset.tx = ds.tx)
    <3>1. i = find_foreign_master(fm[p], ds)
      OBVIOUS
    <3>. HIDE DEF i
    <3>. QED  BY SMTT(30), <1>2, <3>1, FindForeignIs
  <2>1. i \in Slot /\ fm \in [Port -> [Slot -> Entry]]
    BY Zenon, <2>0 DEF Inv, TypeOK
  <2>2. Genuinely => GenuineTab(tab)
    BY Zenon, <1>2, AddGenuine DEF Genuinely
  <2>3. CASE MeetsThreshold(f) \/ Differs(f, ds)
    <3>1. tab \in [Port -> [Slot -> Entry]]
      <4>1. f \in Entry /\ f.cnt <= Threshold /\ (f.valid <=> f.cnt = Threshold)
        BY Zenon, <2>1 DEF Inv, EntriesOK
      <4>2. AddedEntry(f, ds) \in Entry
        BY Zenon, <2>0, <4>1, AddedEntryIs
      <4>. QED  BY Zenon, <2>1, <4>2
    <3>. DEFINE m == [Now EXCEPT !.tab = tab, !.armed = @ \cup {p}]
    <3>2. handle_state_decision(m)
      BY Zenon, <1>2, <2>3 DEF add_foreign_master
    <3>. HIDE DEF tab
    <3>3. m \in Handed /\ m.st = state /\ m.tab = tab /\ m.tx = tx_sync
      BY Zenon, <3>1, NowHanded, Constants DEF Inv, Handed
    <3>. HIDE DEF m
    <3>4. Decides(m)
      BY Zenon, <2>2, <3>2, <3>3 DEF Decides
    <3>. QED  BY Zenon, <3>4
  <2>4. CASE ~(MeetsThreshold(f) \/ Differs(f, ds))
    <3>1. fm' = tab /\ UNCHANGED <<state, cbest, syncs>>
      BY Zenon, <1>2, <2>4 DEF add_foreign_master
    <3>. HIDE DEF tab
    <3>. QED  BY Zenon, <2>2, <3>1 DEF Abides, syncs
  <2>. QED  BY Zenon, <2>3, <2>4
<1>. QED  BY Zenon, <1>1, <1>2

LEMMA UpdateMasterHost ==
    ASSUME Inv, NEW p \in Port, NEW ds \in Dataset, Genuinely => Genuine(ds),
           best[p] # NoSlot, update_current_master(p, ds), UNCHANGED stop
    PROVE  Abides \/ \E m : Decides(m)
<1>. DEFINE i == best[p]
<1>. DEFINE f == fm[p][i]
<1>. DEFINE armed == ann \cup {p} \cup (IF state[p] = "PASSIVE" THEN {} ELSE {0})
<1>. DEFINE diff == f.cnt > 0 /\ dataset_cmp(f.dataset, ds)
<1>. DEFINE tab == [fm EXCEPT ![p][i].dataset = ds]
<1>1. CASE f.dataset.tx # ds.tx
  BY Zenon, <1>1, AddForeignHost DEF update_current_master
<1>2. CASE f.dataset.tx = ds.tx /\ diff
  <2>. DEFINE pd == ptp_update_parent_ds(ds)
  <2>. DEFINE m == [Now EXCEPT !.tab = tab, !.armed = armed, !.pd = pd]
  <2>1. handle_state_decision(m)
    BY Zenon, <1>2 DEF update_current_master
  <2>2. i \in Slot /\ fm \in [Port -> [Slot -> Entry]] /\ f \in Entry /\ TypeOK
    BY Zenon DEF Inv, TypeOK
  <2>. DEFINE e == [f EXCEPT !.dataset = ds]
  <2>3. e \in Entry /\ e.dataset = ds
    BY <2>2 DEF Entry
  <2>4. tab = [fm EXCEPT ![p][i] = e]
    BY Zenon, <2>2
  <2>5. armed \in SUBSET AnyPort
    BY Zenon, Constants DEF Inv, TypeOK
  <2>6. pd \in ParentDs
    BY ParentType
  <2>. HIDE DEF i, e, tab, armed, pd
  <2>7. tab \in [Port -> [Slot -> Entry]]
    BY Zenon, <2>2, <2>3, <2>4
  <2>8. Genuinely => GenuineTab(tab)
    BY Zenon, <2>2, <2>3, <2>4, PutGenuine DEF Genuinely
  <2>9. m \in Handed /\ m.st = state /\ m.tab = tab /\ m.tx = tx_sync
    BY Zenon, <2>2, <2>5, <2>6, <2>7, NowHanded DEF Handed
  <2>. HIDE DEF m
  <2>10. Decides(m)
    BY Zenon, <2>1, <2>8, <2>9 DEF Decides
  <2>. QED  BY Zenon, <2>10
<1>3. CASE f.dataset.tx = ds.tx /\ ~diff
  <2>1. UNCHANGED <<state, tables, syncs>>
    BY Zenon, <1>3 DEF update_current_master
  <2>. QED  BY Zenon, <2>1 DEF Abides, Genuinely, tables, syncs
<1>. QED  BY Zenon, <1>1, <1>2, <1>3

LEMMA ProcAnnounceHost ==
    ASSUME Inv, ProcAnnounce
    PROVE  Abides \/ \E m : Decides(m)
<1>. DEFINE p == Head(rxq).port
<1>. DEFINE ds == Head(rxq).ds
<1>. DEFINE null == state[p] \in Maintaining /\ best[p] = NoSlot
<1>1. rxq \in Seq(Message) /\ rxq # <<>>
  BY Zenon DEF ProcAnnounce, Inv, TypeOK
<1>2. Head(rxq) \in Message /\ Head(rxq) = rxq[1] /\ 1 \in 1..Len(rxq)
  BY <1>1
<1>3. p \in Port /\ ds \in Dataset
  BY SMTT(30), <1>2 DEF Message
<1>4. Genuinely => Genuine(ds)
  BY Zenon, <1>2 DEF Genuinely
<1>5. UNCHANGED stop
  BY Zenon DEF ProcAnnounce
<1>6. CASE UNCHANGED decided
  BY Zenon, <1>5, <1>6 DEF Abides, Genuinely, decided, tables, syncs
<1>7. CASE state[p] \in Maintaining /\ ~null /\ update_current_master(p, ds)
  BY Zenon, <1>3, <1>4, <1>5, <1>7, UpdateMasterHost
<1>8. CASE add_foreign_master(p, ds)
  BY Zenon, <1>3, <1>4, <1>5, <1>8, AddForeignHost
<1>. QED  BY Zenon, <1>6, <1>7, <1>8 DEF ProcAnnounce

LEMMA WorkHost ==
    ASSUME Inv, NEW p \in Port, AnnWork(p) \/ QualWork(p) \/ FaultWork(p)
    PROVE  Abides \/ \E m : Decides(m)
<1>1. /\ Now \in Handed /\ Now.st = state /\ Now.tx = tx_sync
      /\ Genuinely => GenuineTab(Now.tab)
  BY Zenon, NowHanded DEF Inv, Genuinely
<1>2. p # 0 /\ state[p] \in State
  BY Zenon, Constants DEF Inv, TypeOK
<1>3. UNCHANGED stop
  BY Zenon DEF AnnWork, QualWork, FaultWork
<1>4. CASE AnnWork(p)
  <2>. DEFINE m0 == [Now EXCEPT !.tab = Forget(p)]
  <2>. DEFINE s == port_event(state[p], "ANNOUNCE_TIMEOUT")
  <2>1. m0 \in Handed /\ m0.st = state /\ m0.tx = tx_sync /\ m0.tab = Forget(p)
    BY Zenon, NowHanded, ForgetKeeps DEF Inv, Handed, Now
  <2>2. s \in State
    BY Zenon, <1>2, PortEventType
  <2>3. Genuinely => GenuineTab(m0.tab)
    BY Zenon, <2>1, ForgetGenuine DEF Genuinely
  <2>. HIDE DEF m0, s
  <2>4. handle_state_decision(SetState(m0, p, s, no_link[p], last_fault[p]))
    BY Zenon, <1>2, <1>4 DEF AnnWork, m0, s
  <2>. QED  BY Zenon, <1>3, <2>1, <2>2, <2>3, <2>4, SetStateHost
<1>5. CASE QualWork(p)
  <2>. DEFINE s == port_event(state[p], "QUALIFICATION_TIMEOUT")
  <2>1. s \in State
    BY Zenon, <1>2, PortEventType
  <2>2. handle_state_decision(SetState(Now, p, s, no_link[p], last_fault[p]))
    BY Zenon, <1>5 DEF QualWork
  <2>. HIDE DEF s
  <2>. QED  BY Zenon, <1>1, <1>3, <2>1, <2>2, SetStateHost
<1>6. CASE FaultWork(p)
  <2>1. CASE UNCHANGED decided
    BY Zenon, <1>3, <2>1 DEF Abides, Genuinely, decided, tables, syncs
  <2>2. CASE ~UNCHANGED decided
    <3>. DEFINE s == port_event(state[p], "FAULT_CLEAR")
    <3>1. s \in State
      BY Zenon, <1>2, PortEventType
    <3>2. handle_state_decision(SetState(Now, p, s, FALSE, FALSE))
      BY Zenon, <1>6, <2>2 DEF FaultWork
    <3>. HIDE DEF s
    <3>. QED  BY Zenon, <1>1, <1>3, <3>1, <3>2, SetStateHost
  <2>. QED  BY Zenon, <2>1, <2>2
<1>. QED  BY Zenon, <1>4, <1>5, <1>6

LEMMA LinkHost ==
    ASSUME Inv, NEW p \in Port, LinkUp(p) \/ LinkDown(p)
    PROVE  Abides \/ \E m : Decides(m)
<1>1. /\ Now \in Handed /\ Now.st = state /\ Now.tx = tx_sync
      /\ Genuinely => GenuineTab(Now.tab)
  BY Zenon, NowHanded DEF Inv, Genuinely
<1>2. p # 0 /\ 0 \in AnyPort /\ state[p] \in State /\ state \in [AnyPort -> State]
  BY Zenon, Constants DEF Inv, TypeOK
<1>3. UNCHANGED stop
  BY Zenon DEF LinkUp, LinkDown
<1>4. \E s \in State, nolink \in BOOLEAN :
         /\ s \in Following => state[p] \in Following
         /\ DecideUnlessStopped(SetState(Now, p, s, nolink, last_fault[p]))
  <2>1. /\ port_event(state[p], "FAULT_CLEAR") \in {"INITIALIZING", state[p]}
        /\ port_event(state[p], "FAULT_SET") \in {"FAULTY", state[p]}
    BY Zenon, <1>2, FaultEventIs
  <2>2. "INITIALIZING" \in State \ Following /\ "FAULTY" \in State \ Following
    BY DEF State, Following
  <2>3. CASE LinkUp(p)
    <3>. DEFINE s == IF last_fault[p] THEN state[p] ELSE port_event(state[p], "FAULT_CLEAR")
    <3>1. s \in State /\ (s \in Following => state[p] \in Following)
      BY Zenon, <1>2, <2>1, <2>2
    <3>2. DecideUnlessStopped(SetState(Now, p, s, FALSE, last_fault[p]))
      BY Zenon, <2>3 DEF LinkUp
    <3>. HIDE DEF s
    <3>. QED  BY Zenon, <3>1, <3>2
  <2>4. CASE LinkDown(p)
    <3>. DEFINE s == port_event(state[p], "FAULT_SET")
    <3>1. s \in State /\ (s \in Following => state[p] \in Following)
      BY Zenon, <1>2, <2>1, <2>2
    <3>2. DecideUnlessStopped(SetState(Now, p, s, TRUE, last_fault[p]))
      BY Zenon, <2>4 DEF LinkDown
    <3>. HIDE DEF s
    <3>. QED  BY Zenon, <3>1, <3>2
  <2>. QED  BY Zenon, <2>3, <2>4
<1>5. PICK s \in State, nolink \in BOOLEAN :
         /\ s \in Following => state[p] \in Following
         /\ DecideUnlessStopped(SetState(Now, p, s, nolink, last_fault[p]))
  BY Zenon, <1>4
<1>. DEFINE r == SetState(Now, p, s, nolink, last_fault[p])
<1>6. IsSet(r, Now, p, s, nolink)
  BY Zenon, <1>1, SetStateIs
<1>7. CASE handle_state_decision(r)
  BY Zenon, <1>1, <1>3, <1>7, SetStateHost
<1>8. CASE state' = r.st /\ UNCHANGED <<tables, tx_sync>>
  <2>. HIDE DEF r
  <2>1. state' = [state EXCEPT ![p] = Reached(s, nolink)]
    BY Zenon, <1>1, <1>6, <1>8 DEF IsSet
  <2>2. Reached(s, nolink) \in Following => state[p] \in Following
    BY Zenon, <1>5 DEF Reached, Following
  <2>3. state'[0] = state[0] /\ \A q \in Port : state'[q] \in Following => state[q] \in Following
    BY Zenon, <1>2, <2>1, <2>2, Constants
  <2>4. UNCHANGED <<cbest, tx_sync, fm>>
    BY Zenon, <1>8 DEF tables
  <2>. QED  BY Zenon, <1>3, <2>3, <2>4 DEF Abides, Genuinely
<1>. QED  BY Zenon, <1>5, <1>7, <1>8 DEF DecideUnlessStopped

LEMMA HostStep ==
    ASSUME Inv, [Next]_vars
    PROVE  \/ Abides \/ Servos \/ ClockStop
           \/ \E m : Decides(m) \/ Begins(m)
<1>1. state \in [AnyPort -> State] /\ 0 \in AnyPort /\ 0 \notin Port /\ Port \subseteq AnyPort
  BY Zenon, Constants DEF Inv, TypeOK
<1>2. ASSUME NEW p \in Port, NEW s, s \notin Following, state' = [state EXCEPT ![p] = s],
             UNCHANGED <<tables, tx_sync, stop>>
      PROVE  Abides
  <2>1. state'[0] = state[0] /\ \A q \in Port : state'[q] \in Following => state[q] \in Following
    BY Zenon, <1>1, <1>2
  <2>. QED  BY Zenon, <1>2, <2>1 DEF Abides, Genuinely, tables
<1>3. ASSUME UNCHANGED <<state, tables, tx_sync, stop>>  PROVE Abides
  BY Zenon, <1>3 DEF Abides, Genuinely, tables
<1>4. ASSUME NEW p \in Port, NEW a \in Heard[p], HandleAnnounce(p, a)  PROVE Abides
  <2>1. state' \in {state, [state EXCEPT ![p] = "PASSIVE"]} /\ UNCHANGED <<tables, tx_sync, stop>>
    BY Zenon, <1>4 DEF HandleAnnounce
  <2>2. "PASSIVE" \notin Following
    BY DEF Following
  <2>. QED  BY Zenon, <1>2, <1>3, <2>1, <2>2
<1>5. ASSUME NEW p \in Port, SetFault(p)  PROVE Abides
  <2>1. state' = [state EXCEPT ![p] = "FAULTY"] /\ UNCHANGED <<tables, tx_sync, stop>>
    BY Zenon, <1>1, <1>5, FaultEventIs DEF SetFault, Receiving
  <2>2. "FAULTY" \notin Following
    BY DEF Following
  <2>. QED  BY Zenon, <1>2, <2>1, <2>2
<1>6. ASSUME NEW p, AnnTimer(p) \/ QualTimer(p) \/ FaultTimer(p)
      PROVE  UNCHANGED <<state, tables, tx_sync, stop>>
  BY Zenon, <1>6 DEF AnnTimer, QualTimer, FaultTimer, syncs
<1>7. ASSUME AnnWork(0)  PROVE \E m : Decides(m)
  <2>1. handle_state_decision(Now) /\ UNCHANGED stop
    BY Zenon, <1>7 DEF AnnWork
  <2>2. Decides(Now)
    BY Zenon, <2>1, NowHanded DEF Decides, Inv, Genuinely
  <2>. QED  BY Zenon, <2>2
<1>8. CASE ClockStart
  <2>. DEFINE st == [p \in AnyPort |-> IF p # 0 /\ no_link[p] THEN "FAULTY" ELSE "LISTENING"]
  <2>. DEFINE tab == [p \in Port |-> [i \in Slot |-> FreeEntry]]
  <2>. DEFINE armed == ann \cup {p \in Port : ~no_link[p] /\ Class # SlaveOnly /\ ~last_fault[p]}
  <2>. DEFINE tx == tx_sync /\ state[0] # "MASTER"
  <2>. DEFINE pd == ptp_update_parent_ds(NULL)
  <2>. DEFINE m == [st |-> st, tab |-> tab, pd |-> pd, armed |-> armed, quals |-> qual,
                    sig |-> signaling, tx |-> tx]
  <2>1. handle_state_decision(m) /\ ~stop'
    BY Zenon, <1>8 DEF ClockStart
  <2>2. st \in [AnyPort -> State] /\ st[0] = "LISTENING"
    BY Zenon, <1>1 DEF State
  <2>3. tab \in [Port -> [Slot -> Entry]]
    BY Zenon, EmptyTable
  <2>4. armed \in SUBSET AnyPort /\ qual \in SUBSET Port /\ signaling \in BOOLEAN
    BY Zenon, Constants DEF Inv, TypeOK
  <2>5. tx \in BOOLEAN
    OBVIOUS
  <2>6. pd \in ParentDs
    BY Zenon, ParentType
  <2>7. GenuineTab(tab)
    BY DEF GenuineTab, FreeEntry
  <2>. HIDE DEF st, tab, armed, tx, pd
  <2>8. m \in Handed /\ m.st = st /\ m.tab = tab /\ m.tx = tx
    BY Zenon, <2>2, <2>3, <2>4, <2>5, <2>6 DEF Handed
  <2>. HIDE DEF m
  <2>9. Begins(m)
    BY Zenon, <2>1, <2>2, <2>7, <2>8 DEF Begins, tx
  <2>. QED  BY Zenon, <2>9
<1>9. CASE Announces
  <2>1. ASSUME NEW p \in AnyPort, AnnWork(p)  PROVE Abides \/ \E m : Decides(m)
    BY Zenon, <1>7, <2>1, WorkHost, Constants
  <2>. QED
    BY Zenon, <1>3, <1>4, <1>6, <1>9, <2>1, ProcAnnounceHost, WorkHost DEF Announces
<1>10. CASE Links
  BY Zenon, <1>10, LinkHost DEF Links
<1>11. CASE Faults
  BY Zenon, <1>3, <1>5, <1>6, <1>11, WorkHost DEF Faults
<1>12. CASE UNCHANGED vars
  BY Zenon, <1>3, <1>12 DEF vars, syncs
<1>. QED  BY Zenon, <1>8, <1>9, <1>10, <1>11, <1>12 DEF Next

-----------------------------------------------------------------------------
(***************************************************************************)
(* The Sync timer.  A decision that makes a port follow makes the host     *)
(* port SLAVE as well, so the timer that is stopped for the one is not     *)
(* expected to run for the other.                                          *)
(***************************************************************************)
SyncOK(st, tx) ==
    /\ ~Gptp => (tx <=> st[0] = "MASTER")
    /\ \A p \in Port : st[p] \in Following => st[0] # "MASTER"

LEMMA FollowerDecided ==
    ASSUME Class # SlaveOnly, NEW st \in [AnyPort -> State], NEW tab, NEW b \in AnyPort,
           NEW p \in Port, port_event(st[p], EventOf(Decision(st, tab, b, p))) \in Following
    PROVE  Decision(st, tab, b, p) = "SLAVE"
<1>. DEFINE d == Decision(st, tab, b, p)
<1>1. /\ d \in {"LISTENING", "PRE_MASTER", "MASTER", "PASSIVE", "SLAVE", "FAULTY"}
      /\ d = "FAULTY" => st[p] = "FAULTY"
      /\ d = "LISTENING" => st[p] = "LISTENING"
  BY DecisionIs
<1>. HIDE DEF d
<1>2. d \in {"PRE_MASTER", "MASTER", "PASSIVE"} => port_event(st[p], EventOf(d)) \notin Following
  BY DEF EventOf, port_event, ReadyMaster, Following
<1>3. d \in {"LISTENING", "FAULTY"} => port_event(st[p], EventOf(d)) \notin Following
  BY <1>1 DEF EventOf, port_event, Following
<1>4. port_event(st[p], EventOf(d)) \in Following
  BY Zenon DEF d
<1>5. d = "SLAVE"
  BY Zenon, <1>1, <1>2, <1>3, <1>4
<1>. QED  BY Zenon, <1>5 DEF d

LEMMA SyncDecision ==
    ASSUME Class # SlaveOnly, NEW m \in Handed, ~Gptp => (m.tx <=> m.st[0] = "MASTER"),
           handle_state_decision(m)
    PROVE  SyncOK(state', tx_sync')
<1>1. PICK b : Chosen(m, b)
  BY DecisionChooses
<1>. DEFINE new == StatesAfter(m.st, m.tab, b)
<1>2. m.st \in [AnyPort -> State] /\ b \in AnyPort
  BY Zenon, <1>1 DEF Handed, Chosen
<1>3. state' = new /\ tx_sync' = TxSyncAfter(m.tx, m.st, new)
  BY Zenon, <1>1 DEF Chosen, Decide
<1>4. /\ \A p \in Port : new[p] = port_event(m.st[p], EventOf(Decision(m.st, m.tab, b, p)))
      /\ new[0] = HostAfter(m.st, m.tab, b)
  BY Zenon, Constants DEF StatesAfter, PortsAfter
<1>5. ASSUME NEW p \in Port, new[p] \in Following  PROVE new[0] # "MASTER"
  <2>1. Decision(m.st, m.tab, b, p) = "SLAVE"
    BY Zenon, <1>2, <1>4, <1>5, FollowerDecided
  <2>2. \A s, all : host_event(s, "BECOME_SLAVE", all) # "MASTER"
    BY DEF host_event
  <2>. QED  BY Zenon, <1>4, <2>1, <2>2 DEF HostAfter
<1>. HIDE DEF new
<1>6. ~Gptp => (TxSyncAfter(m.tx, m.st, new) <=> new[0] = "MASTER")
  BY Zenon, <1>5 DEF TxSyncAfter, Starts
<1>. QED  BY Zenon, <1>3, <1>5, <1>6 DEF SyncOK

LEMMA SyncStep ==
    ASSUME Class # SlaveOnly, Inv, SyncOK(state, tx_sync), [Next]_vars
    PROVE  SyncOK(state', tx_sync')
<1>1. state \in [AnyPort -> State] /\ 0 \in AnyPort /\ 0 \notin Port /\ Port \subseteq AnyPort
  BY Zenon, Constants DEF Inv, TypeOK
<1>2. CASE Abides
  BY Zenon, <1>2 DEF Abides, SyncOK
<1>3. CASE Servos
  <2>1. PICK p \in Port, event \in {"CLOCK_STABLE", "CLOCK_UNSTABLE"} : Servo(p, event)
    BY <1>3 DEF Servos
  <2>2. /\ state[p] \in Following /\ state' = [state EXCEPT ![p] = port_event(@, event)]
        /\ tx_sync' = TxSyncAfter(tx_sync, state, state')
    BY Zenon, <2>1 DEF Servo
  <2>3. state'[0] = state[0] /\ \A q \in Port : q # p => state'[q] = state[q]
    BY Zenon, <1>1, <2>2
  <2>4. state[0] # "MASTER" /\ (~Gptp => ~tx_sync)
    BY Zenon, <2>2 DEF SyncOK
  <2>5. ~Gptp => ~tx_sync'
    BY Zenon, <2>2, <2>3, <2>4 DEF TxSyncAfter
  <2>. QED  BY Zenon, <2>3, <2>4, <2>5 DEF SyncOK
<1>4. CASE ClockStop
  <2>1. \A p \in AnyPort : state'[p] = "DISABLED"
    BY Zenon, <1>4 DEF ClockStop
  <2>2. "DISABLED" \notin Following /\ tx_sync' = FALSE
    BY <1>4 DEF Following, ClockStop
  <2>. QED  BY Zenon, <1>1, <2>1, <2>2 DEF SyncOK
<1>5. ASSUME NEW m, Decides(m) \/ Begins(m)  PROVE SyncOK(state', tx_sync')
  <2>1. ~Gptp => (m.tx <=> m.st[0] = "MASTER")
    BY Zenon, <1>5 DEF Decides, Begins, SyncOK
  <2>. QED  BY Zenon, <1>5, <2>1, SyncDecision DEF Decides, Begins
<1>. QED  BY Zenon, <1>2, <1>3, <1>4, <1>5, HostStep

(***************************************************************************)
(* In the default profile and unless the clock is slave-only, the Sync     *)
(* timer runs exactly while the host port is MASTER, through every         *)
(* decision, servo result, stop and start, and no port follows meanwhile   *)
(* (SyncOfMaster).                                                         *)
(***************************************************************************)
THEOREM SyncFollowsHost == Spec => []SyncOfMaster
<1>. DEFINE I == Class # SlaveOnly => SyncOK(state, tx_sync)
<1>1. Init => I
  BY Zenon, Constants DEF Init, SyncOK, Following
<1>2. Inv /\ I /\ [Next]_vars => I'
  BY Zenon, SyncStep
<1>3. I => SyncOfMaster
  BY Zenon DEF SyncOfMaster, SyncOK
<1>. HIDE DEF I
<1>. QED  BY <1>1, <1>2, <1>3, Invariance, PTL DEF Spec

-----------------------------------------------------------------------------
(***************************************************************************)
(* The host port.  It follows exactly while c->best is set, provided that  *)
(* no other clock announces this one without having taken a step: a best   *)
(* master with this clock's own identity would be better than the clock    *)
(* and yet not acceptable to the port it was heard on.                     *)
(***************************************************************************)
HostState == {"LISTENING", "PASSIVE", "MASTER", "SLAVE"}

\* A data set of this clock that has taken a step is never better than its own.
LEMMA BetterIsForeign ==
    ASSUME NEW ds \in Dataset, Genuine(ds), Better(ds, clock_default_ds(0))
    PROVE  ds.id # OwnId
<1>1. SUFFICES ASSUME ds.id = OwnId  PROVE FALSE
  OBVIOUS
<1>. DEFINE own == clock_default_ds(0)
<1>2. own \in Dataset /\ own.id = OwnId /\ own.steps = 0
  BY Constants, DefaultDsType DEF clock_default_ds
<1>. HIDE DEF own
<1>3. ds.steps \in Nat /\ ds.steps > 0
  BY <1>1 DEF Genuine, Dataset
<1>4. bmca_better_path(ds, own) \in {B_BETTER, B_BETTER_PATH, SAME}
  BY <1>2, <1>3 DEF bmca_better_path
<1>5. bmca_better(ds, own) \in {B_BETTER, B_BETTER_PATH, SAME}
  BY <1>1, <1>2, <1>4, NullAssumption DEF bmca_better
<1>6. bmca_better(ds, own) > 0
  BY DEF Better, own
<1>. QED  BY <1>5, <1>6 DEF B_BETTER, B_BETTER_PATH, SAME

\* The port the clock's data set is sent from does not matter to a foreign one.
LEMMA BetterAnyPort ==
    ASSUME NEW ds \in Dataset, ds.id # OwnId, Better(ds, clock_default_ds(0)), NEW p \in Nat
    PROVE  ~Better(clock_default_ds(p), ds)
<1>. DEFINE own == clock_default_ds(p)
<1>. DEFINE zero == clock_default_ds(0)
<1>1. /\ own \in Dataset /\ own.id = OwnId /\ own.key = OwnKey
      /\ zero \in Dataset /\ zero.id = OwnId /\ zero.key = OwnKey
  BY DefaultDsType DEF clock_default_ds
<1>2. bmca_better(ds, zero) > 0
  BY DEF Better
<1>. HIDE DEF own, zero
<1>3. bmca_better(ds, own) = bmca_better(ds, zero)
  BY Zenon, <1>1, NullAssumption DEF bmca_better
<1>4. bmca_better(own, ds) = -bmca_better(ds, own)
  BY <1>1, Antisymmetric
<1>5. bmca_better(ds, own) \in -2..2
  BY <1>1, BetterType
<1>6. ~(bmca_better(own, ds) > 0)
  BY <1>2, <1>3, <1>4, <1>5
<1>. QED  BY Zenon, <1>6 DEF Better, own

LEMMA BestDecides ==
    ASSUME Class > 127, NEW st, NEW tab \in [Port -> [Slot -> Entry]], GenuineTab(tab),
           EntriesOK(tab), NEW b \in Port, Better(PortBest(tab, b), clock_default_ds(0))
    PROVE  Decision(st, tab, b, b) = "SLAVE"
<1>. DEFINE i == find_best_master(tab[b])
<1>1. PortBest(tab, b) # NULL
  BY BetterIsData, DefaultDsType
<1>2. i \in Slot /\ PortBest(tab, b) = tab[b][i].dataset
  BY Zenon, <1>1, FindBestType DEF PortBest
<1>3. tab[b][i].valid
  BY Zenon, <1>2, FindBestValid
<1>. HIDE DEF i
<1>4. tab[b][i].cnt > 0
  BY <1>2, <1>3, ThresholdIs DEF EntriesOK
<1>. DEFINE ds == PortBest(tab, b)
<1>5. ds \in Dataset /\ Genuine(ds)
  BY Zenon, <1>1, <1>2, <1>4, PortBestType DEF GenuineTab
<1>. HIDE DEF ds
<1>6. ds.id # OwnId /\ ~Better(clock_default_ds(b), ds)
  BY Zenon, <1>5, BetterIsForeign, BetterAnyPort, Constants DEF ds
<1>7. clock_default_ds(b).id = OwnId
  BY DEF clock_default_ds
<1>8. ClockBest(tab, b) = ds /\ ds # NULL
  BY Zenon, <1>1, Constants DEF ClockBest, ds
<1>9. bmca_decision(Class, clock_default_ds(b), ds, b, b, ds, st[b]) = "SLAVE"
  BY Zenon, <1>6, <1>7, <1>8 DEF bmca_decision, port_can_accept_announce
<1>. QED  BY Zenon, <1>8, <1>9 DEF Decision, ds

LEMMA HostDecision ==
    ASSUME Class > 127, NEW m \in Handed, GenuineTab(m.tab), EntriesOK(m.tab),
           m.st[0] \in HostState, handle_state_decision(m)
    PROVE  state'[0] \in HostState /\ (state'[0] = "SLAVE" <=> cbest' # Null2)
<1>1. PICK b : Chosen(m, b)
  BY DecisionChooses
<1>2. m.st \in [AnyPort -> State] /\ b \in AnyPort /\ m.tab \in [Port -> [Slot -> Entry]]
  BY Zenon, <1>1 DEF Handed, Chosen
<1>3. /\ state' = StatesAfter(m.st, m.tab, b)
      /\ cbest' = IF b = 0 THEN Null2 ELSE <<b, find_best_master(m.tab[b])>>
  BY Zenon, <1>1 DEF Chosen, Decide
<1>4. state'[0] = HostAfter(m.st, m.tab, b)
  BY Zenon, <1>3, Constants DEF StatesAfter
<1>5. CASE b = 0
  <2>1. \A p \in Port : Decision(m.st, m.tab, b, p) # "SLAVE"
    BY Zenon, <1>2, <1>5, DecisionIs, Constants
  <2>2. \A all : host_event(m.st[0], "BECOME_MASTER", all) \in HostState \ {"SLAVE"}
    BY DEF host_event, HostState
  <2>3. \A all : host_event(m.st[0], "BECOME_PASSIVE", all) \in HostState \ {"SLAVE"}
    BY DEF host_event, HostState
  <2>4. HostAfter(m.st, m.tab, b) \in HostState \ {"SLAVE"}
    BY Zenon, <2>1, <2>2, <2>3 DEF HostAfter
  <2>. QED  BY Zenon, <1>3, <1>4, <1>5, <2>4
<1>6. CASE b # 0
  <2>1. b \in Port
    BY Zenon, <1>2, <1>6, Constants
  <2>2. Better(PortBest(m.tab, b), clock_default_ds(0))
    BY Zenon, <1>1, <1>6 DEF Chosen, BestPort
  <2>3. Decision(m.st, m.tab, b, b) = "SLAVE"
    BY Zenon, <1>2, <2>1, <2>2, BestDecides
  <2>4. \A all : host_event(m.st[0], "BECOME_SLAVE", all) = "SLAVE"
    BY DEF host_event, HostState
  <2>5. HostAfter(m.st, m.tab, b) = "SLAVE"
    BY Zenon, <2>1, <2>3, <2>4 DEF HostAfter
  <2>6. cbest' # Null2
    BY <1>3, <1>6 DEF Null2
  <2>. QED  BY Zenon, <1>4, <2>5, <2>6 DEF HostState
<1>. QED  BY Zenon, <1>5, <1>6

QueueOK == \A i \in 1..Len(rxq) : Genuine(rxq[i].ds)

LEMMA QueueStep ==
    ASSUME HeardIsGenuine, TypeOK, QueueOK, [Next]_vars
    PROVE  QueueOK'
<1>1. rxq \in Seq(Message)
  BY Zenon DEF TypeOK
<1>2. CASE UNCHANGED rxq
  BY Zenon, <1>2 DEF QueueOK
<1>3. ASSUME NEW p \in Port, NEW a \in Heard[p], HandleAnnounce(p, a)  PROVE QueueOK'
  <2>1. CASE UNCHANGED rxq
    BY Zenon, <1>2, <2>1
  <2>2. CASE ~UNCHANGED rxq
    <3>. DEFINE msg == [port |-> p, ds |-> announce_to_dataset(a, p)]
    <3>1. a.tx.clock # OwnId /\ rxq' = Append(rxq, msg)
      BY Zenon, <1>3, <2>2 DEF HandleAnnounce
    <3>2. /\ announce_to_dataset(a, p).id = a.id
          /\ announce_to_dataset(a, p).steps = a.steps
      BY DEF announce_to_dataset
    <3>3. Genuine(msg.ds)
      BY Zenon, <3>1, <3>2 DEF Genuine, HeardIsGenuine
    <3>4. msg \in Message
      BY Zenon, PtpClockAssumption, DatasetOfAnnounce DEF Message
    <3>. HIDE DEF msg
    <3>5. \A i \in 1..Len(rxq') : rxq'[i] = msg \/ (i \in 1..Len(rxq) /\ rxq'[i] = rxq[i])
      BY <1>1, <3>1, <3>4
    <3>. QED  BY Zenon, <3>3, <3>5 DEF QueueOK
  <2>. QED  BY Zenon, <2>1, <2>2
<1>4. CASE ProcAnnounce
  <2>1. rxq # <<>> /\ rxq' = Tail(rxq)
    BY Zenon, <1>4 DEF ProcAnnounce
  <2>2. \A i \in 1..Len(rxq') : i + 1 \in 1..Len(rxq) /\ rxq'[i] = rxq[i + 1]
    BY <1>1, <2>1
  <2>. QED  BY Zenon, <2>2 DEF QueueOK
<1>5. CASE Announces
  BY Zenon, <1>2, <1>3, <1>4, <1>5 DEF Announces, AnnTimer, AnnWork, QualTimer, QualWork
<1>6. CASE Links \/ Faults \/ Servos
  BY Zenon, <1>2, <1>6
  DEF Links, Faults, Servos, LinkUp, LinkDown, SetFault, FaultTimer, FaultWork, Servo
<1>7. CASE ClockStop \/ ClockStart \/ UNCHANGED vars
  BY Zenon, <1>2, <1>7 DEF ClockStop, ClockStart, vars
<1>. QED  BY Zenon, <1>5, <1>6, <1>7 DEF Next

HostOK ==
    /\ QueueOK /\ GenuineTab(fm)
    /\ ~stop => state[0] \in HostState
    /\ HostAgrees

LEMMA HostAgreesStep ==
    ASSUME HeardIsGenuine, Class > 127, Inv, HostOK, [Next]_vars
    PROVE  HostOK'
<1>1. QueueOK' /\ Genuinely
  BY Zenon, QueueStep DEF HostOK, Inv, Genuinely, QueueOK
<1>2. Inv'
  BY Zenon, NextInv
<1>3. CASE Abides
  BY Zenon, <1>1, <1>3 DEF Abides, HostOK, HostAgrees
<1>4. CASE Servos
  <2>1. PICK p \in Port, event \in {"CLOCK_STABLE", "CLOCK_UNSTABLE"} : Servo(p, event)
    BY <1>4 DEF Servos
  <2>2. state' = [state EXCEPT ![p] = port_event(@, event)] /\ UNCHANGED <<tables, stop>>
    BY Zenon, <2>1 DEF Servo
  <2>3. state'[0] = state[0] /\ UNCHANGED <<fm, cbest, stop>>
    BY Zenon, <2>2, Constants DEF Inv, TypeOK, tables
  <2>. QED  BY Zenon, <1>1, <2>3 DEF HostOK, HostAgrees
<1>5. CASE ClockStop
  BY Zenon, <1>1, <1>5 DEF ClockStop, HostOK, HostAgrees
<1>6. ASSUME NEW m, Decides(m) \/ Begins(m)  PROVE HostOK'
  <2>1. m \in Handed /\ handle_state_decision(m) /\ GenuineTab(m.tab)
    BY Zenon, <1>1, <1>6 DEF Decides, Begins
  <2>2. fm' = m.tab
    BY Zenon, <2>1, DecisionType DEF Inv
  <2>3. EntriesOK(m.tab) /\ GenuineTab(fm)'
    BY Zenon, <1>2, <2>1, <2>2 DEF Inv, EntriesOK, GenuineTab
  <2>4. ~stop' => m.st[0] \in HostState
    BY Zenon, <1>6 DEF Decides, Begins, HostOK, HostState
  <2>5. ~stop' => state'[0] \in HostState /\ (state'[0] = "SLAVE" <=> cbest' # Null2)
    BY Zenon, <2>1, <2>3, <2>4, HostDecision
  <2>. QED  BY Zenon, <1>1, <2>3, <2>5 DEF HostOK, HostAgrees
<1>. QED  BY Zenon, <1>3, <1>4, <1>5, <1>6, HostStep

(***************************************************************************)
(* The host port follows exactly while a master better than this clock is  *)
(* known (HostAgrees), whichever handler made the last decision, provided  *)
(* that only this clock announces itself at zero steps.                    *)
(***************************************************************************)
THEOREM HostFollowsBest == HeardIsGenuine => (Spec => []HostAgrees)
<1>. SUFFICES ASSUME HeardIsGenuine  PROVE Spec => []HostAgrees
  OBVIOUS
<1>. DEFINE I == Class > 127 => HostOK
<1>1. Init => I
  BY DEF Init, HostOK, QueueOK, GenuineTab, FreeEntry, HostAgrees
<1>2. Inv /\ I /\ [Next]_vars => I'
  BY Zenon, HostAgreesStep
<1>3. I => HostAgrees
  BY Zenon DEF HostOK, HostAgrees
<1>. HIDE DEF I
<1>. QED  BY <1>1, <1>2, <1>3, Invariance, PTL DEF Spec

-----------------------------------------------------------------------------
(***************************************************************************)
(* Announces of a known master.  In the default profile an entry becomes   *)
(* valid at a count of three, which is above the count from which          *)
(* add_foreign_master compares.  The sender's entry is found because it is *)
(* the only one, and p->best is not NULL because the entry is valid.       *)
(***************************************************************************)
LEMMA DecisionTable ==
    ASSUME NEW m, handle_state_decision(m)
    PROVE  fm' = m.tab
BY Zenon DEF handle_state_decision, Decide

\* The entry i is the valid one of the sender of ds.
Sender(p, i, ds) ==
    /\ fm[p][i].valid /\ fm[p][i].cnt = 3
    /\ fm[p][i].dataset.tx = ds.tx

LEMMA AddKeeps ==
    ASSUME ~Gptp, Inv, NEW p \in Port, NEW ds \in Dataset, NEW i \in Slot, Sender(p, i, ds),
           add_foreign_master(p, ds)
    PROVE  ~dataset_cmp(fm'[p][i].dataset, ds)
<1>. DEFINE f == fm[p][i]
<1>1. fm \in [Port -> [Slot -> Entry]] /\ Threshold = 3
  BY DEF Inv, TypeOK, Threshold
<1>2. i = find_foreign_master(fm[p], ds)
  <2>0. fm[p][i].cnt > 0 /\ fm[p][i].dataset.tx = ds.tx
    <3>1. fm[p][i].cnt = 3 /\ fm[p][i].dataset.tx = ds.tx
      BY Zenon DEF Sender
    <3>. QED  BY <3>1
  <2>1. \A j \in Slot : Known(fm[p], ds, j) => j = i
    BY Zenon, <2>0 DEF Known, Inv, SendersOK
  <2>2. Known(fm[p], ds, i)
    BY Zenon, <2>0 DEF Known
  <2>. QED  BY <2>1, <2>2, SlotIs DEF find_foreign_master
<1>3. i # NoSlot
  BY SlotIs DEF NoSlot
<1>. DEFINE e == AddedEntry(f, ds)
<1>. DEFINE tab == [fm EXCEPT ![p][i] = e]
<1>4. fm' = tab
  <2>. DEFINE m == [Now EXCEPT !.tab = tab, !.armed = @ \cup {p}]
  <2>1. handle_state_decision(m) \/ fm' = tab
    BY Zenon, <1>2, <1>3 DEF add_foreign_master
  <2>2. m.tab = tab
    BY Zenon DEF Now
  <2>. HIDE DEF m, tab
  <2>. QED  BY Zenon, <2>1, <2>2, DecisionTable
<1>5. fm'[p][i] = e
  BY Zenon, <1>1, <1>4
<1>6. e.dataset = IF f.cnt = 0 \/ Differs(f, ds) THEN ds ELSE f.dataset
  BY Zenon DEF AddedEntry
<1>0. f.valid /\ f.cnt = 3
  BY Zenon DEF Sender
<1>7. Differs(f, ds) <=> dataset_cmp(f.dataset, ds)
  <2>. HIDE DEF f
  <2>. QED  BY SMTT(30), <1>0 DEF Differs
<1>8. f.cnt # 0
  BY <1>0
<1>. HIDE DEF e
<1>. QED  BY Zenon, <1>5, <1>6, <1>7, <1>8 DEF dataset_cmp

LEMMA UpdateKeeps ==
    ASSUME ~Gptp, Inv, NEW p \in Port, NEW ds \in Dataset, NEW i \in Slot, Sender(p, i, ds),
           best[p] # NoSlot, update_current_master(p, ds)
    PROVE  ~dataset_cmp(fm'[p][i].dataset, ds)
<1>. DEFINE k == best[p]
<1>. DEFINE f == fm[p][k]
<1>. DEFINE armed == ann \cup {p} \cup (IF state[p] = "PASSIVE" THEN {} ELSE {0})
<1>. DEFINE tab == [fm EXCEPT ![p][k].dataset = ds]
<1>1. fm \in [Port -> [Slot -> Entry]] /\ k \in Slot /\ f \in Entry
  BY Zenon DEF Inv, TypeOK
<1>2. f.cnt > 0
  <2>1. k = find_best_master(fm[p])
    BY Zenon DEF Inv, BestIsCurrent
  <2>2. f.valid
    BY Zenon, <2>1, SlotIs DEF find_best_master
  <2>. HIDE DEF k
  <2>. QED  BY <1>1, <2>2, ThresholdIs DEF Inv, EntriesOK
<1>3. CASE f.dataset.tx # ds.tx
  BY Zenon, <1>3, AddKeeps DEF update_current_master
<1>4. CASE f.dataset.tx = ds.tx
  <2>1. fm[p][i].cnt > 0 /\ fm[p][i].dataset.tx = ds.tx
    BY DEF Sender
  <2>2. k = i
    BY Zenon, <1>1, <1>2, <1>4, <2>1 DEF Inv, SendersOK
  <2>3. CASE dataset_cmp(f.dataset, ds)
    <3>. DEFINE m == [Now EXCEPT !.tab = tab, !.armed = armed, !.pd = ptp_update_parent_ds(ds)]
    <3>1. handle_state_decision(m)
      BY Zenon, <1>2, <1>4, <2>3 DEF update_current_master
    <3>2. m.tab = tab
      BY Zenon DEF Now
    <3>. HIDE DEF m
    <3>3. fm' = tab
      BY Zenon, <3>1, <3>2, DecisionTable
    <3>4. tab[p][i] = [f EXCEPT !.dataset = ds]
      BY Zenon, <1>1, <2>2
    <3>5. [f EXCEPT !.dataset = ds].dataset = ds
      BY <1>1 DEF Entry
    <3>. QED  BY Zenon, <3>3, <3>4, <3>5 DEF dataset_cmp
  <2>4. CASE ~dataset_cmp(f.dataset, ds)
    <3>1. UNCHANGED fm
      BY Zenon, <1>2, <1>4, <2>4 DEF update_current_master, tables
    <3>. QED  BY Zenon, <2>2, <2>4, <3>1
  <2>. QED  BY Zenon, <2>3, <2>4
<1>. QED  BY Zenon, <1>3, <1>4

LEMMA ProcKeeps ==
    ASSUME ~Gptp, Inv, ProcAnnounce, NEW p, p = Head(rxq).port, NEW ds, ds = Head(rxq).ds,
           state[p] \in Receiving, NEW i \in Slot, fm[p][i].valid, fm[p][i].dataset.tx = ds.tx
    PROVE  ~dataset_cmp(fm'[p][i].dataset, ds)
<1>1. rxq \in Seq(Message) /\ rxq # <<>>
  BY Zenon DEF ProcAnnounce, Inv, TypeOK
<1>2. Head(rxq) \in Message
  BY <1>1
<1>3. p \in Port /\ ds \in Dataset
  BY SMTT(30), <1>2 DEF Message
<1>4. fm[p][i].cnt = 3
  BY <1>3 DEF Inv, EntriesOK, Threshold
<1>5. Sender(p, i, ds)
  BY Zenon, <1>4 DEF Sender
<1>6. best[p] # NoSlot
  <2>1. best[p] = find_best_master(fm[p])
    BY Zenon, <1>3 DEF Inv, BestIsCurrent
  <2>. QED  BY Zenon, <2>1, FindBestSome
<1>. QED
  BY Zenon, <1>3, <1>5, <1>6, AddKeeps, UpdateKeeps DEF ProcAnnounce

(***************************************************************************)
(* A changed Announce of a known master is acted on: in the default        *)
(* profile every Announce of the sender of a valid entry that is processed *)
(* leaves the entry with what it said (AnnounceIsKept).                    *)
(***************************************************************************)
THEOREM ChangeIsKept == ~Gptp => (Spec => AnnounceIsKept)
<1>. SUFFICES ASSUME ~Gptp  PROVE Spec => AnnounceIsKept
  OBVIOUS
<1>. DEFINE A == ProcAnnounce =>
          LET p == Head(rxq).port
              ds == Head(rxq).ds
          IN  \A i \in Slot :
                  /\ state[p] \in Receiving
                  /\ fm[p][i].valid /\ fm[p][i].dataset.tx = ds.tx
                  => ~dataset_cmp(fm'[p][i].dataset, ds)
<1>1. Inv => A
  BY Zenon, ProcKeeps
<1>2. Inv /\ [Next]_vars => [A]_vars
  BY <1>1
<1>3. AnnounceIsKept <=> [][A]_vars
  BY DEF AnnounceIsKept
<1>. HIDE DEF A
<1>. QED  BY <1>2, <1>3, Invariance, PTL DEF Spec

-----------------------------------------------------------------------------
(***************************************************************************)
(* Faults.  As long as the clock is not stopped, which cancels the timer   *)
(* and leaves p->last_fault, a fault has its timer armed or its work       *)
(* scheduled: the timer's callback finds no port DISABLED, and only the    *)
(* work that ends the fault takes it off.                                  *)
(***************************************************************************)
SpecUnstopped == Init /\ [][Next /\ ~ClockStop]_vars

FaultsOK ==
    \A p \in Port : last_fault[p] => ~stop /\ p \in fault \cup faultw

LEMMA FaultsStep ==
    ASSUME Inv, FaultsOK, [Next /\ ~ClockStop]_vars
    PROVE  FaultsOK'
<1>1. last_fault \in [Port -> BOOLEAN]
  BY Zenon DEF Inv, TypeOK
<1>2. CASE UNCHANGED <<last_fault, stop, fault, faultw>>
  BY Zenon, <1>2 DEF FaultsOK
<1>3. ASSUME NEW p \in Port, SetFault(p)  PROVE FaultsOK'
  <2>1. /\ last_fault' = [last_fault EXCEPT ![p] = TRUE] /\ fault' = fault \cup {p}
        /\ state[p] \in Receiving /\ UNCHANGED <<stop, works>>
    BY Zenon, <1>3 DEF SetFault
  <2>2. ~stop' /\ faultw' = faultw
    BY Zenon, <2>1, ReceivingIs DEF works
  <2>3. \A q \in Port : q # p => last_fault'[q] = last_fault[q]
    BY Zenon, <1>1, <2>1
  <2>. QED  BY Zenon, <2>1, <2>2, <2>3 DEF FaultsOK
<1>4. ASSUME NEW p \in Port, FaultTimer(p)  PROVE FaultsOK'
  <2>1. /\ fault' = fault \ {p} /\ UNCHANGED <<last_fault, stop>>
        /\ faultw' = IF state[p] = "DISABLED" THEN faultw ELSE faultw \cup {p}
    BY Zenon, <1>4 DEF FaultTimer
  <2>2. ~stop => state[p] # "DISABLED"
    BY DEF Inv, CauseOK, RunningState
  <2>. QED  BY Zenon, <2>1, <2>2 DEF FaultsOK
<1>5. ASSUME NEW p \in Port, FaultWork(p)  PROVE FaultsOK'
  <2>1. /\ last_fault' = [last_fault EXCEPT ![p] = FALSE] /\ faultw' = faultw \ {p}
        /\ UNCHANGED <<stop, fault>>
    BY Zenon, <1>5 DEF FaultWork
  <2>2. ~last_fault'[p] /\ \A q \in Port : q # p => last_fault'[q] = last_fault[q]
    BY <1>1, <2>1
  <2>. QED  BY Zenon, <2>1, <2>2 DEF FaultsOK
<1>6. CASE ClockStart
  <2>1. stop /\ UNCHANGED last_fault
    BY Zenon, <1>6 DEF ClockStart
  <2>. QED  BY Zenon, <2>1 DEF FaultsOK
<1>7. CASE Announces
  BY Zenon, <1>2, <1>7
  DEF Announces, HandleAnnounce, ProcAnnounce, AnnTimer, AnnWork, QualTimer, QualWork, works
<1>8. CASE Links \/ Servos
  BY Zenon, <1>2, <1>8 DEF Links, LinkUp, LinkDown, Servos, Servo, works
<1>9. CASE UNCHANGED vars
  BY Zenon, <1>2, <1>9 DEF vars, timers, works
<1>. QED  BY Zenon, <1>3, <1>4, <1>5, <1>6, <1>7, <1>8, <1>9 DEF Next, Faults

(***************************************************************************)
(* Until the clock is stopped for the first time, every fault has its      *)
(* timeout armed or about to run (FaultIsTimed), so a port that waits for  *)
(* the end of a fault waits for something.                                 *)
(***************************************************************************)
THEOREM FaultEnds == SpecUnstopped => []FaultIsTimed
<1>1. Init => FaultsOK
  BY DEF Init, FaultsOK
<1>2. Inv /\ [Next /\ ~ClockStop]_vars => Inv'
  BY Zenon, NextInv
<1>3. Inv /\ FaultsOK /\ [Next /\ ~ClockStop]_vars => FaultsOK'
  BY FaultsStep
<1>4. FaultsOK => FaultIsTimed
  BY Zenon DEF FaultsOK, FaultIsTimed
<1>. QED  BY <1>1, <1>2, <1>3, <1>4, InitInv, PTL DEF SpecUnstopped

=============================================================================
