-------------------------------- MODULE Mvrp --------------------------------
(***************************************************************************)
(* Two mrpd daemons at the ends of a link run MVRP for a set of VLANs      *)
(* (mvrp.c with the event loop of mrpd.c, one port each).  The clients of  *)
(* a daemon declare and withdraw VLANs; the daemons tell each other in     *)
(* PDUs that may get lost.  Time advances in ticks of the join timer       *)
(* (MRP_JOINTIMER_VAL); whatever is due is done before the next tick.      *)
(***************************************************************************)
EXTENDS Naturals, FiniteSets, FiniteSetsExt, Mrp

CONSTANTS
    Node,       \* the two daemons
    Vid,        \* VLAN identifiers
    Uses,       \* the ones that the clients of a daemon declare
    LvTicks,    \* MRP_LVTIMER_VAL in ticks
    LvaTicks,   \* the least ticks of the LeaveAll timer
    Room,       \* how many attributes a PDU has room for
    MaxLosses,  \* bound: lost PDUs
    MaxRequests,    \* bound: requests of the clients
    NoPdu       \* no PDU is on its way

ASSUME MvrpAssumption ==
    /\ IsFiniteSet(Node) /\ Cardinality(Node) = 2
    /\ Vid \subseteq 1 .. 4095
    /\ Uses \in [Node -> SUBSET Vid]
    /\ {LvTicks, LvaTicks, Room} \subseteq Nat \ {0}
    /\ {MaxLosses, MaxRequests} \subseteq Nat

\* What a PDU tells: whether all are to leave, and an event of some VLANs.
PduEvent == {"NEW", "JOININ", "JOINMT", "IN", "MT", "LV"}
Pdu == [lva : BOOLEAN, ev : UNION {[vids -> PduEvent] : vids \in SUBSET Vid}]

ASSUME PduAssumption == NoPdu \notin Pdu

VARIABLES
    attribs,    \* MVRP_db->attrib_list: [app, reg] of every VLAN in it
    lva,        \* mrp_db.lva.state is MRP_TIMER_ACTIVE
    join, lv, lvat,     \* the timers: 0 stopped, 1 run out, else ticks + 1
    stale,      \* the timers that ran out before this pass of the event loop
                \* and that the PDU received in it has set again
    tx_attrib,  \* where the next PDU goes on, 0 for NULL
    link,       \* the PDU that a daemon has sent
    clients,    \* the daemons that have a client
    told,       \* the VLANs a daemon's client takes for registered
    held,       \* the VLANs a daemon has declared since before the last tick
    due,        \* how many Joins of its peer a leaving VLAN can count on
    losses,     \* how many PDUs have been lost
    requests    \* how many requests the clients have made

vars == <<attribs, lva, join, lv, lvat, stale, tx_attrib, link, clients, told,
          held, due, losses, requests>>

Peer(n) == CHOOSE m \in Node : m # n

NewAttrib == [app |-> NewApplicant, reg |-> "MT"]
Listed(n) == DOMAIN attribs[n]
Attrib(n, v) == IF v \in Listed(n) THEN attribs[n][v] ELSE NewAttrib
IsDeclared(n, v) == Attrib(n, v).app.state \in Declared
Registrar(n, v) == Attrib(n, v).reg

Init ==
    /\ attribs = [n \in Node |-> <<>>]
    /\ lva = [n \in Node |-> FALSE]
    /\ join = [n \in Node |-> 0] /\ lv = [n \in Node |-> 0]
    /\ lvat = [n \in Node |-> LvaTicks + 1]
    /\ stale = [n \in Node |-> {}]
    /\ tx_attrib = [n \in Node |-> 0]
    /\ link = [n \in Node |-> NoPdu]
    /\ clients = {}
    /\ told = [n \in Node |-> {}]
    /\ held = [n \in Node |-> {}]
    /\ due = [n \in Node |-> [v \in Vid |-> 0]]
    /\ losses = 0 /\ requests = 0

-----------------------------------------------------------------------------
(***************************************************************************)
(* The end of every mvrp_event but tx!: a change that must be sent starts  *)
(* the join timer, which ends a transmission that was to go on.            *)
(***************************************************************************)
mrp_jointimer_start(t) == IF t = 0 THEN 2 ELSE t

\* Mutant: only a timer that is running is set.
mrp_lvtimer_start_running(t) == IF t = 0 THEN 0 ELSE LvTicks + 1

mrp_lvtimer_start(t) == LvTicks + 1

TxOp(n, wants) ==
    /\ join' = [join EXCEPT ![n] = IF wants THEN mrp_jointimer_start(@) ELSE @]
    /\ tx_attrib' = [tx_attrib EXCEPT ![n] = IF wants THEN 0 ELSE @]

Wants(old, new) ==
    \E v \in DOMAIN new :
        WantsTx((IF v \in DOMAIN old THEN old[v] ELSE NewAttrib).app,
                new[v].app)

(***************************************************************************)
(* History: the Joins that a registration can count on from the time it    *)
(* starts to leave.  They are two if the peer has declared the VLAN since  *)
(* before the last tick, and none if it has not or if the leave time is    *)
(* over at once.                                                           *)
(***************************************************************************)
Counts(n, over) ==
    due' = [due EXCEPT ![n] = [v \in Vid |->
               IF Registrar(n, v)' # "LV" THEN 0
               ELSE IF Registrar(n, v) = "LV" THEN due[n][v]
               ELSE IF v \in held[Peer(n)] /\ ~over THEN 2 ELSE 0]]

-----------------------------------------------------------------------------
(***************************************************************************)
(* A client: mvrp_recv_cmd with V++, V+? and V--.  The first command of a  *)
(* client also adds it to the list of clients and tells it what is         *)
(* registered (ClientAdd).                                                 *)
(***************************************************************************)
ClientAdd(n) ==
    /\ n \notin clients
    /\ clients' = clients \cup {n}
    /\ told' = [told EXCEPT ![n] =
                   {v \in Listed(n) : Registrar(n, v) = "IN"}]
    /\ UNCHANGED <<attribs, lva, join, lv, lvat, tx_attrib, link, held,
                   due, losses, requests>>

\* mvrp_bye; what the client declared stays declared.
ClientBye(n) ==
    /\ n \in clients
    /\ requests < MaxRequests /\ requests' = requests + 1
    /\ clients' = clients \ {n}
    /\ told' = [told EXCEPT ![n] = {}]
    /\ UNCHANGED <<attribs, lva, join, lv, lvat, tx_attrib, link, held,
                   due, losses>>

\* mvrp_cmd_vid: mvrp_lookup or mvrp_add, then the applicant, which moves to s.
Command(n, v, s) ==
    LET a == Attrib(n, v)
        b == [a EXCEPT !.app = Quietly(@, s)]
    IN  /\ n \in clients
        /\ attribs' = [attribs EXCEPT ![n] =
                          [w \in Listed(n) \cup {v} |->
                              IF w = v THEN b ELSE attribs[n][w]]]
        /\ TxOp(n, WantsTx(a.app, b.app))
        /\ requests < MaxRequests /\ requests' = requests + 1
        /\ UNCHANGED <<lva, lv, lvat, link, clients, told, losses>>

New(n, v) ==
    Command(n, v, OnNew(Attrib(n, v).app.state)) /\ UNCHANGED <<held, due>>
Join(n, v) ==
    Command(n, v, OnJoin(Attrib(n, v).app.state)) /\ UNCHANGED <<held, due>>
Leave(n, v) ==
    /\ Command(n, v, OnLv(Attrib(n, v).app.state))
    /\ held' = [held EXCEPT ![n] = @ \ {v}]
    /\ due' = [due EXCEPT ![Peer(n)][v] = 0]

-----------------------------------------------------------------------------
(***************************************************************************)
(* mvrp_prepare_tx.  An attribute whose message is optional is only sent   *)
(* where that saves a vector header: in a run of consecutive VLANs that    *)
(* starts with one that must be sent, and not at the end of such a run     *)
(* unless the list ends there too.  vid_firstval is a uint8_t.  (The limit *)
(* of 22 optional attributes in a row is beyond the VLANs of an instance.) *)
(***************************************************************************)
Follows(u, v) == v = (u + 1) % 256

\* u and v are in one run: both and all between them are marked, each
\* following the one before.
InRun(marked, u, v) ==
    /\ u <= v
    /\ u .. v \subseteq marked
    /\ \A w \in u .. v : w = u \/ Follows(w - 1, w)

Prepared(list, la) ==
    LET marked == {v \in DOMAIN list : list[v].app.tx}
        must == {v \in marked : ~list[v].app.optional}
        useful(v) == /\ \E u \in must : InRun(marked, u, v)
                     /\ \/ \E w \in must : InRun(marked, v, w)
                        \/ \A w \in marked : w > v => InRun(marked, v, w)
        kept == {v \in marked : v \in must \/ useful(v)}
    IN  IF la /\ marked # {} THEN kept \cup {Max(marked)} ELSE kept

(***************************************************************************)
(* mvrp_emit_vidvectors.  Starting where the last PDU ended, attributes    *)
(* are sent until the PDU is full.  All of those it comes to are marked as *)
(* told to the peer; it stops at the first VLAN it has no room for.        *)
(***************************************************************************)
Stop(list, send, start) ==
    LET ahead == {v \in send : v >= start}
        last == CHOOSE v \in ahead :
                    Cardinality({w \in ahead : w <= v}) = Room
        rest == {v \in DOMAIN list : v > last}
    IN  IF Cardinality(ahead) >= Room /\ rest # {} THEN Min(rest) ELSE 0

\* The first VLAN of the vector that v is sent in.
Head(sent, v) ==
    Min({u \in sent : u <= v /\ u .. v \subseteq sent})

Event(list, sent, v) ==
    LET msg == list[v].app.sndmsg
        first == list[Head(sent, v)].reg
    IN  CASE msg = "IN" -> IF list[v].reg = "IN" THEN "IN" ELSE "MT"
          [] msg = "JOIN" -> IF first = "IN" THEN "JOININ" ELSE "JOINMT"
          [] OTHER -> msg

-----------------------------------------------------------------------------
(***************************************************************************)
(* mvrp_reclaim: forget what nobody declares any more.                     *)
(***************************************************************************)
Reclaimable(a) ==
    /\ a.reg = "MT"
    /\ a.app.aging <= 1
    /\ a.app.state \in {"VO", "AO", "QO"}

Reclaimed(list) ==
    [v \in {w \in DOMAIN list : ~Reclaimable(list[w])} |-> list[v]]

\* The first loop of mvrp_event(MRP_EVENT_TX): every applicant says what it
\* has to send, or what it sends along with a LeaveAll.
TxAsked(list, la) ==
    [v \in DOMAIN list |->
        IF la THEN [app |-> TxLaApplicant(list[v].app), reg |-> RegLeave(list[v].reg)]
        ELSE [list[v] EXCEPT !.app = TxApplicant(@, list[v].reg)]]

(***************************************************************************)
(* mvrp_event(MRP_EVENT_TX): the applicants are asked, and the PDU is      *)
(* built and sent; the end of a LeaveAll is an rLA! or, when the PDU was   *)
(* full, a txLAF! for this daemon too.  The event loop then reclaims if an *)
(* attribute has aged.                                                     *)
(***************************************************************************)
Transmit(n, start) ==
    LET la == lva[n]
        old == attribs[n]
        asked == TxAsked(old, la)
        send == Prepared(asked, la)
        stop == Stop(asked, send, start)
        passed == {v \in DOMAIN old : v >= start /\ (stop = 0 \/ v < stop)}
        sent == send \cap passed
        after == [v \in DOMAIN old |->
                    IF v \in passed
                    THEN [asked[v] EXCEPT
                             !.app = [mrp_applicant_chk(@, asked[v].reg)
                                        EXCEPT !.tx = FALSE]]
                    ELSE [asked[v] EXCEPT !.app.tx = v \in send]]
        final == IF ~la THEN after
                 ELSE IF stop = 0
                 THEN [v \in DOMAIN old |->
                         [app |-> Quietly(after[v].app,
                                          OnRLeave(after[v].app.state)),
                          reg |-> RegLeave(after[v].reg)]]
                 ELSE [v \in DOMAIN old |->
                         [after[v] EXCEPT !.app = TxLafApplicant(@)]]
        again == Wants(old, asked) \/ (la /\ Wants(after, final))
        more == stop # 0 /\ ~la
        reclaim == \E v \in passed : AsksReclaim(asked[v].app, asked[v].reg)
        left == IF reclaim THEN Reclaimed(final) ELSE final
    IN  /\ attribs' = [attribs EXCEPT ![n] = left]
        /\ lva' = [lva EXCEPT ![n] = FALSE]
        /\ lvat' = [lvat EXCEPT ![n] =
                       IF la /\ stop = 0 THEN LvaTicks + 1 ELSE @]
        /\ lv' = [lv EXCEPT ![n] =
                     IF la /\ \E v \in DOMAIN old : old[v].reg = "IN"
                     THEN mrp_lvtimer_start(@) ELSE @]
        /\ join' = [join EXCEPT ![n] = IF again \/ more THEN 2 ELSE 0]
        /\ tx_attrib' = [tx_attrib EXCEPT ![n] =
                            IF again /\ ~more THEN 0 ELSE stop]
        /\ link' = [link EXCEPT ![n] =
                       IF sent = {} THEN NoPdu
                       ELSE [lva |-> la,
                             ev |-> [v \in sent |-> Event(asked, sent, v)]]]
        /\ told' = [told EXCEPT ![n] = @ \ (DOMAIN old \ DOMAIN left)]
        /\ UNCHANGED <<clients, held, losses, requests>>

\* Where the PDU starts.  If the VLAN to go on with has been reclaimed
\* meanwhile the pointer dangles, and the list may go on anywhere.
Dangling(n) == tx_attrib[n] \notin Listed(n) \cup {0}
Start(n) == IF Dangling(n) THEN Vid ELSE {tx_attrib[n]}

JoinTimer(n) ==
    /\ join[n] = 1
    /\ \E start \in Start(n) : Transmit(n, start)
    /\ Counts(n, FALSE)

-----------------------------------------------------------------------------
(***************************************************************************)
(* mvrp_recv_msg.  The LeaveAll of a PDU comes first, for every VLAN in    *)
(* the list; then each VLAN's event.  A VLAN that is not known is added,   *)
(* unless the peer says that it is empty.                                  *)
(***************************************************************************)
RxApplicant(e, s) ==
    CASE e = "JOININ" -> OnRJoinIn(s)
      [] e = "IN" -> OnRIn(s)
      [] e \in {"JOINMT", "MT"} -> OnREmpty(s)
      [] e = "LV" -> OnRLeave(s)
      [] OTHER -> s

\* Mutant: a JoinMt does not register.
RxRegistrar_in_only(e, r) ==
    CASE e \in {"NEW", "JOININ"} -> RegJoin(r)
      [] e = "LV" -> RegLeave(r)
      [] OTHER -> r

RxRegistrar(e, r) ==
    CASE e \in {"NEW", "JOININ", "JOINMT"} -> RegJoin(r)
      [] e = "LV" -> RegLeave(r)
      [] OTHER -> r

RxPdu(n, pdu) ==
    LET old == attribs[n]
        all == IF pdu.lva
               THEN [v \in DOMAIN old |->
                       [app |-> Quietly(old[v].app,
                                        OnRLeave(old[v].app.state)),
                        reg |-> RegLeave(old[v].reg)]]
               ELSE old
        heard == {v \in DOMAIN pdu.ev : v \in DOMAIN old \/ pdu.ev[v] # "MT"}
        was(v) == IF v \in DOMAIN all THEN all[v] ELSE NewAttrib
        new == [v \in DOMAIN old \cup heard |->
                  IF v \notin heard THEN all[v]
                  ELSE [app |-> Quietly(was(v).app,
                                   RxApplicant(pdu.ev[v], was(v).app.state)),
                        reg |-> RxRegistrar(pdu.ev[v], was(v).reg)]]
        leaves == \E v \in DOMAIN old :
                      /\ old[v].reg = "IN"
                      /\ pdu.lva \/ (v \in heard /\ pdu.ev[v] = "LV")
    IN  /\ attribs' = [attribs EXCEPT ![n] = new]
        /\ TxOp(n, Wants(old, all) \/ Wants(all, new))
        /\ lva' = [lva EXCEPT ![n] = @ /\ ~pdu.lva]
        /\ lvat' = [lvat EXCEPT ![n] = IF pdu.lva THEN LvaTicks + 1 ELSE @]
        /\ lv' = [lv EXCEPT ![n] = IF leaves THEN mrp_lvtimer_start(@) ELSE @]
        /\ told' = [told EXCEPT ![n] =
                       IF n \in clients
                       THEN @ \cup {v \in heard :
                                      \/ pdu.ev[v] = "NEW"
                                      \/ /\ was(v).reg = "MT"
                                         /\ new[v].reg = "IN"}
                       ELSE @]

\* The leave and LeaveAll timers that select() may have found run out.
RunOut(n) == {t \in {"lv", "lva"} : IF t = "lv" THEN lv[n] = 1 ELSE lvat[n] = 1}

\* What select() has found is handled later in the pass, though the PDU, which
\* comes first, has set the timer again.
Receive(n) ==
    /\ stale[n] = {}
    /\ link[Peer(n)] # NoPdu
    /\ RxPdu(n, link[Peer(n)])
    /\ \E found \in SUBSET (RunOut(n) \ RunOut(n)') :
          stale' = [stale EXCEPT ![n] = found]
    /\ link' = [link EXCEPT ![Peer(n)] = NoPdu]
    /\ Counts(n, "lv" \in stale'[n])
    /\ UNCHANGED <<clients, held, losses, requests>>

Declares(pdu, v) ==
    v \in DOMAIN pdu.ev /\ pdu.ev[v] \in {"NEW", "JOININ", "JOINMT"}

\* A LeaveAll that is lost is not answered; a Join that is lost is one less.
Lose(n) ==
    /\ link[n] # NoPdu
    /\ losses < MaxLosses
    /\ link' = [link EXCEPT ![n] = NoPdu]
    /\ losses' = losses + 1
    /\ due' = [m \in Node |-> [v \in Vid |->
                  IF m = n THEN IF link[n].lva THEN 0 ELSE due[m][v]
                  ELSE IF Declares(link[n], v) /\ due[m][v] > 0
                       THEN due[m][v] - 1 ELSE due[m][v]]]
    /\ UNCHANGED <<attribs, lva, join, lv, lvat, stale, tx_attrib, clients,
                   told, held, requests>>

-----------------------------------------------------------------------------
(***************************************************************************)
(* The other timers.                                                       *)
(***************************************************************************)
Handled(n, t) ==
    /\ t \in RunOut(n) \cup stale[n]
    /\ stale' = [stale EXCEPT ![n] = @ \ {t}]

\* mvrp_event(MRP_EVENT_LVTIMER): one leave timer for all VLANs.
LvTimer(n) ==
    /\ Handled(n, "lv") /\ "lva" \notin stale[n]
    /\ lv' = [lv EXCEPT ![n] = 0]
    /\ attribs' = [attribs EXCEPT ![n] =
                      [v \in Listed(n) |->
                          [attribs[n][v] EXCEPT !.reg = RegLvTimer(@)]]]
    /\ told' = [told EXCEPT ![n] =
                   @ \ {v \in Listed(n) : Registrar(n, v) = "LV"}]
    /\ Counts(n, FALSE)
    /\ UNCHANGED <<lva, join, lvat, tx_attrib, link, clients, held,
                   losses, requests>>

\* mvrp_event(MRP_EVENT_LVATIMER): a LeaveAll with the next PDU.
\* Mutant: the LeaveAll waits for something else to be sent.
LvaTimer_waits(n) ==
    /\ Handled(n, "lva")
    /\ lva' = [lva EXCEPT ![n] = TRUE]
    /\ lvat' = [lvat EXCEPT ![n] = LvaTicks + 1]
    /\ UNCHANGED <<attribs, join, lv, tx_attrib, link, clients, told, held,
                   due, losses, requests>>

LvaTimer(n) ==
    /\ Handled(n, "lva")
    /\ lva' = [lva EXCEPT ![n] = TRUE]
    /\ lvat' = [lvat EXCEPT ![n] = LvaTicks + 1]
    /\ TxOp(n, ~lva[n])
    /\ UNCHANGED <<attribs, lv, link, clients, told, held,
                       due, losses, requests>>

\* mvrp_event(MRP_EVENT_PERIODIC), if mrpd was started with -p.
Periodic(n) ==
    LET new == [v \in Listed(n) |->
                  [attribs[n][v] EXCEPT
                      !.app = Quietly(@, OnPeriodic(@.state))]]
    IN  /\ attribs' = [attribs EXCEPT ![n] = new]
        /\ TxOp(n, Wants(attribs[n], new))
        /\ UNCHANGED <<lva, lv, lvat, link, clients, told, held,
                       due, losses, requests>>

\* mrpd_reclaim, every 30 seconds.
GcTimer(n) ==
    /\ attribs' = [attribs EXCEPT ![n] = Reclaimed(@)]
    /\ told' = [told EXCEPT ![n] = @ \cap DOMAIN Reclaimed(attribs[n])]
    /\ UNCHANGED <<lva, join, lv, lvat, tx_attrib, link, clients, held,
                   due, losses, requests>>

Down(t) == IF t > 1 THEN t - 1 ELSE t

Tick ==
    /\ \A n \in Node : /\ link[n] = NoPdu /\ join[n] # 1 /\ lv[n] # 1
                       /\ stale[n] = {}
    /\ join' = [n \in Node |-> Down(join[n])]
    /\ lv' = [n \in Node |-> Down(lv[n])]
    /\ lvat' = [n \in Node |-> Down(lvat[n])]
    /\ held' = [n \in Node |-> {v \in Vid : IsDeclared(n, v)}]
    /\ UNCHANGED <<attribs, lva, stale, tx_attrib, link, clients, told, due,
                   losses, requests>>

-----------------------------------------------------------------------------
\* What waits until the timers that select() has found are handled, and
\* leaves none behind.
Other(n) ==
    /\ stale[n] = {}
    /\ UNCHANGED stale
    /\ \/ ClientAdd(n) \/ ClientBye(n)
       \/ \E v \in Uses[n] : New(n, v) \/ Join(n, v) \/ Leave(n, v)
       \/ JoinTimer(n) \/ Periodic(n) \/ GcTimer(n)

Next ==
    \/ \E n \in Node :
          Other(n) \/ LvTimer(n) \/ LvaTimer(n) \/ Receive(n) \/ Lose(n)
    \/ Tick

Spec == Init /\ [][Next]_vars

(***************************************************************************)
(* select() reports every timer that has run out and every PDU, and the    *)
(* loop handles all of them; time goes on.  Only JoinTimer stops a join    *)
(* timer that has run out, so that []<>(join[n] # 1) is weak fairness of   *)
(* JoinTimer(n), at much less cost to TLC; likewise for the others.        *)
(***************************************************************************)
Fairness ==
    /\ WF_vars(Tick)
    /\ \A n \in Node : /\ []<>(join[n] # 1) /\ []<>(lv[n] # 1)
                       /\ []<>(lvat[n] # 1) /\ []<>(link[n] = NoPdu)
                       /\ []<>(stale[n] = {})

-----------------------------------------------------------------------------
(***************************************************************************)
(* The list holds well formed attributes and no timer exceeds its start.   *)
(***************************************************************************)
TypeOK ==
    /\ \A n \in Node :
          /\ Listed(n) \subseteq Vid
          /\ \A v \in Listed(n) : /\ attribs[n][v].app \in Applicant
                                  /\ attribs[n][v].reg \in RegistrarState
          /\ tx_attrib[n] \in Vid \cup {0}
          /\ told[n] \subseteq Vid
          /\ join[n] \in 0 .. 2
          /\ lv[n] \in 0 .. LvTicks + 1
          /\ lvat[n] \in 1 .. LvaTicks + 1
    /\ lva \in [Node -> BOOLEAN]
    /\ stale \in [Node -> SUBSET {"lv", "lva"}]
    /\ clients \subseteq Node
    /\ losses \in 0 .. MaxLosses /\ requests \in 0 .. MaxRequests

(***************************************************************************)
(* A daemon does not give up a registration (LV to MT, notify LV) that its *)
(* peer has declared all the while, though LeaveAlls of either side come   *)
(* in between and a Join is lost: the peer answers a LeaveAll with two     *)
(* Joins, both within the leave time.  It may do so if the LeaveAll that   *)
(* it sent was lost, or both Joins; and if a LeaveAll comes in a pass of   *)
(* the event loop that has found the leave timer of another VLAN run out,  *)
(* which then ends the new leave time at once.                             *)
(***************************************************************************)
KeepsDeclared ==
    \A n \in Node, v \in Vid :
        "lv" \in RunOut(n) \cup stale[n] /\ Registrar(n, v) = "LV" =>
            due[n][v] = 0

(***************************************************************************)
(* A client takes a VLAN for registered only while the registrar has not   *)
(* given it up: every path to MT tells the clients.                        *)
(***************************************************************************)
ToldIsRegistered ==
    \A n \in Node : \A v \in told[n] : Registrar(n, v) # "MT"

(***************************************************************************)
(* A registration that is leaving is decided: the leave timer runs.        *)
(***************************************************************************)
LeavingIsTimed ==
    \A n \in Node, v \in Vid : Registrar(n, v) = "LV" => lv[n] > 0

(***************************************************************************)
(* What has to be sent will be sent: an applicant in a state that must     *)
(* send has the join timer running.  LO, which txLA! leaves as it is, is   *)
(* the exception: it may wait for the next chance to send.                 *)
(***************************************************************************)
AnxiousIsTimed ==
    \A n \in Node : \A v \in Listed(n) :
        attribs[n][v].app.state \in Anxious \ {"LO"} => join[n] > 0

(***************************************************************************)
(* A Join tells the peer what the registrar of that VLAN holds: JoinIn if  *)
(* it is IN, JoinMt if it is MT or LV.                                     *)
(***************************************************************************)
JoinTellsRegistrar ==
    [][\A n \in Node :
          link'[n] \notin {link[n], NoPdu} =>
              \A v \in DOMAIN link'[n].ev :
                  /\ link'[n].ev[v] = "JOININ" => Registrar(n, v)' = "IN"
                  /\ link'[n].ev[v] = "JOINMT" => Registrar(n, v)' # "IN"
      ]_vars

(***************************************************************************)
(* A VLAN that a client declares for good is registered by the peer for    *)
(* good, although PDUs have been lost.                                     *)
(***************************************************************************)
DeclaredIsRegistered ==
    \A n \in Node, v \in Vid :
        <>[]IsDeclared(n, v) => <>[](Registrar(Peer(n), v) # "MT")

(***************************************************************************)
(* A VLAN withdrawn for good is deregistered by the peer for good, even if *)
(* the Leave message was lost: a LeaveAll finds it out.                    *)
(***************************************************************************)
WithdrawnIsGone ==
    \A n \in Node, v \in Vid :
        <>[]~IsDeclared(n, v) => <>[](Registrar(Peer(n), v) = "MT")
=============================================================================
