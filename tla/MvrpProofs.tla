----------------------------- MODULE MvrpProofs -----------------------------
(***************************************************************************)
(* Proofs about Mvrp, for any VLANs, any timer values, any room in a PDU   *)
(* and any number of lost PDUs and requests: the registrar, its leave      *)
(* timer and what the clients are told stay in step, and all the state has *)
(* its type.  If a PDU has room for all the VLANs the join timer follows   *)
(* the applicants too.                                                     *)
(***************************************************************************)
EXTENDS Mvrp, FiniteSetTheorems, WellFoundedInduction, TLAPS

\* An attribute is a record with a registrar state.  What its applicant is
\* does not matter to the registrar.
IsAttrib(a) == a = [app |-> a.app, reg |-> a.reg] /\ a.reg \in RegistrarState

IsList(list) == /\ list = [v \in DOMAIN list |-> list[v]]
                /\ \A v \in DOMAIN list : IsAttrib(list[v])

\* The registrar state of a VLAN in a list.
Reg(list, v) == IF v \in DOMAIN list THEN list[v].reg ELSE "MT"

LEMMA RegistrarIs ==
    ASSUME NEW n
    PROVE  \A v : Registrar(n, v) = Reg(attribs[n], v)
BY DEF Registrar, Attrib, Reg, Listed, NewAttrib

(***************************************************************************)
(* The inductive invariant.                                                *)
(***************************************************************************)
Timed(list, t) == \A v \in Vid : Reg(list, v) = "LV" => t > 0
Told(list, vids) == \A v \in vids : Reg(list, v) # "MT"

NodeOK(n) ==
    /\ IsList(attribs[n])
    /\ lv[n] \in Nat
    /\ Timed(attribs[n], lv[n])
    /\ Told(attribs[n], told[n])

Inv ==
    /\ attribs = [n \in Node |-> attribs[n]]
    /\ lv = [n \in Node |-> lv[n]]
    /\ told = [n \in Node |-> told[n]]
    /\ \A n \in Node : NodeOK(n)

LEMMA InvImplies == Inv => LeavingIsTimed /\ ToldIsRegistered
<1>. SUFFICES ASSUME Inv, NEW n \in Node
     PROVE  /\ \A v \in Vid : Registrar(n, v) = "LV" => lv[n] > 0
            /\ \A v \in told[n] : Registrar(n, v) # "MT"
  BY Zenon DEF LeavingIsTimed, ToldIsRegistered
<1>1. Timed(attribs[n], lv[n]) /\ Told(attribs[n], told[n])
  BY Zenon DEF Inv, NodeOK
<1>. QED  BY Zenon, <1>1, RegistrarIs DEF Timed, Told

LEMMA InitInv == Init => Inv
<1>. SUFFICES ASSUME Init  PROVE Inv
  OBVIOUS
<1>1. /\ attribs = [n \in Node |-> <<>>]
      /\ lv = [n \in Node |-> 0]
      /\ told = [n \in Node |-> {}]
  BY DEF Init
<1>2. DOMAIN <<>> = {}
  OBVIOUS
<1>. QED  BY <1>1, <1>2 DEF Inv, NodeOK, IsList, Timed, Told, Reg

(***************************************************************************)
(* A handler of daemon n leaves the other daemon's part alone.             *)
(***************************************************************************)
LEMMA OneNode ==
    ASSUME Inv, NEW n \in Node, NEW list, NEW t \in Nat, NEW vids,
           attribs' = [attribs EXCEPT ![n] = list],
           lv' = [lv EXCEPT ![n] = t],
           told' = [told EXCEPT ![n] = vids],
           IsList(list), Timed(list, t), Told(list, vids)
    PROVE  Inv'
<1>1. attribs'[n] = list /\ lv'[n] = t /\ told'[n] = vids
  BY DEF Inv
<1>2. NodeOK(n)'
  BY Zenon, <1>1 DEF NodeOK
<1>3. ASSUME NEW m \in Node, m # n  PROVE NodeOK(m)'
  <2>1. attribs'[m] = attribs[m] /\ lv'[m] = lv[m] /\ told'[m] = told[m]
    BY <1>3 DEF Inv
  <2>. QED  BY Zenon, <1>3, <2>1 DEF Inv, NodeOK
<1>4. attribs' = [m \in Node |-> attribs'[m]]
  BY DEF Inv
<1>5. lv' = [m \in Node |-> lv'[m]]
  BY DEF Inv
<1>6. told' = [m \in Node |-> told'[m]]
  BY DEF Inv
<1>. QED  BY Zenon, <1>2, <1>3, <1>4, <1>5, <1>6 DEF Inv

-----------------------------------------------------------------------------
(***************************************************************************)
(* Steps that leave every registrar alone.                                 *)
(***************************************************************************)
LEMMA SameRegistrars ==
    ASSUME NEW old, NEW new, \A v : Reg(new, v) = Reg(old, v)
    PROVE  /\ \A t : Timed(old, t) => Timed(new, t)
           /\ \A vids : Told(old, vids) => Told(new, vids)
BY Zenon DEF Timed, Told

LEMMA ListAttrib ==
    ASSUME Inv, NEW n \in Node, NEW v
    PROVE  IsAttrib(Attrib(n, v)) /\ Attrib(n, v).reg = Reg(attribs[n], v)
<1>1. IsAttrib(NewAttrib) /\ NewAttrib.reg = "MT"
  BY DEF IsAttrib, NewAttrib, RegistrarState
<1>2. v \in DOMAIN attribs[n] => IsAttrib(attribs[n][v])
  BY Zenon DEF Inv, NodeOK, IsList
<1>. QED  BY Zenon, <1>1, <1>2 DEF Attrib, Listed, Reg

LEMMA WithApp ==
    ASSUME NEW a, IsAttrib(a), NEW app
    PROVE  /\ IsAttrib([a EXCEPT !.app = app])
           /\ [a EXCEPT !.app = app].reg = a.reg
<1>1. [a EXCEPT !.app = app] = [app |-> app, reg |-> a.reg]
  <2>1. \A x, r : [[app |-> x, reg |-> r] EXCEPT !.app = app] = [app |-> app, reg |-> r]
    OBVIOUS
  <2>. QED  BY Zenon, <2>1 DEF IsAttrib
<1>2. [app |-> app, reg |-> a.reg].app = app /\ [app |-> app, reg |-> a.reg].reg = a.reg
  OBVIOUS
<1>. QED  BY Zenon, <1>1, <1>2 DEF IsAttrib

\* mvrp_cmd_vid gives the VLAN another applicant.
LEMMA CommandInv ==
    ASSUME Inv, NEW n \in Node, NEW v, NEW app, UNCHANGED <<lv, told>>,
           attribs' = [attribs EXCEPT ![n] =
                          [w \in Listed(n) \cup {v} |->
                              IF w = v THEN [Attrib(n, v) EXCEPT !.app = app]
                              ELSE attribs[n][w]]]
    PROVE  Inv'
<1>. DEFINE b == [Attrib(n, v) EXCEPT !.app = app]
<1>. DEFINE list == [w \in Listed(n) \cup {v} |-> IF w = v THEN b ELSE attribs[n][w]]
<1>1. IsAttrib(b) /\ b.reg = Reg(attribs[n], v)
  BY Zenon, ListAttrib, WithApp
<1>2. \A w \in Listed(n) : IsAttrib(attribs[n][w])
  BY Zenon DEF Inv, NodeOK, IsList, Listed
<1>. HIDE DEF b
<1>3. IsList(list)
  BY <1>1, <1>2 DEF IsList
<1>4. \A w : Reg(list, w) = Reg(attribs[n], w)
  BY <1>1 DEF Reg, Listed
<1>5. /\ lv[n] \in Nat /\ Timed(attribs[n], lv[n]) /\ Told(attribs[n], told[n])
      /\ lv' = [lv EXCEPT ![n] = lv[n]] /\ told' = [told EXCEPT ![n] = told[n]]
  BY DEF Inv, NodeOK
<1>6. attribs' = [attribs EXCEPT ![n] = list]
  BY Zenon DEF b
<1>. HIDE DEF list
<1>7. Timed(list, lv[n]) /\ Told(list, told[n])
  BY Zenon, <1>4, <1>5, SameRegistrars
<1>. QED  BY Zenon, <1>3, <1>5, <1>6, <1>7, OneNode

LEMMA RequestInv ==
    ASSUME Inv, NEW n \in Node, NEW v, New(n, v) \/ Join(n, v) \/ Leave(n, v)
    PROVE  Inv'
<1>1. PICK app : attribs' = [attribs EXCEPT ![n] =
                    [w \in Listed(n) \cup {v} |->
                        IF w = v THEN [Attrib(n, v) EXCEPT !.app = app]
                        ELSE attribs[n][w]]]
  BY Zenon DEF New, Join, Leave, Command
<1>2. UNCHANGED <<lv, told>>
  BY Zenon DEF New, Join, Leave, Command
<1>. QED  BY Zenon, <1>1, <1>2, CommandInv

-----------------------------------------------------------------------------
(***************************************************************************)
(* Steps that make the registrars leave.                                   *)
(***************************************************************************)
\* mvrp_reclaim drops only VLANs that are not registered.
LEMMA ReclaimedIs ==
    ASSUME NEW list, IsList(list)
    PROVE  /\ IsList(Reclaimed(list))
           /\ DOMAIN Reclaimed(list) \subseteq DOMAIN list
           /\ \A v : Reg(Reclaimed(list), v) = Reg(list, v)
<1>1. DOMAIN Reclaimed(list) = {w \in DOMAIN list : ~Reclaimable(list[w])}
  BY Zenon DEF Reclaimed
<1>2. \A v \in DOMAIN Reclaimed(list) : Reclaimed(list)[v] = list[v]
  BY Zenon DEF Reclaimed
<1>3. Reclaimed(list) = [v \in DOMAIN Reclaimed(list) |-> Reclaimed(list)[v]]
  BY DEF Reclaimed
<1>4. \A v \in DOMAIN list \ DOMAIN Reclaimed(list) : list[v].reg = "MT"
  BY Zenon, <1>1 DEF Reclaimable
<1>. QED  BY Zenon, <1>1, <1>2, <1>3, <1>4 DEF IsList, Reg

\* new has the VLANs of old, and the registrar of each is as it was or has
\* made the step of a leave.
Left(old, new, leaves) ==
    /\ IsList(new)
    /\ DOMAIN new = DOMAIN old
    /\ \A v \in DOMAIN old :
          new[v].reg = IF leaves THEN RegLeave(old[v].reg) ELSE old[v].reg

LEMMA LeftIs ==
    ASSUME NEW old, IsList(old), NEW new, NEW leaves, Left(old, new, leaves),
           NEW t \in Nat, Timed(old, t), NEW vids, Told(old, vids),
           NEW u \in Nat, u = t \/ u > 0,
           leaves /\ (\E v \in DOMAIN old : old[v].reg = "IN") => u > 0
    PROVE  Timed(new, u) /\ Told(new, vids)
<1>1. \A v \in DOMAIN old : old[v].reg \in RegistrarState
  BY Zenon DEF IsList, IsAttrib
<1>2. ASSUME NEW v \in Vid, Reg(new, v) = "LV"  PROVE u > 0
  <2>1. v \in DOMAIN old /\ new[v].reg = "LV"
    BY Zenon, <1>2 DEF Reg, Left
  <2>2. old[v].reg = "LV" \/ (leaves /\ old[v].reg = "IN")
    BY Zenon, <1>1, <2>1 DEF Left, RegLeave, RegistrarState
  <2>3. old[v].reg = "LV" => t > 0
    BY Zenon, <2>1 DEF Timed, Reg
  <2>. QED  BY <2>1, <2>2, <2>3
<1>3. ASSUME NEW v \in vids  PROVE Reg(new, v) # "MT"
  <2>1. v \in DOMAIN old /\ old[v].reg # "MT"
    BY Zenon, <1>3 DEF Told, Reg
  <2>. QED  BY Zenon, <2>1 DEF Reg, Left, RegLeave
<1>. QED  BY Zenon, <1>2, <1>3 DEF Timed, Told

\* A LeaveAll makes the step twice, when it is sent and when its own end is
\* handled: the second one changes nothing.
LEMMA LeaveTwice ==
    ASSUME NEW r
    PROVE  /\ RegLeave(RegLeave(r)) = RegLeave(r)
           /\ r \in RegistrarState => RegLeave(r) \in RegistrarState
BY Zenon DEF RegLeave, RegistrarState

LEMMA AttribOf ==
    ASSUME NEW app, NEW reg \in RegistrarState
    PROVE  /\ IsAttrib([app |-> app, reg |-> reg])
           /\ [app |-> app, reg |-> reg].reg = reg
<1>1. [app |-> app, reg |-> reg].app = app /\ [app |-> app, reg |-> reg].reg = reg
  OBVIOUS
<1>. QED  BY Zenon, <1>1 DEF IsAttrib

LEMMA TransmitInv ==
    ASSUME Inv, NEW n \in Node, NEW start, Transmit(n, start)
    PROVE  Inv'
<1>. DEFINE la == lva[n]
            old == attribs[n]
            asked == [v \in DOMAIN old |->
                        IF la THEN [app |-> TxLaApplicant(old[v].app),
                                    reg |-> RegLeave(old[v].reg)]
                        ELSE [old[v] EXCEPT !.app = TxApplicant(@, old[v].reg)]]
            send == Prepared(asked, la)
            stop == Stop(asked, send, start)
            passed == {v \in DOMAIN old : v >= start /\ (stop = 0 \/ v < stop)}
            after == [v \in DOMAIN old |->
                        IF v \in passed
                        THEN [asked[v] EXCEPT
                                 !.app = [mrp_applicant_chk(@, asked[v].reg)
                                            EXCEPT !.tx = FALSE]]
                        ELSE [asked[v] EXCEPT !.app.tx = v \in send]]
            final == IF ~la THEN after
                     ELSE IF stop = 0
                     THEN [v \in DOMAIN old |->
                             [app |-> Quietly(after[v].app,
                                              OnRLeave(after[v].app.state)),
                              reg |-> RegLeave(after[v].reg)]]
                     ELSE [v \in DOMAIN old |->
                             [after[v] EXCEPT !.app = TxLafApplicant(@)]]
            reclaim == \E v \in passed : AsksReclaim(asked[v].app, asked[v].reg)
            left == IF reclaim THEN Reclaimed(final) ELSE final
            t == IF la /\ \E v \in DOMAIN old : old[v].reg = "IN"
                 THEN mrp_lvtimer_start(lv[n]) ELSE lv[n]
            vids == told[n] \ (DOMAIN old \ DOMAIN left)
<1>1. attribs' = [attribs EXCEPT ![n] = left]
  BY Zenon DEF Transmit, TxAsked
<1>2. lv' = [lv EXCEPT ![n] = t]
  BY Zenon DEF Transmit, TxAsked
<1>3. told' = [told EXCEPT ![n] = vids]
  BY Zenon DEF Transmit, TxAsked
<1>4. IsList(old) /\ lv[n] \in Nat /\ Timed(old, lv[n]) /\ Told(old, told[n])
  BY Zenon DEF Inv, NodeOK
<1>5. \A v \in DOMAIN old : IsAttrib(old[v]) /\ old[v].reg \in RegistrarState
  BY Zenon, <1>4 DEF IsList, IsAttrib
<1>6. \A v \in DOMAIN old :
        /\ IsAttrib(asked[v])
        /\ asked[v].reg = IF la THEN RegLeave(old[v].reg) ELSE old[v].reg
  <2>. SUFFICES ASSUME NEW v \in DOMAIN old
       PROVE  /\ IsAttrib(asked[v])
              /\ asked[v].reg = IF la THEN RegLeave(old[v].reg) ELSE old[v].reg
    BY Zenon
  <2>1. CASE la
    <3>1. asked[v] = [app |-> TxLaApplicant(old[v].app), reg |-> RegLeave(old[v].reg)]
      BY Zenon, <2>1
    <3>. QED  BY Zenon, <1>5, <2>1, <3>1, AttribOf, LeaveTwice
  <2>2. CASE ~la
    <3>1. asked[v] = [old[v] EXCEPT !.app = TxApplicant(@, old[v].reg)]
      BY Zenon, <2>2
    <3>. QED  BY Zenon, <1>5, <2>2, <3>1, WithApp
  <2>. QED  BY Zenon, <2>1, <2>2
<1>. HIDE DEF asked, stop, send
<1>7. \A v \in DOMAIN old : IsAttrib(after[v]) /\ after[v].reg = asked[v].reg
  <2>. SUFFICES ASSUME NEW v \in DOMAIN old
       PROVE  IsAttrib(after[v]) /\ after[v].reg = asked[v].reg
    BY Zenon
  <2>1. PICK app : after[v] = [asked[v] EXCEPT !.app = app]
    BY Zenon
  <2>2. IsAttrib(asked[v])
    BY Zenon, <1>6
  <2>3. /\ IsAttrib([asked[v] EXCEPT !.app = app])
        /\ [asked[v] EXCEPT !.app = app].reg = asked[v].reg
    BY Zenon, <2>2, WithApp
  <2>. HIDE DEF after
  <2>. QED  BY Zenon, <2>1, <2>3
<1>. HIDE DEF after
<1>8. \A v \in DOMAIN old :
        /\ IsAttrib(final[v])
        /\ final[v].reg = IF la THEN RegLeave(old[v].reg) ELSE old[v].reg
  <2>. SUFFICES ASSUME NEW v \in DOMAIN old
       PROVE  /\ IsAttrib(final[v])
              /\ final[v].reg = IF la THEN RegLeave(old[v].reg) ELSE old[v].reg
    BY Zenon
  <2>1. CASE ~la
    BY Zenon, <1>6, <1>7, <2>1
  <2>2. CASE la /\ stop = 0
    <3>1. final[v] = [app |-> Quietly(after[v].app, OnRLeave(after[v].app.state)),
                      reg |-> RegLeave(after[v].reg)]
      BY Zenon, <2>2
    <3>2. after[v].reg = RegLeave(old[v].reg)
      BY Zenon, <1>6, <1>7, <2>2
    <3>. QED  BY Zenon, <1>5, <2>2, <3>1, <3>2, AttribOf, LeaveTwice
  <2>3. CASE la /\ stop # 0
    <3>1. PICK app : final[v] = [after[v] EXCEPT !.app = app]
      BY Zenon, <2>3
    <3>. HIDE DEF final
    <3>2. IsAttrib(after[v]) /\ after[v].reg = RegLeave(old[v].reg)
      BY Zenon, <1>6, <1>7, <2>3
    <3>3. /\ IsAttrib([after[v] EXCEPT !.app = app])
          /\ [after[v] EXCEPT !.app = app].reg = after[v].reg
      BY Zenon, <3>2, WithApp
    <3>. QED  BY Zenon, <2>3, <3>1, <3>2, <3>3
  <2>. QED  BY Zenon, <2>1, <2>2, <2>3
<1>9. DOMAIN final = DOMAIN old /\ final = [v \in DOMAIN final |-> final[v]]
  <2>1. DOMAIN after = DOMAIN old /\ after = [v \in DOMAIN after |-> after[v]]
    BY DEF after
  <2>2. CASE ~la
    BY Zenon, <2>1, <2>2
  <2>3. CASE la /\ stop = 0
    <3>1. final = [v \in DOMAIN old |->
                     [app |-> Quietly(after[v].app, OnRLeave(after[v].app.state)),
                      reg |-> RegLeave(after[v].reg)]]
      BY Zenon, <2>3
    <3>. HIDE DEF final
    <3>. QED  BY <3>1
  <2>4. CASE la /\ stop # 0
    <3>1. final = [v \in DOMAIN old |-> [after[v] EXCEPT !.app = TxLafApplicant(@)]]
      BY Zenon, <2>4
    <3>. HIDE DEF final
    <3>. QED  BY <3>1
  <2>. QED  BY Zenon, <2>2, <2>3, <2>4
<1>. HIDE DEF final
<1>10. Left(old, final, la)
  BY Zenon, <1>8, <1>9 DEF Left, IsList
<1>11. t \in Nat /\ (t = lv[n] \/ t > 0)
       /\ (la /\ (\E v \in DOMAIN old : old[v].reg = "IN") => t > 0)
  BY <1>4, MvrpAssumption DEF mrp_lvtimer_start
<1>. HIDE DEF t
<1>12. Timed(final, t) /\ Told(final, told[n])
  BY Zenon, <1>4, <1>10, <1>11, LeftIs
<1>13. IsList(final)
  BY Zenon, <1>10 DEF Left
<1>14. /\ IsList(left) /\ \A v : Reg(left, v) = Reg(final, v)
  BY Zenon, <1>13, ReclaimedIs
<1>15. vids \subseteq told[n]
  BY Zenon
<1>. HIDE DEF left, vids
<1>16. Timed(left, t) /\ Told(left, told[n])
  BY Zenon, <1>12, <1>14, SameRegistrars
<1>17. Told(left, vids)
  BY Zenon, <1>15, <1>16 DEF Told
<1>. QED  BY Zenon, <1>1, <1>2, <1>3, <1>11, <1>14, <1>16, <1>17, OneNode

(***************************************************************************)
(* A PDU is received.                                                      *)
(***************************************************************************)
LEMMA RxRegistrarIs ==
    ASSUME NEW e, NEW r \in RegistrarState
    PROVE  /\ RxRegistrar(e, r) \in RegistrarState
           /\ RxRegistrar(e, r) = "MT" => r = "MT"
           /\ RxRegistrar(e, r) = "LV" => r = "LV" \/ (r = "IN" /\ e = "LV")
           /\ e = "NEW" => RxRegistrar(e, r) = "IN"
<1>1. CASE e \in {"NEW", "JOININ", "JOINMT"}
  BY <1>1 DEF RxRegistrar, RegJoin, RegistrarState
<1>2. CASE e = "LV"
  BY <1>2 DEF RxRegistrar, RegLeave, RegistrarState
<1>3. CASE e \notin {"NEW", "JOININ", "JOINMT", "LV"}
  BY <1>3 DEF RxRegistrar
<1>. QED  BY Zenon, <1>1, <1>2, <1>3

LEMMA RxPduInv ==
    ASSUME Inv, NEW n \in Node, NEW pdu, RxPdu(n, pdu)
    PROVE  Inv'
<1>. DEFINE old == attribs[n]
            all == IF pdu.lva
                   THEN [v \in DOMAIN old |->
                           [app |-> Quietly(old[v].app, OnRLeave(old[v].app.state)),
                            reg |-> RegLeave(old[v].reg)]]
                   ELSE old
            heard == {v \in DOMAIN pdu.ev : v \in DOMAIN old \/ pdu.ev[v] # "MT"}
            was(v) == IF v \in DOMAIN all THEN all[v] ELSE NewAttrib
            new == [v \in DOMAIN old \cup heard |->
                      IF v \notin heard THEN all[v]
                      ELSE [app |-> Quietly(was(v).app,
                                       RxApplicant(pdu.ev[v], was(v).app.state)),
                            reg |-> RxRegistrar(pdu.ev[v], was(v).reg)]]
            leaves == \E v \in DOMAIN old :
                          /\ old[v].reg = "IN"
                          /\ pdu.lva \/ (v \in heard /\ pdu.ev[v] = "LV")
            t == IF leaves THEN mrp_lvtimer_start(lv[n]) ELSE lv[n]
            vids == IF n \in clients
                    THEN told[n] \cup {v \in heard :
                                         \/ pdu.ev[v] = "NEW"
                                         \/ was(v).reg = "MT" /\ new[v].reg = "IN"}
                    ELSE told[n]
<1>1. attribs' = [attribs EXCEPT ![n] = new]
  BY Zenon DEF RxPdu
<1>2. lv' = [lv EXCEPT ![n] = t]
  BY Zenon DEF RxPdu
<1>3. told' = [told EXCEPT ![n] = vids]
  BY Zenon DEF RxPdu
<1>4. IsList(old) /\ lv[n] \in Nat /\ Timed(old, lv[n]) /\ Told(old, told[n])
  BY Zenon DEF Inv, NodeOK
<1>5. \A v \in DOMAIN old : IsAttrib(old[v]) /\ old[v].reg \in RegistrarState
  BY Zenon, <1>4 DEF IsList, IsAttrib
<1>6. Left(old, all, pdu.lva)
  <2>1. CASE pdu.lva
    <3>1. all = [v \in DOMAIN old |->
                   [app |-> Quietly(old[v].app, OnRLeave(old[v].app.state)),
                    reg |-> RegLeave(old[v].reg)]]
      BY Zenon, <2>1
    <3>. HIDE DEF all
    <3>2. DOMAIN all = DOMAIN old /\ all = [v \in DOMAIN all |-> all[v]]
      BY <3>1
    <3>3. \A v \in DOMAIN old : IsAttrib(all[v]) /\ all[v].reg = RegLeave(old[v].reg)
      BY Zenon, <1>5, <3>1, AttribOf, LeaveTwice
    <3>. QED  BY Zenon, <2>1, <3>2, <3>3 DEF Left, IsList
  <2>2. CASE ~pdu.lva
    BY Zenon, <1>4, <2>2 DEF Left
  <2>. QED  BY Zenon, <2>1, <2>2
<1>. HIDE DEF all
<1>7. \A v : was(v).reg \in RegistrarState /\ was(v).reg = Reg(all, v)
  <2>1. NewAttrib.reg = "MT" /\ "MT" \in RegistrarState
    BY DEF NewAttrib, RegistrarState
  <2>2. \A v \in DOMAIN all : all[v].reg \in RegistrarState
    BY Zenon, <1>6 DEF Left, IsList, IsAttrib
  <2>. QED  BY Zenon, <2>1, <2>2 DEF Reg
<1>8. \A v : /\ Reg(all, v) = "MT" => Reg(old, v) = "MT"
             /\ Reg(all, v) = "IN" => v \in DOMAIN old /\ old[v].reg = "IN"
             /\ Reg(all, v) = "LV" =>
                   \/ Reg(old, v) = "LV"
                   \/ v \in DOMAIN old /\ old[v].reg = "IN" /\ pdu.lva
  <2>. TAKE v
  <2>1. DOMAIN all = DOMAIN old
    BY Zenon, <1>6 DEF Left
  <2>2. CASE v \in DOMAIN old
    <3>1. Reg(all, v) = all[v].reg /\ Reg(old, v) = old[v].reg
      BY Zenon, <2>1, <2>2 DEF Reg
    <3>2. CASE pdu.lva
      <4>1. all[v].reg = RegLeave(old[v].reg)
        BY Zenon, <1>6, <2>2, <3>2 DEF Left
      <4>2. old[v].reg \in RegistrarState
        BY Zenon, <1>5, <2>2
      <4>. HIDE DEF old
      <4>. QED  BY <2>2, <3>1, <3>2, <4>1, <4>2 DEF RegLeave, RegistrarState
    <3>3. CASE ~pdu.lva
      <4>1. all[v].reg = old[v].reg
        BY Zenon, <1>6, <2>2, <3>3 DEF Left
      <4>. QED  BY Zenon, <2>2, <3>1, <4>1
    <3>. QED  BY Zenon, <3>2, <3>3
  <2>3. CASE v \notin DOMAIN old
    <3>1. Reg(all, v) = "MT" /\ Reg(old, v) = "MT"
      BY Zenon, <2>1, <2>3 DEF Reg
    <3>. QED  BY <3>1
  <2>. QED  BY Zenon, <2>2, <2>3
<1>9. ASSUME NEW v
      PROVE  /\ Reg(new, v) = "MT" => Reg(old, v) = "MT"
             /\ Reg(new, v) = "LV" => Reg(old, v) = "LV" \/ leaves
  <2>1. CASE v \in heard
    <3>1. Reg(new, v) = RxRegistrar(pdu.ev[v], was(v).reg)
      <4>1. v \in DOMAIN new /\ new[v] = [app |-> Quietly(was(v).app,
                                       RxApplicant(pdu.ev[v], was(v).app.state)),
                            reg |-> RxRegistrar(pdu.ev[v], was(v).reg)]
        BY Zenon, <2>1
      <4>2. RxRegistrar(pdu.ev[v], was(v).reg) \in RegistrarState
        BY Zenon, <1>7, RxRegistrarIs
      <4>. HIDE DEF new, was
      <4>3. new[v].reg = RxRegistrar(pdu.ev[v], was(v).reg)
        BY Zenon, <4>1, <4>2, AttribOf
      <4>. QED  BY Zenon, <4>1, <4>3 DEF Reg
    <3>. HIDE DEF new, was
    <3>4. /\ Reg(new, v) = "MT" => was(v).reg = "MT"
          /\ Reg(new, v) = "LV" =>
                was(v).reg = "LV" \/ (was(v).reg = "IN" /\ pdu.ev[v] = "LV")
      <4>. DEFINE reg == was(v).reg
                  e == pdu.ev[v]
      <4>1. reg \in RegistrarState
        BY Zenon, <1>7
      <4>2. Reg(new, v) = RxRegistrar(e, reg)
        BY Zenon, <3>1
      <4>. HIDE DEF reg, e
      <4>3. /\ RxRegistrar(e, reg) = "MT" => reg = "MT"
            /\ RxRegistrar(e, reg) = "LV" => reg = "LV" \/ (reg = "IN" /\ e = "LV")
        BY Zenon, <4>1, RxRegistrarIs
      <4>. QED  BY SMT, <4>2, <4>3 DEF reg, e
    <3>2. Reg(new, v) = "MT" => Reg(old, v) = "MT"
      BY Zenon, <1>7, <1>8, <3>4
    <3>3. Reg(new, v) = "LV" =>
             Reg(all, v) = "LV" \/ (Reg(all, v) = "IN" /\ pdu.ev[v] = "LV")
      BY Zenon, <1>7, <3>4
    <3>. QED  BY Zenon, <1>8, <2>1, <3>2, <3>3
  <2>2. CASE v \notin heard
    <3>1. Reg(new, v) = Reg(all, v)
      <4>1. DOMAIN all = DOMAIN old
        BY Zenon, <1>6 DEF Left
      <4>2. v \in DOMAIN new <=> v \in DOMAIN old
        BY Zenon, <2>2
      <4>3. v \in DOMAIN old => new[v] = all[v]
        BY Zenon, <2>2
      <4>. HIDE DEF new
      <4>. QED  BY Zenon, <4>1, <4>2, <4>3 DEF Reg
    <3>. QED  BY Zenon, <1>8, <3>1
  <2>. QED  BY Zenon, <2>1, <2>2
<1>10. IsList(new)
  <2>1. new = [v \in DOMAIN new |-> new[v]]
    BY SMTT(30)
  <2>2. \A v \in DOMAIN new : IsAttrib(new[v])
    BY Zenon, <1>6, <1>7, RxRegistrarIs, AttribOf DEF Left, IsList
  <2>. HIDE DEF new
  <2>. QED  BY Zenon, <2>1, <2>2 DEF IsList
<1>11. t \in Nat /\ (leaves => t > 0) /\ (~leaves => t = lv[n])
  BY <1>4, MvrpAssumption DEF mrp_lvtimer_start
<1>12. Timed(new, t)
  <2>. HIDE DEF new, leaves, t
  <2>. QED  BY Zenon, <1>4, <1>9, <1>11 DEF Timed
<1>13. Told(new, vids)
  <2>1. \A v \in told[n] : Reg(new, v) # "MT"
    <3>. HIDE DEF new
    <3>. QED  BY Zenon, <1>4, <1>9 DEF Told
  <2>2. ASSUME NEW v \in heard,
               pdu.ev[v] = "NEW" \/ (was(v).reg = "MT" /\ new[v].reg = "IN")
        PROVE  Reg(new, v) # "MT"
    <3>1. v \in DOMAIN new /\ new[v] = [app |-> Quietly(was(v).app,
                                       RxApplicant(pdu.ev[v], was(v).app.state)),
                            reg |-> RxRegistrar(pdu.ev[v], was(v).reg)]
      BY Zenon
    <3>2. RxRegistrar(pdu.ev[v], was(v).reg) \in RegistrarState
      BY Zenon, <1>7, RxRegistrarIs
    <3>. HIDE DEF new, was
    <3>3. new[v].reg = RxRegistrar(pdu.ev[v], was(v).reg)
      BY Zenon, <3>1, <3>2, AttribOf
    <3>4. new[v].reg = "IN"
      BY Zenon, <1>7, <2>2, <3>3, RxRegistrarIs
    <3>. QED  BY <3>1, <3>4 DEF Reg
  <2>. HIDE DEF new, was
  <2>. QED  BY Zenon, <2>1, <2>2 DEF Told
<1>. HIDE DEF new, t, vids
<1>. QED  BY Zenon, <1>1, <1>2, <1>3, <1>10, <1>11, <1>12, <1>13, OneNode

-----------------------------------------------------------------------------
(***************************************************************************)
(* The timers and the clients.                                             *)
(***************************************************************************)
\* The leave timer ends every LV at once.
LEMMA LvTimerInv ==
    ASSUME Inv, NEW n \in Node, LvTimer(n)
    PROVE  Inv'
<1>. DEFINE old == attribs[n]
            new == [v \in Listed(n) |-> [old[v] EXCEPT !.reg = RegLvTimer(@)]]
            vids == told[n] \ {v \in Listed(n) : Registrar(n, v) = "LV"}
<1>1. /\ attribs' = [attribs EXCEPT ![n] = new]
      /\ lv' = [lv EXCEPT ![n] = 0]
      /\ told' = [told EXCEPT ![n] = vids]
  BY Zenon DEF LvTimer
<1>2. IsList(old) /\ Told(old, told[n])
  BY Zenon DEF Inv, NodeOK
<1>3. ASSUME NEW v \in Listed(n)
      PROVE  /\ IsAttrib(new[v])
             /\ new[v].reg = RegLvTimer(old[v].reg)
             /\ old[v].reg \in RegistrarState
             /\ RegLvTimer(old[v].reg) \in RegistrarState
  <2>1. IsAttrib(old[v])
    BY Zenon, <1>2 DEF IsList, Listed
  <2>2. \A x, r : [[app |-> x, reg |-> r] EXCEPT !.reg = RegLvTimer(r)]
                    = [app |-> x, reg |-> RegLvTimer(r)]
    OBVIOUS
  <2>3. new[v] = [old[v] EXCEPT !.reg = RegLvTimer(old[v].reg)]
    BY Zenon
  <2>4. new[v] = [app |-> old[v].app, reg |-> RegLvTimer(old[v].reg)]
    <3>. HIDE DEF new
    <3>. QED  BY Zenon, <2>1, <2>2, <2>3 DEF IsAttrib
  <2>5. old[v].reg \in RegistrarState
    BY Zenon, <2>1 DEF IsAttrib
  <2>6. RegLvTimer(old[v].reg) \in RegistrarState
    BY <2>5 DEF RegLvTimer, RegistrarState
  <2>7. /\ IsAttrib([app |-> old[v].app, reg |-> RegLvTimer(old[v].reg)])
        /\ [app |-> old[v].app, reg |-> RegLvTimer(old[v].reg)].reg = RegLvTimer(old[v].reg)
    BY Zenon, <2>6, AttribOf
  <2>. HIDE DEF new
  <2>. QED  BY Zenon, <2>4, <2>5, <2>6, <2>7
<1>4. DOMAIN new = DOMAIN old /\ new = [v \in DOMAIN new |-> new[v]]
  BY DEF Listed
<1>. HIDE DEF new
<1>5. \A v : /\ Reg(new, v) # "LV"
             /\ Reg(new, v) = "MT" => Reg(old, v) = "MT" \/ Registrar(n, v) = "LV"
  <2>. TAKE v
  <2>1. CASE v \in DOMAIN old
    <3>1. /\ Reg(new, v) = RegLvTimer(old[v].reg)
          /\ Registrar(n, v) = old[v].reg
          /\ Reg(old, v) = old[v].reg
          /\ old[v].reg \in RegistrarState
      BY Zenon, <1>3, <1>4, <2>1, RegistrarIs DEF Reg, Listed
    <3>. HIDE DEF old
    <3>. QED  BY <3>1 DEF RegLvTimer, RegistrarState
  <2>2. CASE v \notin DOMAIN old
    BY <1>4, <2>2 DEF Reg
  <2>. QED  BY Zenon, <2>1, <2>2
<1>6. IsList(new)
  BY Zenon, <1>3, <1>4 DEF IsList, Listed
<1>7. Timed(new, 0)
  BY Zenon, <1>5 DEF Timed
<1>8. Told(new, vids)
  <2>. SUFFICES ASSUME NEW v \in vids  PROVE Reg(new, v) # "MT"
    BY Zenon DEF Told
  <2>1. v \in told[n] /\ Reg(old, v) # "MT"
    BY Zenon, <1>2 DEF Told
  <2>2. v \in Listed(n)
    BY Zenon, <2>1 DEF Reg, Listed
  <2>. QED  BY Zenon, <1>5, <2>1, <2>2
<1>. HIDE DEF vids
<1>. QED  BY Zenon, <1>1, <1>6, <1>7, <1>8, OneNode, 0 \in Nat

\* The periodic timer moves applicants only.
LEMMA PeriodicInv ==
    ASSUME Inv, NEW n \in Node, Periodic(n)
    PROVE  Inv'
<1>. DEFINE old == attribs[n]
            app(v) == Quietly(old[v].app, OnPeriodic(old[v].app.state))
            new == [v \in Listed(n) |-> [old[v] EXCEPT !.app = app(v)]]
<1>1. /\ attribs' = [attribs EXCEPT ![n] = new]
      /\ lv' = [lv EXCEPT ![n] = lv[n]]
      /\ told' = [told EXCEPT ![n] = told[n]]
  <2>1. attribs' = [attribs EXCEPT ![n] = new]
    BY Zenon DEF Periodic
  <2>2. UNCHANGED <<lv, told>>
    BY Zenon DEF Periodic
  <2>. HIDE DEF new
  <2>. QED  BY <2>1, <2>2 DEF Inv
<1>2. /\ IsList(old) /\ lv[n] \in Nat
      /\ Timed(old, lv[n]) /\ Told(old, told[n])
  BY Zenon DEF Inv, NodeOK
<1>3. \A v \in DOMAIN old : IsAttrib(new[v]) /\ new[v].reg = old[v].reg
  BY Zenon, <1>2, WithApp DEF IsList, Listed
<1>4. DOMAIN new = DOMAIN old /\ new = [v \in DOMAIN new |-> new[v]]
  BY DEF Listed
<1>. HIDE DEF new
<1>5. IsList(new)
  BY Zenon, <1>3, <1>4 DEF IsList
<1>6. \A v : Reg(new, v) = Reg(old, v)
  BY Zenon, <1>3, <1>4 DEF Reg
<1>7. Timed(new, lv[n]) /\ Told(new, told[n])
  BY Zenon, <1>2, <1>6, SameRegistrars
<1>. QED  BY Zenon, <1>1, <1>2, <1>5, <1>7, OneNode

\* mrpd_reclaim takes out VLANs that are not registered.
LEMMA GcTimerInv ==
    ASSUME Inv, NEW n \in Node, GcTimer(n)
    PROVE  Inv'
<1>. DEFINE old == attribs[n]
            new == Reclaimed(old)
            vids == told[n] \cap DOMAIN new
<1>1. /\ IsList(old) /\ lv[n] \in Nat
      /\ Timed(old, lv[n]) /\ Told(old, told[n])
  BY Zenon DEF Inv, NodeOK
<1>2. attribs' = [attribs EXCEPT ![n] = new] /\ told' = [told EXCEPT ![n] = vids]
  BY Zenon DEF GcTimer
<1>3. IsList(new) /\ \A v : Reg(new, v) = Reg(old, v)
  BY Zenon, <1>1, ReclaimedIs
<1>4. lv' = [lv EXCEPT ![n] = lv[n]]
  BY DEF GcTimer, Inv
<1>. HIDE DEF new
<1>5. Timed(new, lv[n]) /\ Told(new, vids)
  BY Zenon, <1>1, <1>3 DEF Timed, Told
<1>. HIDE DEF vids
<1>. QED  BY Zenon, <1>1, <1>2, <1>3, <1>4, <1>5, OneNode

\* A new client is told what is registered; one that leaves is forgotten.
LEMMA ClientInv ==
    ASSUME Inv, NEW n \in Node, ClientAdd(n) \/ ClientBye(n)
    PROVE  Inv'
<1>. DEFINE old == attribs[n]
<1>1. /\ IsList(old) /\ lv[n] \in Nat
      /\ Timed(old, lv[n]) /\ Told(old, told[n])
  BY Zenon DEF Inv, NodeOK
<1>2. UNCHANGED <<attribs, lv>>
  BY Zenon DEF ClientAdd, ClientBye
<1>3. attribs' = [attribs EXCEPT ![n] = old] /\ lv' = [lv EXCEPT ![n] = lv[n]]
  BY <1>2 DEF Inv
<1>4. PICK vids : told' = [told EXCEPT ![n] = vids] /\ Told(old, vids)
  <2>1. CASE ClientAdd(n)
    <3>1. Told(old, {v \in Listed(n) : Registrar(n, v) = "IN"})
      BY RegistrarIs DEF Told
    <3>. QED  BY Zenon, <2>1, <3>1 DEF ClientAdd
  <2>2. CASE ClientBye(n)
    <3>1. Told(old, {})
      BY Zenon DEF Told
    <3>. QED  BY Zenon, <2>2, <3>1 DEF ClientBye
  <2>. QED  BY Zenon, <2>1, <2>2
<1>. HIDE DEF old
<1>. QED  BY Zenon, <1>1, <1>3, <1>4, OneNode

\* Time brings a running timer to 1 and no further: 1 is for its handler.
LEMMA TickInv ==
    ASSUME Inv, Tick
    PROVE  Inv'
<1>1. UNCHANGED <<attribs, told>> /\ lv' = [n \in Node |-> Down(lv[n])]
  BY Zenon DEF Tick
<1>2. ASSUME NEW n \in Node  PROVE NodeOK(n)'
  <2>1. NodeOK(n)
    BY Zenon DEF Inv
  <2>2. lv'[n] = Down(lv[n]) /\ lv[n] \in Nat
    BY Zenon, <1>1, <2>1 DEF NodeOK
  <2>3. lv'[n] \in Nat /\ (lv[n] > 0 => lv'[n] > 0)
    BY <2>2 DEF Down
  <2>4. attribs'[n] = attribs[n] /\ told'[n] = told[n]
    BY Zenon, <1>1
  <2>. QED  BY Zenon, <2>1, <2>3, <2>4 DEF NodeOK, Timed
<1>3. lv' = [n \in Node |-> lv'[n]]
  BY <1>1
<1>. QED  BY Zenon, <1>1, <1>2, <1>3 DEF Inv

LEMMA SameInv ==
    ASSUME Inv, UNCHANGED <<attribs, lv, told>>
    PROVE  Inv'
<1>1. attribs' = attribs /\ lv' = lv /\ told' = told
  OBVIOUS
<1>2. ASSUME NEW n \in Node  PROVE NodeOK(n)'
  BY Zenon, <1>1 DEF Inv, NodeOK
<1>. QED  BY Zenon, <1>1, <1>2 DEF Inv

-----------------------------------------------------------------------------
LEMMA NextInv == Inv /\ [Next]_vars => Inv'
<1>. SUFFICES ASSUME Inv, [Next]_vars  PROVE Inv'
  OBVIOUS
<1>1. ASSUME NEW n \in Node,
             \/ ClientAdd(n) \/ ClientBye(n)
             \/ \E v \in Uses[n] : New(n, v) \/ Join(n, v) \/ Leave(n, v)
             \/ JoinTimer(n) \/ LvTimer(n) \/ LvaTimer(n)
             \/ Periodic(n) \/ GcTimer(n)
             \/ Receive(n) \/ Lose(n)
      PROVE  Inv'
  <2>1. CASE ClientAdd(n) \/ ClientBye(n)
    BY Zenon, <2>1, ClientInv
  <2>2. CASE \E v \in Uses[n] : New(n, v) \/ Join(n, v) \/ Leave(n, v)
    BY Zenon, <2>2, RequestInv
  <2>3. CASE JoinTimer(n)
    BY Zenon, <2>3, TransmitInv DEF JoinTimer
  <2>4. CASE LvTimer(n)
    BY Zenon, <2>4, LvTimerInv
  <2>5. CASE LvaTimer(n)
    BY Zenon, <2>5, SameInv DEF LvaTimer
  <2>6. CASE Periodic(n)
    BY Zenon, <2>6, PeriodicInv
  <2>7. CASE GcTimer(n)
    BY Zenon, <2>7, GcTimerInv
  <2>8. CASE Receive(n)
    BY Zenon, <2>8, RxPduInv DEF Receive
  <2>9. CASE Lose(n)
    BY Zenon, <2>9, SameInv DEF Lose
  <2>. QED  BY Zenon, <1>1, <2>1, <2>2, <2>3, <2>4, <2>5, <2>6, <2>7, <2>8, <2>9
<1>2. CASE UNCHANGED vars
  BY Zenon, <1>2, SameInv DEF vars
<1>. QED  BY Zenon, <1>1, <1>2, TickInv DEF Next, Other

LEMMA Invariance == Spec => []Inv
BY InitInv, NextInv, PTL DEF Spec

(***************************************************************************)
(* mrp.c has one leave timer for all the VLANs, which every registration   *)
(* that starts to leave sets anew (mrp_lvtimer_start).  It runs whenever   *)
(* some registration is in LV: none stays in LV for ever.                  *)
(***************************************************************************)
THEOREM LeavingNeverStuck == Spec => []LeavingIsTimed
BY Invariance, InvImplies, PTL

(***************************************************************************)
(* What mvrp_send_notifications last told a client is never of a VLAN that *)
(* the registrar no longer has: through LeaveAll, leave, the leave timer   *)
(* and the reclaiming of attributes the client hears of the end.           *)
(***************************************************************************)
THEOREM ClientsHearTheEnd == Spec => []ToldIsRegistered
BY Invariance, InvImplies, PTL

-----------------------------------------------------------------------------
(***************************************************************************)
(* The applicant.  The tables of mrp_applicant_fsm lead from applicant     *)
(* states to applicant states.                                             *)
(***************************************************************************)
LEMMA ApplicantSteps ==
    ASSUME NEW s \in ApplicantState, NEW reg
    PROVE  /\ OnNew(s) \in ApplicantState /\ OnJoin(s) \in ApplicantState
           /\ OnLv(s) \in ApplicantState
           /\ OnRJoinIn(s) \in ApplicantState /\ OnRIn(s) \in ApplicantState
           /\ OnREmpty(s) \in ApplicantState /\ OnRLeave(s) \in ApplicantState
           /\ OnPeriodic(s) \in ApplicantState
           /\ OnTx(s, reg) \in ApplicantState /\ OnTxLa(s) \in ApplicantState
           /\ OnTxLaf(s) \in ApplicantState
<1>1. OnNew(s) \in ApplicantState
  BY DEF OnNew, ApplicantState
<1>2. OnJoin(s) \in ApplicantState
  BY DEF OnJoin, Step, ApplicantState
<1>3. OnLv(s) \in ApplicantState
  BY DEF OnLv, Step, ApplicantState
<1>4. OnRJoinIn(s) \in ApplicantState
  BY DEF OnRJoinIn, Step, ApplicantState
<1>5. OnRIn(s) \in ApplicantState
  BY DEF OnRIn, Step, ApplicantState
<1>6. OnREmpty(s) \in ApplicantState
  BY DEF OnREmpty, Step, ApplicantState
<1>7. OnRLeave(s) \in ApplicantState
  BY DEF OnRLeave, Step, ApplicantState
<1>8. OnPeriodic(s) \in ApplicantState
  BY DEF OnPeriodic, Step, ApplicantState
<1>9. OnTx(s, reg) \in ApplicantState
  BY DEF OnTx, Step, ApplicantState
<1>10. OnTxLa(s) \in ApplicantState
  BY DEF OnTxLa, Step, ApplicantState
<1>11. OnTxLaf(s) \in ApplicantState
  BY DEF OnTxLaf, Step, ApplicantState
<1>. QED
  BY Zenon, <1>1, <1>2, <1>3, <1>4, <1>5, <1>6, <1>7, <1>8, <1>9, <1>10, <1>11

\* The steps that the join timer has to follow up (Anxious without LO).
LEMMA AnxiousSteps ==
    ASSUME NEW s \in ApplicantState, NEW reg
    PROVE  /\ OnTx(s, reg) \in Anxious => OnTx(s, reg) # s
           /\ OnRLeave(OnTxLa(s)) \in Anxious \ {"LO"} => OnRLeave(OnTxLa(s)) # OnTxLa(s)
<1>1. OnTx(s, reg) \in Anxious => OnTx(s, reg) # s
  BY DEF OnTx, Step, ApplicantState, Anxious
<1>2. OnTxLa(s) \in {"LO", "AA", "AN", "QA"}
  BY DEF OnTxLa, Step, ApplicantState
<1>3. \A u \in {"LO", "AA", "AN", "QA"} : OnRLeave(u) \in Anxious \ {"LO"} => OnRLeave(u) # u
  BY DEF OnRLeave, Step, Anxious
<1>. QED  BY Zenon, <1>1, <1>2, <1>3

LEMMA ApplicantFields ==
    ASSUME NEW a \in Applicant
    PROVE  /\ a.state \in ApplicantState /\ a.new \in ApplicantState /\ a.tx \in BOOLEAN
           /\ a.sndmsg \in SndMsg /\ a.optional \in BOOLEAN /\ a.aging \in 0 .. 4
BY DEF Applicant

\* One field at a time.
LEMMA WithField ==
    ASSUME NEW a \in Applicant
    PROVE  /\ \A s \in ApplicantState : [a EXCEPT !.state = s] \in Applicant
           /\ \A s \in ApplicantState : [a EXCEPT !.new = s] \in Applicant
           /\ \A t \in BOOLEAN : [a EXCEPT !.tx = t] \in Applicant
           /\ \A m \in SndMsg : [a EXCEPT !.sndmsg = m] \in Applicant
           /\ \A o \in BOOLEAN : [a EXCEPT !.optional = o] \in Applicant
           /\ \A g \in 0 .. 4 : [a EXCEPT !.aging = g] \in Applicant
BY DEF Applicant

LEMMA QuietlyIs ==
    ASSUME NEW a \in Applicant, NEW s \in ApplicantState
    PROVE  /\ Quietly(a, s) \in Applicant
           /\ Quietly(a, s).state = s /\ Quietly(a, s).new = s
<1>. DEFINE g == IF a.state # s /\ s = "VO" /\ a.aging = 0 THEN 3 ELSE a.aging
<1>. DEFINE q == Quietly(a, s)
<1>1. g \in 0 .. 4
  BY ApplicantFields
<1>2. /\ q.state = s /\ q.new = s /\ q.tx = FALSE /\ q.sndmsg = "NULL" /\ q.optional = FALSE
      /\ q.aging = g
  BY Zenon DEF Quietly, Applicant
<1>3. q = [[[[[[a EXCEPT !.state = s] EXCEPT !.new = s] EXCEPT !.tx = FALSE]
               EXCEPT !.sndmsg = "NULL"] EXCEPT !.optional = FALSE] EXCEPT !.aging = g]
  BY Zenon DEF Quietly
<1>4. "NULL" \in SndMsg /\ FALSE \in BOOLEAN
  BY DEF SndMsg
<1>. HIDE DEF g, q
<1>5. q \in Applicant
  BY Zenon, <1>1, <1>3, <1>4, WithField
<1>. QED  BY Zenon, <1>2, <1>5 DEF q

LEMMA SendingIs ==
    ASSUME NEW a \in Applicant, NEW s \in ApplicantState, NEW m \in SndMsg, NEW o \in BOOLEAN
    PROVE  /\ Sending(a, s, m, o) \in Applicant
           /\ Sending(a, s, m, o).state = a.state /\ Sending(a, s, m, o).new = s
<1>. DEFINE q == Sending(a, s, m, o)
<1>1. /\ q.state = a.state /\ q.new = s /\ q.tx = TRUE /\ q.sndmsg = m /\ q.optional = o
      /\ q.aging = a.aging
  BY Zenon DEF Sending, Applicant
<1>2. q = [[[[a EXCEPT !.new = s] EXCEPT !.tx = TRUE] EXCEPT !.sndmsg = m]
             EXCEPT !.optional = o]
  BY Zenon DEF Sending
<1>3. TRUE \in BOOLEAN
  OBVIOUS
<1>. HIDE DEF q
<1>4. q \in Applicant
  BY Zenon, <1>2, <1>3, WithField
<1>. QED  BY Zenon, <1>1, <1>4 DEF q

LEMMA TxIs ==
    ASSUME NEW a \in Applicant, NEW reg
    PROVE  /\ TxApplicant(a, reg) \in Applicant
           /\ TxApplicant(a, reg).state = a.state /\ TxApplicant(a, reg).new = OnTx(a.state, reg)
           /\ TxLaApplicant(a) \in Applicant
           /\ TxLaApplicant(a).state = a.state /\ TxLaApplicant(a).new = OnTxLa(a.state)
           /\ TxLafApplicant(a) \in Applicant
<1>1. a.state \in ApplicantState
  BY Zenon, ApplicantFields
<1>2. SndTx(a.state) \in SndMsg /\ SndTxLa(a.state) \in SndMsg
  BY DEF SndTx, SndTxLa, SndMsg
<1>3. (a.state \in OptionalTx) \in BOOLEAN /\ (a.state \in OptionalTxLa) \in BOOLEAN
  OBVIOUS
<1>4. OnTx(a.state, reg) \in ApplicantState /\ OnTxLa(a.state) \in ApplicantState
      /\ OnTxLaf(a.state) \in ApplicantState
  BY Zenon, <1>1, ApplicantSteps
<1>5. (IF a.sndmsg = "NULL" THEN a.state ELSE OnTxLaf(a.state)) \in ApplicantState
  BY Zenon, <1>1, <1>4
<1>6. /\ TxApplicant(a, reg) \in Applicant
      /\ TxApplicant(a, reg).state = a.state /\ TxApplicant(a, reg).new = OnTx(a.state, reg)
  BY ZenonT(30), <1>2, <1>3, <1>4, SendingIs DEF TxApplicant
<1>7. /\ TxLaApplicant(a) \in Applicant
      /\ TxLaApplicant(a).state = a.state /\ TxLaApplicant(a).new = OnTxLa(a.state)
  BY ZenonT(30), <1>2, <1>3, <1>4, SendingIs DEF TxLaApplicant
<1>8. TxLafApplicant(a) \in Applicant
  BY Zenon, <1>5, QuietlyIs DEF TxLafApplicant
<1>. QED  BY Zenon, <1>6, <1>7, <1>8

LEMMA MarkIs ==
    ASSUME NEW a \in Applicant, NEW t \in BOOLEAN
    PROVE  [a EXCEPT !.tx = t] \in Applicant /\ [a EXCEPT !.tx = t].state = a.state
BY DEF Applicant

\* mrp_applicant_chk makes new_state the state.
LEMMA ChkIs ==
    ASSUME NEW a \in Applicant, NEW reg
    PROVE  LET c == [mrp_applicant_chk(a, reg) EXCEPT !.tx = FALSE]
           IN  c \in Applicant /\ c.state = a.new
<1>. DEFINE q == mrp_applicant_chk(a, reg)
<1>1. AgingChk(a, reg) \in 0 .. 4
  BY ApplicantFields DEF AgingChk
<1>2. /\ q.state = a.new /\ q.new = a.new /\ q.tx = a.tx /\ q.sndmsg = "NULL"
      /\ q.optional = a.optional /\ q.aging = AgingChk(a, reg)
  BY Zenon DEF mrp_applicant_chk, Applicant
<1>3. q = [[[a EXCEPT !.state = a.new] EXCEPT !.aging = AgingChk(a, reg)]
             EXCEPT !.sndmsg = "NULL"]
  BY Zenon DEF mrp_applicant_chk
<1>4. "NULL" \in SndMsg /\ FALSE \in BOOLEAN
  BY DEF SndMsg
<1>. HIDE DEF q
<1>5. q \in Applicant
  BY Zenon, <1>1, <1>3, <1>4, WithField, ApplicantFields
<1>6. [q EXCEPT !.tx = FALSE] \in Applicant /\ [q EXCEPT !.tx = FALSE].state = q.state
  BY Zenon, <1>4, <1>5, MarkIs
<1>. QED  BY Zenon, <1>2, <1>6 DEF q

LEMMA RxApplicantIs ==
    ASSUME NEW s \in ApplicantState, NEW e
    PROVE  RxApplicant(e, s) \in ApplicantState
BY Zenon, ApplicantSteps DEF RxApplicant

-----------------------------------------------------------------------------
(***************************************************************************)
(* Where a PDU ends.                                                       *)
(***************************************************************************)
LEMMA LeastIs ==
    ASSUME NEW S, S \subseteq Nat, S # {}
    PROVE  Min(S) \in S /\ \A y \in S : Min(S) <= y
<1>1. \E x \in S : \A y \in S : ~(<<y, x>> \in OpToRel(<, Nat))
  BY Zenon, NatLessThanWellFounded, WFMin
<1>2. \A x, y \in Nat : x < y => <<x, y>> \in OpToRel(<, Nat)
  BY DEF OpToRel
<1>3. \E x \in S : \A y \in S : ~(y < x)
  BY Zenon, <1>1, <1>2
<1>4. \E x \in S : \A y \in S : x <= y
  BY <1>3
<1>. QED  BY Zenon, <1>4 DEF Min

LEMMA VidBound == \E top \in Nat : Vid \subseteq 1 .. top
<1>1. \A v \in Vid : v \in Nat /\ 1 <= v /\ v <= 4095
  BY SMT, MvrpAssumption
<1>2. \E top \in Nat : top = 4095
  BY SMT
<1>. QED  BY SMT, <1>1, <1>2

LEMMA GreatestIs ==
    ASSUME NEW S, S \subseteq Vid, S # {}
    PROVE  Max(S) \in S /\ \A y \in S : Max(S) >= y
<1>1. PICK top \in Nat : Vid \subseteq 1 .. top
  BY Zenon, VidBound
<1>. DEFINE T == {k \in Nat : \E v \in S : k = top - v}
<1>2. \A v \in S : v \in Nat /\ top - v \in T
  BY <1>1
<1>3. T \subseteq Nat /\ \A k \in T : \E v \in S : k = top - v
  OBVIOUS
<1>. HIDE DEF T
<1>4. Min(T) \in T /\ \A y \in T : Min(T) <= y
  <2>1. T # {}
    BY Zenon, <1>2
  <2>. QED  BY Zenon, <1>3, <2>1, LeastIs
<1>5. PICK m \in S : Min(T) = top - m
  BY Zenon, <1>3, <1>4
<1>6. \A y \in S : m >= y
  BY <1>2, <1>4, <1>5
<1>. QED  BY Zenon, <1>6 DEF Max

LEMMA PreparedIs ==
    ASSUME NEW list, DOMAIN list \subseteq Vid, NEW la
    PROVE  Prepared(list, la) \subseteq DOMAIN list
<1>. DEFINE marked == {v \in DOMAIN list : list[v].app.tx}
<1>1. PICK kept \in SUBSET marked :
        Prepared(list, la) = IF la /\ marked # {} THEN kept \cup {Max(marked)} ELSE kept
  BY Zenon DEF Prepared
<1>2. marked \subseteq Vid
  BY Zenon
<1>. HIDE DEF marked
<1>3. marked # {} => Max(marked) \in marked
  BY Zenon, <1>2, GreatestIs
<1>4. Prepared(list, la) \subseteq marked
  BY Zenon, <1>1, <1>3
<1>. QED  BY Zenon, <1>4 DEF marked

LEMMA StopIs ==
    ASSUME NEW list, DOMAIN list \subseteq Vid, NEW send, NEW start
    PROVE  Stop(list, send, start) \in DOMAIN list \cup {0}
<1>. DEFINE ahead == {v \in send : v >= start}
            last == CHOOSE v \in ahead :
                        Cardinality({w \in ahead : w <= v}) = Room
            rest == {v \in DOMAIN list : v > last}
<1>1. Stop(list, send, start) =
        IF Cardinality(ahead) >= Room /\ rest # {} THEN Min(rest) ELSE 0
  BY Zenon DEF Stop
<1>2. Vid \subseteq Nat
  BY MvrpAssumption
<1>3. rest \subseteq DOMAIN list /\ rest \subseteq Nat
  BY Zenon, <1>2
<1>4. rest # {} => Min(rest) \in rest
  <2>. HIDE DEF rest
  <2>. QED  BY Zenon, <1>3, LeastIs
<1>. QED  BY Zenon, <1>1, <1>3, <1>4

LEMMA VidIsFinite == IsFiniteSet(Vid) /\ Cardinality(Vid) \in Nat
<1>1. PICK top \in Nat : Vid \subseteq 1 .. top
  BY Zenon, VidBound
<1>2. 1 \in Int /\ top \in Int
  OBVIOUS
<1>3. IsFiniteSet(1 .. top) /\ Vid \in SUBSET (1 .. top)
  BY Zenon, <1>1, <1>2, FS_Interval
<1>4. IsFiniteSet(Vid)
  BY Zenon, <1>3, FS_Subset
<1>. QED  BY Zenon, <1>4, FS_CardinalityType

\* A PDU with room for every VLAN comes to the end of the list.
LEMMA RoomForAll ==
    ASSUME Room >= Cardinality(Vid), NEW list, DOMAIN list \subseteq Vid,
           NEW send, send \subseteq DOMAIN list, NEW start
    PROVE  Stop(list, send, start) = 0
<1>. DEFINE ahead == {v \in send : v >= start}
            upto(v) == {w \in ahead : w <= v}
            last == CHOOSE v \in ahead : Cardinality(upto(v)) = Room
            rest == {v \in DOMAIN list : v > last}
<1>. SUFFICES ASSUME Cardinality(ahead) >= Room, rest # {}  PROVE FALSE
  BY Zenon DEF Stop
<1>1. ahead \subseteq Vid
  BY Zenon
<1>2. IsFiniteSet(ahead) /\ Cardinality(ahead) <= Cardinality(Vid)
      /\ (Cardinality(Vid) = Cardinality(ahead) => Vid = ahead)
  <2>. HIDE DEF ahead
  <2>. QED  BY Zenon, <1>1, VidIsFinite, FS_Subset
<1>3. Cardinality(ahead) = Cardinality(Vid) /\ Cardinality(Vid) = Room
  <2>1. Cardinality(ahead) \in Nat
    BY Zenon, <1>2, FS_CardinalityType
  <2>. HIDE DEF ahead
  <2>. QED  BY <1>2, <2>1, VidIsFinite, MvrpAssumption
<1>4. ahead = Vid
  BY Zenon, <1>2, <1>3
<1>5. Vid # {}
  <2>1. PICK v \in DOMAIN list : v > last
    BY Zenon
  <2>. QED  BY Zenon
<1>6. Max(Vid) \in Vid /\ \A y \in Vid : Max(Vid) >= y
  BY Zenon, <1>5, GreatestIs
<1>7. upto(Max(Vid)) = ahead
  <2>1. Vid \subseteq Nat
    BY MvrpAssumption
  <2>2. \A y \in Vid : y <= Max(Vid)
    BY <1>6, <2>1
  <2>. HIDE DEF ahead
  <2>. QED  BY Zenon, <1>4, <2>2
<1>8. last \in ahead /\ Cardinality(upto(last)) = Room
  BY Zenon, <1>3, <1>4, <1>6, <1>7
<1>9. upto(last) = ahead
  <2>1. upto(last) \subseteq ahead
    BY Zenon
  <2>. HIDE DEF upto
  <2>. QED  BY Zenon, <1>2, <1>3, <1>8, <2>1, FS_Subset
<1>10. \A v \in Vid : v <= last /\ v \in Nat /\ last \in Nat
  <2>1. \A v \in Vid : v \in Nat
    BY MvrpAssumption
  <2>. QED  BY Zenon, <1>4, <1>8, <1>9, <2>1
<1>. HIDE DEF last
<1>. QED  BY <1>10

-----------------------------------------------------------------------------
(***************************************************************************)
(* The lists that the handlers leave, and whether they start the join      *)
(* timer: a list that has something pressing had it before, or the         *)
(* applicants have asked for a chance to send.                             *)
(***************************************************************************)
Typed(list) == /\ DOMAIN list \subseteq Vid
               /\ \A v \in DOMAIN list : list[v].app \in Applicant

Pressing(list) == \E v \in DOMAIN list : list[v].app.state \in Anxious \ {"LO"}

LEMMA NewAttribIs ==
    /\ NewAttrib.app \in Applicant
    /\ NewAttrib.app.state = "VO" /\ "VO" \notin Anxious
BY DEF NewAttrib, NewApplicant, Applicant, ApplicantState, SndMsg, Anxious

LEMMA NewApp ==
    ASSUME NEW app
    PROVE  /\ \A a : IsAttrib(a) => [a EXCEPT !.app = app].app = app
           /\ \A reg : [app |-> app, reg |-> reg].app = app
<1>1. \A x, r : [[app |-> x, reg |-> r] EXCEPT !.app = app].app = app
  OBVIOUS
<1>2. \A reg : [app |-> app, reg |-> reg].app = app
  OBVIOUS
<1>. QED  BY Zenon, <1>1, <1>2 DEF IsAttrib

LEMMA Prompt ==
    ASSUME NEW old, NEW new,
           \A v \in DOMAIN new :
               \/ new[v].app.new = new[v].app.state
               \/ v \in DOMAIN old /\ new[v].app = old[v].app
    PROVE  Pressing(new) => Pressing(old) \/ Wants(old, new)
<1>. SUFFICES ASSUME NEW v \in DOMAIN new, new[v].app.state \in Anxious \ {"LO"}
     PROVE  Pressing(old) \/ Wants(old, new)
  BY Zenon DEF Pressing
<1>. DEFINE a == (IF v \in DOMAIN old THEN old[v] ELSE NewAttrib).app
<1>1. CASE a.state = new[v].app.state
  <2>1. v \in DOMAIN old
    BY Zenon, <1>1, NewAttribIs
  <2>. QED  BY Zenon, <1>1, <2>1 DEF Pressing
<1>2. CASE a.state # new[v].app.state
  <2>1. new[v].app.new = new[v].app.state
    BY Zenon, <1>2
  <2>2. WantsTx(a, new[v].app)
    BY Zenon, <1>2, <2>1 DEF WantsTx
  <2>. QED  BY Zenon, <2>2 DEF Wants
<1>. QED  BY Zenon, <1>1, <1>2

LEMMA AttribTyped ==
    ASSUME NEW n \in Node, NEW v, Typed(attribs[n])
    PROVE  /\ Attrib(n, v).app \in Applicant
           /\ Attrib(n, v).app.state \in ApplicantState
           /\ v \notin Listed(n) => Attrib(n, v).app.state \notin Anxious
<1>1. Attrib(n, v).app \in Applicant
  BY Zenon, NewAttribIs DEF Attrib, Listed, Typed
<1>. QED  BY Zenon, <1>1, ApplicantFields, NewAttribIs DEF Attrib, Listed

LEMMA CommandApps ==
    ASSUME Inv, NEW n \in Node, Typed(attribs[n]), NEW v \in Vid, NEW s \in ApplicantState,
           NEW a, a = Attrib(n, v),
           NEW b, b = [a EXCEPT !.app = Quietly(a.app, s)],
           NEW list, list = [w \in Listed(n) \cup {v} |->
                                IF w = v THEN b ELSE attribs[n][w]]
    PROVE  /\ Typed(list)
           /\ Pressing(list) => Pressing(attribs[n]) \/ WantsTx(a.app, b.app)
<1>1. IsAttrib(a) /\ a.app \in Applicant
  BY Zenon, ListAttrib, AttribTyped
<1>2. b.app = Quietly(a.app, s)
  BY Zenon, <1>1, NewApp
<1>3. b.app \in Applicant /\ b.app.state = s /\ b.app.new = s
  BY Zenon, <1>1, <1>2, QuietlyIs
<1>4. /\ DOMAIN list = Listed(n) \cup {v}
      /\ list[v] = b
      /\ \A w \in Listed(n) \ {v} : list[w] = attribs[n][w]
  BY Zenon
<1>5. Typed(list)
  BY Zenon, <1>3, <1>4 DEF Typed, Listed
<1>6. ASSUME Pressing(list)  PROVE Pressing(attribs[n]) \/ WantsTx(a.app, b.app)
  <2>1. PICK w \in DOMAIN list : list[w].app.state \in Anxious \ {"LO"}
    BY Zenon, <1>6 DEF Pressing
  <2>2. CASE w # v
    BY Zenon, <1>4, <2>1, <2>2 DEF Pressing, Listed
  <2>3. CASE w = v /\ a.app.state = s
    <3>1. v \in Listed(n) /\ a = attribs[n][v]
      BY Zenon, <1>3, <1>4, <2>1, <2>3, AttribTyped DEF Attrib
    <3>. QED  BY Zenon, <1>3, <1>4, <2>1, <2>3, <3>1 DEF Pressing, Listed
  <2>4. CASE w = v /\ a.app.state # s
    BY Zenon, <1>3, <1>4, <2>1, <2>4 DEF WantsTx
  <2>. QED  BY Zenon, <2>2, <2>3, <2>4
<1>. QED  BY Zenon, <1>5, <1>6

Periodically(old, new) ==
    /\ DOMAIN new = DOMAIN old
    /\ \A v \in DOMAIN old : new[v] = [old[v] EXCEPT !.app = Quietly(@, OnPeriodic(@.state))]

LEMMA PeriodicApps ==
    ASSUME Inv, NEW n \in Node, Typed(attribs[n]), NEW new, Periodically(attribs[n], new)
    PROVE  /\ Typed(new)
           /\ Pressing(new) => Pressing(attribs[n]) \/ Wants(attribs[n], new)
<1>1. DOMAIN new = DOMAIN attribs[n]
  BY Zenon DEF Periodically
<1>2. ASSUME NEW v \in DOMAIN new
      PROVE  new[v].app \in Applicant /\ new[v].app.new = new[v].app.state
  <2>1. IsAttrib(attribs[n][v]) /\ attribs[n][v].app \in Applicant
    BY Zenon, <1>1 DEF Inv, NodeOK, IsList, Typed
  <2>2. OnPeriodic(attribs[n][v].app.state) \in ApplicantState
    BY Zenon, <2>1, ApplicantFields, ApplicantSteps
  <2>3. new[v] = [attribs[n][v] EXCEPT
                     !.app = Quietly(attribs[n][v].app, OnPeriodic(attribs[n][v].app.state))]
    BY Zenon, <1>1 DEF Periodically
  <2>4. new[v].app = Quietly(attribs[n][v].app, OnPeriodic(attribs[n][v].app.state))
    BY Zenon, <2>1, <2>3, NewApp
  <2>. DEFINE q == Quietly(attribs[n][v].app, OnPeriodic(attribs[n][v].app.state))
  <2>5. q \in Applicant /\ q.new = q.state
    BY Zenon, <2>1, <2>2, QuietlyIs
  <2>. HIDE DEF q
  <2>6. new[v].app = q
    BY Zenon, <2>4 DEF q
  <2>. QED  BY SMT, <2>5, <2>6
<1>3. Typed(new)
  BY Zenon, <1>1, <1>2 DEF Typed
<1>4. Pressing(new) => Pressing(attribs[n]) \/ Wants(attribs[n], new)
  BY Zenon, <1>2, Prompt
<1>. QED  BY Zenon, <1>3, <1>4

LEMMA ReclaimedApps ==
    ASSUME NEW list, Typed(list)
    PROVE  Typed(Reclaimed(list)) /\ (Pressing(Reclaimed(list)) => Pressing(list))
<1>1. /\ DOMAIN Reclaimed(list) \subseteq DOMAIN list
      /\ \A v \in DOMAIN Reclaimed(list) : Reclaimed(list)[v] = list[v]
  BY Zenon DEF Reclaimed
<1>. QED  BY Zenon, <1>1 DEF Typed, Pressing

LEMMA LvTimerApps ==
    ASSUME Inv, NEW n \in Node, Typed(attribs[n]),
           NEW new, new = [v \in Listed(n) |->
                             [attribs[n][v] EXCEPT !.reg = RegLvTimer(@)]]
    PROVE  Typed(new) /\ (Pressing(new) => Pressing(attribs[n]))
<1>1. DOMAIN new = DOMAIN attribs[n]
  BY Zenon DEF Listed
<1>2. ASSUME NEW v \in DOMAIN new  PROVE new[v].app = attribs[n][v].app
  <2>1. IsAttrib(attribs[n][v])
    BY Zenon, <1>1 DEF Inv, NodeOK, IsList
  <2>2. \A x, r, q : [[app |-> x, reg |-> r] EXCEPT !.reg = q].app = x
    OBVIOUS
  <2>3. PICK q : new[v] = [attribs[n][v] EXCEPT !.reg = q]
    BY Zenon, <1>1 DEF Listed
  <2>4. PICK x, r : attribs[n][v] = [app |-> x, reg |-> r]
    BY Zenon, <2>1 DEF IsAttrib
  <2>5. [app |-> x, reg |-> r].app = x
    OBVIOUS
  <2>. QED  BY Zenon, <2>2, <2>3, <2>4, <2>5
<1>3. Typed(new)
  BY Zenon, <1>1, <1>2 DEF Typed
<1>4. Pressing(new) => Pressing(attribs[n])
  BY Zenon, <1>1, <1>2 DEF Pressing
<1>. QED  BY Zenon, <1>3, <1>4

LEMMA QuietlyMoved ==
    ASSUME NEW a, a \in Applicant, NEW s, s \in ApplicantState, NEW q, q = Quietly(a, s)
    PROVE  q \in Applicant /\ q.new = q.state
<1>1. Quietly(a, s) \in Applicant /\ Quietly(a, s).new = Quietly(a, s).state
  BY Zenon, QuietlyIs
<1>. QED  BY SMT, <1>1

\* A LeaveAll of the peer.
AllLeave(old, all) ==
    /\ DOMAIN all = DOMAIN old
    /\ \A v \in DOMAIN old : all[v].app = Quietly(old[v].app, OnRLeave(old[v].app.state))

LEMMA LeaveAllApps ==
    ASSUME NEW old, Typed(old), NEW all, AllLeave(old, all)
    PROVE  Typed(all) /\ (Pressing(all) => Pressing(old) \/ Wants(old, all))
<1>1. DOMAIN all = DOMAIN old
  BY Zenon DEF AllLeave
<1>2. ASSUME NEW v \in DOMAIN all
      PROVE  all[v].app \in Applicant /\ all[v].app.new = all[v].app.state
  <2>. DEFINE a == old[v].app
              s == OnRLeave(a.state)
              q == all[v].app
  <2>1. q = Quietly(a, s)
    BY Zenon, <1>1 DEF AllLeave
  <2>2. a \in Applicant
    BY Zenon, <1>1 DEF Typed
  <2>3. s \in ApplicantState
    BY Zenon, <2>2, ApplicantFields, ApplicantSteps
  <2>. HIDE DEF a, s, q
  <2>4. q \in Applicant /\ q.new = q.state
    BY Zenon, <2>1, <2>2, <2>3, QuietlyMoved
  <2>. QED  BY Zenon, <2>4 DEF q
<1>3. Typed(all)
  BY Zenon, <1>1, <1>2 DEF Typed
<1>4. Pressing(all) => Pressing(old) \/ Wants(old, all)
  BY Zenon, <1>2, Prompt
<1>. QED  BY Zenon, <1>3, <1>4

\* The events of a PDU.
EventHeard(all, app, v) ==
    \E e : app = Quietly((IF v \in DOMAIN all THEN all[v] ELSE NewAttrib).app,
                         RxApplicant(e, (IF v \in DOMAIN all THEN all[v] ELSE NewAttrib).app.state))

EventsHeard(all, new) ==
    \A v \in DOMAIN new :
        /\ v \in Vid
        /\ \/ v \in DOMAIN all /\ new[v] = all[v]
           \/ EventHeard(all, new[v].app, v)

LEMMA EventApps ==
    ASSUME NEW all, Typed(all), NEW new, EventsHeard(all, new)
    PROVE  Typed(new) /\ (Pressing(new) => Pressing(all) \/ Wants(all, new))
<1>1. ASSUME NEW v \in DOMAIN new
      PROVE  /\ new[v].app \in Applicant
             /\ \/ new[v].app.new = new[v].app.state
                \/ v \in DOMAIN all /\ new[v].app = all[v].app
  <2>1. CASE v \in DOMAIN all /\ new[v] = all[v]
    BY Zenon, <2>1 DEF Typed
  <2>2. CASE EventHeard(all, new[v].app, v)
    <3>. DEFINE a == (IF v \in DOMAIN all THEN all[v] ELSE NewAttrib).app
    <3>1. a \in Applicant
      BY Zenon, NewAttribIs DEF Typed
    <3>2. PICK e : new[v].app = Quietly(a, RxApplicant(e, a.state))
      BY Zenon, <2>2 DEF EventHeard
    <3>. HIDE DEF a
    <3>3. RxApplicant(e, a.state) \in ApplicantState
      BY Zenon, <3>1, ApplicantFields, RxApplicantIs
    <3>. QED  BY Zenon, <3>1, <3>2, <3>3, QuietlyMoved
  <2>. QED  BY Zenon, <2>1, <2>2 DEF EventsHeard
<1>2. Typed(new)
  BY Zenon, <1>1 DEF Typed, EventsHeard
<1>3. Pressing(new) => Pressing(all) \/ Wants(all, new)
  BY Zenon, <1>1, Prompt
<1>. QED  BY Zenon, <1>2, <1>3

\* What an event other than tx! does to the list and the join timer.
AppStep(n) ==
    \E new, wants :
        /\ attribs' = [attribs EXCEPT ![n] = new]
        /\ TxOp(n, wants)
        /\ Typed(new)
        /\ Pressing(new) => Pressing(attribs[n]) \/ wants

LEMMA RxPduApps ==
    ASSUME Inv, NEW n \in Node, Typed(attribs[n]), NEW pdu, RxPdu(n, pdu),
           DOMAIN pdu.ev \subseteq Vid
    PROVE  AppStep(n)
<1>. DEFINE old == attribs[n]
            all == IF pdu.lva
                   THEN [v \in DOMAIN old |->
                           [app |-> Quietly(old[v].app, OnRLeave(old[v].app.state)),
                            reg |-> RegLeave(old[v].reg)]]
                   ELSE old
            heard == {v \in DOMAIN pdu.ev : v \in DOMAIN old \/ pdu.ev[v] # "MT"}
            was(v) == IF v \in DOMAIN all THEN all[v] ELSE NewAttrib
            new == [v \in DOMAIN old \cup heard |->
                      IF v \notin heard THEN all[v]
                      ELSE [app |-> Quietly(was(v).app,
                                       RxApplicant(pdu.ev[v], was(v).app.state)),
                            reg |-> RxRegistrar(pdu.ev[v], was(v).reg)]]
<1>1. attribs' = [attribs EXCEPT ![n] = new] /\ TxOp(n, Wants(old, all) \/ Wants(all, new))
  BY Zenon DEF RxPdu
<1>2. /\ DOMAIN all = DOMAIN old /\ Typed(all)
      /\ Pressing(all) => Pressing(old) \/ Wants(old, all)
  <2>1. CASE pdu.lva
    <3>1. all = [v \in DOMAIN old |->
                   [app |-> Quietly(old[v].app, OnRLeave(old[v].app.state)),
                    reg |-> RegLeave(old[v].reg)]]
      BY Zenon, <2>1
    <3>. HIDE DEF all
    <3>2. AllLeave(old, all)
      BY Zenon, <3>1, NewApp DEF AllLeave
    <3>. QED  BY Zenon, <3>2, LeaveAllApps DEF AllLeave
  <2>2. CASE ~pdu.lva
    BY Zenon, <2>2
  <2>. QED  BY Zenon, <2>1, <2>2
<1>. HIDE DEF all
<1>3. /\ DOMAIN new = DOMAIN old \cup heard
      /\ \A v \in DOMAIN old : v \notin heard => new[v] = all[v]
      /\ \A v \in heard : \E r :
            new[v] = [app |-> Quietly(was(v).app, RxApplicant(pdu.ev[v], was(v).app.state)),
                      reg |-> r]
  BY Zenon
<1>4. heard \subseteq Vid
  BY Zenon
<1>. HIDE DEF new, heard, was
<1>5. EventsHeard(all, new)
  <2>. SUFFICES ASSUME NEW v \in DOMAIN new
       PROVE  /\ v \in Vid
              /\ \/ v \in DOMAIN all /\ new[v] = all[v]
                 \/ EventHeard(all, new[v].app, v)
    BY Zenon DEF EventsHeard
  <2>1. v \in Vid
    BY Zenon, <1>3, <1>4 DEF Typed
  <2>2. CASE v \notin heard
    BY Zenon, <1>2, <1>3, <2>1, <2>2
  <2>3. CASE v \in heard
    <3>1. PICK q, r : /\ new[v] = [app |-> q, reg |-> r]
                      /\ q = Quietly(was(v).app, RxApplicant(pdu.ev[v], was(v).app.state))
      BY Zenon, <1>3, <2>3
    <3>2. new[v].app = q
      BY SMT, <3>1
    <3>3. EventHeard(all, q, v)
      BY Zenon, <3>1 DEF EventHeard, was
    <3>. QED  BY Zenon, <2>1, <3>2, <3>3
  <2>. QED  BY Zenon, <2>1, <2>2, <2>3
<1>6. Typed(new) /\ (Pressing(new) => Pressing(all) \/ Wants(all, new))
  BY Zenon, <1>2, <1>5, EventApps
<1>. QED  BY Zenon, <1>1, <1>2, <1>6 DEF AppStep

LEMMA RequestApps ==
    ASSUME Inv, NEW n \in Node, Typed(attribs[n]), NEW v \in Vid,
           New(n, v) \/ Join(n, v) \/ Leave(n, v)
    PROVE  AppStep(n)
<1>. DEFINE a == Attrib(n, v)
            b(s) == [a EXCEPT !.app = Quietly(a.app, s)]
            list(s) == [w \in Listed(n) \cup {v} |->
                           IF w = v THEN b(s) ELSE attribs[n][w]]
<1>1. a.app.state \in ApplicantState
  BY Zenon, AttribTyped
<1>2. PICK s \in ApplicantState :
        attribs' = [attribs EXCEPT ![n] = list(s)] /\ TxOp(n, WantsTx(a.app, b(s).app))
  <2>1. /\ OnNew(a.app.state) \in ApplicantState /\ OnJoin(a.app.state) \in ApplicantState
        /\ OnLv(a.app.state) \in ApplicantState
    BY Zenon, <1>1, ApplicantSteps
  <2>2. CASE New(n, v)
    BY Zenon, <2>1, <2>2 DEF New, Command
  <2>3. CASE Join(n, v)
    BY Zenon, <2>1, <2>3 DEF Join, Command
  <2>4. CASE Leave(n, v)
    BY Zenon, <2>1, <2>4 DEF Leave, Command
  <2>. QED  BY Zenon, <2>2, <2>3, <2>4
<1>3. /\ Typed(list(s))
      /\ Pressing(list(s)) => Pressing(attribs[n]) \/ WantsTx(a.app, b(s).app)
  BY Zenon, CommandApps
<1>. HIDE DEF list, b
<1>. QED  BY Zenon, <1>2, <1>3 DEF AppStep

LEMMA PeriodicStep ==
    ASSUME Inv, NEW n \in Node, Typed(attribs[n]), Periodic(n)
    PROVE  AppStep(n)
<1>. DEFINE new == [v \in Listed(n) |->
                      [attribs[n][v] EXCEPT !.app = Quietly(@, OnPeriodic(@.state))]]
<1>1. attribs' = [attribs EXCEPT ![n] = new] /\ TxOp(n, Wants(attribs[n], new))
  BY Zenon DEF Periodic
<1>2. Periodically(attribs[n], new)
  BY Zenon DEF Periodically, Listed
<1>. HIDE DEF new
<1>3. Typed(new) /\ (Pressing(new) => Pressing(attribs[n]) \/ Wants(attribs[n], new))
  BY Zenon, <1>2, PeriodicApps
<1>. QED  BY Zenon, <1>1, <1>3 DEF AppStep

-----------------------------------------------------------------------------
(***************************************************************************)
(* A PDU is sent.                                                          *)
(***************************************************************************)
\* What every applicant asks for.
Asked(old, asked, la) ==
    /\ DOMAIN asked = DOMAIN old
    /\ \A v \in DOMAIN old :
          /\ IsAttrib(asked[v])
          /\ asked[v].app = IF la THEN TxLaApplicant(old[v].app)
                            ELSE TxApplicant(old[v].app, old[v].reg)

LEMMA AskedApps ==
    ASSUME NEW old, Typed(old), NEW la, NEW asked, Asked(old, asked, la), NEW v \in DOMAIN old
    PROVE  /\ asked[v].app \in Applicant
           /\ asked[v].app.state = old[v].app.state
           /\ asked[v].app.new = IF la THEN OnTxLa(old[v].app.state)
                                 ELSE OnTx(old[v].app.state, old[v].reg)
<1>1. old[v].app \in Applicant
  BY Zenon DEF Typed
<1>. DEFINE a == asked[v].app
<1>2. CASE la
  <2>1. a = TxLaApplicant(old[v].app)
    BY Zenon, <1>2 DEF Asked
  <2>. HIDE DEF a
  <2>2. /\ a \in Applicant /\ a.state = old[v].app.state
        /\ a.new = OnTxLa(old[v].app.state)
    BY Zenon, <1>1, <2>1, TxIs
  <2>. QED  BY Zenon, <1>2, <2>2 DEF a
<1>3. CASE ~la
  <2>1. a = TxApplicant(old[v].app, old[v].reg)
    BY Zenon, <1>3 DEF Asked
  <2>. HIDE DEF a
  <2>2. /\ a \in Applicant /\ a.state = old[v].app.state
        /\ a.new = OnTx(old[v].app.state, old[v].reg)
    BY Zenon, <1>1, <2>1, TxIs
  <2>. QED  BY Zenon, <1>3, <2>2 DEF a
<1>. QED  BY Zenon, <1>2, <1>3

\* What becomes of it: an attribute that the PDU came to moves on, for any
\* other it is only noted whether it is to be sent.
Emitted(asked, after, passed) ==
    /\ DOMAIN after = DOMAIN asked
    /\ \A v \in DOMAIN asked :
          IF v \in passed
          THEN \E reg : after[v].app = [mrp_applicant_chk(asked[v].app, reg) EXCEPT !.tx = FALSE]
          ELSE \E t \in BOOLEAN : after[v].app = [asked[v].app EXCEPT !.tx = t]

LEMMA EmittedApps ==
    ASSUME NEW asked, NEW after, NEW passed, Emitted(asked, after, passed),
           NEW v \in DOMAIN asked, asked[v].app \in Applicant
    PROVE  /\ after[v].app \in Applicant
           /\ v \in passed => after[v].app.state = asked[v].app.new
<1>. DEFINE a == asked[v].app
            b == after[v].app
<1>1. CASE v \in passed
  <2>1. PICK reg : b = [mrp_applicant_chk(a, reg) EXCEPT !.tx = FALSE]
    BY Zenon, <1>1 DEF Emitted
  <2>2. a \in Applicant
    OBVIOUS
  <2>. HIDE DEF a, b
  <2>3. b \in Applicant /\ b.state = a.new
    BY Zenon, <2>1, <2>2, ChkIs
  <2>. QED  BY Zenon, <2>3 DEF a, b
<1>2. CASE v \notin passed
  <2>1. PICK t \in BOOLEAN : b = [a EXCEPT !.tx = t]
    BY Zenon, <1>2 DEF Emitted
  <2>2. a \in Applicant
    OBVIOUS
  <2>. HIDE DEF a, b
  <2>3. b \in Applicant
    BY Zenon, <2>1, <2>2, MarkIs
  <2>. QED  BY Zenon, <1>2, <2>3 DEF b
<1>. QED  BY Zenon, <1>1, <1>2

\* The end of a LeaveAll.
Finished(after, final, la, stop) ==
    /\ DOMAIN final = DOMAIN after
    /\ ~la => final = after
    /\ la /\ stop = 0 => AllLeave(after, final)
    /\ la /\ stop # 0 =>
          \A v \in DOMAIN after : final[v].app = TxLafApplicant(after[v].app)

LEMMA FinishedTyped ==
    ASSUME NEW after, NEW final, NEW la, NEW stop, Finished(after, final, la, stop),
           Typed(after)
    PROVE  Typed(final)
<1>1. CASE ~la
  BY Zenon, <1>1 DEF Finished
<1>2. CASE la /\ stop = 0
  BY Zenon, <1>2, LeaveAllApps DEF Finished
<1>3. CASE la /\ stop # 0
  <2>1. ASSUME NEW v \in DOMAIN after  PROVE final[v].app \in Applicant
    <3>1. after[v].app \in Applicant /\ final[v].app = TxLafApplicant(after[v].app)
      BY Zenon, <1>3 DEF Typed, Finished
    <3>2. TxLafApplicant(after[v].app) \in Applicant
      BY Zenon, <3>1, TxIs
    <3>. QED  BY Zenon, <3>1, <3>2
  <2>. QED  BY Zenon, <2>1 DEF Typed, Finished
<1>. QED  BY Zenon, <1>1, <1>2, <1>3

\* When the PDU came to the end of the list, what is still pressing has asked
\* for the next chance to send.
LEMMA FinishedPressing ==
    ASSUME NEW old, Typed(old), NEW la, NEW asked, Asked(old, asked, la),
           NEW after, Emitted(asked, after, DOMAIN old),
           NEW final, Finished(after, final, la, 0)
    PROVE  Pressing(final) => Wants(old, asked) \/ (la /\ Wants(after, final))
<1>. SUFFICES ASSUME NEW v \in DOMAIN final, final[v].app.state \in Anxious \ {"LO"}
     PROVE  Wants(old, asked) \/ (la /\ Wants(after, final))
  BY Zenon DEF Pressing
<1>1. DOMAIN final = DOMAIN old /\ DOMAIN after = DOMAIN old /\ DOMAIN asked = DOMAIN old
  BY Zenon DEF Asked, Emitted, Finished
<1>2. v \in DOMAIN old /\ v \in DOMAIN asked
  BY Zenon, <1>1
<1>. DEFINE s == old[v].app.state
            a == asked[v].app
            b == after[v].app
            f == final[v].app
<1>3. s \in ApplicantState
  BY Zenon, <1>1, ApplicantFields DEF Typed
<1>4. a \in Applicant /\ a.new = IF la THEN OnTxLa(s) ELSE OnTx(s, old[v].reg)
  BY <1>2, AskedApps
<1>5. b \in Applicant /\ b.state = a.new
  BY <1>2, <1>4, EmittedApps
<1>6. CASE ~la
  <2>1. f.state = OnTx(s, old[v].reg) /\ f.state \in Anxious
    BY Zenon, <1>4, <1>5, <1>6 DEF Finished
  <2>2. OnTx(s, old[v].reg) # s
    BY Zenon, <1>3, <2>1, AnxiousSteps
  <2>3. WantsTx(old[v].app, a)
    BY Zenon, <1>4, <1>6, <2>1, <2>2 DEF WantsTx
  <2>. QED  BY Zenon, <1>1, <2>3 DEF Wants
<1>7. CASE la
  <2>1. AllLeave(after, final)
    BY <1>7 DEF Finished
  <2>2. f = Quietly(b, OnRLeave(b.state)) /\ b.state = OnTxLa(s)
    BY Zenon, <1>2, <1>1, <1>4, <1>5, <1>7, <2>1 DEF AllLeave
  <2>3. OnRLeave(b.state) \in ApplicantState
    <3>1. b.state \in ApplicantState
      BY Zenon, <1>5, ApplicantFields
    <3>. HIDE DEF b
    <3>. QED  BY Zenon, <3>1, ApplicantSteps
  <2>4. f.state = OnRLeave(b.state) /\ f.new = OnRLeave(b.state)
    <3>. HIDE DEF b, f
    <3>. QED  BY Zenon, <1>5, <2>2, <2>3, QuietlyIs
  <2>5. f.state # b.state
    BY Zenon, <1>3, <2>2, <2>4, AnxiousSteps
  <2>6. WantsTx(b, f)
    BY Zenon, <2>4, <2>5 DEF WantsTx
  <2>. QED  BY Zenon, <1>1, <1>7, <2>6 DEF Wants
<1>. QED  BY Zenon, <1>6, <1>7

LEMMA GivenApp ==
    ASSUME NEW a, IsAttrib(a), NEW app, NEW b, b = [a EXCEPT !.app = app]
    PROVE  IsAttrib(b) /\ b.app = app
BY SMT, WithApp, NewApp

LEMMA MadeOf ==
    ASSUME NEW app, NEW reg, reg \in RegistrarState, NEW b, b = [app |-> app, reg |-> reg]
    PROVE  IsAttrib(b) /\ b.app = app
BY SMT, AttribOf, NewApp

\* What tx! does to the list, the join timer and the place to go on from.
TxStep(n, start) ==
    \E left, stop, again, more :
        /\ attribs' = [attribs EXCEPT ![n] = left]
        /\ join' = [join EXCEPT ![n] = IF again \/ more THEN 2 ELSE 0]
        /\ tx_attrib' = [tx_attrib EXCEPT ![n] = IF again /\ ~more THEN 0 ELSE stop]
        /\ Typed(left)
        /\ stop \in Vid \cup {0}
        /\ Room >= Cardinality(Vid) /\ start = 0 =>
              stop = 0 /\ (Pressing(left) => again)

LEMMA TransmitApps ==
    ASSUME Inv, NEW n \in Node, Typed(attribs[n]), NEW start, Transmit(n, start)
    PROVE  TxStep(n, start)
<1>. DEFINE la == lva[n]
            old == attribs[n]
            asked == [v \in DOMAIN old |->
                        IF la THEN [app |-> TxLaApplicant(old[v].app),
                                    reg |-> RegLeave(old[v].reg)]
                        ELSE [old[v] EXCEPT !.app = TxApplicant(@, old[v].reg)]]
            send == Prepared(asked, la)
            stop == Stop(asked, send, start)
            passed == {v \in DOMAIN old : v >= start /\ (stop = 0 \/ v < stop)}
            after == [v \in DOMAIN old |->
                        IF v \in passed
                        THEN [asked[v] EXCEPT
                                 !.app = [mrp_applicant_chk(@, asked[v].reg)
                                            EXCEPT !.tx = FALSE]]
                        ELSE [asked[v] EXCEPT !.app.tx = v \in send]]
            final == IF ~la THEN after
                     ELSE IF stop = 0
                     THEN [v \in DOMAIN old |->
                             [app |-> Quietly(after[v].app,
                                              OnRLeave(after[v].app.state)),
                              reg |-> RegLeave(after[v].reg)]]
                     ELSE [v \in DOMAIN old |->
                             [after[v] EXCEPT !.app = TxLafApplicant(@)]]
            again == Wants(old, asked) \/ (la /\ Wants(after, final))
            more == stop # 0 /\ ~la
            reclaim == \E v \in passed : AsksReclaim(asked[v].app, asked[v].reg)
            left == IF reclaim THEN Reclaimed(final) ELSE final
<1>1. /\ attribs' = [attribs EXCEPT ![n] = left]
      /\ join' = [join EXCEPT ![n] = IF again \/ more THEN 2 ELSE 0]
      /\ tx_attrib' = [tx_attrib EXCEPT ![n] = IF again /\ ~more THEN 0 ELSE stop]
  BY Zenon DEF Transmit, TxAsked
<1>2. \A v \in DOMAIN old : IsAttrib(old[v]) /\ old[v].reg \in RegistrarState
  BY Zenon DEF Inv, NodeOK, IsList, IsAttrib
<1>3. Asked(old, asked, la)
  <2>1. DOMAIN asked = DOMAIN old
    BY Zenon
  <2>2. ASSUME NEW v \in DOMAIN old
        PROVE  /\ IsAttrib(asked[v])
               /\ asked[v].app = IF la THEN TxLaApplicant(old[v].app)
                                 ELSE TxApplicant(old[v].app, old[v].reg)
    <3>1. CASE la
      <4>1. asked[v] = [app |-> TxLaApplicant(old[v].app), reg |-> RegLeave(old[v].reg)]
        BY Zenon, <3>1
      <4>. HIDE DEF asked
      <4>2. RegLeave(old[v].reg) \in RegistrarState
        BY Zenon, <1>2, LeaveTwice
      <4>3. IsAttrib(asked[v]) /\ asked[v].app = TxLaApplicant(old[v].app)
        BY Zenon, <4>1, <4>2, MadeOf
      <4>. QED  BY Zenon, <3>1, <4>3
    <3>2. CASE ~la
      <4>1. asked[v] = [old[v] EXCEPT !.app = TxApplicant(old[v].app, old[v].reg)]
        BY Zenon, <3>2
      <4>. HIDE DEF asked
      <4>2. IsAttrib(old[v])
        BY Zenon, <1>2
      <4>. DEFINE app == TxApplicant(old[v].app, old[v].reg)
      <4>3. asked[v] = [old[v] EXCEPT !.app = app]
        BY Zenon, <4>1
      <4>. HIDE DEF app, old
      <4>4. IsAttrib(asked[v]) /\ asked[v].app = app
        BY Zenon, <4>2, <4>3, GivenApp
      <4>. QED  BY Zenon, <3>2, <4>4 DEF app
    <3>. QED  BY Zenon, <3>1, <3>2
  <2>. HIDE DEF asked
  <2>. QED  BY Zenon, <2>1, <2>2 DEF Asked
<1>. HIDE DEF asked
<1>4. Typed(asked) /\ DOMAIN asked = DOMAIN old /\ DOMAIN asked \subseteq Vid
  <2>1. DOMAIN asked = DOMAIN old
    BY Zenon, <1>3 DEF Asked
  <2>2. \A v \in DOMAIN old : asked[v].app \in Applicant
    BY Zenon, <1>3, AskedApps
  <2>. QED  BY Zenon, <2>1, <2>2 DEF Typed
<1>5. send \subseteq DOMAIN asked
  BY Zenon, <1>4, PreparedIs
<1>. HIDE DEF send
<1>6. stop \in Vid \cup {0} /\ (Room >= Cardinality(Vid) => stop = 0)
  <2>1. stop \in DOMAIN asked \cup {0}
    BY Zenon, <1>4, StopIs
  <2>2. Room >= Cardinality(Vid) => stop = 0
    BY Zenon, <1>4, <1>5, RoomForAll
  <2>. HIDE DEF stop
  <2>. QED  BY Zenon, <1>4, <2>1, <2>2
<1>. HIDE DEF stop
<1>7. stop = 0 /\ start = 0 => passed = DOMAIN old
  <2>1. Vid \subseteq Nat
    BY MvrpAssumption
  <2>2. \A v \in DOMAIN old : v \in Nat
    BY Zenon, <1>4, <2>1
  <2>3. \A v \in DOMAIN old : start = 0 => v >= start
    BY <2>2
  <2>. QED  BY Zenon, <2>3
<1>. HIDE DEF passed
<1>8. Emitted(asked, after, passed)
  <2>1. DOMAIN after = DOMAIN old
    BY Zenon
  <2>2. ASSUME NEW v \in DOMAIN old, v \in passed
        PROVE  \E reg : after[v].app =
                          [mrp_applicant_chk(asked[v].app, reg) EXCEPT !.tx = FALSE]
    <3>1. after[v] = [asked[v] EXCEPT
                        !.app = [mrp_applicant_chk(asked[v].app, asked[v].reg)
                                   EXCEPT !.tx = FALSE]]
      BY Zenon, <2>2
    <3>2. IsAttrib(asked[v])
      BY Zenon, <1>3 DEF Asked
    <3>. HIDE DEF after
    <3>. DEFINE app == [mrp_applicant_chk(asked[v].app, asked[v].reg) EXCEPT !.tx = FALSE]
    <3>3. after[v] = [asked[v] EXCEPT !.app = app]
      BY Zenon, <3>1
    <3>. HIDE DEF app
    <3>4. after[v].app = app
      BY Zenon, <3>2, <3>3, GivenApp
    <3>. QED  BY Zenon, <3>4 DEF app
  <2>3. ASSUME NEW v \in DOMAIN old, v \notin passed
        PROVE  \E t \in BOOLEAN : after[v].app = [asked[v].app EXCEPT !.tx = t]
    <3>1. after[v] = [asked[v] EXCEPT !.app = [asked[v].app EXCEPT !.tx = v \in send]]
      BY Zenon, <2>3
    <3>2. IsAttrib(asked[v])
      BY Zenon, <1>3 DEF Asked
    <3>3. (v \in send) \in BOOLEAN
      OBVIOUS
    <3>. HIDE DEF after
    <3>. DEFINE app == [asked[v].app EXCEPT !.tx = v \in send]
    <3>4. after[v] = [asked[v] EXCEPT !.app = app]
      BY Zenon, <3>1
    <3>. HIDE DEF app
    <3>5. after[v].app = app
      BY Zenon, <3>2, <3>4, GivenApp
    <3>. QED  BY Zenon, <3>3, <3>5 DEF app
  <2>. HIDE DEF after
  <2>. QED  BY Zenon, <1>4, <2>1, <2>2, <2>3 DEF Emitted
<1>9. \A v \in DOMAIN old : IsAttrib(after[v])
  <2>. SUFFICES ASSUME NEW v \in DOMAIN old  PROVE IsAttrib(after[v])
    BY Zenon
  <2>1. PICK app : after[v] = [asked[v] EXCEPT !.app = app]
    BY Zenon
  <2>2. IsAttrib(asked[v])
    BY Zenon, <1>3 DEF Asked
  <2>. HIDE DEF after
  <2>. QED  BY Zenon, <2>1, <2>2, GivenApp
<1>. HIDE DEF after
<1>10. Typed(after) /\ DOMAIN after = DOMAIN old
  <2>1. DOMAIN after = DOMAIN asked
    BY Zenon, <1>8 DEF Emitted
  <2>2. \A v \in DOMAIN asked : after[v].app \in Applicant
    BY Zenon, <1>4, <1>8, EmittedApps DEF Typed
  <2>. QED  BY Zenon, <1>4, <2>1, <2>2 DEF Typed
<1>11. Finished(after, final, la, stop)
  <2>1. CASE ~la
    BY Zenon, <2>1 DEF Finished
  <2>2. CASE la /\ stop = 0
    <3>1. final = [v \in DOMAIN old |->
                     [app |-> Quietly(after[v].app, OnRLeave(after[v].app.state)),
                      reg |-> RegLeave(after[v].reg)]]
      BY Zenon, <2>2
    <3>. HIDE DEF final
    <3>2. DOMAIN final = DOMAIN after
      BY Zenon, <1>10, <3>1
    <3>3. AllLeave(after, final)
      BY Zenon, <1>10, <3>1, NewApp DEF AllLeave
    <3>. QED  BY Zenon, <2>2, <3>2, <3>3 DEF Finished
  <2>3. CASE la /\ stop # 0
    <3>1. final = [v \in DOMAIN old |-> [after[v] EXCEPT !.app = TxLafApplicant(@)]]
      BY Zenon, <2>3
    <3>. HIDE DEF final
    <3>2. DOMAIN final = DOMAIN after
      BY Zenon, <1>10, <3>1
    <3>3. ASSUME NEW v \in DOMAIN after  PROVE final[v].app = TxLafApplicant(after[v].app)
      <4>1. final[v] = [after[v] EXCEPT !.app = TxLafApplicant(after[v].app)]
        BY Zenon, <1>10, <3>1
      <4>. QED  BY Zenon, <1>9, <1>10, <4>1, NewApp
    <3>. QED  BY Zenon, <2>3, <3>2, <3>3 DEF Finished
  <2>. QED  BY Zenon, <2>1, <2>2, <2>3
<1>. HIDE DEF final
<1>12. Typed(final)
  BY Zenon, <1>10, <1>11, FinishedTyped
<1>13. Typed(left) /\ (Pressing(left) => Pressing(final))
  BY Zenon, <1>12, ReclaimedApps
<1>14. Room >= Cardinality(Vid) /\ start = 0 => stop = 0 /\ (Pressing(left) => again)
  <2>. SUFFICES ASSUME Room >= Cardinality(Vid), start = 0
       PROVE  stop = 0 /\ (Pressing(left) => again)
    BY Zenon
  <2>1. stop = 0 /\ passed = DOMAIN old
    BY Zenon, <1>6, <1>7
  <2>2. Pressing(final) => Wants(old, asked) \/ (la /\ Wants(after, final))
    BY Zenon, <1>3, <1>8, <1>11, <2>1, FinishedPressing
  <2>. HIDE DEF left
  <2>. QED  BY Zenon, <1>13, <2>1, <2>2
<1>. HIDE DEF left, again, more
<1>. QED  BY Zenon, <1>1, <1>6, <1>13, <1>14 DEF TxStep

-----------------------------------------------------------------------------
(***************************************************************************)
(* The types of all the state, and the join timer.                         *)
(***************************************************************************)
PduTyped(p) == p = NoPdu \/ DOMAIN p.ev \subseteq Vid

Links == link = [n \in Node |-> link[n]] /\ \A n \in Node : PduTyped(link[n])
Lists == \A n \in Node : Typed(attribs[n])
Timers == /\ join \in [Node -> 0 .. 2]
          /\ lv \in [Node -> 0 .. LvTicks + 1]
          /\ lvat \in [Node -> 1 .. LvaTicks + 1]
Others == /\ lva \in [Node -> BOOLEAN]
          /\ tx_attrib \in [Node -> Vid \cup {0}]
          /\ told \in [Node -> SUBSET Vid]
          /\ clients \subseteq Node
Bounds == losses \in 0 .. MaxLosses /\ requests \in 0 .. MaxRequests

TInv == Inv /\ Links /\ Lists /\ Timers /\ Others /\ Bounds

\* What a pass of the event loop has found.
Timer == {"lv", "lva"}
Passes == stale \in [Node -> SUBSET Timer]

\* With room for every VLAN no PDU goes on in a next one.
Served == \A n \in Node : tx_attrib[n] = 0 /\ (Pressing(attribs[n]) => join[n] > 0)

LEMMA TInvImplies == TInv /\ Passes => TypeOK
<1>. SUFFICES ASSUME TInv, Passes  PROVE TypeOK
  OBVIOUS
<1>1. Inv /\ Links /\ Lists /\ Timers /\ Others /\ Bounds
  BY DEF TInv
<1>2. ASSUME NEW n \in Node
      PROVE  /\ Listed(n) \subseteq Vid
             /\ \A v \in Listed(n) : /\ attribs[n][v].app \in Applicant
                                     /\ attribs[n][v].reg \in RegistrarState
  BY Zenon, <1>1 DEF Lists, Typed, Listed, Inv, NodeOK, IsList, IsAttrib
<1>3. ASSUME NEW n \in Node
      PROVE  /\ tx_attrib[n] \in Vid \cup {0} /\ told[n] \subseteq Vid
             /\ join[n] \in 0 .. 2 /\ lv[n] \in 0 .. LvTicks + 1
             /\ lvat[n] \in 1 .. LvaTicks + 1
  BY <1>1 DEF Timers, Others
<1>4. /\ lva \in [Node -> BOOLEAN] /\ clients \subseteq Node
      /\ losses \in 0 .. MaxLosses /\ requests \in 0 .. MaxRequests
  BY <1>1 DEF Others, Bounds
<1>. QED  BY Zenon, <1>2, <1>3, <1>4 DEF TypeOK, Passes, Timer

LEMMA ServedImplies == Served => AnxiousIsTimed
BY Zenon DEF Served, AnxiousIsTimed, Pressing, Listed

LEMMA InitTInv == Init => TInv /\ Served
<1>. SUFFICES ASSUME Init  PROVE TInv /\ Served
  OBVIOUS
<1>1. Inv
  BY Zenon, InitInv
<1>2. \A n \in Node : DOMAIN attribs[n] = {}
  BY DEF Init
<1>3. Lists
  BY Zenon, <1>2 DEF Lists, Typed
<1>4. Links
  BY DEF Init, Links, PduTyped
<1>5. Timers /\ Others /\ Bounds
  <2>1. Timers
    <3>1. 0 \in 0 .. 2 /\ 0 \in 0 .. LvTicks + 1 /\ LvaTicks + 1 \in 1 .. LvaTicks + 1
      BY MvrpAssumption
    <3>2. /\ join = [n \in Node |-> 0] /\ lv = [n \in Node |-> 0]
          /\ lvat = [n \in Node |-> LvaTicks + 1]
      BY Zenon DEF Init
    <3>. QED  BY Zenon, <3>1, <3>2 DEF Timers
  <2>2. Others
    BY DEF Init, Others
  <2>3. Bounds
    BY MvrpAssumption DEF Init, Bounds
  <2>. QED  BY Zenon, <2>1, <2>2, <2>3
<1>6. \A n \in Node : tx_attrib[n] = 0
  BY DEF Init
<1>7. Served
  BY Zenon, <1>2, <1>6 DEF Served, Pressing
<1>. QED  BY Zenon, <1>1, <1>3, <1>4, <1>5, <1>7 DEF TInv

LEMMA PeerIs ==
    ASSUME NEW n \in Node
    PROVE  Peer(n) \in Node /\ Peer(n) # n
<1>1. \E m \in Node : m # n
  <2>. SUFFICES ASSUME \A m \in Node : m = n  PROVE FALSE
    BY Zenon
  <2>1. Node = {n}
    BY Zenon
  <2>2. Cardinality({n}) = 1
    BY Zenon, FS_Singleton
  <2>3. Cardinality(Node) = 2
    BY SMT, MvrpAssumption
  <2>. QED  BY SMT, <2>1, <2>2, <2>3
<1>. QED  BY Zenon, <1>1 DEF Peer

\* One list changes.
LEMMA OneList ==
    ASSUME Inv, Lists, NEW n \in Node, NEW list, Typed(list),
           attribs' = [attribs EXCEPT ![n] = list]
    PROVE  /\ Lists'
           /\ attribs'[n] = list
           /\ \A m \in Node : m # n => attribs'[m] = attribs[m]
<1>1. attribs'[n] = list /\ \A m \in Node : m # n => attribs'[m] = attribs[m]
  BY DEF Inv
<1>. QED  BY Zenon, <1>1 DEF Lists

LEMMA AppStepIs ==
    ASSUME TInv, NEW n \in Node, AppStep(n)
    PROVE  /\ Lists'
           /\ join' \in [Node -> 0 .. 2]
           /\ tx_attrib' \in [Node -> Vid \cup {0}]
           /\ Served => Served'
<1>1. PICK new, wants :
        /\ attribs' = [attribs EXCEPT ![n] = new]
        /\ TxOp(n, wants)
        /\ Typed(new)
        /\ Pressing(new) => Pressing(attribs[n]) \/ wants
  BY Zenon DEF AppStep
<1>2. Lists' /\ attribs'[n] = new /\ \A m \in Node : m # n => attribs'[m] = attribs[m]
  BY Zenon, <1>1, OneList DEF TInv
<1>3. join \in [Node -> 0 .. 2] /\ tx_attrib \in [Node -> Vid \cup {0}]
  BY Zenon DEF TInv, Timers, Others
<1>4. /\ join' = [join EXCEPT ![n] = IF wants THEN mrp_jointimer_start(join[n]) ELSE join[n]]
      /\ tx_attrib' = [tx_attrib EXCEPT ![n] = IF wants THEN 0 ELSE tx_attrib[n]]
  BY Zenon, <1>1 DEF TxOp
<1>5. /\ join' \in [Node -> 0 .. 2]
      /\ \A m \in Node : join[m] > 0 => join'[m] > 0
      /\ wants => join'[n] > 0
  BY <1>3, <1>4 DEF mrp_jointimer_start
<1>6. tx_attrib' \in [Node -> Vid \cup {0}] /\ \A m \in Node : tx_attrib[m] = 0 => tx_attrib'[m] = 0
  BY <1>3, <1>4
<1>7. ASSUME Served  PROVE Served'
  <2>. SUFFICES ASSUME NEW m \in Node
       PROVE  tx_attrib'[m] = 0 /\ (Pressing(attribs'[m]) => join'[m] > 0)
    BY Zenon DEF Served, Pressing
  <2>1. tx_attrib[m] = 0 /\ (Pressing(attribs[m]) => join[m] > 0)
    BY Zenon, <1>7 DEF Served
  <2>2. CASE m = n
    BY Zenon, <1>1, <1>2, <1>5, <1>6, <2>1, <2>2
  <2>3. CASE m # n
    BY Zenon, <1>2, <1>5, <1>6, <2>1, <2>3
  <2>. QED  BY Zenon, <2>2, <2>3
<1>. QED  BY Zenon, <1>2, <1>5, <1>6, <1>7

LEMMA TxStepIs ==
    ASSUME TInv, NEW n \in Node, NEW start \in Start(n), TxStep(n, start)
    PROVE  /\ Lists'
           /\ join' \in [Node -> 0 .. 2]
           /\ tx_attrib' \in [Node -> Vid \cup {0}]
           /\ Room >= Cardinality(Vid) /\ Served => Served'
<1>1. PICK left, stop, again, more :
        /\ attribs' = [attribs EXCEPT ![n] = left]
        /\ join' = [join EXCEPT ![n] = IF again \/ more THEN 2 ELSE 0]
        /\ tx_attrib' = [tx_attrib EXCEPT ![n] = IF again /\ ~more THEN 0 ELSE stop]
        /\ Typed(left)
        /\ stop \in Vid \cup {0}
        /\ Room >= Cardinality(Vid) /\ start = 0 =>
              stop = 0 /\ (Pressing(left) => again)
  BY Zenon DEF TxStep
<1>2. Lists' /\ attribs'[n] = left /\ \A m \in Node : m # n => attribs'[m] = attribs[m]
  BY Zenon, <1>1, OneList DEF TInv
<1>3. join \in [Node -> 0 .. 2] /\ tx_attrib \in [Node -> Vid \cup {0}]
  BY Zenon DEF TInv, Timers, Others
<1>4. /\ join' \in [Node -> 0 .. 2]
      /\ \A m \in Node : m # n => join'[m] = join[m]
      /\ again => join'[n] > 0
  BY <1>1, <1>3
<1>5. /\ tx_attrib' \in [Node -> Vid \cup {0}]
      /\ \A m \in Node : m # n => tx_attrib'[m] = tx_attrib[m]
      /\ stop = 0 => tx_attrib'[n] = 0
  BY <1>1, <1>3
<1>6. ASSUME Room >= Cardinality(Vid), Served  PROVE Served'
  <2>1. start = 0
    BY Zenon, <1>6 DEF Served, Start, Dangling
  <2>2. stop = 0 /\ (Pressing(left) => again)
    BY Zenon, <1>1, <1>6, <2>1
  <2>. SUFFICES ASSUME NEW m \in Node
       PROVE  tx_attrib'[m] = 0 /\ (Pressing(attribs'[m]) => join'[m] > 0)
    BY Zenon DEF Served, Pressing
  <2>3. CASE m = n
    BY Zenon, <1>2, <1>4, <1>5, <2>2, <2>3
  <2>4. CASE m # n
    BY Zenon, <1>2, <1>4, <1>5, <1>6, <2>4 DEF Served
  <2>. QED  BY Zenon, <2>3, <2>4
<1>. QED  BY Zenon, <1>2, <1>4, <1>5, <1>6

-----------------------------------------------------------------------------
\* A step keeps the types and, with room for every VLAN, Served.
Keeps == TInv' /\ (Room >= Cardinality(Vid) /\ Served => Served')

LEMMA RequestKeeps ==
    ASSUME TInv, NEW n \in Node, NEW v \in Vid, New(n, v) \/ Join(n, v) \/ Leave(n, v)
    PROVE  Keeps
<1>1. Inv /\ Links /\ Lists /\ Timers /\ Others /\ Bounds
  BY Zenon DEF TInv
<1>2. Inv'
  BY Zenon, <1>1, RequestInv
<1>3. Typed(attribs[n])
  BY Zenon, <1>1 DEF Lists
<1>4. AppStep(n)
  BY Zenon, <1>1, <1>3, RequestApps
<1>5. /\ Lists' /\ join' \in [Node -> 0 .. 2] /\ tx_attrib' \in [Node -> Vid \cup {0}]
      /\ Served => Served'
  BY Zenon, <1>4, AppStepIs
<1>6. /\ UNCHANGED <<lva, lv, lvat, link, clients, told, losses>>
      /\ requests < MaxRequests /\ requests' = requests + 1
  BY Zenon DEF New, Join, Leave, Command
<1>7. Links'
  BY <1>1, <1>6 DEF Links, PduTyped
<1>8. Timers' /\ Others'
  BY <1>1, <1>5, <1>6 DEF Timers, Others
<1>9. Bounds'
  BY <1>1, <1>6, MvrpAssumption DEF Bounds
<1>. QED  BY Zenon, <1>2, <1>5, <1>7, <1>8, <1>9 DEF Keeps, TInv

LEMMA PeriodicKeeps ==
    ASSUME TInv, NEW n \in Node, Periodic(n)
    PROVE  Keeps
<1>1. Inv /\ Links /\ Lists /\ Timers /\ Others /\ Bounds
  BY Zenon DEF TInv
<1>2. Inv'
  BY Zenon, <1>1, PeriodicInv
<1>3. AppStep(n)
  BY Zenon, <1>1, PeriodicStep DEF Lists
<1>4. /\ Lists' /\ join' \in [Node -> 0 .. 2] /\ tx_attrib' \in [Node -> Vid \cup {0}]
      /\ Served => Served'
  BY Zenon, <1>3, AppStepIs
<1>5. UNCHANGED <<lva, lv, lvat, link, clients, told, held, due, losses, requests>>
  BY Zenon DEF Periodic
<1>6. Links' /\ Bounds'
  BY <1>1, <1>5 DEF Links, PduTyped, Bounds
<1>7. Timers' /\ Others'
  BY <1>1, <1>4, <1>5 DEF Timers, Others
<1>. QED  BY Zenon, <1>2, <1>4, <1>6, <1>7 DEF Keeps, TInv

LEMMA LvaTimerKeeps ==
    ASSUME TInv, NEW n \in Node, LvaTimer(n)
    PROVE  Keeps
<1>1. Inv /\ Links /\ Lists /\ Timers /\ Others /\ Bounds
  BY Zenon DEF TInv
<1>2. /\ lva' = [lva EXCEPT ![n] = TRUE] /\ lvat' = [lvat EXCEPT ![n] = LvaTicks + 1]
      /\ UNCHANGED <<attribs, lv, link, clients, told, held, due, losses, requests>>
  BY Zenon DEF LvaTimer
<1>3. Inv'
  BY Zenon, <1>1, <1>2, SameInv
<1>4. AppStep(n)
  <2>1. attribs' = [attribs EXCEPT ![n] = attribs[n]]
    BY <1>1, <1>2 DEF Inv
  <2>2. TxOp(n, ~lva[n]) /\ Typed(attribs[n])
    BY Zenon, <1>1 DEF LvaTimer, Lists
  <2>. QED  BY Zenon, <2>1, <2>2 DEF AppStep
<1>5. /\ Lists' /\ join' \in [Node -> 0 .. 2] /\ tx_attrib' \in [Node -> Vid \cup {0}]
      /\ Served => Served'
  BY Zenon, <1>4, AppStepIs
<1>6. Links' /\ Bounds'
  BY <1>1, <1>2 DEF Links, PduTyped, Bounds
<1>7. LvaTicks \in Nat /\ LvaTicks > 0
  BY MvrpAssumption
<1>8. Timers'
  <2>1. lv' = lv /\ LvaTicks + 1 \in 1 .. LvaTicks + 1
    BY <1>2, <1>7
  <2>2. lvat' \in [Node -> 1 .. LvaTicks + 1]
    BY Zenon, <1>1, <1>2, <2>1 DEF Timers
  <2>. QED  BY Zenon, <1>1, <1>5, <2>1, <2>2 DEF Timers
<1>9. Others'
  <2>1. told' = told /\ clients' = clients
    BY <1>2
  <2>2. lva' \in [Node -> BOOLEAN]
    BY Zenon, <1>1, <1>2 DEF Others
  <2>. QED  BY Zenon, <1>1, <1>5, <2>1, <2>2 DEF Others
<1>. QED  BY Zenon, <1>3, <1>5, <1>6, <1>8, <1>9 DEF Keeps, TInv

LEMMA ReceiveKeeps ==
    ASSUME TInv, NEW n \in Node, Receive(n)
    PROVE  Keeps
<1>1. Inv /\ Links /\ Lists /\ Timers /\ Others /\ Bounds
  BY Zenon DEF TInv
<1>. DEFINE pdu == link[Peer(n)]
<1>2. /\ pdu # NoPdu /\ RxPdu(n, pdu)
      /\ link' = [link EXCEPT ![Peer(n)] = NoPdu]
      /\ UNCHANGED <<clients, held, losses, requests>>
  BY Zenon DEF Receive
<1>3. DOMAIN pdu.ev \subseteq Vid
  BY Zenon, <1>1, <1>2, PeerIs DEF Links, PduTyped
<1>4. Links'
  BY <1>1, <1>2, PeerIs DEF Links, PduTyped
<1>. HIDE DEF pdu
<1>5. Inv'
  BY Zenon, <1>1, <1>2, RxPduInv
<1>6. AppStep(n)
  BY Zenon, <1>1, <1>2, <1>3, RxPduApps DEF Lists
<1>7. /\ Lists' /\ join' \in [Node -> 0 .. 2] /\ tx_attrib' \in [Node -> Vid \cup {0}]
      /\ Served => Served'
  BY Zenon, <1>6, AppStepIs
<1>8. /\ lva' = [lva EXCEPT ![n] = lva[n] /\ ~pdu.lva]
      /\ lvat' = [lvat EXCEPT ![n] = IF pdu.lva THEN LvaTicks + 1 ELSE lvat[n]]
      /\ \E leaves : lv' = [lv EXCEPT ![n] =
                               IF leaves THEN mrp_lvtimer_start(lv[n]) ELSE lv[n]]
      /\ \E more \in SUBSET DOMAIN pdu.ev :
            told' = [told EXCEPT ![n] = IF n \in clients THEN told[n] \cup more ELSE told[n]]
  BY Zenon, <1>2 DEF RxPdu
<1>9. Timers'
  BY <1>1, <1>7, <1>8, MvrpAssumption DEF Timers, mrp_lvtimer_start
<1>10. Others'
  <2>1. lva' \in [Node -> BOOLEAN] /\ clients' \subseteq Node
    BY <1>1, <1>2, <1>8 DEF Others
  <2>2. told' \in [Node -> SUBSET Vid]
    BY <1>1, <1>3, <1>8 DEF Others
  <2>. QED  BY <1>7, <2>1, <2>2 DEF Others
<1>11. Bounds'
  BY <1>1, <1>2 DEF Bounds
<1>. QED  BY Zenon, <1>4, <1>5, <1>7, <1>9, <1>10, <1>11 DEF Keeps, TInv

LEMMA JoinTimerKeeps ==
    ASSUME TInv, NEW n \in Node, JoinTimer(n)
    PROVE  Keeps
<1>1. Inv /\ Links /\ Lists /\ Timers /\ Others /\ Bounds
  BY Zenon DEF TInv
<1>2. PICK start \in Start(n) : Transmit(n, start)
  BY Zenon DEF JoinTimer
<1>3. Inv'
  BY Zenon, <1>1, <1>2, TransmitInv
<1>4. TxStep(n, start)
  BY Zenon, <1>1, <1>2, TransmitApps DEF Lists
<1>5. /\ Lists' /\ join' \in [Node -> 0 .. 2] /\ tx_attrib' \in [Node -> Vid \cup {0}]
      /\ Room >= Cardinality(Vid) /\ Served => Served'
  BY Zenon, <1>4, TxStepIs
<1>6. /\ lva' = [lva EXCEPT ![n] = FALSE]
      /\ \E ended : lvat' = [lvat EXCEPT ![n] = IF ended THEN LvaTicks + 1 ELSE lvat[n]]
      /\ \E leaves : lv' = [lv EXCEPT ![n] =
                               IF leaves THEN mrp_lvtimer_start(lv[n]) ELSE lv[n]]
      /\ \E gone : told' = [told EXCEPT ![n] = told[n] \ gone]
      /\ UNCHANGED <<clients, held, losses, requests>>
  BY Zenon, <1>2 DEF Transmit, TxAsked
<1>7. Links'
  <2>. DEFINE la == lva[n]
              old == attribs[n]
              asked == [v \in DOMAIN old |->
                          IF la THEN [app |-> TxLaApplicant(old[v].app),
                                      reg |-> RegLeave(old[v].reg)]
                          ELSE [old[v] EXCEPT !.app = TxApplicant(@, old[v].reg)]]
              send == Prepared(asked, la)
              stop == Stop(asked, send, start)
              passed == {v \in DOMAIN old : v >= start /\ (stop = 0 \/ v < stop)}
              sent == send \cap passed
              e == [v \in sent |-> Event(asked, sent, v)]
  <2>1. link' = [link EXCEPT ![n] = IF sent = {} THEN NoPdu ELSE [lva |-> la, ev |-> e]]
    BY Zenon, <1>2 DEF Transmit, TxAsked
  <2>2. DOMAIN e \subseteq Vid
    <3>1. DOMAIN e = sent /\ sent \subseteq DOMAIN old
      BY Zenon
    <3>. HIDE DEF e, sent
    <3>. QED  BY Zenon, <1>1, <3>1 DEF Lists, Typed
  <2>. HIDE DEF e, sent
  <2>3. [lva |-> la, ev |-> e].ev = e
    OBVIOUS
  <2>4. PduTyped([lva |-> la, ev |-> e]) /\ PduTyped(NoPdu)
    BY Zenon, <2>2, <2>3 DEF PduTyped
  <2>5. PICK p : link' = [link EXCEPT ![n] = p] /\ PduTyped(p)
    BY Zenon, <2>1, <2>4
  <2>6. /\ link' = [m \in Node |-> link'[m]]
        /\ \A m \in Node : link'[m] = IF m = n THEN p ELSE link[m]
    BY <1>1, <2>5 DEF Links
  <2>. QED  BY Zenon, <1>1, <2>5, <2>6 DEF Links, PduTyped
<1>8. Timers'
  <2>1. /\ LvaTicks + 1 \in 1 .. LvaTicks + 1
        /\ mrp_lvtimer_start(lv[n]) \in 0 .. LvTicks + 1
    BY MvrpAssumption DEF mrp_lvtimer_start
  <2>2. lvat' \in [Node -> 1 .. LvaTicks + 1]
    BY <1>1, <1>6, <2>1 DEF Timers
  <2>3. lv' \in [Node -> 0 .. LvTicks + 1]
    BY <1>1, <1>6, <2>1 DEF Timers
  <2>. QED  BY Zenon, <1>5, <2>2, <2>3 DEF Timers
<1>9. Others'
  <2>1. lva' \in [Node -> BOOLEAN] /\ told' \in [Node -> SUBSET Vid]
    BY <1>1, <1>6 DEF Others
  <2>2. clients' = clients
    BY <1>6
  <2>. QED  BY Zenon, <1>1, <1>5, <2>1, <2>2 DEF Others
<1>10. Bounds'
  BY <1>1, <1>6 DEF Bounds
<1>. QED  BY Zenon, <1>3, <1>5, <1>7, <1>8, <1>9, <1>10 DEF Keeps, TInv

\* The timers and the reclaiming that leave every applicant alone.
LEMMA StillServed ==
    ASSUME TInv, NEW n \in Node, NEW list, attribs' = [attribs EXCEPT ![n] = list],
           Typed(list), Pressing(list) => Pressing(attribs[n]), UNCHANGED <<join, tx_attrib>>
    PROVE  Lists' /\ (Served => Served')
<1>1. Lists' /\ attribs'[n] = list /\ \A m \in Node : m # n => attribs'[m] = attribs[m]
  BY Zenon, OneList DEF TInv
<1>2. join' = join /\ tx_attrib' = tx_attrib
  OBVIOUS
<1>3. ASSUME Served, NEW m \in Node
      PROVE  tx_attrib'[m] = 0 /\ (Pressing(attribs'[m]) => join'[m] > 0)
  BY Zenon, <1>1, <1>2, <1>3 DEF Served
<1>. QED  BY Zenon, <1>1, <1>3 DEF Served, Pressing

LEMMA LvTimerKeeps ==
    ASSUME TInv, NEW n \in Node, LvTimer(n)
    PROVE  Keeps
<1>1. Inv /\ Links /\ Lists /\ Timers /\ Others /\ Bounds
  BY Zenon DEF TInv
<1>2. Inv'
  BY Zenon, <1>1, LvTimerInv
<1>. DEFINE new == [v \in Listed(n) |-> [attribs[n][v] EXCEPT !.reg = RegLvTimer(@)]]
<1>3. /\ lv' = [lv EXCEPT ![n] = 0] /\ attribs' = [attribs EXCEPT ![n] = new]
      /\ \E gone : told' = [told EXCEPT ![n] = told[n] \ gone]
      /\ UNCHANGED <<lva, join, lvat, tx_attrib, link, clients, held, losses, requests>>
  BY Zenon DEF LvTimer
<1>4. Typed(new) /\ (Pressing(new) => Pressing(attribs[n]))
  BY Zenon, <1>1, LvTimerApps DEF Lists
<1>. HIDE DEF new
<1>5. Lists' /\ (Served => Served')
  BY Zenon, <1>3, <1>4, StillServed
<1>6. Links' /\ Bounds'
  BY <1>1, <1>3 DEF Links, PduTyped, Bounds
<1>7. Timers'
  BY SMTT(30), <1>1, <1>3, MvrpAssumption DEF Timers
<1>8. Others'
  BY <1>1, <1>3 DEF Others
<1>. QED  BY Zenon, <1>2, <1>5, <1>6, <1>7, <1>8 DEF Keeps, TInv

LEMMA GcTimerKeeps ==
    ASSUME TInv, NEW n \in Node, GcTimer(n)
    PROVE  Keeps
<1>1. Inv /\ Links /\ Lists /\ Timers /\ Others /\ Bounds
  BY Zenon DEF TInv
<1>2. Inv'
  BY Zenon, <1>1, GcTimerInv
<1>3. /\ attribs' = [attribs EXCEPT ![n] = Reclaimed(attribs[n])]
      /\ \E listed : told' = [told EXCEPT ![n] = told[n] \cap listed]
      /\ UNCHANGED <<lva, join, lv, lvat, tx_attrib, link, clients, held, due, losses, requests>>
  BY Zenon DEF GcTimer
<1>4. /\ Typed(Reclaimed(attribs[n]))
      /\ Pressing(Reclaimed(attribs[n])) => Pressing(attribs[n])
  BY Zenon, <1>1, ReclaimedApps DEF Lists
<1>5. Lists' /\ (Served => Served')
  BY Zenon, <1>3, <1>4, StillServed
<1>6. Links' /\ Bounds' /\ Timers'
  BY <1>1, <1>3 DEF Links, PduTyped, Bounds, Timers
<1>7. Others'
  BY <1>1, <1>3 DEF Others
<1>. QED  BY Zenon, <1>2, <1>5, <1>6, <1>7 DEF Keeps, TInv

LEMMA SameLists ==
    ASSUME Lists, UNCHANGED attribs
    PROVE  Lists'
BY Zenon DEF Lists

LEMMA SameServed ==
    ASSUME Served, UNCHANGED <<attribs, tx_attrib>>, \A n \in Node : join[n] > 0 => join'[n] > 0
    PROVE  Served'
<1>1. attribs' = attribs /\ tx_attrib' = tx_attrib
  OBVIOUS
<1>. QED  BY Zenon, <1>1 DEF Served, Pressing

LEMMA ClientKeeps ==
    ASSUME TInv, NEW n \in Node, ClientAdd(n) \/ ClientBye(n)
    PROVE  Keeps
<1>1. Inv /\ Links /\ Lists /\ Timers /\ Others /\ Bounds
  BY Zenon DEF TInv
<1>2. Inv'
  BY Zenon, <1>1, ClientInv
<1>3. UNCHANGED <<attribs, lva, join, lv, lvat, tx_attrib, link, losses>>
  BY Zenon DEF ClientAdd, ClientBye
<1>4. Lists' /\ (Served => Served')
  BY Zenon, <1>1, <1>3, SameLists, SameServed
<1>5. Links' /\ Timers'
  BY <1>1, <1>3 DEF Links, PduTyped, Timers
<1>6. Others'
  <2>1. ASSUME NEW vids, vids \subseteq Vid, told' = [told EXCEPT ![n] = vids]
        PROVE  told' \in [Node -> SUBSET Vid]
    BY <1>1, <2>1 DEF Others
  <2>2. told' \in [Node -> SUBSET Vid]
    <3>1. CASE ClientAdd(n)
      <4>1. {v \in Listed(n) : Registrar(n, v) = "IN"} \subseteq Vid
        BY Zenon, <1>1 DEF Lists, Typed, Listed
      <4>. QED  BY Zenon, <2>1, <3>1, <4>1 DEF ClientAdd
    <3>2. CASE ClientBye(n)
      <4>1. told' = [told EXCEPT ![n] = {}]
        BY Zenon, <3>2 DEF ClientBye
      <4>2. told \in [Node -> SUBSET Vid] /\ {} \in SUBSET Vid
        BY <1>1 DEF Others
      <4>. QED  BY <4>1, <4>2
    <3>. QED  BY Zenon, <3>1, <3>2
  <2>3. clients' \subseteq Node
    BY Zenon, <1>1 DEF Others, ClientAdd, ClientBye
  <2>4. lva' = lva /\ tx_attrib' = tx_attrib
    BY <1>3
  <2>. QED  BY Zenon, <1>1, <2>2, <2>3, <2>4 DEF Others
<1>7. Bounds'
  <2>1. \/ requests' = requests
        \/ requests < MaxRequests /\ requests' = requests + 1
    BY Zenon DEF ClientAdd, ClientBye
  <2>. QED  BY <1>1, <1>3, <2>1, MvrpAssumption DEF Bounds
<1>. QED  BY Zenon, <1>2, <1>4, <1>5, <1>6, <1>7 DEF Keeps, TInv

LEMMA LoseKeeps ==
    ASSUME TInv, NEW n \in Node, Lose(n)
    PROVE  Keeps
<1>1. Inv /\ Links /\ Lists /\ Timers /\ Others /\ Bounds
  BY Zenon DEF TInv
<1>2. /\ losses < MaxLosses /\ losses' = losses + 1
      /\ link' = [link EXCEPT ![n] = NoPdu]
      /\ UNCHANGED <<attribs, lva, join, lv, lvat, tx_attrib, clients, told, requests>>
  BY Zenon DEF Lose
<1>3. Inv'
  BY Zenon, <1>1, <1>2, SameInv
<1>4. Lists' /\ (Served => Served')
  BY Zenon, <1>1, <1>2, SameLists, SameServed
<1>5. Links'
  BY <1>1, <1>2 DEF Links, PduTyped
<1>6. Timers' /\ Others'
  BY <1>1, <1>2 DEF Timers, Others
<1>7. Bounds'
  BY <1>1, <1>2, MvrpAssumption DEF Bounds
<1>. QED  BY Zenon, <1>3, <1>4, <1>5, <1>6, <1>7 DEF Keeps, TInv

LEMMA TickKeeps ==
    ASSUME TInv, Tick
    PROVE  Keeps
<1>1. Inv /\ Links /\ Lists /\ Timers /\ Others /\ Bounds
  BY Zenon DEF TInv
<1>2. Inv'
  BY Zenon, <1>1, TickInv
<1>3. /\ join' = [n \in Node |-> Down(join[n])]
      /\ lv' = [n \in Node |-> Down(lv[n])]
      /\ lvat' = [n \in Node |-> Down(lvat[n])]
      /\ UNCHANGED <<attribs, lva, tx_attrib, link, clients, told, losses, requests>>
  BY Zenon DEF Tick
<1>4. \A t \in Nat : Down(t) \in Nat /\ Down(t) <= t /\ (t > 0 => Down(t) > 0)
  BY DEF Down
<1>5. \A n \in Node : /\ join[n] \in Nat /\ join[n] <= 2
                      /\ lv[n] \in Nat /\ lv[n] <= LvTicks + 1
                      /\ lvat[n] \in Nat /\ lvat[n] > 0 /\ lvat[n] <= LvaTicks + 1
  BY <1>1, MvrpAssumption DEF Timers
<1>6. LvTicks \in Nat /\ LvaTicks \in Nat
  BY MvrpAssumption
<1>7. Timers'
  <2>1. join' \in [Node -> 0 .. 2]
    BY <1>3, <1>4, <1>5
  <2>2. lv' \in [Node -> 0 .. LvTicks + 1]
    BY <1>3, <1>4, <1>5, <1>6
  <2>3. lvat' \in [Node -> 1 .. LvaTicks + 1]
    BY <1>3, <1>4, <1>5, <1>6
  <2>. QED  BY Zenon, <2>1, <2>2, <2>3 DEF Timers
<1>8. Lists' /\ (Served => Served')
  <2>1. \A n \in Node : join[n] > 0 => join'[n] > 0
    BY <1>3, <1>4, <1>5
  <2>. QED  BY Zenon, <1>1, <1>3, <2>1, SameLists, SameServed
<1>9. Links' /\ Others' /\ Bounds'
  BY <1>1, <1>3 DEF Links, PduTyped, Others, Bounds
<1>. QED  BY Zenon, <1>2, <1>7, <1>8, <1>9 DEF Keeps, TInv

LEMMA StutterKeeps ==
    ASSUME TInv, UNCHANGED vars
    PROVE  Keeps
<1>1. Inv /\ Links /\ Lists /\ Timers /\ Others /\ Bounds
  BY Zenon DEF TInv
<1>2. UNCHANGED <<attribs, lva, join, lv, lvat, tx_attrib, link, clients, told, losses, requests>>
  BY DEF vars
<1>3. Inv'
  BY Zenon, <1>1, <1>2, SameInv
<1>4. Lists' /\ (Served => Served')
  BY Zenon, <1>1, <1>2, SameLists, SameServed
<1>5. Links' /\ Timers'
  BY <1>1, <1>2 DEF Links, PduTyped, Timers
<1>6. Others' /\ Bounds'
  BY <1>1, <1>2 DEF Others, Bounds
<1>. QED  BY Zenon, <1>3, <1>4, <1>5, <1>6 DEF Keeps, TInv

LEMMA NextKeeps == TInv /\ [Next]_vars => Keeps
<1>. SUFFICES ASSUME TInv, [Next]_vars  PROVE Keeps
  OBVIOUS
<1>1. ASSUME NEW n \in Node,
             \/ ClientAdd(n) \/ ClientBye(n)
             \/ \E v \in Uses[n] : New(n, v) \/ Join(n, v) \/ Leave(n, v)
             \/ JoinTimer(n) \/ LvTimer(n) \/ LvaTimer(n)
             \/ Periodic(n) \/ GcTimer(n)
             \/ Receive(n) \/ Lose(n)
      PROVE  Keeps
  <2>1. CASE ClientAdd(n) \/ ClientBye(n)
    BY Zenon, <2>1, ClientKeeps
  <2>2. CASE \E v \in Uses[n] : New(n, v) \/ Join(n, v) \/ Leave(n, v)
    <3>1. Uses[n] \subseteq Vid
      BY SMT, MvrpAssumption
    <3>. QED  BY Zenon, <2>2, <3>1, RequestKeeps
  <2>3. CASE JoinTimer(n)
    BY Zenon, <2>3, JoinTimerKeeps
  <2>4. CASE LvTimer(n)
    BY Zenon, <2>4, LvTimerKeeps
  <2>5. CASE LvaTimer(n)
    BY Zenon, <2>5, LvaTimerKeeps
  <2>6. CASE Periodic(n)
    BY Zenon, <2>6, PeriodicKeeps
  <2>7. CASE GcTimer(n)
    BY Zenon, <2>7, GcTimerKeeps
  <2>8. CASE Receive(n)
    BY Zenon, <2>8, ReceiveKeeps
  <2>9. CASE Lose(n)
    BY Zenon, <2>9, LoseKeeps
  <2>. QED  BY Zenon, <1>1, <2>1, <2>2, <2>3, <2>4, <2>5, <2>6, <2>7, <2>8, <2>9
<1>. QED  BY Zenon, <1>1, TickKeeps, StutterKeeps DEF Next, Other

LEMMA TypeInvariance == Spec => []TInv
<1>1. Init => TInv
  BY Zenon, InitTInv
<1>2. TInv /\ [Next]_vars => TInv'
  BY Zenon, NextKeeps DEF Keeps
<1>. QED  BY <1>1, <1>2, PTL DEF Spec

LEMMA NextPasses == Passes /\ [Next]_vars => Passes'
<1>. SUFFICES ASSUME Passes, [Next]_vars  PROVE Passes'
  OBVIOUS
<1>1. ASSUME NEW n \in Node, NEW found \in SUBSET Timer,
             stale' = [stale EXCEPT ![n] = found]
      PROVE  Passes'
  BY <1>1 DEF Passes
<1>2. ASSUME NEW n \in Node, NEW t, Handled(n, t)  PROVE Passes'
  <2>1. stale' = [stale EXCEPT ![n] = stale[n] \ {t}]
    BY Zenon, <1>2 DEF Handled
  <2>2. stale[n] \ {t} \in SUBSET Timer
    BY Zenon DEF Passes
  <2>. QED  BY Zenon, <1>1, <2>1, <2>2
<1>3. ASSUME NEW n \in Node, Receive(n)  PROVE Passes'
  <2>1. PICK found \in SUBSET (RunOut(n) \ RunOut(n)') : stale' = [stale EXCEPT ![n] = found]
    BY Zenon, <1>3 DEF Receive
  <2>2. RunOut(n) \subseteq Timer
    BY Zenon DEF RunOut, Timer
  <2>. QED  BY Zenon, <1>1, <2>1, <2>2
<1>4. CASE UNCHANGED stale
  BY Zenon, <1>4 DEF Passes
<1>5. Tick \/ UNCHANGED vars => UNCHANGED stale
  BY Zenon DEF Tick, vars
<1>6. ASSUME NEW n \in Node  PROVE Other(n) \/ Lose(n) => UNCHANGED stale
  BY Zenon DEF Other, Lose
<1>7. ASSUME NEW n \in Node
      PROVE  (LvTimer(n) => Handled(n, "lv")) /\ (LvaTimer(n) => Handled(n, "lva"))
  BY Zenon DEF LvTimer, LvaTimer
<1>. QED  BY Zenon, <1>2, <1>3, <1>4, <1>5, <1>6, <1>7 DEF Next

LEMMA PassesInvariance == Spec => []Passes
<1>1. Init => Passes
  BY DEF Init, Passes
<1>. QED  BY <1>1, NextPasses, PTL DEF Spec

(***************************************************************************)
(* Whatever the peer sends and the clients ask for, in any order, the list *)
(* of mvrp.c holds well formed attributes of known VLANs, the place to go  *)
(* on from is a VLAN or NULL, and no timer is set beyond its start value.  *)
(***************************************************************************)
THEOREM TypeCorrect == Spec => []TypeOK
BY TypeInvariance, PassesInvariance, TInvImplies, PTL

(***************************************************************************)
(* If a PDU has room for all the VLANs, an applicant that has to send      *)
(* never waits without the join timer: every event that makes one anxious  *)
(* starts the timer (mvrp_event), and a PDU that leaves one anxious, also  *)
(* one that carries a LeaveAll, starts it again.                           *)
(***************************************************************************)
THEOREM AnxiousAreServed == Room >= Cardinality(Vid) => (Spec => []AnxiousIsTimed)
<1>. SUFFICES ASSUME Room >= Cardinality(Vid)  PROVE Spec => []AnxiousIsTimed
  OBVIOUS
<1>1. Init => TInv /\ Served
  BY Zenon, InitTInv
<1>2. TInv /\ Served /\ [Next]_vars => TInv' /\ Served'
  BY Zenon, NextKeeps DEF Keeps
<1>3. TInv /\ Served => AnxiousIsTimed
  BY Zenon, ServedImplies
<1>. QED  BY <1>1, <1>2, <1>3, PTL DEF Spec

=============================================================================
