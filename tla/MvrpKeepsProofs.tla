--------------------------- MODULE MvrpKeepsProofs --------------------------
(***************************************************************************)
(* Proof that a daemon keeps a registration that its peer goes on to       *)
(* declare (KeepsDeclared of Mvrp), for any VLANs and any number of        *)
(* requests and lost PDUs: what is sent when the join timer expires, that  *)
(* it preserves the invariant of MvrpAnswerProofs, and the theorem.  The   *)
(* last section is about what a Join says (JoinTellsRegistrar).            *)
(***************************************************************************)
EXTENDS MvrpAnswerProofs

(***************************************************************************)
(* A PDU is sent.  With room for every VLAN it starts with the first one   *)
(* and comes to all of them.                                               *)
(***************************************************************************)
SentState(la, s, r) == IF la THEN OnRLeave(OnTxLa(s)) ELSE OnTx(s, r)
SentReg(la, r) == IF la THEN RegLeave(r) ELSE r
Message(la, s) == IF la THEN SndTxLa(s) ELSE SndTx(s)

\* What the applicants ask for, and what becomes of them.
Asking(old, asked, la) ==
    /\ DOMAIN asked = DOMAIN old
    /\ \A v \in DOMAIN old :
          /\ asked[v].app.tx = TRUE
          /\ asked[v].app.sndmsg = Message(la, old[v].app.state)
          /\ ~la => asked[v].app.optional = (old[v].app.state \in OptionalTx)
          /\ asked[v].reg = SentReg(la, old[v].reg)

Ends(old, final, la) ==
    /\ DOMAIN final = DOMAIN old
    /\ \A v \in DOMAIN old :
          /\ final[v].app.state = SentState(la, old[v].app.state, old[v].reg)
          /\ final[v].reg = SentReg(la, old[v].reg)

PduOf(asked, la) ==
    LET sent == Prepared(asked, la)
    IN  IF sent = {} THEN NoPdu
        ELSE [lva |-> la, ev |-> [v \in sent |-> Event(asked, sent, v)]]

SendStep(n) ==
    \E asked, final :
        /\ Asking(attribs[n], asked, lva[n])
        /\ Ends(attribs[n], final, lva[n])
        /\ \/ attribs' = [attribs EXCEPT ![n] = final]
           \/ attribs' = [attribs EXCEPT ![n] = Reclaimed(final)]
        /\ link' = [link EXCEPT ![n] = PduOf(asked, lva[n])]
        /\ lvat' = [lvat EXCEPT ![n] = IF lva[n] THEN LvaTicks + 1 ELSE lvat[n]]

\* What an applicant that has been asked says.
Says(q, m, o) == q.tx = TRUE /\ q.sndmsg = m /\ q.optional = o

LEMMA SendingSays ==
    ASSUME NEW a \in Applicant, NEW s, NEW m, NEW o
    PROVE  Says(Sending(a, s, m, o), m, o)
<1>. DEFINE q == Sending(a, s, m, o)
<1>1. q.tx = TRUE /\ q.sndmsg = m /\ q.optional = o
  BY Zenon DEF Sending, Applicant
<1>. HIDE DEF q
<1>2. Says(q, m, o)
  BY Zenon, <1>1 DEF Says
<1>. QED  BY Zenon, <1>2 DEF q

LEMMA TxFields ==
    ASSUME NEW a \in Applicant, NEW reg
    PROVE  /\ Says(TxApplicant(a, reg), SndTx(a.state), a.state \in OptionalTx)
           /\ Says(TxLaApplicant(a), SndTxLa(a.state), a.state \in OptionalTxLa)
BY Zenon, SendingSays DEF TxApplicant, TxLaApplicant

\* The parts of an attribute that is given a new applicant, or made.
Parts(b, app, reg) == b.app = app /\ b.reg = reg

LEMMA GivenReg ==
    ASSUME NEW a, IsAttrib(a), NEW app, NEW b, b = [a EXCEPT !.app = app]
    PROVE  Parts(b, app, a.reg)
BY SMT, WithApp, NewApp DEF Parts

LEMMA GivenAttrib ==
    ASSUME NEW a, IsAttrib(a), NEW app, NEW b, b = [a EXCEPT !.app = app]
    PROVE  IsAttrib(b)
BY SMT, WithApp, NewApp

LEMMA MadeReg ==
    ASSUME NEW app, NEW reg, NEW b, b = [app |-> app, reg |-> reg]
    PROVE  Parts(b, app, reg)
BY DEF Parts

LEMMA AskingIs ==
    ASSUME NEW old, NEW la,
           \A v \in DOMAIN old : /\ IsAttrib(old[v]) /\ old[v].reg \in RegistrarState
                                 /\ old[v].app \in Applicant,
           NEW asked,
           asked = [v \in DOMAIN old |->
                      IF la THEN [app |-> TxLaApplicant(old[v].app),
                                  reg |-> RegLeave(old[v].reg)]
                      ELSE [old[v] EXCEPT !.app = TxApplicant(old[v].app, old[v].reg)]]
    PROVE  Asked(old, asked, la) /\ Asking(old, asked, la)
<1>2. \A v \in DOMAIN old : /\ IsAttrib(old[v]) /\ old[v].reg \in RegistrarState
                            /\ old[v].app \in Applicant
  OBVIOUS
<1>4. ASSUME NEW v \in DOMAIN old
      PROVE  /\ asked[v].app = IF la THEN TxLaApplicant(old[v].app)
                               ELSE TxApplicant(old[v].app, old[v].reg)
             /\ asked[v].reg = SentReg(la, old[v].reg)
             /\ IsAttrib(asked[v])
  <2>1. CASE la
    <3>1. asked[v] = [app |-> TxLaApplicant(old[v].app), reg |-> RegLeave(old[v].reg)]
      BY Zenon, <2>1
    <3>2. RegLeave(old[v].reg) \in RegistrarState
      BY Zenon, <1>2, LeaveTwice
    <3>3. Parts(asked[v], TxLaApplicant(old[v].app), RegLeave(old[v].reg))
      BY Zenon, <3>1, MadeReg
    <3>4. IsAttrib(asked[v])
      <4>. DEFINE q == TxLaApplicant(old[v].app)
                  r == RegLeave(old[v].reg)
                  c == asked[v]
      <4>1. c = [app |-> q, reg |-> r] /\ r \in RegistrarState
        BY Zenon, <3>1, <3>2
      <4>. HIDE DEF q, r, c
      <4>2. IsAttrib(c)
        BY SMT, <4>1, MadeOf
      <4>. QED  BY Zenon, <4>2 DEF c
    <3>. QED  BY Zenon, <2>1, <3>3, <3>4 DEF SentReg, Parts
  <2>2. CASE ~la
    <3>. DEFINE app == TxApplicant(old[v].app, old[v].reg)
    <3>1. asked[v] = [old[v] EXCEPT !.app = app]
      BY Zenon, <2>2
    <3>2. IsAttrib(old[v])
      BY Zenon, <1>2
    <3>. HIDE DEF app
    <3>3. Parts(asked[v], app, old[v].reg)
      BY Zenon, <3>1, <3>2, GivenReg
    <3>4. IsAttrib(asked[v])
      BY Zenon, <3>1, <3>2, GivenAttrib
    <3>. QED  BY Zenon, <2>2, <3>3, <3>4 DEF app, SentReg, Parts
  <2>. QED  BY Zenon, <2>1, <2>2
<1>5. DOMAIN asked = DOMAIN old
  BY Zenon
<1>6. Asked(old, asked, la)
  BY Zenon, <1>4, <1>5 DEF Asked
<1>7. Asking(old, asked, la)
  <2>. SUFFICES ASSUME NEW v \in DOMAIN old
       PROVE  /\ asked[v].app.tx = TRUE
              /\ asked[v].app.sndmsg = Message(la, old[v].app.state)
              /\ ~la => asked[v].app.optional = (old[v].app.state \in OptionalTx)
              /\ asked[v].reg = SentReg(la, old[v].reg)
    BY Zenon, <1>5 DEF Asking
  <2>. DEFINE a == old[v].app
              b == asked[v].app
  <2>1. /\ Says(TxApplicant(a, old[v].reg), SndTx(a.state), a.state \in OptionalTx)
        /\ Says(TxLaApplicant(a), SndTxLa(a.state), a.state \in OptionalTxLa)
    BY Zenon, <1>2, TxFields
  <2>2. b = IF la THEN TxLaApplicant(a) ELSE TxApplicant(a, old[v].reg)
    BY Zenon, <1>4
  <2>. HIDE DEF a, b
  <2>3. /\ b.tx = TRUE /\ b.sndmsg = Message(la, a.state)
        /\ ~la => b.optional = (a.state \in OptionalTx)
    <3>1. CASE la
      BY Zenon, <2>1, <2>2, <3>1 DEF Message, Says
    <3>2. CASE ~la
      BY Zenon, <2>1, <2>2, <3>2 DEF Message, Says
    <3>. QED  BY Zenon, <3>1, <3>2
  <2>. QED  BY Zenon, <1>4, <2>3 DEF a, b
<1>. QED  BY Zenon, <1>6, <1>7

LEMMA SentAll ==
    ASSUME TInv, NEW n \in Node, Room >= Cardinality(Vid), Transmit(n, 0)
    PROVE  SendStep(n)
<1>. DEFINE la == lva[n]
            old == attribs[n]
            asked == [v \in DOMAIN old |->
                        IF la THEN [app |-> TxLaApplicant(old[v].app),
                                    reg |-> RegLeave(old[v].reg)]
                        ELSE [old[v] EXCEPT !.app = TxApplicant(@, old[v].reg)]]
            send == Prepared(asked, la)
            stop == Stop(asked, send, 0)
            passed == {v \in DOMAIN old : v >= 0 /\ (stop = 0 \/ v < stop)}
            sent == send \cap passed
            after == [v \in DOMAIN old |->
                        IF v \in passed
                        THEN [asked[v] EXCEPT
                                 !.app = [mrp_applicant_chk(@, asked[v].reg)
                                            EXCEPT !.tx = FALSE]]
                        ELSE [asked[v] EXCEPT !.app.tx = v \in send]]
            final == IF ~la THEN after
                     ELSE IF stop = 0
                     THEN [v \in DOMAIN old |->
                             [app |-> Quietly(after[v].app,
                                              OnRLeave(after[v].app.state)),
                              reg |-> RegLeave(after[v].reg)]]
                     ELSE [v \in DOMAIN old |->
                             [after[v] EXCEPT !.app = TxLafApplicant(@)]]
            reclaim == \E v \in passed : AsksReclaim(asked[v].app, asked[v].reg)
            left == IF reclaim THEN Reclaimed(final) ELSE final
            pdu == IF sent = {} THEN NoPdu
                   ELSE [lva |-> la, ev |-> [v \in sent |-> Event(asked, sent, v)]]
<1>1. attribs' = [attribs EXCEPT ![n] = left] /\ link' = [link EXCEPT ![n] = pdu]
  BY Zenon DEF Transmit, TxAsked
<1>2. \A v \in DOMAIN old : /\ IsAttrib(old[v]) /\ old[v].reg \in RegistrarState
                            /\ old[v].app \in Applicant
  BY Zenon DEF TInv, Lists, Typed, Inv, NodeOK, IsList, IsAttrib
<1>3. DOMAIN old \subseteq Vid
  BY Zenon DEF TInv, Lists, Typed
<1>4. Asked(old, asked, la) /\ Asking(old, asked, la)
  BY Zenon, <1>2, AskingIs
<1>5. /\ DOMAIN asked = DOMAIN old
      /\ \A v \in DOMAIN old : IsAttrib(asked[v]) /\ asked[v].reg = SentReg(la, old[v].reg)
  BY Zenon, <1>4 DEF Asked, Asking
<1>. HIDE DEF asked
<1>8. send \subseteq DOMAIN asked
  BY Zenon, <1>3, <1>5, PreparedIs
<1>9. stop = 0
  <2>. HIDE DEF send
  <2>. QED  BY Zenon, <1>3, <1>5, <1>8, RoomForAll
<1>10. passed = DOMAIN old /\ sent = send
  <2>1. Vid \subseteq Nat
    BY MvrpAssumption
  <2>2. \A v \in DOMAIN old : v \in Nat
    BY Zenon, <1>3, <2>1
  <2>3. \A v \in DOMAIN old : v >= 0
    BY <2>2
  <2>. HIDE DEF stop, send
  <2>4. passed = DOMAIN old
    BY Zenon, <1>9, <2>3
  <2>. QED  BY Zenon, <1>5, <1>8, <2>4
<1>11. pdu = PduOf(asked, la)
  <2>1. PduOf(asked, la) = IF send = {} THEN NoPdu
                           ELSE [lva |-> la, ev |-> [v \in send |-> Event(asked, send, v)]]
    BY Zenon DEF PduOf
  <2>. HIDE DEF send, passed
  <2>. QED  BY Zenon, <1>10, <2>1
<1>16. lvat' = [lvat EXCEPT ![n] = IF la THEN LvaTicks + 1 ELSE lvat[n]]
  <2>1. lvat' = [lvat EXCEPT ![n] = IF la /\ stop = 0 THEN LvaTicks + 1 ELSE lvat[n]]
    BY Zenon DEF Transmit, TxAsked, asked
  <2>. HIDE DEF stop, la
  <2>. QED  BY Zenon, <1>9, <2>1
<1>. HIDE DEF stop, send, passed
<1>12. ASSUME NEW v \in DOMAIN old
       PROVE  /\ after[v].app \in Applicant
              /\ after[v].app.state = IF la THEN OnTxLa(old[v].app.state)
                                      ELSE OnTx(old[v].app.state, old[v].reg)
              /\ after[v].reg = SentReg(la, old[v].reg)
  <2>. DEFINE app == [mrp_applicant_chk(asked[v].app, asked[v].reg) EXCEPT !.tx = FALSE]
              a == asked[v].app
              c == after[v]
  <2>1. c = [asked[v] EXCEPT !.app = app]
    BY Zenon, <1>10
  <2>2. /\ a \in Applicant
        /\ a.new = IF la THEN OnTxLa(old[v].app.state) ELSE OnTx(old[v].app.state, old[v].reg)
    <3>1. Typed(old)
      BY Zenon DEF TInv, Lists
    <3>. HIDE DEF old, la
    <3>. QED  BY SMT, <1>4, <3>1, AskedApps
  <2>3. app \in Applicant /\ app.state = a.new
    <3>. HIDE DEF a
    <3>1. app = [mrp_applicant_chk(a, asked[v].reg) EXCEPT !.tx = FALSE]
      BY Zenon DEF a
    <3>. HIDE DEF app
    <3>. QED  BY Zenon, <2>2, <3>1, ChkIs
  <2>. HIDE DEF app, c
  <2>4. c.app = app /\ c.reg = asked[v].reg
    <3>1. Parts(c, app, asked[v].reg)
      BY Zenon, <1>5, <2>1, GivenReg
    <3>. QED  BY Zenon, <3>1 DEF Parts
  <2>. HIDE DEF a
  <2>5. c.app \in Applicant /\ c.app.state = a.new
    BY SMT, <2>3, <2>4
  <2>. QED  BY Zenon, <1>5, <2>2, <2>4, <2>5 DEF c
<1>13. DOMAIN after = DOMAIN old
  BY Zenon
<1>. HIDE DEF after
<1>14. Ends(old, final, la)
  <2>1. CASE ~la
    <3>1. final = after
      BY Zenon, <2>1
    <3>. HIDE DEF final
    <3>. QED  BY Zenon, <1>12, <1>13, <2>1, <3>1 DEF Ends, SentState
  <2>2. CASE la
    <3>1. final = [v \in DOMAIN old |->
                     [app |-> Quietly(after[v].app, OnRLeave(after[v].app.state)),
                      reg |-> RegLeave(after[v].reg)]]
      BY Zenon, <1>9, <2>2
    <3>. HIDE DEF final
    <3>2. ASSUME NEW v \in DOMAIN old
          PROVE  /\ final[v].app.state = SentState(la, old[v].app.state, old[v].reg)
                 /\ final[v].reg = SentReg(la, old[v].reg)
      <4>. DEFINE b == after[v].app
                  q == Quietly(b, OnRLeave(b.state))
                  c == final[v]
      <4>1. c = [app |-> q, reg |-> RegLeave(after[v].reg)]
        BY Zenon, <3>1
      <4>2. b \in Applicant /\ b.state = OnTxLa(old[v].app.state)
        BY Zenon, <1>12, <2>2
      <4>. HIDE DEF b
      <4>3. q.state = OnRLeave(b.state)
        <5>1. OnRLeave(b.state) \in ApplicantState
          BY Zenon, <4>2, ApplicantFields, ApplicantSteps
        <5>. QED  BY Zenon, <4>2, <5>1, QuietlyIs
      <4>. HIDE DEF q, c
      <4>4. c.app = q /\ c.reg = RegLeave(after[v].reg)
        BY Zenon, <4>1, MadeReg DEF Parts
      <4>5. c.app.state = OnRLeave(OnTxLa(old[v].app.state))
        BY SMT, <4>2, <4>3, <4>4
      <4>6. c.reg = RegLeave(RegLeave(old[v].reg))
        BY Zenon, <1>12, <2>2, <4>4 DEF SentReg
      <4>. QED  BY Zenon, <2>2, <4>5, <4>6, LeaveTwice DEF c, SentState, SentReg
    <3>3. DOMAIN final = DOMAIN old
      BY Zenon, <3>1
    <3>. QED  BY Zenon, <3>2, <3>3 DEF Ends
  <2>. QED  BY Zenon, <2>1, <2>2
<1>. HIDE DEF final, pdu
<1>15. left = final \/ left = Reclaimed(final)
  BY Zenon
<1>. HIDE DEF left
<1>. QED  BY Zenon, <1>1, <1>4, <1>11, <1>14, <1>15, <1>16 DEF SendStep

LEMMA MessageSteps ==
    ASSUME NEW s \in ApplicantState, NEW la
    PROVE  /\ Message(la, s) \in {"NEW", "JOIN", "IN", "LV"}
           /\ Message(la, s) = "LV" => s = "LA"
           /\ ~la /\ Message(la, s) = "JOIN" => s \in Declared
           /\ ~la /\ s \in Quick \cup Soon =>
                 Message(la, s) \in {"NEW", "JOIN"} /\ s \notin OptionalTx
<1>1. SndTxLa(s) \in {"NEW", "JOIN", "IN"}
  BY DEF SndTxLa
<1>2. /\ SndTx(s) \in {"NEW", "JOIN", "IN", "LV"}
      /\ SndTx(s) = "LV" => s = "LA"
      /\ SndTx(s) = "JOIN" => s \in Declared
      /\ s \in Quick \cup Soon => SndTx(s) \in {"NEW", "JOIN"} /\ s \notin OptionalTx
  BY DEF SndTx, Declared, Quick, Soon, OptionalTx
<1>3. CASE la
  BY <1>1, <1>3 DEF Message
<1>4. CASE ~la
  BY Zenon, <1>2, <1>4 DEF Message
<1>. QED  BY Zenon, <1>3, <1>4

LEMMA EventIs ==
    ASSUME NEW list, NEW sent, NEW v, NEW m \in {"NEW", "JOIN", "IN", "LV"},
           list[v].app.sndmsg = m
    PROVE  LET e == Event(list, sent, v)
           IN  /\ e \in PduEvent
               /\ m \in {"NEW", "JOIN"} => e \in {"NEW", "JOININ", "JOINMT"}
               /\ e = "LV" => m = "LV"
               /\ e = "IN" => list[v].reg = "IN"
               /\ e = "JOININ" => m = "JOIN" /\ list[Head(sent, v)].reg = "IN"
               /\ e = "JOINMT" => list[Head(sent, v)].reg # "IN"
<1>. DEFINE e == Event(list, sent, v)
<1>1. e = CASE m = "IN" -> IF list[v].reg = "IN" THEN "IN" ELSE "MT"
            [] m = "JOIN" -> IF list[Head(sent, v)].reg = "IN" THEN "JOININ" ELSE "JOINMT"
            [] OTHER -> m
  BY Zenon DEF Event
<1>. HIDE DEF e
<1>2. CASE m = "IN"
  <2>1. e = IF list[v].reg = "IN" THEN "IN" ELSE "MT"
    BY <1>1, <1>2
  <2>. QED  BY <1>2, <2>1 DEF PduEvent, e
<1>3. CASE m = "JOIN"
  <2>1. e = IF list[Head(sent, v)].reg = "IN" THEN "JOININ" ELSE "JOINMT"
    BY <1>1, <1>3
  <2>. QED  BY <1>3, <2>1 DEF PduEvent, e
<1>4. CASE m \in {"NEW", "LV"}
  <2>1. e = m
    BY <1>1, <1>4
  <2>. QED  BY <1>4, <2>1 DEF PduEvent, e
<1>. QED  BY Zenon, <1>2, <1>3, <1>4

\* A VLAN that does not follow another one starts its vector.
LEMMA HeadIs ==
    ASSUME NEW sent \in SUBSET Vid, NEW v \in sent, v - 1 \notin Vid
    PROVE  Head(sent, v) = v
<1>. DEFINE S == {u \in sent : u <= v /\ u .. v \subseteq sent}
<1>1. \A u \in Vid : u \in Nat
  BY MvrpAssumption
<1>2. v \in Nat /\ sent \subseteq Nat
  BY Zenon, <1>1
<1>3. v .. v \subseteq sent /\ v <= v
  BY <1>2
<1>4. v \in S /\ S \subseteq Nat
  BY Zenon, <1>2, <1>3
<1>5. ASSUME NEW u \in S  PROVE u = v
  <2>1. u \in Nat /\ u <= v /\ u .. v \subseteq sent
    BY Zenon, <1>2
  <2>2. u # v => v - 1 \in u .. v
    BY <1>2, <2>1
  <2>. QED  BY Zenon, <2>1, <2>2
<1>6. Head(sent, v) = Min(S)
  BY Zenon DEF Head
<1>. HIDE DEF S
<1>7. Min(S) \in S
  BY Zenon, <1>4, LeastIs
<1>. QED  BY Zenon, <1>5, <1>6, <1>7

\* mvrp_prepare: what must be sent is, and a LeaveAll is sent with something.
LEMMA PreparedHas ==
    ASSUME NEW list, DOMAIN list \subseteq Vid, NEW la,
           \A v \in DOMAIN list : list[v].app.tx = TRUE
    PROVE  /\ Prepared(list, la) \subseteq DOMAIN list
           /\ \A v \in DOMAIN list : ~list[v].app.optional => v \in Prepared(list, la)
           /\ la /\ DOMAIN list # {} => Prepared(list, la) # {}
<1>. DEFINE marked == {v \in DOMAIN list : list[v].app.tx}
            must == {v \in marked : ~list[v].app.optional}
<1>1. PICK kept \in SUBSET marked :
        /\ Prepared(list, la) = IF la /\ marked # {} THEN kept \cup {Max(marked)} ELSE kept
        /\ must \subseteq kept
  BY Zenon DEF Prepared
<1>2. marked = DOMAIN list
  BY Zenon
<1>3. \A v \in DOMAIN list : ~list[v].app.optional => v \in must
  BY Zenon, <1>2
<1>4. Prepared(list, la) \subseteq DOMAIN list
  BY Zenon, PreparedIs
<1>. HIDE DEF marked, must
<1>. QED  BY Zenon, <1>1, <1>2, <1>3, <1>4

\* What a PDU says of a VLAN of the list.
LEMMA SentEvents ==
    ASSUME NEW old, DOMAIN old \subseteq Vid, NEW la \in BOOLEAN, NEW asked,
           Asking(old, asked, la),
           \A v \in DOMAIN old : old[v].app.state \in ApplicantState
    PROVE  LET sent == Prepared(asked, la)
           IN  /\ sent \subseteq DOMAIN old
               /\ \A v \in sent :
                     /\ Event(asked, sent, v) \in PduEvent
                     /\ Event(asked, sent, v) = "LV" => old[v].app.state = "LA"
                     /\ /\ ~la /\ Event(asked, sent, v) \in {"IN", "JOININ"}
                        /\ old[v].app.state \in Declared => v - 1 \notin Vid
                        => old[v].reg = "IN"
               /\ la /\ DOMAIN old # {} => sent # {}
               /\ \A v \in DOMAIN old :
                     ~la /\ old[v].app.state \in Quick \cup Soon =>
                        v \in sent /\ Event(asked, sent, v) \in {"NEW", "JOININ", "JOINMT"}
<1>. DEFINE sent == Prepared(asked, la)
            ev(v) == Event(asked, sent, v)
<1>1. /\ DOMAIN asked = DOMAIN old
      /\ \A v \in DOMAIN old :
            /\ asked[v].app.tx = TRUE
            /\ asked[v].app.sndmsg = Message(la, old[v].app.state)
            /\ ~la => asked[v].app.optional = (old[v].app.state \in OptionalTx)
            /\ asked[v].reg = SentReg(la, old[v].reg)
  BY Zenon DEF Asking
<1>2. /\ sent \subseteq DOMAIN old
      /\ \A v \in DOMAIN old : ~asked[v].app.optional => v \in sent
      /\ la /\ DOMAIN old # {} => sent # {}
  BY Zenon, <1>1, PreparedHas
<1>. HIDE DEF sent
<1>3. ASSUME NEW v \in DOMAIN old
      PROVE  /\ Message(la, old[v].app.state) \in {"NEW", "JOIN", "IN", "LV"}
             /\ Message(la, old[v].app.state) = "LV" => old[v].app.state = "LA"
             /\ ~la /\ Message(la, old[v].app.state) = "JOIN" => old[v].app.state \in Declared
             /\ ~la /\ old[v].app.state \in Quick \cup Soon =>
                   /\ Message(la, old[v].app.state) \in {"NEW", "JOIN"}
                   /\ old[v].app.state \notin OptionalTx
  <2>. DEFINE s == old[v].app.state
  <2>1. s \in ApplicantState
    BY Zenon
  <2>. HIDE DEF s
  <2>2. /\ Message(la, s) \in {"NEW", "JOIN", "IN", "LV"}
        /\ Message(la, s) = "LV" => s = "LA"
        /\ ~la /\ Message(la, s) = "JOIN" => s \in Declared
        /\ ~la /\ s \in Quick \cup Soon =>
              Message(la, s) \in {"NEW", "JOIN"} /\ s \notin OptionalTx
    BY SMT, <2>1, MessageSteps
  <2>. QED  BY Zenon, <2>2 DEF s
<1>4. ASSUME NEW v \in DOMAIN old
      PROVE  /\ ev(v) \in PduEvent
             /\ Message(la, old[v].app.state) \in {"NEW", "JOIN"} =>
                   ev(v) \in {"NEW", "JOININ", "JOINMT"}
             /\ ev(v) = "LV" => Message(la, old[v].app.state) = "LV"
             /\ ev(v) = "IN" => asked[v].reg = "IN"
             /\ ev(v) = "JOININ" => /\ Message(la, old[v].app.state) = "JOIN"
                                    /\ asked[Head(sent, v)].reg = "IN"
  <2>. DEFINE m == Message(la, old[v].app.state)
  <2>1. asked[v].app.sndmsg = m /\ m \in {"NEW", "JOIN", "IN", "LV"}
    BY Zenon, <1>1, <1>3
  <2>. HIDE DEF m
  <2>2. /\ ev(v) \in PduEvent
        /\ m \in {"NEW", "JOIN"} => ev(v) \in {"NEW", "JOININ", "JOINMT"}
        /\ ev(v) = "LV" => m = "LV"
        /\ ev(v) = "IN" => asked[v].reg = "IN"
        /\ ev(v) = "JOININ" => m = "JOIN" /\ asked[Head(sent, v)].reg = "IN"
    BY Zenon, <2>1, EventIs
  <2>. QED  BY Zenon, <2>2 DEF m
<1>. HIDE DEF ev
<1>5. ASSUME NEW v \in sent, ~la, ev(v) \in {"IN", "JOININ"},
             old[v].app.state \in Declared => v - 1 \notin Vid
      PROVE  old[v].reg = "IN"
  <2>1. v \in DOMAIN old /\ asked[v].reg = old[v].reg
    BY Zenon, <1>1, <1>2, <1>5 DEF SentReg
  <2>2. CASE ev(v) = "IN"
    BY Zenon, <1>4, <2>1, <2>2
  <2>3. CASE ev(v) = "JOININ"
    <3>1. v - 1 \notin Vid /\ asked[Head(sent, v)].reg = "IN"
      BY Zenon, <1>3, <1>4, <1>5, <2>1, <2>3
    <3>2. sent \in SUBSET Vid
      BY Zenon, <1>2
    <3>3. Head(sent, v) = v
      BY Zenon, <3>1, <3>2, HeadIs
    <3>. QED  BY Zenon, <2>1, <3>1, <3>3
  <2>. QED  BY Zenon, <1>5, <2>2, <2>3
<1>6. \A v \in sent : ev(v) \in PduEvent /\ (ev(v) = "LV" => old[v].app.state = "LA")
  BY Zenon, <1>2, <1>3, <1>4
<1>7. \A v \in DOMAIN old :
         ~la /\ old[v].app.state \in Quick \cup Soon =>
            v \in sent /\ ev(v) \in {"NEW", "JOININ", "JOINMT"}
  BY Zenon, <1>1, <1>2, <1>3, <1>4
<1>. QED  BY Zenon, <1>2, <1>5, <1>6, <1>7 DEF sent, ev

LEMMA PduIs ==
    ASSUME NEW asked, NEW la \in BOOLEAN, Prepared(asked, la) \subseteq Vid,
           \A v \in Prepared(asked, la) : Event(asked, Prepared(asked, la), v) \in PduEvent
    PROVE  LET pdu == PduOf(asked, la)
               sent == Prepared(asked, la)
           IN  /\ pdu = NoPdu <=> sent = {}
               /\ pdu # NoPdu => /\ pdu.lva = la /\ DOMAIN pdu.ev = sent
                                 /\ \A v \in sent : pdu.ev[v] = Event(asked, sent, v)
<1>. DEFINE sent == Prepared(asked, la)
            ev == [v \in sent |-> Event(asked, sent, v)]
            r == [lva |-> la, ev |-> ev]
            pdu == PduOf(asked, la)
<1>1. pdu = IF sent = {} THEN NoPdu ELSE r
  BY Zenon DEF PduOf
<1>2. ev \in [sent -> PduEvent] /\ sent \in SUBSET Vid
  OBVIOUS
<1>3. DOMAIN ev = sent /\ \A v \in sent : ev[v] = Event(asked, sent, v)
  BY Zenon
<1>. HIDE DEF sent, ev
<1>4. ev \in UNION {[vids -> PduEvent] : vids \in SUBSET Vid}
  BY Zenon, <1>2
<1>5. r \in Pdu /\ r.lva = la /\ r.ev = ev
  BY SMT, <1>4 DEF Pdu
<1>. HIDE DEF r
<1>6. r # NoPdu
  BY Zenon, <1>5, PduAssumption
<1>7. pdu = NoPdu <=> sent = {}
  BY Zenon, <1>1, <1>6
<1>8. pdu # NoPdu => pdu.lva = la /\ pdu.ev = ev
  BY SMT, <1>1, <1>5
<1>. HIDE DEF pdu
<1>9. pdu # NoPdu => /\ pdu.lva = la /\ DOMAIN pdu.ev = sent
                     /\ \A v \in sent : pdu.ev[v] = Event(asked, sent, v)
  BY Zenon, <1>3, <1>8
<1>. QED  BY Zenon, <1>7, <1>9 DEF sent, pdu

\* mvrp_reclaim drops only what is not registered.
LEMMA ReclaimedReg ==
    ASSUME NEW list, NEW v
    PROVE  Reg(Reclaimed(list), v) = Reg(list, v)
<1>1. /\ DOMAIN Reclaimed(list) = {w \in DOMAIN list : ~Reclaimable(list[w])}
      /\ \A w \in DOMAIN Reclaimed(list) : Reclaimed(list)[w] = list[w]
  BY Zenon DEF Reclaimed
<1>. QED  BY Zenon, <1>1 DEF Reg, Reclaimable

\* A VLAN of a daemon that sends a PDU.
SendsOf(n, v) ==
    /\ Registrar(n, v)' = SentReg(lva[n], Registrar(n, v))
    /\ \/ State(n, v)' = SentState(lva[n], State(n, v), Registrar(n, v))
       \/ /\ State(n, v)' = "VO"
          /\ SentState(lva[n], State(n, v), Registrar(n, v)) \notin Declared
    /\ lva[n] /\ Registrar(n, v) = "IN" => link'[n] # NoPdu
    /\ ~lva[n] /\ State(n, v) \in Quick \cup Soon =>
          link'[n] # NoPdu /\ Declares(link'[n], v)
    /\ link'[n] # NoPdu /\ v \in DOMAIN link'[n].ev /\ link'[n].ev[v] = "LV" =>
          State(n, v) = "LA"
    /\ Satisfies(link'[n], v) /\ (State(n, v) \in Declared => v - 1 \notin Vid) =>
          Registrar(n, v) = "IN"

LEMMA SendStates ==
    ASSUME TInv, NEW n \in Node, SendStep(n), NEW v
    PROVE  /\ Registrar(n, v)' = SentReg(lva[n], Registrar(n, v))
           /\ \/ State(n, v)' = SentState(lva[n], State(n, v), Registrar(n, v))
              \/ /\ State(n, v)' = "VO"
                 /\ SentState(lva[n], State(n, v), Registrar(n, v)) \notin Declared
<1>. DEFINE old == attribs[n]
            la == lva[n]
<1>1. PICK final : /\ Ends(old, final, la)
                   /\ \/ attribs' = [attribs EXCEPT ![n] = final]
                      \/ attribs' = [attribs EXCEPT ![n] = Reclaimed(final)]
  BY Zenon DEF SendStep
<1>2. State(n, v) = StateIn(old, v) /\ Registrar(n, v) = Reg(old, v)
  BY Zenon, StateIs
<1>3. State(n, v)' = StateIn(attribs'[n], v) /\ Registrar(n, v)' = Reg(attribs'[n], v)
  BY Zenon, StateIs
<1>4. attribs'[n] = final \/ attribs'[n] = Reclaimed(final)
  BY Zenon, <1>1, NewList
<1>. HIDE DEF old, la
<1>. DEFINE s == StateIn(old, v)
            r == Reg(old, v)
            t == StateIn(final, v)
<1>5. \A q \in {"VO", "AO", "QO", "LO"} : q \notin Declared
  BY DEF Declared
<1>6. /\ Reg(final, v) = SentReg(la, r)
      /\ t = SentState(la, s, r) \/ (t = "VO" /\ SentState(la, s, r) \notin Declared)
  <2>1. CASE v \in DOMAIN old
    BY Zenon, <1>1, <2>1 DEF Ends, StateIn, Reg
  <2>2. CASE v \notin DOMAIN old
    <3>1. s = "VO" /\ r = "MT" /\ t = "VO" /\ Reg(final, v) = "MT"
      BY Zenon, <1>1, <2>2 DEF Ends, StateIn, Reg
    <3>2. SentReg(la, "MT") = "MT"
      BY DEF SentReg, RegLeave
    <3>3. SentState(la, "VO", "MT") \notin Declared
      BY DEF SentState, Declared, OnRLeave, OnTxLa, OnTx, Step
    <3>. QED  BY Zenon, <3>1, <3>2, <3>3
  <2>. QED  BY Zenon, <2>1, <2>2
<1>7. Reg(attribs'[n], v) = Reg(final, v)
  BY Zenon, <1>4, ReclaimedReg
<1>8. StateIn(attribs'[n], v) = t \/ (StateIn(attribs'[n], v) = "VO" /\ t \notin Declared)
  <2>1. \/ StateIn(Reclaimed(final), v) = t
        \/ StateIn(Reclaimed(final), v) = "VO" /\ t \in {"VO", "AO", "QO"}
    BY Zenon, ReclaimedState
  <2>. HIDE DEF t
  <2>2. t \in {"VO", "AO", "QO"} => t \notin Declared
    BY Zenon, <1>5
  <2>. QED  BY Zenon, <1>4, <2>1, <2>2 DEF t
<1>. HIDE DEF s, r, t
<1>9. /\ Registrar(n, v)' = SentReg(la, r)
      /\ \/ State(n, v)' = SentState(la, s, r)
         \/ State(n, v)' = "VO" /\ SentState(la, s, r) \notin Declared
  BY Zenon, <1>3, <1>6, <1>7, <1>8
<1>. QED  BY Zenon, <1>2, <1>9 DEF s, r, la

LEMMA Sends ==
    ASSUME TInv, NEW n \in Node, SendStep(n)
    PROVE  /\ \A v : SendsOf(n, v)
           /\ link'[n] # NoPdu => link'[n].lva = lva[n]
           /\ \A m \in Node \ {n} :
                 /\ link'[m] = link[m]
                 /\ \A v : State(m, v)' = State(m, v) /\ Registrar(m, v)' = Registrar(m, v)
<1>. DEFINE old == attribs[n]
            la == lva[n]
<1>1. PICK asked : Asking(old, asked, la) /\ link' = [link EXCEPT ![n] = PduOf(asked, la)]
  BY Zenon DEF SendStep
<1>2. PICK list : attribs' = [attribs EXCEPT ![n] = list]
  BY Zenon DEF SendStep
<1>3. /\ DOMAIN old \subseteq Vid /\ la \in BOOLEAN
      /\ \A v \in DOMAIN old : old[v].app.state \in ApplicantState
  BY Zenon, ApplicantFields DEF TInv, Lists, Typed, Others
<1>. DEFINE pdu == PduOf(asked, la)
            sent == Prepared(asked, la)
            ev(v) == Event(asked, sent, v)
<1>4. link'[n] = pdu /\ \A m \in Node \ {n} : link'[m] = link[m]
  <2>. HIDE DEF pdu
  <2>1. link' = [link EXCEPT ![n] = pdu]
    BY Zenon, <1>1 DEF pdu
  <2>. QED  BY <2>1 DEF TInv, Links
<1>5. ASSUME NEW v  PROVE State(n, v) = StateIn(old, v) /\ Registrar(n, v) = Reg(old, v)
  BY Zenon, StateIs
<1>. HIDE DEF old, la
<1>6. /\ sent \subseteq DOMAIN old
      /\ \A v \in sent :
            /\ ev(v) \in PduEvent
            /\ ev(v) = "LV" => old[v].app.state = "LA"
            /\ /\ ~la /\ ev(v) \in {"IN", "JOININ"}
               /\ old[v].app.state \in Declared => v - 1 \notin Vid
               => old[v].reg = "IN"
      /\ la /\ DOMAIN old # {} => sent # {}
      /\ \A v \in DOMAIN old :
            ~la /\ old[v].app.state \in Quick \cup Soon =>
               v \in sent /\ ev(v) \in {"NEW", "JOININ", "JOINMT"}
  BY Zenon, <1>1, <1>3, SentEvents
<1>7. /\ pdu = NoPdu <=> sent = {}
      /\ pdu # NoPdu => /\ pdu.lva = la /\ DOMAIN pdu.ev = sent
                        /\ \A v \in sent : pdu.ev[v] = ev(v)
  BY Zenon, <1>3, <1>6, PduIs
<1>. HIDE DEF pdu, sent, ev
<1>8. ASSUME NEW v  PROVE SendsOf(n, v)
  <2>. DEFINE s == State(n, v)
              r == Registrar(n, v)
  <2>1. /\ v \in DOMAIN old => s = old[v].app.state /\ r = old[v].reg
        /\ v \notin DOMAIN old => s = "VO" /\ r = "MT"
    BY Zenon, <1>5 DEF StateIn, Reg
  <2>2. "VO" \notin Quick \cup Soon
    BY DEF Quick, Soon
  <2>. HIDE DEF s, r
  <2>3. la /\ r = "IN" => pdu # NoPdu
    BY Zenon, <1>6, <1>7, <2>1
  <2>4. ~la /\ s \in Quick \cup Soon => pdu # NoPdu /\ Declares(pdu, v)
    BY Zenon, <1>6, <1>7, <2>1, <2>2 DEF Declares
  <2>5. pdu # NoPdu /\ v \in DOMAIN pdu.ev /\ pdu.ev[v] = "LV" => s = "LA"
    BY Zenon, <1>6, <1>7, <2>1
  <2>6. Satisfies(pdu, v) /\ (s \in Declared => v - 1 \notin Vid) => r = "IN"
    BY Zenon, <1>6, <1>7, <2>1 DEF Satisfies
  <2>7. /\ Registrar(n, v)' = SentReg(la, r)
        /\ \/ State(n, v)' = SentState(la, s, r)
           \/ State(n, v)' = "VO" /\ SentState(la, s, r) \notin Declared
    BY Zenon, SendStates DEF s, r, la
  <2>. QED  BY Zenon, <1>4, <2>3, <2>4, <2>5, <2>6, <2>7 DEF SendsOf, s, r, la
<1>9. ASSUME NEW m \in Node \ {n}, NEW v
      PROVE  State(m, v)' = State(m, v) /\ Registrar(m, v)' = Registrar(m, v)
  <2>1. attribs'[m] = attribs[m]
    BY Zenon, <1>2, NewList
  <2>2. State(m, v)' = StateIn(attribs'[m], v) /\ Registrar(m, v)' = Reg(attribs'[m], v)
    BY Zenon, StateIs
  <2>3. State(m, v) = StateIn(attribs[m], v) /\ Registrar(m, v) = Reg(attribs[m], v)
    BY Zenon, StateIs
  <2>. QED  BY Zenon, <2>1, <2>2, <2>3
<1>. QED  BY Zenon, <1>4, <1>7, <1>8, <1>9 DEF la

LEMMA SentSteps ==
    ASSUME NEW s \in ApplicantState, NEW r, NEW la
    PROVE  /\ SentState(la, s, r) \in Declared <=> s \in Declared
           /\ la /\ s \in Declared => SentState(la, s, r) \in Quick
           /\ ~la /\ s \in Quick => SentState(la, s, r) \in Soon
<1>1. CASE la
  <2>1. SentState(la, s, r) = OnRLeave(OnTxLa(s))
    BY Zenon, <1>1 DEF SentState
  <2>. DEFINE t == OnTxLa(s)
  <2>2. t \in ApplicantState /\ (t \in Declared <=> s \in Declared)
    BY DEF ApplicantState, Declared, OnTxLa, Step
  <2>. HIDE DEF t
  <2>3. /\ t \in Declared => OnRLeave(t) \in Quick
        /\ t \notin Declared => OnRLeave(t) \notin Declared
    BY Zenon, <2>2, LeaveSteps
  <2>4. Quick \subseteq Declared
    BY DEF Quick, Declared
  <2>. QED  BY Zenon, <1>1, <2>1, <2>2, <2>3, <2>4 DEF t
<1>2. CASE ~la
  <2>1. SentState(la, s, r) = OnTx(s, r)
    BY Zenon, <1>2 DEF SentState
  <2>2. /\ OnTx(s, r) \in Declared <=> s \in Declared
        /\ s \in Quick => OnTx(s, r) \in Soon
    BY DEF ApplicantState, Declared, Quick, Soon, OnTx, Step
  <2>. QED  BY Zenon, <1>2, <2>1, <2>2
<1>. QED  BY Zenon, <1>1, <1>2

LEMMA SendsDeclared ==
    ASSUME TInv, NEW n \in Node, NEW v, SendsOf(n, v)
    PROVE  /\ State(n, v)' \in Declared <=> State(n, v) \in Declared
           /\ lva[n] /\ State(n, v) \in Declared => State(n, v)' \in Quick
           /\ ~lva[n] /\ State(n, v) \in Quick => State(n, v)' \in Soon
<1>. DEFINE s == State(n, v)
            u == SentState(lva[n], s, Registrar(n, v))
<1>1. s \in ApplicantState
  BY Zenon, StateTyped
<1>2. \A q : q \in Quick => q \in Declared
  BY DEF Quick, Declared
<1>3. "VO" \notin Declared
  BY DEF Declared
<1>4. State(n, v)' = u \/ (State(n, v)' = "VO" /\ u \notin Declared)
  BY Zenon DEF SendsOf
<1>5. /\ u \in Declared <=> s \in Declared
      /\ lva[n] /\ s \in Declared => u \in Quick
      /\ ~lva[n] /\ s \in Quick => u \in Soon
  BY Zenon, <1>1, SentSteps
<1>. HIDE DEF u, s
<1>. QED  BY Zenon, <1>2, <1>3, <1>4, <1>5 DEF s

LEMMA JoinTimerIs ==
    ASSUME TInv, Served, Fits, stale' = stale,
           NEW n \in Node, NEW p \in Node, n # p, JoinTimer(n), stale[n] = {}
    PROVE  /\ join[n] = 1 /\ join'[n] \in {0, 2} /\ ~Owes(n)' /\ Owes(n) = lva[n]
           /\ link'[p] = link[p] /\ (link'[n] # NoPdu => link'[n].lva = lva[n])
           /\ \A v : /\ SendsOf(n, v)
                     /\ State(p, v)' = State(p, v) /\ Registrar(p, v)' = Registrar(p, v)
                     /\ lva[n] /\ Registrar(n, v) = "IN" => lv'[n] = LvTicks + 1
           /\ held' = held /\ Counts(n, FALSE)
           /\ join'[p] = join[p] /\ Owes(p)' = Owes(p) /\ lvat'[p] = lvat[p] /\ lv'[p] = lv[p]
           /\ lv'[n] \in {lv[n], LvTicks + 1}
           /\ lvat'[n] = IF lva[n] THEN LvaTicks + 1 ELSE lvat[n]
<1>1. Room >= Cardinality(Vid)
  BY DEF Fits
<1>2. tx_attrib[n] = 0
  BY Zenon DEF Served
<1>3. Transmit(n, 0) /\ join[n] = 1 /\ Counts(n, FALSE)
  <2>1. Start(n) = {0}
    BY Zenon, <1>2 DEF Start, Dangling
  <2>. QED  BY Zenon, <2>1 DEF JoinTimer
<1>4. SendStep(n)
  BY Zenon, <1>1, <1>3, SentAll
<1>5. /\ \A v : SendsOf(n, v)
      /\ link'[n] # NoPdu => link'[n].lva = lva[n]
      /\ link'[p] = link[p]
      /\ \A v : State(p, v)' = State(p, v) /\ Registrar(p, v)' = Registrar(p, v)
  BY Zenon, <1>4, Sends
<1>6. lvat' = [lvat EXCEPT ![n] = IF lva[n] THEN LvaTicks + 1 ELSE lvat[n]]
  BY Zenon, <1>4 DEF SendStep
<1>7. held' = held
  BY <1>3 DEF Transmit, TxAsked
<1>8. lva' = [lva EXCEPT ![n] = FALSE]
  BY Zenon, <1>3 DEF Transmit, TxAsked
<1>9. \E w : join' = [join EXCEPT ![n] = IF w THEN 2 ELSE 0]
  BY Zenon, <1>3 DEF Transmit, TxAsked
<1>. DEFINE w == lva[n] /\ \E v \in DOMAIN attribs[n] : attribs[n][v].reg = "IN"
<1>10. lv' = [lv EXCEPT ![n] = IF w THEN mrp_lvtimer_start(lv[n]) ELSE lv[n]]
  BY Zenon, <1>3 DEF Transmit, TxAsked
<1>11. \A v : lva[n] /\ Registrar(n, v) = "IN" => w
  <2>. TAKE v
  <2>1. Registrar(n, v) = Reg(attribs[n], v)
    BY Zenon, StateIs
  <2>. QED  BY Zenon, <2>1 DEF Reg
<1>. HIDE DEF w
<1>12. Timers /\ lva \in [Node -> BOOLEAN]
  BY Zenon DEF TInv, Others
<1>13. lv'[p] = lv[p] /\ lv'[n] = IF w THEN LvTicks + 1 ELSE lv[n]
  BY <1>10, <1>12 DEF Timers, mrp_lvtimer_start
<1>14. join'[p] = join[p] /\ join'[n] \in {0, 2}
  BY <1>9, <1>12 DEF Timers
<1>15. /\ lva'[p] = lva[p] /\ ~lva'[n] /\ lvat'[p] = lvat[p]
       /\ lvat'[n] = IF lva[n] THEN LvaTicks + 1 ELSE lvat[n]
  <2>1. lva'[p] = lva[p] /\ ~lva'[n]
    BY <1>8, <1>12
  <2>2. lvat'[p] = lvat[p] /\ lvat'[n] = IF lva[n] THEN LvaTicks + 1 ELSE lvat[n]
    BY <1>6, <1>12 DEF Timers
  <2>. QED  BY Zenon, <2>1, <2>2
<1>16. \A v : lva[n] /\ Registrar(n, v) = "IN" => lv'[n] = LvTicks + 1
  BY Zenon, <1>11, <1>13
<1>17. lv'[n] \in {lv[n], LvTicks + 1}
  BY Zenon, <1>13
<1>18. ~Owes(n)' /\ Owes(p)' = Owes(p)
  <2>1. "lva" \notin stale'[n]
    BY Zenon
  <2>. QED  BY Zenon, <1>15, <2>1 DEF Owes
<1>19. Owes(n) = lva[n]
  <2>1. "lva" \notin stale[n] /\ lva[n] \in BOOLEAN
    BY Zenon, <1>12
  <2>2. Owes(n) <=> lva[n]
    BY Zenon, <2>1 DEF Owes
  <2>3. Owes(n) \in BOOLEAN
    BY DEF Owes
  <2>. QED  BY SMT, <2>1, <2>2, <2>3
<1>. QED  BY Zenon, <1>3, <1>5, <1>7, <1>14, <1>13, <1>15, <1>16, <1>17, <1>18, <1>19

LEMMA PendSooner ==
    ASSUME NEW s, NEW j \in 0 .. 2, NEW la, NEW lt, NEW a \in Nat, NEW d \in Nat,
           NEW c \in 0 .. 1, d <= a, Pend(s, j, la, lt, a, c)
    PROVE  Pend(s, j, la, lt, d, c)
<1>1. /\ a + j + c <= 3 => d + j + c <= 3
      /\ a + j + c <= 4 => d + j + c <= 4
  OBVIOUS
<1>. QED  BY Zenon, <1>1 DEF Pend, InTime

LEMMA JoinTimerAnswers ==
    ASSUME TInv, History, Served, Answers, Fits, TInv', Served', stale' = stale,
           NEW x \in Node, JoinTimer(x), stale[x] = {}
    PROVE  Answers' /\ History'
<1>1. /\ OneInFlight /\ HeldDeclared /\ DeclaredUsed /\ NoLeaveHeld
      /\ LeaveAllSent /\ Truthful /\ Answered /\ EndedEarly
  BY Zenon DEF Answers
<1>2. PICK y \in Node : x # y
  BY Zenon, PeerIs
<1>3. \A m \in Node : m = x \/ m = y
  BY Zenon, <1>2, PeerOf
<1>4. /\ join[x] = 1 /\ join'[x] \in {0, 2} /\ ~Owes(x)' /\ Owes(x) = lva[x]
      /\ link'[y] = link[y] /\ (link'[x] # NoPdu => link'[x].lva = lva[x])
      /\ \A v : /\ SendsOf(x, v)
                /\ State(y, v)' = State(y, v) /\ Registrar(y, v)' = Registrar(y, v)
                /\ lva[x] /\ Registrar(x, v) = "IN" => lv'[x] = LvTicks + 1
      /\ held' = held /\ Counts(x, FALSE)
      /\ join'[y] = join[y] /\ Owes(y)' = Owes(y) /\ lvat'[y] = lvat[y] /\ lv'[y] = lv[y]
      /\ lv'[x] \in {lv[x], LvTicks + 1}
      /\ lvat'[x] = IF lva[x] THEN LvaTicks + 1 ELSE lvat[x]
  BY Zenon, <1>2, JoinTimerIs
<1>5. /\ History'
      /\ due'[y] = due[y]
      /\ \A v \in Vid :
            due'[x][v] > 0 =>
               /\ Registrar(x, v)' = "LV"
               /\ \/ Registrar(x, v) = "LV" /\ due'[x][v] = due[x][v]
                  \/ Registrar(x, v) # "LV" /\ due'[x][v] = 2 /\ v \in held[y]
  <2>. DEFINE over == FALSE
  <2>1. Counts(x, over) /\ held' = held
    BY Zenon, <1>4
  <2>. HIDE DEF over
  <2>2. /\ History'
        /\ due'[y] = due[y]
        /\ \A v \in Vid :
              due'[x][v] > 0 =>
                 /\ Registrar(x, v)' = "LV"
                 /\ \/ Registrar(x, v) = "LV" /\ due'[x][v] = due[x][v]
                    \/ /\ Registrar(x, v) # "LV" /\ due'[x][v] = 2
                       /\ v \in held[y] /\ ~over
    BY Zenon, <1>2, <2>1, CountsIs
  <2>. QED  BY Zenon, <2>2
<1>6. LvTicks \in Nat
  BY MvrpAssumption
<1>7. link[x] = NoPdu
  BY Zenon, <1>1, <1>4 DEF OneInFlight
<1>8. OneInFlight'
  <2>. SUFFICES ASSUME NEW n \in Node, link'[n] # NoPdu  PROVE join'[n] # 1
    BY Zenon DEF OneInFlight
  <2>1. CASE n = x
    BY <1>4, <2>1
  <2>2. CASE n = y
    BY Zenon, <1>1, <1>4, <2>2 DEF OneInFlight
  <2>. QED  BY Zenon, <1>3, <2>1, <2>2
<1>9. ASSUME NEW v
      PROVE  /\ State(x, v)' \in Declared <=> State(x, v) \in Declared
             /\ lva[x] /\ State(x, v) \in Declared => State(x, v)' \in Quick
             /\ ~lva[x] /\ State(x, v) \in Quick => State(x, v)' \in Soon
  BY Zenon, <1>4, SendsDeclared
<1>10. ASSUME NEW n \in Node, NEW v
       PROVE  State(n, v)' \in Declared <=> State(n, v) \in Declared
  BY Zenon, <1>3, <1>4, <1>9
<1>11. HeldDeclared'
  <2>. SUFFICES ASSUME NEW n \in Node, NEW v \in held'[n]  PROVE State(n, v)' \in Declared
    BY Zenon DEF HeldDeclared
  <2>1. State(n, v) \in Declared
    BY Zenon, <1>1, <1>4 DEF HeldDeclared
  <2>. QED  BY Zenon, <1>10, <2>1
<1>12. DeclaredUsed'
  BY Zenon, <1>1, <1>10 DEF DeclaredUsed
<1>13. NoLeaveHeld'
  <2>. SUFFICES ASSUME NEW n \in Node, link'[n] # NoPdu,
                       NEW v \in DOMAIN link'[n].ev, link'[n].ev[v] = "LV"
       PROVE  v \notin held'[n]
    BY Zenon DEF NoLeaveHeld
  <2>1. CASE n = x
    <3>1. State(x, v) = "LA"
      BY Zenon, <1>4, <2>1 DEF SendsOf
    <3>2. "LA" \notin Declared
      BY DEF Declared
    <3>. QED  BY Zenon, <1>1, <1>4, <2>1, <3>1, <3>2 DEF HeldDeclared
  <2>2. CASE n = y
    BY Zenon, <1>1, <1>4, <2>2 DEF NoLeaveHeld
  <2>. QED  BY Zenon, <1>3, <2>1, <2>2
<1>14. LeaveAllSent'
  <2>. SUFFICES ASSUME NEW n \in Node, link'[n] # NoPdu, link'[n].lva
       PROVE  /\ ~Owes(n)' /\ lvat'[n] = LvaTicks + 1
              /\ \A v \in held'[n] : State(n, v)' \in Quick
    BY Zenon DEF LeaveAllSent
  <2>1. CASE n = x
    <3>1. lva[x]
      BY Zenon, <1>4, <2>1
    <3>2. \A v \in held[x] : State(x, v)' \in Quick
      BY Zenon, <1>1, <1>9, <3>1 DEF HeldDeclared
    <3>. QED  BY Zenon, <1>4, <2>1, <3>1, <3>2
  <2>2. CASE n = y
    <3>1. /\ ~Owes(y) /\ lvat[y] = LvaTicks + 1
          /\ \A v \in held[y] : State(y, v) \in Quick
      BY Zenon, <1>1, <1>4, <2>2 DEF LeaveAllSent
    <3>. QED  BY Zenon, <1>4, <2>2, <3>1
  <2>. QED  BY Zenon, <1>3, <2>1, <2>2
\* The sender's dues: of a registration that is leaving, or of one that the
\* LeaveAll makes leave.
<1>15. ASSUME NEW v \in Vid, due'[x][v] > 0, Registrar(x, v) = "LV"
       PROVE  due'[x][v] = due[x][v] /\ due[x][v] > 0
  BY Zenon, <1>5, <1>15
<1>16. ASSUME NEW v \in Vid, due'[x][v] > 0, Registrar(x, v) # "LV"
       PROVE  /\ due'[x][v] = 2 /\ v \in held[y] /\ lva[x]
              /\ lv'[x] = LvTicks + 1 /\ link'[x] # NoPdu
  <2>1. due'[x][v] = 2 /\ v \in held[y] /\ Registrar(x, v)' = "LV"
    BY Zenon, <1>5, <1>16
  <2>2. SentReg(lva[x], Registrar(x, v)) = "LV"
    BY Zenon, <1>4, <2>1 DEF SendsOf
  <2>3. lva[x] /\ Registrar(x, v) = "IN"
    BY <1>16, <2>2 DEF SentReg, RegLeave
  <2>. QED  BY Zenon, <1>4, <2>1, <2>3 DEF SendsOf
<1>17. ASSUME NEW v \in Vid, due'[x][v] > 0  PROVE v \in held[y]
  <2>1. CASE Registrar(x, v) = "LV"
    BY Zenon, <1>1, <1>2, <1>15, <1>17, <2>1 DEF Answered
  <2>2. CASE Registrar(x, v) # "LV"
    BY Zenon, <1>16, <1>17, <2>2
  <2>. QED  BY Zenon, <2>1, <2>2
<1>18. Truthful'
  <2>. SUFFICES ASSUME NEW n \in Node, NEW p \in Node, NEW v \in Vid,
                       n # p, due'[n][v] > 0, Satisfies(link'[n], v)
       PROVE  State(p, v)' \in Quick /\ join'[p] # 1
    BY Zenon, TruthfulNext
  <2>1. CASE n = x
    <3>1. v \in held[y] /\ Registrar(x, v)' = "LV"
      BY Zenon, <1>5, <1>17, <2>1
    <3>2. ~lva[x]
      BY Zenon, <1>4, <2>1 DEF Satisfies
    <3>3. Registrar(x, v) = "LV"
      BY Zenon, <1>4, <3>1, <3>2 DEF SendsOf, SentReg
    <3>4. v \in Uses[y]
      BY Zenon, <1>1, <3>1 DEF HeldDeclared, DeclaredUsed
    <3>5. State(x, v) \in Declared => v - 1 \notin Vid
      <4>1. State(x, v) \in Declared => v \in Uses[x] \cap Uses[y]
        BY Zenon, <1>1, <3>4 DEF DeclaredUsed
      <4>. QED  BY Zenon, <1>2, <4>1 DEF Fits
    <3>6. Registrar(x, v) = "IN"
      BY Zenon, <1>4, <2>1, <3>5 DEF SendsOf
    <3>. QED  BY <3>3, <3>6
  <2>2. CASE n = y
    <3>1. p = x /\ link'[n] = link[n] /\ due[n][v] > 0
      BY Zenon, <1>3, <1>4, <1>5, <2>2
    <3>2. join[x] # 1
      BY Zenon, <1>1, <3>1 DEF Truthful
    <3>. QED  BY Zenon, <1>4, <3>2
  <2>. QED  BY Zenon, <1>3, <2>1, <2>2
<1>19. Answered'
  <2>. SUFFICES ASSUME NEW n \in Node, NEW p \in Node, NEW v \in Vid, n # p, due'[n][v] > 0
       PROVE  /\ Registrar(n, v)' = "LV"
              /\ v \in held'[p]
              /\ Come(link'[n], link'[p], v, State(p, v)', join'[p], Owes(p)', lvat'[p],
                      LvTicks + 1 - lv'[n], due'[n][v] - 1)
    BY Zenon, AnsweredNext
  <2>1. CASE n = x /\ Registrar(x, v) # "LV"
    <3>1. p = y
      BY Zenon, <1>3, <2>1
    <3>2. /\ due'[x][v] = 2 /\ v \in held[y] /\ lva[x]
          /\ lv'[x] = LvTicks + 1 /\ link'[x] # NoPdu
      BY Zenon, <1>16, <2>1
    <3>3. link'[x].lva
      BY Zenon, <1>4, <3>2
    <3>4. Ask(link'[x], LvTicks + 1 - lv'[x], due'[x][v] - 1)
      BY <1>6, <3>2, <3>3 DEF Ask
    <3>. QED  BY Zenon, <1>4, <1>5, <2>1, <3>1, <3>2, <3>4 DEF Come
  <2>2. CASE n = x /\ Registrar(x, v) = "LV"
    <3>1. p = y /\ due'[x][v] = due[x][v] /\ due[x][v] > 0
      BY Zenon, <1>3, <1>15, <2>2
    <3>. DEFINE a == LvTicks + 1 - lv[x]
                d == LvTicks + 1 - lv'[x]
                b == due[x][v] - 1
                s == State(y, v)
    <3>2. /\ v \in held[y]
          /\ Come(NoPdu, link[y], v, s, join[y], Owes(y), lvat[y], a, b)
      BY Zenon, <1>1, <1>7, <2>2, <3>1 DEF Answered
    <3>3. Registrar(x, v)' = "LV"
      BY Zenon, <1>5, <2>2
    <3>4. a \in Nat /\ d \in Nat /\ d <= a /\ b \in 0 .. 1 /\ join[y] \in 0 .. 2
      <4>1. /\ lv[x] \in Nat /\ LvTicks + 1 - lv[x] \in Nat /\ due[x][v] \in 0 .. 2
            /\ join[y] \in 0 .. 2
        BY Zenon, Values
      <4>2. lv'[x] \in {lv[x], LvTicks + 1}
        BY Zenon, <1>4
      <4>. QED  BY <1>6, <3>1, <4>1, <4>2
    <3>. HIDE DEF a, b, d, s
    <3>5. a <= 3 => d <= 3
      BY <3>4
    <3>6. ASSUME NEW c \in 0 .. 1, Pend(s, join[y], Owes(y), lvat[y], a, c)
          PROVE  Pend(s, join[y], Owes(y), lvat[y], d, c)
      BY Zenon, <3>4, <3>6, PendSooner
    <3>7. 0 \in 0 .. 1
      OBVIOUS
    <3>8. Come(link'[x], link[y], v, s, join[y], Owes(y), lvat[y], d, b)
      BY Zenon, <3>2, <3>4, <3>5, <3>6, <3>7 DEF Come, Ask
    <3>. QED  BY Zenon, <1>4, <2>2, <3>1, <3>2, <3>3, <3>8 DEF b, d, s
  <2>3. CASE n = y
    <3>1. p = x /\ due'[y] = due[y]
      BY Zenon, <1>3, <1>5, <2>3
    <3>. DEFINE a == LvTicks + 1 - lv[y]
                b == due[y][v] - 1
                s == State(x, v)
                t == State(x, v)'
    <3>2. /\ Registrar(y, v) = "LV" /\ v \in held[x]
          /\ Come(link[y], NoPdu, v, s, join[x], Owes(x), lvat[x], a, b)
      BY Zenon, <1>1, <1>7, <2>3, <3>1 DEF Answered
    <3>3. a \in Nat /\ b \in 0 .. 1 /\ lvat[x] \in Nat
      <4>1. LvTicks + 1 - lv[y] \in Nat /\ due[y][v] \in 0 .. 2 /\ lvat[x] \in Nat
        BY Zenon, Values
      <4>2. due[y][v] > 0
        BY Zenon, <2>3, <3>1
      <4>. QED  BY <4>1, <4>2
    <3>4. ~lva[x] /\ s \in Quick \cup Soon => link'[x] # NoPdu /\ Declares(link'[x], v)
      BY Zenon, <1>4 DEF SendsOf
    <3>5. ~lva[x] /\ s \in Quick => t \in Soon /\ join'[x] > 0
      <4>1. ~lva[x] /\ s \in Quick => t \in Soon
        BY Zenon, <1>9
      <4>. QED  BY Zenon, <4>1, ServedNext
    <3>. HIDE DEF a, b, s, t
    <3>6. CASE Ask(link[y], a, b)
      <4>1. Come(link[y], link'[x], v, t, join'[x], Owes(x)', lvat'[x], a, b)
        BY Zenon, <3>6 DEF Come
      <4>. QED  BY Zenon, <1>4, <2>3, <3>1, <3>2, <4>1 DEF a, b, t
    <3>7. CASE Pend(s, join[x], Owes(x), lvat[x], a, b)
      <4>1. ASSUME lva[x]
            PROVE  Come(link[y], link'[x], v, t, join'[x], Owes(x)', lvat'[x], a, b)
        <5>1. a + 1 + b <= 3 /\ Owes(x)
          BY Zenon, <1>4, <3>7, <4>1 DEF Pend, InTime
        <5>2. t \in Quick /\ join'[x] > 0
          <6>1. s \in Declared
            BY Zenon, <1>1, <3>2 DEF HeldDeclared, s
          <6>2. t \in Quick
            BY Zenon, <1>9, <4>1, <6>1 DEF s, t
          <6>. QED  BY Zenon, <6>2, ServedNext DEF t
        <5>3. join'[x] = 2
          <6>1. join'[x] \in {0, 2}
            BY Zenon, <1>4
          <6>. QED  BY <5>2, <6>1
        <5>4. LvaTicks \in Nat /\ LvaTicks >= 3 /\ lvat'[x] = LvaTicks + 1
          <6>1. lvat'[x] = LvaTicks + 1
            BY Zenon, <1>4, <4>1
          <6>. QED  BY <6>1, MvrpAssumption DEF Fits
        <5>5. a + 2 + b <= 4 /\ lvat'[x] > 2 + b /\ 2 >= 1
          BY <3>3, <5>1, <5>4
        <5>6. Pend(t, join'[x], Owes(x)', lvat'[x], a, b)
          BY Zenon, <1>4, <5>2, <5>3, <5>5 DEF Pend, InTime
        <5>. QED  BY Zenon, <5>6 DEF Come
      <4>2. ASSUME ~lva[x]
            PROVE  Come(link[y], link'[x], v, t, join'[x], Owes(x)', lvat'[x], a, b)
        <5>1. ~Owes(x) /\ s \in Quick \cup Soon /\ lvat'[x] = lvat[x]
          BY Zenon, <1>4, <3>7, <4>2 DEF Pend
        <5>2. a + 1 + b <= 4 /\ lvat[x] > 1 + b
          BY Zenon, <1>4, <3>7, <5>1 DEF Pend, InTime
        <5>3. a <= 3
          BY <3>3, <5>2
        <5>4. ASSUME b # 0  PROVE Pend(t, join'[x], Owes(x)', lvat'[x], a, 0)
          <6>1. t \in Soon /\ join'[x] > 0
            BY Zenon, <3>5, <3>7, <4>2, <5>4 DEF Pend
          <6>2. join'[x] = 2
            <7>1. join'[x] \in {0, 2}
              BY Zenon, <1>4
            <7>. QED  BY <6>1, <7>1
          <6>3. b = 1
            BY <3>3, <5>4
          <6>4. a + join'[x] + 0 <= 4 /\ lvat'[x] > join'[x] + 0 /\ join'[x] >= 1
            BY <3>3, <5>1, <5>2, <6>2, <6>3
          <6>. QED  BY Zenon, <1>4, <6>1, <6>4 DEF Pend, InTime
        <5>. QED  BY Zenon, <3>4, <4>2, <5>1, <5>3, <5>4 DEF Come
      <4>3. Come(link[y], link'[x], v, t, join'[x], Owes(x)', lvat'[x], a, b)
        BY Zenon, <4>1, <4>2
      <4>. QED  BY Zenon, <1>4, <2>3, <3>1, <3>2, <4>3 DEF a, b, t
    <3>. QED  BY Zenon, <3>2, <3>6, <3>7 DEF Come
  <2>. QED  BY Zenon, <1>3, <2>1, <2>2, <2>3
<1>20. EndedEarly'
  <2>. SUFFICES ASSUME NEW n \in Node, NEW v \in Vid, "lv" \in stale'[n], due'[n][v] > 0
       PROVE  FALSE
    BY Zenon DEF EndedEarly
  <2>1. n # x
    BY Zenon
  <2>. QED  BY Zenon, <1>1, <1>3, <1>5, <2>1 DEF EndedEarly
<1>. QED  BY Zenon, <1>5, <1>8, <1>11, <1>12, <1>13, <1>14, <1>18, <1>19, <1>20 DEF Answers

-----------------------------------------------------------------------------
(***************************************************************************)
(* The invariant and what it says.                                         *)
(***************************************************************************)
LEMMA InitAnswers == Init => History /\ Answers
<1>. SUFFICES ASSUME Init  PROVE History /\ Answers
  OBVIOUS
<1>1. \A n \in Node : /\ DOMAIN attribs[n] = {} /\ link[n] = NoPdu /\ held[n] = {}
                      /\ \A v \in Vid : due[n][v] = 0
  BY DEF Init
<1>2. History
  BY DEF Init, History
<1>3. ASSUME NEW n \in Node, NEW v  PROVE State(n, v) \notin Declared
  <2>1. State(n, v) = "VO"
    BY Zenon, <1>1, StateIs DEF StateIn
  <2>. QED  BY <2>1 DEF Declared
<1>4. ASSUME NEW n \in Node, NEW v \in Vid  PROVE ~(due[n][v] > 0)
  BY <1>1
<1>5. Answered /\ Truthful /\ EndedEarly
  BY Zenon, <1>4 DEF Answered, Truthful, EndedEarly
<1>6. OneInFlight /\ NoLeaveHeld /\ LeaveAllSent /\ HeldDeclared
  BY Zenon, <1>1 DEF OneInFlight, NoLeaveHeld, LeaveAllSent, HeldDeclared
<1>7. DeclaredUsed
  BY Zenon, <1>3 DEF DeclaredUsed
<1>. QED  BY Zenon, <1>2, <1>5, <1>6, <1>7 DEF Answers

LEMMA NextAnswers ==
    ASSUME Fits, TInv, Passes, Served, History, Answers, [Next]_vars, TInv', Served'
    PROVE  History' /\ Answers'
<1>1. Calm /\ History' => Answers'
  BY Zenon, CalmAnswers
<1>2. held' = held /\ due' = due => History'
  BY Zenon DEF History
<1>3. ASSUME NEW n \in Node,
             stale[n] = {}, stale' = stale,
             \/ ClientAdd(n) \/ ClientBye(n)
             \/ \E v \in Uses[n] : New(n, v) \/ Join(n, v) \/ Leave(n, v)
             \/ JoinTimer(n) \/ Periodic(n) \/ GcTimer(n)
      PROVE  History' /\ Answers'
  <2>1. CASE ClientAdd(n) \/ ClientBye(n)
    <3>1. UNCHANGED <<attribs, lva, join, lv, lvat, stale, link, held, due>>
      BY <1>3, <2>1 DEF ClientAdd, ClientBye
    <3>2. held' = held /\ due' = due
      BY <3>1
    <3>. QED  BY Zenon, <1>1, <1>2, <3>1, <3>2, ClientCalm
  <2>2. CASE \E v \in Uses[n] : New(n, v) \/ Join(n, v)
    <3>1. held' = held /\ due' = due
      BY <2>2 DEF New, Join
    <3>. QED  BY Zenon, <1>1, <1>2, <1>3, <2>2, <3>1, DeclareCalm
  <2>3. CASE \E v \in Uses[n] : Leave(n, v)
    <3>1. Uses[n] \subseteq Vid
      BY SMT, MvrpAssumption
    <3>. QED  BY Zenon, <1>1, <1>3, <2>3, <3>1, LeaveCalm
  <2>4. CASE JoinTimer(n)
    BY Zenon, <1>3, <2>4, JoinTimerAnswers
  <2>5. CASE Periodic(n)
    <3>1. held' = held /\ due' = due
      BY <2>5 DEF Periodic
    <3>. QED  BY Zenon, <1>1, <1>2, <1>3, <2>5, <3>1, PeriodicCalm
  <2>6. CASE GcTimer(n)
    <3>1. held' = held /\ due' = due
      BY <2>6 DEF GcTimer
    <3>. QED  BY Zenon, <1>1, <1>2, <1>3, <2>6, <3>1, GcTimerCalm
  <2>. QED  BY Zenon, <1>3, <2>1, <2>2, <2>3, <2>4, <2>5, <2>6
<1>4. ASSUME NEW n \in Node, Other(n)  PROVE History' /\ Answers'
  BY Zenon, <1>3, <1>4 DEF Other
<1>5. ASSUME NEW n \in Node, LvTimer(n)  PROVE History' /\ Answers'
  BY Zenon, <1>1, <1>5, LvTimerCalm
<1>6. ASSUME NEW n \in Node, LvaTimer(n)  PROVE History' /\ Answers'
  <2>1. held' = held /\ due' = due
    BY <1>6 DEF LvaTimer
  <2>. QED  BY Zenon, <1>1, <1>2, <1>6, <2>1, LvaTimerCalm
<1>7. ASSUME NEW n \in Node, Receive(n)  PROVE History' /\ Answers'
  BY Zenon, <1>7, ReceiveAnswers
<1>8. ASSUME NEW n \in Node, Lose(n)  PROVE History' /\ Answers'
  BY Zenon, <1>8, LoseAnswers
<1>9. CASE Tick
  BY Zenon, <1>9, TickAnswers
<1>10. CASE UNCHANGED vars
  <2>1. UNCHANGED <<attribs, lva, join, lv, lvat, stale, link, held, due>>
    BY <1>10 DEF vars
  <2>2. held' = held /\ due' = due
    BY <2>1
  <2>. QED  BY Zenon, <1>1, <1>2, <2>1, <2>2, ClientCalm
<1>. QED  BY Zenon, <1>4, <1>5, <1>6, <1>7, <1>8, <1>9, <1>10 DEF Next

\* When its leave time ends, in time or early, no answer can be outstanding.
LEMMA AnswersImply ==
    ASSUME Fits, TInv, History, Answers
    PROVE  KeepsDeclared
<1>. SUFFICES ASSUME NEW n \in Node, NEW v \in Vid, "lv" \in RunOut(n) \cup stale[n],
                     due[n][v] # 0
     PROVE  FALSE
  BY Zenon DEF KeepsDeclared
<1>1. due[n][v] > 0
  <2>1. due[n][v] \in 0 .. 2
    BY Zenon, Values
  <2>. QED  BY <2>1
<1>2. "lv" \notin stale[n]
  BY Zenon, <1>1 DEF Answers, EndedEarly
<1>3. lv[n] = 1
  BY <1>2 DEF RunOut
<1>. QED  BY Zenon, <1>1, <1>3, NoneDue

(***************************************************************************)
(* When the leave timer of a daemon runs out (mvrp_event with lvtimer!),   *)
(* it deregisters no VLAN that its peer has declared since before the      *)
(* LeaveAll and whose LeaveAll and one of the two Joins that answer it     *)
(* were delivered: OnTx answers a LeaveAll twice, one join time apart, and *)
(* both come before the leave timer, whatever else is sent, asked for or   *)
(* lost in between, and though the peer may send a LeaveAll of its own     *)
(* first.  It says nothing of a VLAN that starts to leave in a pass of     *)
(* the event loop that has already found the leave timer run out           *)
(* (process_events): no Join can come in time for it.                      *)
(***************************************************************************)
THEOREM DeclaredIsKept == Fits => (Spec => []KeepsDeclared)
<1>. SUFFICES ASSUME Fits  PROVE Spec => []KeepsDeclared
  OBVIOUS
<1>. DEFINE IInv == TInv /\ Passes /\ Served /\ History /\ Answers
<1>1. Init => IInv
  <2>1. Init => Passes
    BY DEF Init, Passes
  <2>. QED  BY Zenon, <2>1, InitTInv, InitAnswers
<1>2. IInv /\ [Next]_vars => IInv'
  <2>. SUFFICES ASSUME TInv, Passes, Served, History, Answers, [Next]_vars
       PROVE  TInv' /\ Passes' /\ Served' /\ History' /\ Answers'
    BY Zenon
  <2>1. Room >= Cardinality(Vid)
    BY DEF Fits
  <2>2. TInv' /\ Served'
    BY Zenon, <2>1, NextKeeps DEF Keeps
  <2>3. Passes'
    BY Zenon, NextPasses
  <2>. QED  BY Zenon, <2>2, <2>3, NextAnswers
<1>3. IInv => KeepsDeclared
  BY Zenon, AnswersImply
<1>. QED  BY <1>1, <1>2, <1>3, PTL DEF Spec

-----------------------------------------------------------------------------
(***************************************************************************)
(* What a Join says.  Here a PDU may be full and go on where the last one  *)
(* ended.                                                                  *)
(***************************************************************************)
Tells(n) ==
    \A v \in DOMAIN link'[n].ev :
        /\ link'[n].ev[v] = "JOININ" => Registrar(n, v)' = "IN"
        /\ link'[n].ev[v] = "JOINMT" => Registrar(n, v)' # "IN"

LEMMA TransmitTells ==
    ASSUME TInv, \A v \in Vid : v - 1 \notin Vid,
           NEW n \in Node, NEW start, Transmit(n, start), link'[n] # NoPdu
    PROVE  Tells(n)
<1>. DEFINE la == lva[n]
            old == attribs[n]
            asked == [v \in DOMAIN old |->
                        IF la THEN [app |-> TxLaApplicant(old[v].app),
                                    reg |-> RegLeave(old[v].reg)]
                        ELSE [old[v] EXCEPT !.app = TxApplicant(@, old[v].reg)]]
            send == Prepared(asked, la)
            stop == Stop(asked, send, start)
            passed == {v \in DOMAIN old : v >= start /\ (stop = 0 \/ v < stop)}
            sent == send \cap passed
            after == [v \in DOMAIN old |->
                        IF v \in passed
                        THEN [asked[v] EXCEPT
                                 !.app = [mrp_applicant_chk(@, asked[v].reg)
                                            EXCEPT !.tx = FALSE]]
                        ELSE [asked[v] EXCEPT !.app.tx = v \in send]]
            final == IF ~la THEN after
                     ELSE IF stop = 0
                     THEN [v \in DOMAIN old |->
                             [app |-> Quietly(after[v].app,
                                              OnRLeave(after[v].app.state)),
                              reg |-> RegLeave(after[v].reg)]]
                     ELSE [v \in DOMAIN old |->
                             [after[v] EXCEPT !.app = TxLafApplicant(@)]]
            reclaim == \E v \in passed : AsksReclaim(asked[v].app, asked[v].reg)
            left == IF reclaim THEN Reclaimed(final) ELSE final
            ev == [v \in sent |-> Event(asked, sent, v)]
            pdu == IF sent = {} THEN NoPdu ELSE [lva |-> la, ev |-> ev]
<1>1. attribs' = [attribs EXCEPT ![n] = left] /\ link' = [link EXCEPT ![n] = pdu]
  BY Zenon DEF Transmit, TxAsked
<1>2. \A v \in DOMAIN old : /\ IsAttrib(old[v]) /\ old[v].reg \in RegistrarState
                            /\ old[v].app \in Applicant
  BY Zenon DEF TInv, Lists, Typed, Inv, NodeOK, IsList, IsAttrib
<1>3. sent \subseteq DOMAIN old /\ DOMAIN old \subseteq Vid
  BY Zenon DEF TInv, Lists, Typed
<1>4. Asked(old, asked, la) /\ Asking(old, asked, la)
  BY Zenon, <1>2, AskingIs
<1>5. /\ DOMAIN asked = DOMAIN old
      /\ \A v \in DOMAIN old : /\ IsAttrib(asked[v])
                               /\ asked[v].app.sndmsg = Message(la, old[v].app.state)
                               /\ asked[v].reg = SentReg(la, old[v].reg)
  BY Zenon, <1>4 DEF Asked, Asking
<1>6. link'[n] = pdu
  <2>. HIDE DEF pdu
  <2>. QED  BY <1>1 DEF TInv, Links
<1>. HIDE DEF asked, send, stop, passed
<1>7. ASSUME NEW v \in DOMAIN old  PROVE after[v].reg = asked[v].reg /\ IsAttrib(after[v])
  <2>1. PICK app : after[v] = [asked[v] EXCEPT !.app = app]
    BY Zenon
  <2>. HIDE DEF after
  <2>2. Parts(after[v], app, asked[v].reg)
    BY Zenon, <1>5, <2>1, GivenReg
  <2>3. IsAttrib(after[v])
    <3>1. IsAttrib(asked[v])
      BY Zenon, <1>5
    <3>. QED  BY SMT, <2>1, <3>1, GivenApp
  <2>. QED  BY Zenon, <2>2, <2>3 DEF Parts
<1>. HIDE DEF after
<1>8. ASSUME NEW v \in DOMAIN old  PROVE final[v].reg = asked[v].reg /\ v \in DOMAIN final
  <2>1. CASE ~la
    <3>1. final = after
      BY Zenon, <2>1
    <3>2. DOMAIN after = DOMAIN old
      BY Zenon DEF after
    <3>. QED  BY Zenon, <1>7, <3>1, <3>2
  <2>2. CASE la /\ stop = 0
    <3>1. /\ final[v] = [app |-> Quietly(after[v].app, OnRLeave(after[v].app.state)),
                         reg |-> RegLeave(after[v].reg)]
          /\ v \in DOMAIN final
      BY Zenon, <2>2
    <3>. HIDE DEF final
    <3>2. Parts(final[v], Quietly(after[v].app, OnRLeave(after[v].app.state)),
                RegLeave(after[v].reg))
      BY Zenon, <3>1, MadeReg
    <3>3. final[v].reg = RegLeave(after[v].reg)
      BY Zenon, <3>2 DEF Parts
    <3>4. after[v].reg = asked[v].reg /\ asked[v].reg = RegLeave(old[v].reg)
      BY Zenon, <1>5, <1>7, <2>2 DEF SentReg
    <3>5. RegLeave(RegLeave(old[v].reg)) = RegLeave(old[v].reg)
      BY Zenon, LeaveTwice
    <3>. QED  BY Zenon, <3>1, <3>3, <3>4, <3>5
  <2>3. CASE la /\ stop # 0
    <3>1. /\ final[v] = [after[v] EXCEPT !.app = TxLafApplicant(after[v].app)]
          /\ v \in DOMAIN final
      BY Zenon, <2>3
    <3>. HIDE DEF final
    <3>2. Parts(final[v], TxLafApplicant(after[v].app), after[v].reg)
      BY Zenon, <1>7, <3>1, GivenReg
    <3>. QED  BY Zenon, <1>7, <3>1, <3>2 DEF Parts
  <2>. QED  BY Zenon, <2>1, <2>2, <2>3
<1>. HIDE DEF final
<1>9. ASSUME NEW v \in DOMAIN old  PROVE Registrar(n, v)' = asked[v].reg
  <2>1. Registrar(n, v)' = Reg(attribs'[n], v)
    BY Zenon, StateIs
  <2>2. attribs'[n] = final \/ attribs'[n] = Reclaimed(final)
    BY Zenon, <1>1, NewList
  <2>3. Reg(Reclaimed(final), v) = Reg(final, v)
    BY Zenon, ReclaimedReg
  <2>4. Reg(final, v) = asked[v].reg
    BY Zenon, <1>8 DEF Reg
  <2>. QED  BY Zenon, <2>1, <2>2, <2>3, <2>4
<1>10. DOMAIN ev = sent /\ \A v \in sent : ev[v] = Event(asked, sent, v)
  BY Zenon
<1>. HIDE DEF sent, ev
<1>11. pdu.ev = ev
  <2>1. pdu = [lva |-> la, ev |-> ev]
    BY Zenon, <1>6
  <2>. HIDE DEF pdu
  <2>. QED  BY SMT, <2>1
<1>. HIDE DEF pdu
<1>12. ASSUME NEW v \in sent
       PROVE  /\ ev[v] = "JOININ" => Registrar(n, v)' = "IN"
              /\ ev[v] = "JOINMT" => Registrar(n, v)' # "IN"
  <2>. DEFINE m == Message(la, old[v].app.state)
              e == Event(asked, sent, v)
  <2>1. v \in DOMAIN old /\ sent \in SUBSET Vid /\ v - 1 \notin Vid
    BY Zenon, <1>3
  <2>2. Head(sent, v) = v
    BY Zenon, <2>1, HeadIs
  <2>3. m \in {"NEW", "JOIN", "IN", "LV"} /\ asked[v].app.sndmsg = m
    <3>1. old[v].app.state \in ApplicantState
      BY Zenon, <1>2, <2>1, ApplicantFields
    <3>. QED  BY Zenon, <1>5, <2>1, <3>1, MessageSteps
  <2>. HIDE DEF m
  <2>4. /\ e = "JOININ" => asked[Head(sent, v)].reg = "IN"
        /\ e = "JOINMT" => asked[Head(sent, v)].reg # "IN"
    <3>1. /\ e \in PduEvent
          /\ m \in {"NEW", "JOIN"} => e \in {"NEW", "JOININ", "JOINMT"}
          /\ e = "LV" => m = "LV"
          /\ e = "IN" => asked[v].reg = "IN"
          /\ e = "JOININ" => m = "JOIN" /\ asked[Head(sent, v)].reg = "IN"
          /\ e = "JOINMT" => asked[Head(sent, v)].reg # "IN"
      BY SMT, <2>3, EventIs
    <3>. QED  BY Zenon, <3>1
  <2>. QED  BY Zenon, <1>9, <1>10, <2>1, <2>2, <2>4
<1>. QED  BY Zenon, <1>6, <1>10, <1>11, <1>12 DEF Tells

LEMMA NextTells ==
    ASSUME TInv, \A v \in Vid : v - 1 \notin Vid, [Next]_vars,
           NEW n \in Node, link'[n] \notin {link[n], NoPdu}
    PROVE  Tells(n)
<1>1. link = [m \in Node |-> link[m]]
  BY Zenon DEF TInv, Links
<1>2. ~(link' = link)
  BY Zenon
<1>3. ASSUME NEW m \in Node  PROVE ~(link' = [link EXCEPT ![m] = NoPdu])
  BY <1>1
<1>4. ~Tick /\ ~UNCHANGED vars
  BY Zenon, <1>2 DEF Tick, vars
<1>5. ASSUME NEW m \in Node
      PROVE  /\ ~ClientAdd(m) /\ ~ClientBye(m) /\ ~LvTimer(m) /\ ~LvaTimer(m)
             /\ ~Periodic(m) /\ ~GcTimer(m)
             /\ \A v : ~New(m, v) /\ ~Join(m, v) /\ ~Leave(m, v)
  BY Zenon, <1>2 DEF ClientAdd, ClientBye, LvTimer, LvaTimer, Periodic, GcTimer,
                     New, Join, Leave, Command
<1>6. ASSUME NEW m \in Node  PROVE ~Receive(m) /\ ~Lose(m)
  <2>1. Peer(m) \in Node
    BY Zenon, PeerIs
  <2>. QED  BY Zenon, <1>3, <2>1 DEF Receive, Lose
<1>7. PICK m \in Node : JoinTimer(m)
  BY Zenon, <1>4, <1>5, <1>6 DEF Next, Other
<1>8. PICK start : Transmit(m, start)
  BY Zenon, <1>7 DEF JoinTimer
<1>9. \E pdu : link' = [link EXCEPT ![m] = pdu]
  BY Zenon, <1>8 DEF Transmit, TxAsked
<1>10. m = n
  BY <1>1, <1>9
<1>. QED  BY Zenon, <1>8, <1>10, TransmitTells

(***************************************************************************)
(* Of VLANs that have no neighbour a Join says what the registrar holds,   *)
(* in a full PDU and beside a LeaveAll too: that it says the state of the  *)
(* vector's first VLAN (mvrp_emit_vidvectors) is all that is wrong with    *)
(* it.                                                                     *)
(***************************************************************************)
THEOREM LoneJoinTellsRegistrar ==
    (\A v \in Vid : v - 1 \notin Vid) => (Spec => JoinTellsRegistrar)
<1>. SUFFICES ASSUME \A v \in Vid : v - 1 \notin Vid  PROVE Spec => JoinTellsRegistrar
  OBVIOUS
<1>. DEFINE A == \A n \in Node :
                    link'[n] \notin {link[n], NoPdu} =>
                        \A v \in DOMAIN link'[n].ev :
                            /\ link'[n].ev[v] = "JOININ" => Registrar(n, v)' = "IN"
                            /\ link'[n].ev[v] = "JOINMT" => Registrar(n, v)' # "IN"
<1>1. TInv /\ [Next]_vars => [A]_vars
  <2>. SUFFICES ASSUME TInv, [Next]_vars  PROVE A
    OBVIOUS
  <2>. QED  BY Zenon, NextTells DEF Tells
<1>. QED  BY <1>1, TypeInvariance, PTL DEF Spec, JoinTellsRegistrar
=============================================================================
