--------------------------------- MODULE Mrp --------------------------------
(***************************************************************************)
(* The state machines of the Multiple Registration Protocol that mrpd runs *)
(* for every attribute (mrp.c, built with MICREL_1588_PTP): the applicant, *)
(* which declares the attribute to the peer, and the registrar, which      *)
(* remembers that the peer declares it.  A table gives the next state of   *)
(* the states its switch names; every other state stays as it is.          *)
(***************************************************************************)
EXTENDS Naturals

ApplicantState == {"VO", "VP", "VN", "AN", "AA", "QA", "LA",
                   "AO", "QO", "AP", "QP", "LO"}
RegistrarState == {"IN", "LV", "MT"}

\* attrib->sndmsg; NULL means that there is nothing to send.
SndMsg == {"NEW", "JOIN", "IN", "LV", "NULL"}

\* mrp_applicant_attribute_t: mrp_state is what the peer was told, new_state
\* what it becomes once the message is sent.
Applicant == [state : ApplicantState, new : ApplicantState, tx : BOOLEAN,
              sndmsg : SndMsg, optional : BOOLEAN, aging : 0 .. 4]

\* mvrp_alloc
NewApplicant == [state |-> "VO", new |-> "VO", tx |-> FALSE,
                 sndmsg |-> "NULL", optional |-> TRUE, aging |-> 0]

\* The states in which the local client wants the attribute.
Declared == {"VP", "VN", "AN", "AA", "QA", "AP", "QP"}

-----------------------------------------------------------------------------
(***************************************************************************)
(* The applicant: requests of the client.                                  *)
(***************************************************************************)
Step(table, s) == IF s \in DOMAIN table THEN table[s] ELSE s

OnNew(s) == IF s = "AN" THEN "AN" ELSE "VN"

OnJoin(s) == Step([LO |-> "VP", VO |-> "VP", LA |-> "AA", AO |-> "AP",
                   QO |-> "QP"], s)

OnLv(s) == Step([VN |-> "LA", AN |-> "LA", AA |-> "LA", QA |-> "LA",
                 VP |-> "VO", AP |-> "AO", QP |-> "QO"], s)

(***************************************************************************)
(* The applicant: messages of the peer, on a point to point link           *)
(* (p2pmac = 1, set by mrp_init), and the periodic timer.                  *)
(***************************************************************************)
OnRJoinIn(s) == Step([AA |-> "QA", AO |-> "QO", AP |-> "QP"], s)

OnRIn(s) == Step([AA |-> "QA"], s)

OnREmpty(s) == Step([QA |-> "AA", QO |-> "AO", QP |-> "AP", LO |-> "VO"], s)

OnRLeave(s) == Step([VO |-> "LO", AN |-> "VN", QA |-> "VP", AA |-> "VP",
                     AO |-> "LO", QO |-> "LO", AP |-> "VP", QP |-> "VP"], s)

OnPeriodic(s) == Step([QA |-> "AA", QP |-> "AP"], s)

(***************************************************************************)
(* The applicant: a chance to send.  reg is the attribute's registrar      *)
(* state (mrp_db->registrar_state).                                        *)
(***************************************************************************)
\* Mutant: one Join is enough.
OnTx_once(s, reg) ==
    IF s = "AN" THEN IF reg = "IN" THEN "QA" ELSE "AA"
    ELSE Step([VP |-> "QA", VN |-> "AN", AP |-> "QA", AA |-> "QA",
               LA |-> "VO", LO |-> "VO"], s)

OnTx(s, reg) ==
    IF s = "AN" THEN IF reg = "IN" THEN "QA" ELSE "AA"
    ELSE Step([VP |-> "AA", VN |-> "AN", AP |-> "QA", AA |-> "QA",
               LA |-> "VO", LO |-> "VO"], s)

SndTx(s) ==
    CASE s \in {"VN", "AN"} -> "NEW"
      [] s \in {"VP", "AP", "AA", "QA"} -> "JOIN"
      [] s = "LA" -> "LV"
      [] OTHER -> "IN"

OptionalTx == {"VO", "QA", "AO", "QO", "QP"}

OnTxLa(s) == Step([VO |-> "LO", VP |-> "AA", VN |-> "AN", AN |-> "QA",
                   QP |-> "QA", AP |-> "QA", AA |-> "QA", LA |-> "LO",
                   AO |-> "LO", QO |-> "LO"], s)

SndTxLa(s) ==
    CASE s = "AN" -> "NEW"
      [] s \in {"VN", "QP", "AP", "AA", "QA"} -> "JOIN"
      [] OTHER -> "IN"

OptionalTxLa == {"VO", "LA", "AO", "QO", "LO"}

OnTxLaf(s) == Step([VO |-> "LO", AN |-> "VN", QP |-> "VP", AP |-> "VP",
                    AA |-> "VP", QA |-> "VP", QO |-> "LO", AO |-> "LO",
                    LA |-> "LO"], s)

-----------------------------------------------------------------------------
(***************************************************************************)
(* mrp_applicant_fsm.  An event with nothing to send moves the state at    *)
(* once; a chance to send moves new_state only and the state follows when  *)
(* the attribute is sent (mrp_applicant_chk).                              *)
(***************************************************************************)
Quietly(a, s) ==
    [a EXCEPT !.state = s, !.new = s, !.tx = FALSE, !.sndmsg = "NULL",
              !.optional = FALSE,
              !.aging = IF a.state # s /\ s = "VO" /\ a.aging = 0
                        THEN 3 ELSE a.aging]

Sending(a, s, snd, opt) ==
    [a EXCEPT !.new = s, !.tx = TRUE, !.sndmsg = snd, !.optional = opt]

TxApplicant(a, reg) ==
    Sending(a, OnTx(a.state, reg), SndTx(a.state), a.state \in OptionalTx)

TxLaApplicant(a) ==
    Sending(a, OnTxLa(a.state), SndTxLa(a.state), a.state \in OptionalTxLa)

\* Do not change state if already sent.
TxLafApplicant(a) ==
    Quietly(a, IF a.sndmsg = "NULL" THEN a.state ELSE OnTxLaf(a.state))

\* What mrp_applicant_fsm returns: b, the applicant after the event, has
\* moved to a state in which it must send.
Anxious == {"VN", "AN", "AA", "LA", "VP", "AP", "LO"}

\* Mutant: a declaration that became anxious again waits for another event.
WantsTx_new_only(a, b) == b.new # a.state /\ b.new \in {"VN", "AN", "LA"}

WantsTx(a, b) == b.new # a.state /\ b.new \in Anxious

\* mrp_applicant_chk, once the attribute has been sent or passed over.
\* Mutant: the age is not checked before it is counted down.
AgingChk_unchecked(a, reg) ==
    LET moved == IF a.new = a.state THEN a.aging
                 ELSE IF a.new = "VO" THEN IF a.aging = 0 THEN 4 ELSE a.aging
                 ELSE IF a.new = "LO" THEN a.aging ELSE 0
        known == IF reg = "MT" THEN moved ELSE 0
    IN  IF a.sndmsg # "NULL" THEN known - 1 ELSE known

AgingChk(a, reg) ==
    LET moved == IF a.new = a.state THEN a.aging
                 ELSE IF a.new = "VO" THEN IF a.aging = 0 THEN 4 ELSE a.aging
                 ELSE IF a.new = "LO" THEN a.aging ELSE 0
        known == IF reg = "MT" THEN moved ELSE 0
    IN  IF a.sndmsg # "NULL" /\ known > 1 THEN known - 1 ELSE known

mrp_applicant_chk(a, reg) ==
    [a EXCEPT !.state = a.new, !.aging = AgingChk(a, reg), !.sndmsg = "NULL"]

\* ... and whether it asks for a reclaim (mrp_db->reclaim = 2).
AsksReclaim(a, reg) ==
    a.sndmsg # "NULL" /\ AgingChk(a, reg) = 1 /\ a.new # "LO"

-----------------------------------------------------------------------------
(***************************************************************************)
(* mrp_registrar_fsm.  A leave only starts the leave timer; when that runs *)
(* out the registration is gone and the clients are told.                  *)
(***************************************************************************)
\* Mutant: the peer's leave deregisters at once.
RegLeave_at_once(r) == IF r = "IN" THEN "MT" ELSE r

RegLeave(r) == IF r = "IN" THEN "LV" ELSE r

RegJoin(r) == "IN"

RegLvTimer(r) == IF r = "LV" THEN "MT" ELSE r
=============================================================================
