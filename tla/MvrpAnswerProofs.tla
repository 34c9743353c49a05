-------------------------- MODULE MvrpAnswerProofs --------------------------
(***************************************************************************)
(* The invariant behind KeepsDeclared of Mvrp, and the steps that preserve *)
(* it other than the sending of a PDU (MvrpKeepsProofs).  The argument     *)
(* follows the answer to a LeaveAll: at any time it is on its way, or it   *)
(* is asked for by a LeaveAll on its way, or the peer is about to send it, *)
(* and the ticks that are left are enough for that.                        *)
(***************************************************************************)
EXTENDS MvrpProofs

\* The applicant state of a VLAN.
State(n, v) == Attrib(n, v).app.state

\* The states that send a Join or New with the next two chances, and with
\* the next one.
Quick == {"VP", "VN"}
Soon == {"AA", "AN"}

(***************************************************************************)
(* What the theorem takes for granted.  A PDU has room for every VLAN; the *)
(* leave timer runs for four join times at least and the LeaveAll timer    *)
(* for three (MRP_LVTIMER_VAL is five of them, MRP_LVATIMER_VAL fifty);    *)
(* and a VLAN that both ends use does not follow another VLAN in a vector, *)
(* where a JoinIn may belong to the VLAN before it (see                    *)
(* JoinTellsRegistrar).                                                    *)
(***************************************************************************)
Fits ==
    /\ Room >= Cardinality(Vid)
    /\ LvTicks >= 4 /\ LvaTicks >= 3
    /\ \A n, p \in Node : n # p =>
          \A v \in Uses[n] \cap Uses[p] : v - 1 \notin Vid

(***************************************************************************)
(* The inductive invariant.  a is the age of the leave timer of a daemon   *)
(* in ticks, b the number of Joins to come after the first.  The LeaveAll  *)
(* is on its way to the peer, or the peer is about to answer.  The peer    *)
(* may owe a LeaveAll of its own first, if its timer ran out in the pass   *)
(* that has received the LeaveAll: the answer then comes one tick later.   *)
(***************************************************************************)
Owes(n) == lva[n] \/ "lva" \in stale[n]

Ask(pdu, a, b) == pdu # NoPdu /\ pdu.lva /\ a + b <= 1

InTime(j, la, lt, a, b) ==
    IF la THEN a + j + b <= 3 ELSE a + j + b <= 4 /\ lt > j + b

Pend(s, j, la, lt, a, b) ==
    /\ s \in Quick \/ (b = 0 /\ s \in Soon)
    /\ j >= 1 /\ InTime(j, la, lt, a, b)

Come(mine, its, v, s, j, la, lt, a, b) ==
    \/ /\ its # NoPdu /\ Declares(its, v) /\ a <= 3
       /\ b = 0 \/ Ask(mine, a, 0) \/ Pend(s, j, la, lt, a, 0)
    \/ Ask(mine, a, b)
    \/ Pend(s, j, la, lt, a, b)

History == held \in [Node -> SUBSET Vid] /\ due \in [Node -> [Vid -> 0 .. 2]]

\* A PDU is delivered or lost before its sender sends the next.
OneInFlight == \A n \in Node : link[n] # NoPdu => join[n] # 1

\* What is held is declared, and declared is only what a client may use.
HeldDeclared == \A n \in Node : \A v \in held[n] : State(n, v) \in Declared

DeclaredUsed == \A n \in Node, v \in Vid : State(n, v) \in Declared => v \in Uses[n]

\* No PDU on its way withdraws what its sender holds.
NoLeaveHeld ==
    \A n \in Node : link[n] # NoPdu =>
        \A v \in DOMAIN link[n].ev : link[n].ev[v] = "LV" => v \notin held[n]

\* The sender of a LeaveAll has started its own Joins and its timer anew.
LeaveAllSent ==
    \A n \in Node : link[n] # NoPdu /\ link[n].lva =>
        /\ ~Owes(n) /\ lvat[n] = LvaTicks + 1
        /\ \A v \in held[n] : State(n, v) \in Quick

\* A PDU that says of v what makes its peer content.
Satisfies(pdu, v) ==
    /\ pdu # NoPdu /\ ~pdu.lva
    /\ v \in DOMAIN pdu.ev /\ pdu.ev[v] \in {"IN", "JOININ"}

\* Such a PDU of a daemon that waits for answers was sent before it started
\* to wait, and finds the peer where it does not silence it.
Truthful ==
    \A n, p \in Node, v \in Vid :
        n # p /\ due[n][v] > 0 /\ Satisfies(link[n], v) =>
            State(p, v) \in Quick /\ join[p] # 1

\* As long as answers are due the peer declares the VLAN and the next answer
\* comes in time.
Answered ==
    \A n, p \in Node, v \in Vid :
        n # p /\ due[n][v] > 0 =>
            /\ Registrar(n, v) = "LV"
            /\ v \in held[p]
            /\ Come(link[n], link[p], v, State(p, v), join[p], Owes(p), lvat[p],
                    LvTicks + 1 - lv[n], due[n][v] - 1)

\* No answer is due when a pass of the event loop ends the leave time early.
EndedEarly == \A n \in Node, v \in Vid : "lv" \in stale[n] => ~(due[n][v] > 0)

Answers == /\ OneInFlight /\ HeldDeclared /\ DeclaredUsed /\ NoLeaveHeld
           /\ LeaveAllSent /\ Truthful /\ Answered /\ EndedEarly

-----------------------------------------------------------------------------
LEMMA PeerOf ==
    ASSUME NEW n \in Node, NEW p \in Node, n # p
    PROVE  Peer(n) = p /\ Peer(p) = n /\ \A m \in Node : m = n \/ m = p
<1>1. \A m \in Node : m = n \/ m = p
  <2>. SUFFICES ASSUME NEW m \in Node, m # n, m # p  PROVE FALSE
    OBVIOUS
  <2>1. IsFiniteSet({n}) /\ Cardinality({n}) = 1
    BY Zenon, FS_Singleton
  <2>2. IsFiniteSet({n} \cup {p}) /\ Cardinality({n} \cup {p}) = Cardinality({n}) + 1
    BY ZenonT(30), <2>1, FS_AddElement
  <2>3. Cardinality(({n} \cup {p}) \cup {m}) = Cardinality({n} \cup {p}) + 1
        /\ IsFiniteSet(({n} \cup {p}) \cup {m})
    BY ZenonT(30), <2>2, FS_AddElement
  <2>4. ({n} \cup {p}) \cup {m} \subseteq Node
    OBVIOUS
  <2>5. Cardinality(Node) = 2
    BY SMT, MvrpAssumption
  <2>6. IsFiniteSet(Node)
    BY SMT, MvrpAssumption
  <2>7. Cardinality(({n} \cup {p}) \cup {m}) <= Cardinality(Node)
    BY Zenon, <2>4, <2>6, FS_Subset
  <2>. QED  BY SMT, <2>1, <2>2, <2>3, <2>5, <2>7
<1>. QED  BY Zenon, <1>1, PeerIs

\* The values that the invariant speaks of.
LEMMA Values ==
    ASSUME TInv, History
    PROVE  \A n \in Node :
              /\ join[n] \in 0 .. 2 /\ Owes(n) \in BOOLEAN
              /\ lvat[n] \in Nat /\ lvat[n] >= 1 /\ lvat[n] <= LvaTicks + 1
              /\ lv[n] \in Nat /\ lv[n] <= LvTicks + 1
              /\ LvTicks + 1 - lv[n] \in Nat
              /\ held[n] \subseteq Vid
              /\ \A v \in Vid : due[n][v] \in 0 .. 2
<1>. SUFFICES ASSUME NEW n \in Node
     PROVE    /\ join[n] \in 0 .. 2 /\ Owes(n) \in BOOLEAN
              /\ lvat[n] \in Nat /\ lvat[n] >= 1 /\ lvat[n] <= LvaTicks + 1
              /\ lv[n] \in Nat /\ lv[n] <= LvTicks + 1
              /\ LvTicks + 1 - lv[n] \in Nat
              /\ held[n] \subseteq Vid
              /\ \A v \in Vid : due[n][v] \in 0 .. 2
  BY Zenon
<1>1. Timers /\ lva \in [Node -> BOOLEAN]
  BY Zenon DEF TInv, Others
<1>2. LvTicks \in Nat /\ LvaTicks \in Nat
  BY MvrpAssumption
<1>3. join[n] \in 0 .. 2 /\ lvat[n] \in 1 .. LvaTicks + 1 /\ lv[n] \in 0 .. LvTicks + 1
  BY Zenon, <1>1 DEF Timers
<1>4. Owes(n) \in BOOLEAN
  BY DEF Owes
<1>5. held[n] \subseteq Vid /\ \A v \in Vid : due[n][v] \in 0 .. 2
  BY Zenon DEF History
<1>. QED  BY <1>2, <1>3, <1>4, <1>5

(***************************************************************************)
(* Most steps do not touch the PDUs and leave a declaration and the timer  *)
(* that sends it as they are, or bring it forward.                         *)
(***************************************************************************)
Firm(s, t) == /\ s \in Declared => t \in Declared
              /\ s \in Quick => t \in Quick
              /\ s \in Soon => t \in Quick \cup Soon

JoinKept(j, k) == k = j \/ (j = 0 /\ k = 2)

LeaveAllKept(n) ==
    \/ Owes(n)' = Owes(n) /\ lvat'[n] = lvat[n]
    \/ Owes(n)' /\ (Owes(n) \/ lvat[n] = 1)

CalmAt(n) ==
    /\ held'[n] \subseteq held[n]
    /\ JoinKept(join[n], join'[n])
    /\ LeaveAllKept(n)
    /\ stale'[n] \subseteq stale[n]
    /\ \A v \in Vid :
          /\ due'[n][v] > 0 => /\ due'[n][v] = due[n][v]
                               /\ Registrar(n, v)' = Registrar(n, v)
                               /\ lv'[n] = lv[n]
                               /\ \A p \in Node \ {n} : v \in held[p] => v \in held'[p]
          /\ v \in held'[n] => Firm(State(n, v), State(n, v)')
          /\ State(n, v)' \in Declared => State(n, v) \in Declared \/ v \in Uses[n]

Calm == link' = link /\ \A n \in Node : CalmAt(n)

\* The invariant after a step, with its operators kept.
LEMMA AnsweredNext ==
    ASSUME \A n, p \in Node, v \in Vid :
              n # p /\ due'[n][v] > 0 =>
                  /\ Registrar(n, v)' = "LV"
                  /\ v \in held'[p]
                  /\ Come(link'[n], link'[p], v, State(p, v)', join'[p], Owes(p)', lvat'[p],
                          LvTicks + 1 - lv'[n], due'[n][v] - 1)
    PROVE  Answered'
BY Zenon DEF Answered, Come, Ask, Pend, InTime, Declares

LEMMA TruthfulNext ==
    ASSUME \A n, p \in Node, v \in Vid :
              n # p /\ due'[n][v] > 0 /\ Satisfies(link'[n], v) =>
                  State(p, v)' \in Quick /\ join'[p] # 1
    PROVE  Truthful'
BY Zenon DEF Truthful, Satisfies

LEMMA CalmAnswers ==
    ASSUME TInv, History, TInv', History', Answers, Calm
    PROVE  Answers'
<1>1. /\ OneInFlight /\ HeldDeclared /\ DeclaredUsed /\ NoLeaveHeld
      /\ LeaveAllSent /\ Truthful /\ Answered /\ EndedEarly
  BY Zenon DEF Answers
<1>2. link' = link /\ \A n \in Node : CalmAt(n)
  BY Zenon DEF Calm
<1>3. LvaTicks \in Nat /\ LvaTicks > 0
  BY MvrpAssumption
<1>4. OneInFlight'
  <2>. SUFFICES ASSUME NEW n \in Node, link'[n] # NoPdu  PROVE join'[n] # 1
    BY Zenon DEF OneInFlight
  <2>1. join[n] # 1
    BY Zenon, <1>1, <1>2 DEF OneInFlight
  <2>2. JoinKept(join[n], join'[n])
    BY Zenon, <1>2 DEF CalmAt
  <2>. QED  BY <2>1, <2>2 DEF JoinKept
<1>5. \A n \in Node : held'[n] \subseteq held[n] /\ held[n] \subseteq Vid
  BY Zenon, <1>2, Values DEF CalmAt
<1>6. \A n \in Node : \A v \in held'[n] : Firm(State(n, v), State(n, v)')
  BY Zenon, <1>2, <1>5 DEF CalmAt
<1>7. HeldDeclared'
  <2>. SUFFICES ASSUME NEW n \in Node, NEW v \in held'[n]  PROVE State(n, v)' \in Declared
    BY Zenon DEF HeldDeclared
  <2>. QED  BY Zenon, <1>1, <1>5, <1>6 DEF HeldDeclared, Firm
<1>8. DeclaredUsed'
  <2>. SUFFICES ASSUME NEW n \in Node, NEW v \in Vid, State(n, v)' \in Declared
       PROVE  v \in Uses[n]
    BY Zenon DEF DeclaredUsed
  <2>. QED  BY Zenon, <1>1, <1>2 DEF DeclaredUsed, CalmAt
<1>9. NoLeaveHeld'
  <2>. SUFFICES ASSUME NEW n \in Node, link'[n] # NoPdu, NEW v \in DOMAIN link'[n].ev,
                       link'[n].ev[v] = "LV"
       PROVE  v \notin held'[n]
    BY Zenon DEF NoLeaveHeld
  <2>. QED  BY Zenon, <1>1, <1>2, <1>5 DEF NoLeaveHeld
<1>10. LeaveAllSent'
  <2>. SUFFICES ASSUME NEW n \in Node, link'[n] # NoPdu, link'[n].lva
       PROVE  /\ ~Owes(n)' /\ lvat'[n] = LvaTicks + 1
              /\ \A v \in held'[n] : State(n, v)' \in Quick
    BY Zenon DEF LeaveAllSent
  <2>1. /\ ~Owes(n) /\ lvat[n] = LvaTicks + 1
        /\ \A v \in held[n] : State(n, v) \in Quick
    BY Zenon, <1>1, <1>2 DEF LeaveAllSent
  <2>2. lvat[n] # 1
    BY <1>3, <2>1
  <2>3. ~Owes(n)' /\ lvat'[n] = lvat[n]
    BY Zenon, <1>2, <2>1, <2>2 DEF CalmAt, LeaveAllKept
  <2>. QED  BY Zenon, <1>5, <1>6, <2>1, <2>3 DEF Firm
<1>11. ASSUME NEW n \in Node, NEW p \in Node, n # p, NEW v \in Vid, due'[n][v] > 0
       PROVE  /\ due'[n][v] = due[n][v] /\ due[n][v] > 0
              /\ Registrar(n, v)' = Registrar(n, v) /\ lv'[n] = lv[n]
              /\ v \in held[p] /\ v \in held'[p]
              /\ Firm(State(p, v), State(p, v)')
  <2>1. /\ due'[n][v] = due[n][v]
        /\ Registrar(n, v)' = Registrar(n, v) /\ lv'[n] = lv[n]
        /\ v \in held[p] => v \in held'[p]
    BY Zenon, <1>2, <1>11 DEF CalmAt
  <2>2. due[n][v] > 0
    BY Zenon, <1>11, <2>1
  <2>3. v \in held[p]
    BY Zenon, <1>1, <1>11, <2>2 DEF Answered
  <2>. QED  BY Zenon, <1>6, <2>1, <2>2, <2>3
<1>12. Truthful'
  <2>. SUFFICES ASSUME NEW n \in Node, NEW p \in Node, NEW v \in Vid,
                       n # p, due'[n][v] > 0, Satisfies(link'[n], v)
       PROVE  State(p, v)' \in Quick /\ join'[p] # 1
    BY Zenon, TruthfulNext
  <2>1. due[n][v] > 0 /\ Firm(State(p, v), State(p, v)')
    BY Zenon, <1>11
  <2>2. State(p, v) \in Quick /\ join[p] # 1
    BY Zenon, <1>1, <1>2, <2>1 DEF Truthful
  <2>3. JoinKept(join[p], join'[p])
    BY Zenon, <1>2 DEF CalmAt
  <2>4. join'[p] # 1
    BY <2>2, <2>3 DEF JoinKept
  <2>. QED  BY Zenon, <2>1, <2>2, <2>4 DEF Firm
<1>13. Answered'
  <2>. SUFFICES ASSUME NEW n \in Node, NEW p \in Node, NEW v \in Vid, n # p, due'[n][v] > 0
       PROVE  /\ Registrar(n, v)' = "LV"
              /\ v \in held'[p]
              /\ Come(link'[n], link'[p], v, State(p, v)', join'[p], Owes(p)', lvat'[p],
                      LvTicks + 1 - lv'[n], due'[n][v] - 1)
    BY Zenon, AnsweredNext
  <2>1. /\ due'[n][v] = due[n][v] /\ due[n][v] > 0
        /\ Registrar(n, v)' = Registrar(n, v) /\ lv'[n] = lv[n]
        /\ v \in held'[p] /\ Firm(State(p, v), State(p, v)')
    BY Zenon, <1>11
  <2>2. /\ Registrar(n, v) = "LV"
        /\ Come(link[n], link[p], v, State(p, v), join[p], Owes(p), lvat[p],
                LvTicks + 1 - lv[n], due[n][v] - 1)
    BY Zenon, <1>1, <2>1 DEF Answered
  <2>3. /\ JoinKept(join[p], join'[p])
        /\ LeaveAllKept(p)
    BY Zenon, <1>2 DEF CalmAt
  <2>4. join[p] \in 0 .. 2 /\ lvat[p] \in Nat /\ LvTicks + 1 - lv[n] \in Nat
    BY Zenon, Values
  <2>6. due[n][v] - 1 \in 0 .. 1
    <3>1. due[n][v] \in 0 .. 2
      BY Zenon, Values
    <3>. QED  BY <2>1, <3>1
  <2>7. Come(link[n], link[p], v, State(p, v)', join'[p], Owes(p)', lvat'[p],
             LvTicks + 1 - lv[n], due[n][v] - 1)
    <3>. DEFINE was(c) == Pend(State(p, v), join[p], Owes(p), lvat[p],
                               LvTicks + 1 - lv[n], c)
                is(c) == Pend(State(p, v)', join'[p], Owes(p)', lvat'[p],
                              LvTicks + 1 - lv[n], c)
    <3>1. \A c \in 0 .. 1 : was(c) => is(c)
      <4>. SUFFICES ASSUME NEW c \in 0 .. 1, was(c)  PROVE is(c)
        OBVIOUS
      <4>1. join'[p] = join[p] /\ join[p] >= 1
        BY <2>3, <2>4 DEF Pend, JoinKept
      <4>2. State(p, v)' \in Quick \/ (c = 0 /\ State(p, v)' \in Soon)
        BY Zenon, <2>1 DEF Pend, Firm
      <4>3. ~Owes(p) => lvat[p] # 1
        <5>1. ~Owes(p) => lvat[p] > join[p] + c
          BY Zenon DEF Pend, InTime
        <5>. QED  BY <2>4, <4>1, <5>1
      <4>4. InTime(join'[p], Owes(p)', lvat'[p], LvTicks + 1 - lv[n], c)
        BY Zenon, <2>3, <4>1, <4>3 DEF Pend, InTime, LeaveAllKept
      <4>. QED  BY Zenon, <4>1, <4>2, <4>4 DEF Pend
    <3>2. 0 \in 0 .. 1
      OBVIOUS
    <3>. QED  BY Zenon, <2>2, <2>6, <3>1, <3>2 DEF Come
  <2>. QED  BY Zenon, <1>2, <2>1, <2>2, <2>7
<1>14. EndedEarly'
  <2>. SUFFICES ASSUME NEW n \in Node, NEW v \in Vid, "lv" \in stale'[n], due'[n][v] > 0
       PROVE  FALSE
    BY Zenon DEF EndedEarly
  <2>1. "lv" \in stale[n] /\ due'[n][v] = due[n][v]
    BY Zenon, <1>2 DEF CalmAt
  <2>. QED  BY Zenon, <1>1, <2>1 DEF EndedEarly
<1>. QED  BY Zenon, <1>4, <1>7, <1>8, <1>9, <1>10, <1>12, <1>13, <1>14 DEF Answers

-----------------------------------------------------------------------------
(***************************************************************************)
(* The calm steps.                                                         *)
(***************************************************************************)
StateIn(list, v) == IF v \in DOMAIN list THEN list[v].app.state ELSE "VO"

LEMMA StateIs ==
    ASSUME NEW n, NEW v
    PROVE  /\ State(n, v) = StateIn(attribs[n], v)
           /\ State(n, v)' = StateIn(attribs'[n], v)
           /\ Registrar(n, v) = Reg(attribs[n], v)
           /\ Registrar(n, v)' = Reg(attribs'[n], v)
<1>1. NewAttrib.app.state = "VO" /\ NewAttrib.reg = "MT"
  BY DEF NewAttrib, NewApplicant
<1>2. State(n, v) = StateIn(attribs[n], v)
  BY Zenon, <1>1 DEF State, StateIn, Attrib, Listed
<1>3. State(n, v)' = StateIn(attribs'[n], v)
  BY Zenon, <1>1 DEF State, StateIn, Attrib, Listed, NewAttrib, NewApplicant
<1>4. Registrar(n, v) = Reg(attribs[n], v)
  BY Zenon, <1>1 DEF Registrar, Reg, Attrib, Listed
<1>5. Registrar(n, v)' = Reg(attribs'[n], v)
  BY Zenon, <1>1 DEF Registrar, Reg, Attrib, Listed, NewAttrib, NewApplicant
<1>. QED  BY Zenon, <1>2, <1>3, <1>4, <1>5

LEMMA SameList ==
    ASSUME NEW n, attribs'[n] = attribs[n], NEW v
    PROVE  /\ State(n, v)' = State(n, v) /\ Registrar(n, v)' = Registrar(n, v)
           /\ Firm(State(n, v), State(n, v)')
<1>1. State(n, v)' = State(n, v) /\ Registrar(n, v)' = Registrar(n, v)
  BY Zenon, StateIs
<1>. QED  BY Zenon, <1>1 DEF Firm

LEMMA NewList ==
    ASSUME TInv, NEW n \in Node, NEW list, attribs' = [attribs EXCEPT ![n] = list]
    PROVE  attribs'[n] = list /\ \A m \in Node : m # n => attribs'[m] = attribs[m]
BY DEF TInv, Inv

LEMMA TxOpIs ==
    ASSUME TInv, NEW n \in Node, NEW wants, TxOp(n, wants)
    PROVE  JoinKept(join[n], join'[n]) /\ \A m \in Node : m # n => join'[m] = join[m]
<1>1. join \in [Node -> 0 .. 2]
  BY Zenon DEF TInv, Timers
<1>. QED  BY <1>1 DEF TxOp, JoinKept, mrp_jointimer_start

FirmList(n, list) ==
    \A v \in Vid :
        /\ Firm(State(n, v), StateIn(list, v))
        /\ StateIn(list, v) \in Declared => State(n, v) \in Declared \/ v \in Uses[n]
        /\ Reg(list, v) = Registrar(n, v)

TimersKept(n) ==
    /\ JoinKept(join[n], join'[n]) /\ \A m \in Node : m # n => join'[m] = join[m]
    /\ \A m \in Node : LeaveAllKept(m)

LEMMA LeaveAllSame ==
    ASSUME NEW n, lva'[n] = lva[n], lvat'[n] = lvat[n], stale'[n] = stale[n]
    PROVE  Owes(n)' = Owes(n) /\ LeaveAllKept(n)
<1>1. Owes(n)' = Owes(n)
  BY Zenon DEF Owes
<1>. QED  BY Zenon, <1>1 DEF LeaveAllKept

LEMMA QuietCalm ==
    ASSUME TInv, NEW n \in Node, NEW list, attribs' = [attribs EXCEPT ![n] = list],
           FirmList(n, list), TimersKept(n),
           stale' = stale, link' = link, lv' = lv, held' = held, due' = due
    PROVE  Calm
<1>1. attribs'[n] = list /\ \A m \in Node : m # n => attribs'[m] = attribs[m]
  BY Zenon, NewList
<1>3. ASSUME NEW m \in Node, NEW v \in Vid
      PROVE  /\ Firm(State(m, v), State(m, v)')
             /\ State(m, v)' \in Declared => State(m, v) \in Declared \/ v \in Uses[m]
             /\ Registrar(m, v)' = Registrar(m, v)
  <2>1. CASE m = n
    <3>0. /\ State(n, v)' = StateIn(attribs'[n], v)
          /\ Registrar(n, v)' = Reg(attribs'[n], v)
      BY Zenon, StateIs
    <3>1. State(n, v)' = StateIn(list, v) /\ Registrar(n, v)' = Reg(list, v)
      BY Zenon, <1>1, <3>0
    <3>2. /\ Firm(State(n, v), State(n, v)')
          /\ State(n, v)' \in Declared => State(n, v) \in Declared \/ v \in Uses[n]
          /\ Registrar(n, v)' = Registrar(n, v)
      BY Zenon, <3>1 DEF FirmList
    <3>. QED  BY <2>1, <3>2
  <2>2. CASE m # n
    <3>1. /\ State(m, v)' = State(m, v) /\ Registrar(m, v)' = Registrar(m, v)
          /\ Firm(State(m, v), State(m, v)')
      BY Zenon, <1>1, <2>2, SameList
    <3>. QED  BY Zenon, <3>1
  <2>. QED  BY Zenon, <2>1, <2>2
<1>4. \A m \in Node : JoinKept(join[m], join'[m]) /\ LeaveAllKept(m)
  BY Zenon DEF JoinKept, TimersKept
<1>5. ASSUME NEW m \in Node  PROVE CalmAt(m)
  BY Zenon, <1>3, <1>4 DEF CalmAt
<1>. QED  BY Zenon, <1>5 DEF Calm

LEMMA ClientCalm ==
    ASSUME TInv, UNCHANGED <<attribs, lva, join, lv, lvat, stale, link, held, due>>
    PROVE  Calm
<1>1. /\ attribs' = attribs /\ lva' = lva /\ join' = join /\ lv' = lv /\ lvat' = lvat
      /\ stale' = stale /\ link' = link /\ held' = held /\ due' = due
  OBVIOUS
<1>2. ASSUME NEW m \in Node  PROVE CalmAt(m)
  BY Zenon, <1>1, SameList, LeaveAllSame DEF CalmAt, JoinKept
<1>. QED  BY Zenon, <1>1, <1>2 DEF Calm

LEMMA LvaTimerCalm ==
    ASSUME TInv, Passes, NEW n \in Node, LvaTimer(n)
    PROVE  Calm
<1>1. /\ Handled(n, "lva")
      /\ lva' = [lva EXCEPT ![n] = TRUE] /\ lvat' = [lvat EXCEPT ![n] = LvaTicks + 1]
      /\ TxOp(n, ~lva[n])
      /\ attribs' = attribs /\ lv' = lv /\ link' = link /\ held' = held /\ due' = due
  BY DEF LvaTimer
<1>2. \A m \in Node : stale'[m] \subseteq stale[m] /\ (m # n => stale'[m] = stale[m])
  BY <1>1 DEF Passes, Handled
<1>3. \A m \in Node : JoinKept(join[m], join'[m])
  BY Zenon, <1>1, TxOpIs DEF JoinKept
<1>4. ASSUME NEW m \in Node  PROVE LeaveAllKept(m)
  <2>1. CASE m = n
    <3>1. Owes(n)'
      <4>1. lva'[n] = TRUE
        BY <1>1 DEF TInv, Others
      <4>. QED  BY Zenon, <4>1 DEF Owes
    <3>2. Owes(n) \/ lvat[n] = 1
      <4>1. "lva" \in stale[n] \/ "lva" \in RunOut(n)
        BY Zenon, <1>1 DEF Handled
      <4>2. "lva" \in RunOut(n) => lvat[n] = 1
        BY DEF RunOut
      <4>. QED  BY Zenon, <4>1, <4>2 DEF Owes
    <3>. QED  BY Zenon, <2>1, <3>1, <3>2 DEF LeaveAllKept
  <2>2. CASE m # n
    <3>1. lva'[m] = lva[m] /\ lvat'[m] = lvat[m]
      BY <1>1, <2>2 DEF TInv, Timers, Others
    <3>. QED  BY Zenon, <1>2, <2>2, <3>1, LeaveAllSame
  <2>. QED  BY Zenon, <2>1, <2>2
<1>5. ASSUME NEW m \in Node  PROVE CalmAt(m)
  BY Zenon, <1>1, <1>2, <1>3, <1>4, SameList DEF CalmAt
<1>. QED  BY Zenon, <1>1, <1>5 DEF Calm

\* Reclaiming drops only what is not declared.
LEMMA ReclaimedState ==
    ASSUME NEW list, NEW v
    PROVE  \/ StateIn(Reclaimed(list), v) = StateIn(list, v)
           \/ StateIn(Reclaimed(list), v) = "VO" /\ StateIn(list, v) \in {"VO", "AO", "QO"}
<1>1. /\ DOMAIN Reclaimed(list) = {w \in DOMAIN list : ~Reclaimable(list[w])}
      /\ \A w \in DOMAIN Reclaimed(list) : Reclaimed(list)[w] = list[w]
  BY Zenon DEF Reclaimed
<1>. QED  BY Zenon, <1>1 DEF StateIn, Reclaimable

LEMMA FirmReclaimed ==
    ASSUME NEW list, NEW v
    PROVE  /\ Firm(StateIn(list, v), StateIn(Reclaimed(list), v))
           /\ StateIn(Reclaimed(list), v) \in Declared => StateIn(list, v) \in Declared
<1>1. \A s \in {"VO", "AO", "QO"} : s \notin Declared /\ s \notin Quick /\ s \notin Soon
  BY DEF Declared, Quick, Soon
<1>. DEFINE s == StateIn(list, v)
            t == StateIn(Reclaimed(list), v)
<1>2. t = s \/ (t = "VO" /\ s \in {"VO", "AO", "QO"})
  BY Zenon, ReclaimedState
<1>. HIDE DEF s, t
<1>3. Firm(s, t) /\ (t \in Declared => s \in Declared)
  BY SMT, <1>1, <1>2 DEF Firm
<1>. QED  BY Zenon, <1>3 DEF s, t

LEMMA GcTimerCalm ==
    ASSUME TInv, stale' = stale, NEW n \in Node, GcTimer(n)
    PROVE  Calm
<1>1. /\ attribs' = [attribs EXCEPT ![n] = Reclaimed(attribs[n])]
      /\ lva' = lva /\ join' = join /\ lvat' = lvat
      /\ link' = link /\ lv' = lv /\ held' = held /\ due' = due
  BY DEF GcTimer
<1>2. IsList(attribs[n])
  BY Zenon DEF TInv, Inv, NodeOK
<1>3. ASSUME NEW v \in Vid
      PROVE  /\ Firm(State(n, v), StateIn(Reclaimed(attribs[n]), v))
             /\ StateIn(Reclaimed(attribs[n]), v) \in Declared => State(n, v) \in Declared
             /\ Reg(Reclaimed(attribs[n]), v) = Registrar(n, v)
  BY Zenon, <1>2, ReclaimedIs, FirmReclaimed, StateIs
<1>4. TimersKept(n)
  BY Zenon, <1>1, LeaveAllSame DEF TimersKept, JoinKept
<1>5. FirmList(n, Reclaimed(attribs[n]))
  BY Zenon, <1>3 DEF FirmList
<1>. QED  BY Zenon, <1>1, <1>4, <1>5, QuietCalm

LEMMA FirmSteps ==
    ASSUME NEW s \in ApplicantState
    PROVE  /\ Firm(s, OnNew(s)) /\ Firm(s, OnJoin(s)) /\ Firm(s, OnPeriodic(s))
           /\ OnPeriodic(s) \in Declared => s \in Declared
           /\ OnLv(s) \notin Declared
<1>1. Firm(s, OnNew(s))
  BY DEF ApplicantState, Firm, Quick, Soon, Declared, OnNew
<1>2. Firm(s, OnJoin(s))
  BY DEF ApplicantState, Firm, Quick, Soon, Declared, OnJoin, Step
<1>3. Firm(s, OnPeriodic(s))
  BY DEF ApplicantState, Firm, Quick, Soon, Declared, OnPeriodic, Step
<1>4. OnPeriodic(s) \in Declared => s \in Declared
  BY DEF ApplicantState, Declared, OnPeriodic, Step
<1>5. OnLv(s) \notin Declared
  BY DEF ApplicantState, Declared, OnLv, Step
<1>. QED  BY Zenon, <1>1, <1>2, <1>3, <1>4, <1>5

LEMMA PeriodicCalm ==
    ASSUME TInv, stale' = stale, NEW n \in Node, Periodic(n)
    PROVE  Calm
<1>. DEFINE new == [v \in Listed(n) |->
                      [attribs[n][v] EXCEPT !.app = Quietly(@, OnPeriodic(@.state))]]
<1>1. attribs' = [attribs EXCEPT ![n] = new] /\ TxOp(n, Wants(attribs[n], new))
  BY Zenon DEF Periodic
<1>2. /\ lva' = lva /\ lvat' = lvat
      /\ link' = link /\ lv' = lv /\ held' = held /\ due' = due
  BY DEF Periodic
<1>3. DOMAIN new = DOMAIN attribs[n]
  BY Zenon DEF Listed
<1>4. ASSUME NEW v \in DOMAIN attribs[n]
      PROVE  new[v].app.state = OnPeriodic(attribs[n][v].app.state)
             /\ new[v].reg = attribs[n][v].reg
             /\ attribs[n][v].app.state \in ApplicantState
  <2>. DEFINE a == attribs[n][v]
              app == Quietly(a.app, OnPeriodic(a.app.state))
  <2>1. IsAttrib(a) /\ a.app \in Applicant
    BY Zenon DEF TInv, Inv, NodeOK, IsList, Lists, Typed
  <2>2. a.app.state \in ApplicantState
    BY Zenon, <2>1, ApplicantFields
  <2>3. OnPeriodic(a.app.state) \in ApplicantState
    BY Zenon, <2>2, ApplicantSteps
  <2>4. app.state = OnPeriodic(a.app.state)
    BY Zenon, <2>1, <2>3, QuietlyIs
  <2>5. new[v] = [a EXCEPT !.app = app]
    BY Zenon DEF Listed
  <2>. DEFINE b == new[v]
  <2>. HIDE DEF app, new, a
  <2>6. b = [a EXCEPT !.app = app]
    BY Zenon, <2>5
  <2>. HIDE DEF b
  <2>7. b.app = app /\ b.reg = a.reg
    BY Zenon, <2>1, <2>6, GivenApp, WithApp
  <2>8. b.app.state = app.state
    BY <2>7
  <2>. QED  BY Zenon, <2>2, <2>4, <2>7, <2>8 DEF a, b
<1>. HIDE DEF new
<1>5. FirmList(n, new)
  <2>. SUFFICES ASSUME NEW v \in Vid
       PROVE  /\ Firm(State(n, v), StateIn(new, v))
              /\ StateIn(new, v) \in Declared => State(n, v) \in Declared
              /\ Reg(new, v) = Registrar(n, v)
    BY Zenon DEF FirmList
  <2>1. State(n, v) = StateIn(attribs[n], v) /\ Registrar(n, v) = Reg(attribs[n], v)
    BY Zenon, StateIs
  <2>2. CASE v \in DOMAIN attribs[n]
    <3>1. /\ StateIn(new, v) = OnPeriodic(State(n, v)) /\ Reg(new, v) = Registrar(n, v)
          /\ State(n, v) \in ApplicantState
      BY Zenon, <1>3, <1>4, <2>1, <2>2 DEF StateIn, Reg
    <3>. QED  BY Zenon, <3>1, FirmSteps
  <2>3. CASE v \notin DOMAIN attribs[n]
    BY Zenon, <1>3, <2>1, <2>3 DEF StateIn, Reg, Firm
  <2>. QED  BY Zenon, <2>2, <2>3
<1>6. TimersKept(n)
  BY Zenon, <1>1, <1>2, TxOpIs, LeaveAllSame DEF TimersKept
<1>. QED  BY Zenon, <1>1, <1>2, <1>5, <1>6, QuietCalm

\* A request changes the applicant of one VLAN.
Requested(n, v, s, list) ==
    /\ attribs' = [attribs EXCEPT ![n] = list]
    /\ StateIn(list, v) = s
    /\ \A w : /\ w # v => StateIn(list, w) = State(n, w)
              /\ Reg(list, w) = Registrar(n, w)

LEMMA CommandIs ==
    ASSUME TInv, stale' = stale,
           NEW n \in Node, NEW v, NEW s \in ApplicantState, Command(n, v, s)
    PROVE  /\ \E list : Requested(n, v, s, list)
           /\ TimersKept(n) /\ link' = link /\ lv' = lv
<1>. DEFINE a == Attrib(n, v)
            b == [a EXCEPT !.app = Quietly(a.app, s)]
            list == [w \in Listed(n) \cup {v} |-> IF w = v THEN b ELSE attribs[n][w]]
<1>1. attribs' = [attribs EXCEPT ![n] = list] /\ TxOp(n, WantsTx(a.app, b.app))
  BY Zenon DEF Command
<1>2. lva' = lva /\ lvat' = lvat /\ link' = link /\ lv' = lv
  BY DEF Command
<1>3. IsAttrib(a) /\ a.app \in Applicant /\ a.reg = Reg(attribs[n], v)
  BY Zenon, ListAttrib, AttribTyped DEF TInv, Lists
<1>4. /\ DOMAIN list = Listed(n) \cup {v}
      /\ list[v] = b
      /\ \A w \in Listed(n) \ {v} : list[w] = attribs[n][w]
  BY Zenon
<1>. DEFINE app == Quietly(a.app, s)
<1>5. app.state = s
  BY Zenon, <1>3, QuietlyIs
<1>. HIDE DEF app
<1>6. b = [a EXCEPT !.app = app]
  BY Zenon DEF app
<1>. HIDE DEF a, b, list
<1>7. b.app = app /\ b.reg = a.reg
  BY Zenon, <1>3, <1>6, GivenApp, WithApp
<1>8. StateIn(list, v) = s /\ Reg(list, v) = Reg(attribs[n], v)
  <2>1. list[v].app.state = s
    BY <1>4, <1>5, <1>7
  <2>. QED  BY Zenon, <1>3, <1>4, <1>7, <2>1 DEF StateIn, Reg
<1>9. \A w : w # v => StateIn(list, w) = StateIn(attribs[n], w)
                      /\ Reg(list, w) = Reg(attribs[n], w)
  BY Zenon, <1>4 DEF StateIn, Reg, Listed
<1>10. Requested(n, v, s, list)
  BY Zenon, <1>1, <1>8, <1>9, StateIs DEF Requested
<1>11. TimersKept(n)
  BY Zenon, <1>1, <1>2, TxOpIs, LeaveAllSame DEF TimersKept
<1>. QED  BY Zenon, <1>2, <1>10, <1>11

LEMMA StateTyped ==
    ASSUME TInv, NEW n \in Node, NEW v
    PROVE  State(n, v) \in ApplicantState /\ Registrar(n, v) \in RegistrarState
<1>1. State(n, v) \in ApplicantState
  BY Zenon, AttribTyped DEF TInv, Lists, State
<1>2. Registrar(n, v) \in RegistrarState
  BY Zenon, ListAttrib DEF TInv, IsAttrib, Registrar
<1>. QED  BY Zenon, <1>1, <1>2

LEMMA DeclareCalm ==
    ASSUME TInv, stale' = stale, NEW n \in Node, NEW v \in Uses[n], New(n, v) \/ Join(n, v)
    PROVE  Calm
<1>1. PICK s \in ApplicantState : Command(n, v, s) /\ Firm(State(n, v), s)
  <2>1. State(n, v) \in ApplicantState
    BY Zenon, StateTyped
  <2>2. /\ Firm(State(n, v), OnNew(State(n, v))) /\ Firm(State(n, v), OnJoin(State(n, v)))
        /\ OnNew(State(n, v)) \in ApplicantState /\ OnJoin(State(n, v)) \in ApplicantState
    BY Zenon, <2>1, ApplicantSteps, FirmSteps
  <2>3. Command(n, v, OnNew(State(n, v))) \/ Command(n, v, OnJoin(State(n, v)))
    BY Zenon DEF New, Join, State
  <2>. QED  BY Zenon, <2>2, <2>3
<1>2. held' = held /\ due' = due
  BY DEF New, Join
<1>3. PICK list : Requested(n, v, s, list)
  BY Zenon, <1>1, CommandIs
<1>4. TimersKept(n) /\ link' = link /\ lv' = lv
  BY Zenon, <1>1, CommandIs
<1>5. FirmList(n, list)
  BY Zenon, <1>1, <1>3 DEF FirmList, Requested, Firm
<1>. QED  BY Zenon, <1>2, <1>3, <1>4, <1>5, QuietCalm DEF Requested

LEMMA LeaveHistory ==
    ASSUME History, NEW n \in Node, NEW p \in Node, n # p, NEW v \in Vid, Leave(n, v)
    PROVE  /\ History'
           /\ held'[n] = held[n] \ {v} /\ held'[p] = held[p]
           /\ due'[n] = due[n]
           /\ due'[p][v] = 0 /\ \A w \in Vid \ {v} : due'[p][w] = due[p][w]
<1>1. /\ held' = [held EXCEPT ![n] = held[n] \ {v}]
      /\ due' = [due EXCEPT ![Peer(n)] = [due[Peer(n)] EXCEPT ![v] = 0]]
  BY Zenon DEF Leave
<1>2. Peer(n) = p
  BY Zenon, PeerOf
<1>3. held \in [Node -> SUBSET Vid] /\ due \in [Node -> [Vid -> 0 .. 2]]
  BY DEF History
<1>4. held' \in [Node -> SUBSET Vid] /\ held'[n] = held[n] \ {v} /\ held'[p] = held[p]
  BY <1>1, <1>3
<1>. DEFINE d == [due[p] EXCEPT ![v] = 0]
<1>5. due' = [due EXCEPT ![p] = d]
  BY Zenon, <1>1, <1>2
<1>6. due[p] \in [Vid -> 0 .. 2]
  BY <1>3
<1>7. /\ d \in [Vid -> 0 .. 2] /\ d[v] = 0
      /\ \A w \in Vid \ {v} : d[w] = due[p][w]
  BY <1>6
<1>. HIDE DEF d
<1>8. due' \in [Node -> [Vid -> 0 .. 2]] /\ due'[n] = due[n] /\ due'[p] = d
  BY <1>3, <1>5, <1>7
<1>. QED  BY Zenon, <1>4, <1>7, <1>8 DEF History

LEMMA LeaveCalm ==
    ASSUME TInv, History, stale' = stale, NEW n \in Node, NEW v \in Vid, Leave(n, v)
    PROVE  Calm /\ History'
<1>1. PICK p \in Node : n # p
  BY Zenon, PeerIs
<1>2. \A m \in Node : m = n \/ m = p
  BY Zenon, <1>1, PeerOf
<1>3. /\ History'
      /\ held'[n] = held[n] \ {v} /\ held'[p] = held[p]
      /\ due'[n] = due[n]
      /\ due'[p][v] = 0 /\ \A w \in Vid \ {v} : due'[p][w] = due[p][w]
  BY SMT, <1>1, LeaveHistory
<1>4. State(n, v) \in ApplicantState
  BY Zenon, StateTyped
<1>5. PICK s \in ApplicantState : Command(n, v, s) /\ s \notin Declared
  <2>1. OnLv(State(n, v)) \in ApplicantState /\ OnLv(State(n, v)) \notin Declared
    BY Zenon, <1>4, ApplicantSteps, FirmSteps
  <2>2. Command(n, v, OnLv(State(n, v)))
    BY Zenon DEF Leave, State
  <2>. QED  BY Zenon, <2>1, <2>2
<1>6. PICK list : Requested(n, v, s, list)
  BY Zenon, <1>5, CommandIs
<1>7. TimersKept(n) /\ link' = link /\ lv' = lv
  BY Zenon, <1>5, CommandIs
<1>8. \A m \in Node : JoinKept(join[m], join'[m]) /\ LeaveAllKept(m)
  BY Zenon, <1>7 DEF JoinKept, TimersKept
<1>9. attribs'[n] = list /\ attribs'[p] = attribs[p]
  BY Zenon, <1>1, <1>6, NewList DEF Requested
<1>10. ASSUME NEW w
       PROVE  /\ Registrar(n, w)' = Registrar(n, w)
              /\ w # v => State(n, w)' = State(n, w)
              /\ w = v => State(n, w)' = s
  <2>1. State(n, w)' = StateIn(attribs'[n], w) /\ Registrar(n, w)' = Reg(attribs'[n], w)
    BY Zenon, StateIs
  <2>2. State(n, w)' = StateIn(list, w) /\ Registrar(n, w)' = Reg(list, w)
    BY Zenon, <1>9, <2>1
  <2>. QED  BY Zenon, <1>6, <2>2 DEF Requested
<1>11. CalmAt(n)
  <2>1. ASSUME NEW w \in Vid
        PROVE  /\ due'[n][w] > 0 => /\ due'[n][w] = due[n][w]
                                    /\ Registrar(n, w)' = Registrar(n, w)
                                    /\ lv'[n] = lv[n]
                                    /\ \A q \in Node \ {n} : w \in held[q] => w \in held'[q]
               /\ w \in held'[n] => Firm(State(n, w), State(n, w)')
               /\ State(n, w)' \in Declared => State(n, w) \in Declared \/ w \in Uses[n]
    <3>1. \A q \in Node \ {n} : w \in held[q] => w \in held'[q]
      BY Zenon, <1>2, <1>3
    <3>2. w \in held'[n] => State(n, w)' = State(n, w)
      BY Zenon, <1>3, <1>10
    <3>3. w \in held'[n] => Firm(State(n, w), State(n, w)')
      BY Zenon, <3>2 DEF Firm
    <3>4. State(n, w)' \in Declared => State(n, w) \in Declared
      BY Zenon, <1>5, <1>10
    <3>. QED  BY Zenon, <1>3, <1>7, <1>10, <3>1, <3>3, <3>4
  <2>2. held'[n] \subseteq held[n]
    BY Zenon, <1>3
  <2>. QED  BY Zenon, <1>8, <2>1, <2>2 DEF CalmAt
<1>12. CalmAt(p)
  <2>1. ASSUME NEW w \in Vid
        PROVE  /\ due'[p][w] > 0 => /\ due'[p][w] = due[p][w]
                                    /\ Registrar(p, w)' = Registrar(p, w)
                                    /\ lv'[p] = lv[p]
                                    /\ \A q \in Node \ {p} : w \in held[q] => w \in held'[q]
               /\ w \in held'[p] => Firm(State(p, w), State(p, w)')
               /\ State(p, w)' \in Declared => State(p, w) \in Declared \/ w \in Uses[p]
    <3>1. ~(due'[p][v] > 0)
      BY <1>3
    <3>2. w # v => \A q \in Node \ {p} : w \in held[q] => w \in held'[q]
      BY Zenon, <1>2, <1>3
    <3>3. /\ State(p, w)' = State(p, w) /\ Registrar(p, w)' = Registrar(p, w)
          /\ Firm(State(p, w), State(p, w)')
      BY Zenon, <1>9, SameList
    <3>. QED  BY Zenon, <1>3, <1>7, <3>1, <3>2, <3>3
  <2>2. held'[p] \subseteq held[p]
    BY Zenon, <1>3
  <2>. QED  BY Zenon, <1>1, <1>8, <2>1, <2>2 DEF CalmAt
<1>. QED  BY Zenon, <1>2, <1>3, <1>7, <1>11, <1>12 DEF Calm

-----------------------------------------------------------------------------
\* What Counts does.
LEMMA CountsIs ==
    ASSUME History, NEW n \in Node, NEW p \in Node, n # p, NEW over, Counts(n, over),
           held' = held
    PROVE  /\ History'
           /\ due'[p] = due[p]
           /\ \A v \in Vid :
                 due'[n][v] > 0 =>
                    /\ Registrar(n, v)' = "LV"
                    /\ \/ Registrar(n, v) = "LV" /\ due'[n][v] = due[n][v]
                       \/ /\ Registrar(n, v) # "LV" /\ due'[n][v] = 2
                          /\ v \in held[p] /\ ~over
<1>1. Peer(n) = p
  BY Zenon, PeerOf
<1>2. held \in [Node -> SUBSET Vid] /\ due \in [Node -> [Vid -> 0 .. 2]]
  BY DEF History
<1>. DEFINE d == [v \in Vid |->
                    IF Registrar(n, v)' # "LV" THEN 0
                    ELSE IF Registrar(n, v) = "LV" THEN due[n][v]
                    ELSE IF v \in held[p] /\ ~over THEN 2 ELSE 0]
<1>3. due' = [due EXCEPT ![n] = d]
  BY Zenon, <1>1 DEF Counts
<1>4. due[n] \in [Vid -> 0 .. 2]
  BY <1>2
<1>5. d \in [Vid -> 0 .. 2]
  BY <1>4
<1>6. \A v \in Vid :
         d[v] > 0 => /\ Registrar(n, v)' = "LV"
                     /\ \/ Registrar(n, v) = "LV" /\ d[v] = due[n][v]
                        \/ Registrar(n, v) # "LV" /\ d[v] = 2 /\ v \in held[p] /\ ~over
  <2>. SUFFICES ASSUME NEW v \in Vid, d[v] > 0
       PROVE  /\ Registrar(n, v)' = "LV"
              /\ \/ Registrar(n, v) = "LV" /\ d[v] = due[n][v]
                 \/ Registrar(n, v) # "LV" /\ d[v] = 2 /\ v \in held[p] /\ ~over
    BY Zenon
  <2>1. d[v] = IF Registrar(n, v)' # "LV" THEN 0
               ELSE IF Registrar(n, v) = "LV" THEN due[n][v]
               ELSE IF v \in held[p] /\ ~over THEN 2 ELSE 0
    BY Zenon
  <2>. HIDE DEF d
  <2>. QED  BY <2>1
<1>. HIDE DEF d
<1>7. due' \in [Node -> [Vid -> 0 .. 2]] /\ due'[n] = d /\ due'[p] = due[p]
  BY <1>2, <1>3, <1>5
<1>. QED  BY Zenon, <1>2, <1>6, <1>7 DEF History

LEMMA LvTimerCalm ==
    ASSUME TInv, Passes, History, NEW n \in Node, LvTimer(n)
    PROVE  Calm /\ History'
<1>1. PICK p \in Node : n # p
  BY Zenon, PeerIs
<1>2. \A m \in Node : m = n \/ m = p
  BY Zenon, <1>1, PeerOf
<1>. DEFINE new == [v \in Listed(n) |-> [attribs[n][v] EXCEPT !.reg = RegLvTimer(@)]]
<1>3. /\ attribs' = [attribs EXCEPT ![n] = new] /\ lv' = [lv EXCEPT ![n] = 0]
      /\ Counts(n, FALSE) /\ Handled(n, "lv")
  BY Zenon DEF LvTimer
<1>4. lva' = lva /\ join' = join /\ lvat' = lvat /\ link' = link /\ held' = held
  BY DEF LvTimer
<1>5. DOMAIN new = DOMAIN attribs[n]
  BY Zenon DEF Listed
<1>6. ASSUME NEW v \in DOMAIN attribs[n]
      PROVE  new[v].app = attribs[n][v].app /\ new[v].reg # "LV"
  <2>. DEFINE a == attribs[n][v]
  <2>1. IsAttrib(a)
    BY Zenon DEF TInv, Inv, NodeOK, IsList
  <2>2. new[v] = [a EXCEPT !.reg = RegLvTimer(a.reg)]
    BY Zenon DEF Listed
  <2>3. \A x, r, q : /\ [[app |-> x, reg |-> r] EXCEPT !.reg = q].app = x
                     /\ [[app |-> x, reg |-> r] EXCEPT !.reg = q].reg = q
    OBVIOUS
  <2>. HIDE DEF new, a
  <2>4. new[v].app = a.app /\ new[v].reg = RegLvTimer(a.reg)
    BY Zenon, <2>1, <2>2, <2>3 DEF IsAttrib
  <2>5. RegLvTimer(a.reg) # "LV"
    BY DEF RegLvTimer
  <2>. QED  BY Zenon, <2>4, <2>5 DEF a
<1>. HIDE DEF new
<1>7. attribs'[n] = new /\ attribs'[p] = attribs[p]
  BY Zenon, <1>1, <1>3, NewList
<1>8. ASSUME NEW v
      PROVE  State(n, v)' = State(n, v) /\ Registrar(n, v)' # "LV"
  <2>1. /\ State(n, v)' = StateIn(attribs'[n], v) /\ Registrar(n, v)' = Reg(attribs'[n], v)
        /\ State(n, v) = StateIn(attribs[n], v)
    BY Zenon, StateIs
  <2>2. State(n, v)' = StateIn(new, v) /\ Registrar(n, v)' = Reg(new, v)
    BY Zenon, <1>7, <2>1
  <2>3. StateIn(new, v) = StateIn(attribs[n], v)
    BY Zenon, <1>5, <1>6 DEF StateIn
  <2>4. Reg(new, v) # "LV"
    BY Zenon, <1>5, <1>6 DEF Reg
  <2>. QED  BY Zenon, <2>1, <2>2, <2>3, <2>4
<1>9. /\ History' /\ due'[p] = due[p]
      /\ \A v \in Vid : due'[n][v] > 0 => Registrar(n, v)' = "LV"
  <2>. DEFINE over == FALSE
  <2>1. Counts(n, over)
    BY Zenon, <1>3
  <2>. HIDE DEF over
  <2>. QED  BY Zenon, <1>1, <1>4, <2>1, CountsIs
<1>12. ASSUME NEW m \in Node  PROVE LeaveAllKept(m) /\ stale'[m] \subseteq stale[m]
  <2>1. \/ stale'[m] = stale[m]
        \/ stale'[m] = stale[m] \ {"lv"}
    BY <1>3 DEF Passes, Handled
  <2>2. stale'[m] \subseteq stale[m] /\ ("lva" \in stale'[m]) = ("lva" \in stale[m])
    BY SMT, <2>1
  <2>3. Owes(m)' = Owes(m)
    BY Zenon, <1>4, <2>2 DEF Owes
  <2>. QED  BY Zenon, <1>4, <2>2, <2>3 DEF LeaveAllKept
<1>10. CalmAt(n)
  <2>1. ASSUME NEW v \in Vid
        PROVE  /\ ~(due'[n][v] > 0)
               /\ Firm(State(n, v), State(n, v)')
               /\ State(n, v)' \in Declared => State(n, v) \in Declared
    BY Zenon, <1>8, <1>9 DEF Firm
  <2>. QED  BY Zenon, <1>4, <1>12, <2>1 DEF CalmAt, JoinKept
<1>11. CalmAt(p)
  <2>1. lv'[p] = lv[p]
    BY <1>1, <1>3 DEF TInv, Timers
  <2>2. ASSUME NEW v
        PROVE  /\ State(p, v)' = State(p, v) /\ Registrar(p, v)' = Registrar(p, v)
               /\ Firm(State(p, v), State(p, v)')
    BY Zenon, <1>7, SameList
  <2>. QED  BY Zenon, <1>1, <1>4, <1>9, <1>12, <2>1, <2>2 DEF CalmAt, JoinKept
<1>. QED  BY Zenon, <1>2, <1>4, <1>9, <1>10, <1>11 DEF Calm

-----------------------------------------------------------------------------
(***************************************************************************)
(* A PDU is lost.                                                          *)
(***************************************************************************)
LEMMA LoseHistory ==
    ASSUME History, NEW n \in Node, NEW p \in Node, n # p, Lose(n)
    PROVE  /\ History'
           /\ \A v \in Vid : due'[n][v] > 0 => ~link[n].lva /\ due'[n][v] = due[n][v]
           /\ \A v \in Vid :
                 due'[p][v] > 0 =>
                    IF Declares(link[n], v) THEN due[p][v] = 2 /\ due'[p][v] = 1
                    ELSE due'[p][v] = due[p][v]
<1>1. held \in [Node -> SUBSET Vid] /\ due \in [Node -> [Vid -> 0 .. 2]]
  BY DEF History
<1>2. held' = held
  BY DEF Lose
<1>. DEFINE d(m, v) == IF m = n THEN IF link[n].lva THEN 0 ELSE due[m][v]
                       ELSE IF Declares(link[n], v) /\ due[m][v] > 0
                            THEN due[m][v] - 1 ELSE due[m][v]
<1>3. due' = [m \in Node |-> [v \in Vid |-> d(m, v)]]
  BY Zenon DEF Lose
<1>4. \A m \in Node, v \in Vid : due[m][v] \in 0 .. 2
  BY Zenon, <1>1
<1>5. \A m \in Node, v \in Vid : d(m, v) \in 0 .. 2
  BY <1>4
<1>6. \A v \in Vid : d(n, v) > 0 => ~link[n].lva /\ d(n, v) = due[n][v]
  BY <1>4
<1>7. \A v \in Vid : d(p, v) > 0 =>
                    IF Declares(link[n], v) THEN due[p][v] = 2 /\ d(p, v) = 1
                    ELSE d(p, v) = due[p][v]
  BY <1>4
<1>. HIDE DEF d
<1>8. due' \in [Node -> [Vid -> 0 .. 2]]
  BY Zenon, <1>3, <1>5
<1>9. \A m \in Node, v \in Vid : due'[m][v] = d(m, v)
  BY Zenon, <1>3
<1>. QED  BY Zenon, <1>1, <1>2, <1>6, <1>7, <1>8, <1>9 DEF History

LEMMA LoseAnswers ==
    ASSUME TInv, History, Answers, NEW x \in Node, Lose(x)
    PROVE  Answers' /\ History'
<1>1. /\ OneInFlight /\ HeldDeclared /\ DeclaredUsed /\ NoLeaveHeld
      /\ LeaveAllSent /\ Truthful /\ Answered /\ EndedEarly
  BY Zenon DEF Answers
<1>2. PICK y \in Node : x # y
  BY Zenon, PeerIs
<1>3. \A m \in Node : m = x \/ m = y
  BY Zenon, <1>2, PeerOf
<1>4. /\ History'
      /\ \A v \in Vid : due'[x][v] > 0 => ~link[x].lva /\ due'[x][v] = due[x][v]
      /\ \A v \in Vid :
            due'[y][v] > 0 =>
               IF Declares(link[x], v) THEN due[y][v] = 2 /\ due'[y][v] = 1
               ELSE due'[y][v] = due[y][v]
  BY SMT, <1>2, LoseHistory
<1>5. /\ attribs' = attribs /\ lva' = lva /\ join' = join /\ lv' = lv /\ lvat' = lvat
      /\ stale' = stale /\ held' = held /\ link' = [link EXCEPT ![x] = NoPdu]
  BY DEF Lose
<1>17. \A n \in Node : Owes(n)' = Owes(n)
  BY Zenon, <1>5, LeaveAllSame
<1>6. link'[x] = NoPdu /\ link'[y] = link[y]
  BY <1>2, <1>5 DEF TInv, Links
<1>7. \A n \in Node : link'[n] # NoPdu => link'[n] = link[n]
  BY Zenon, <1>3, <1>6
<1>8. ASSUME NEW n, NEW v
      PROVE  State(n, v)' = State(n, v) /\ Registrar(n, v)' = Registrar(n, v)
  BY Zenon, <1>5, SameList
<1>9. OneInFlight'
  BY Zenon, <1>1, <1>5, <1>7 DEF OneInFlight
<1>10. HeldDeclared'
  BY Zenon, <1>1, <1>5, <1>8 DEF HeldDeclared
<1>11. DeclaredUsed'
  BY Zenon, <1>1, <1>8 DEF DeclaredUsed
<1>12. NoLeaveHeld'
  BY Zenon, <1>1, <1>5, <1>7 DEF NoLeaveHeld
<1>13. LeaveAllSent'
  <2>. SUFFICES ASSUME NEW n \in Node, link'[n] # NoPdu, link'[n].lva
       PROVE  /\ ~Owes(n)' /\ lvat'[n] = LvaTicks + 1
              /\ \A v \in held'[n] : State(n, v)' \in Quick
    BY Zenon DEF LeaveAllSent
  <2>1. /\ ~Owes(n) /\ lvat[n] = LvaTicks + 1
        /\ \A v \in held[n] : State(n, v) \in Quick
    BY Zenon, <1>1, <1>7 DEF LeaveAllSent
  <2>. QED  BY Zenon, <1>5, <1>8, <1>17, <2>1
<1>14. ASSUME NEW n \in Node, NEW v \in Vid, due'[n][v] > 0  PROVE due[n][v] > 0
  <2>1. CASE n = x
    BY Zenon, <1>4, <1>14, <2>1
  <2>2. CASE n = y
    BY SMT, <1>4, <1>14, <2>2
  <2>. QED  BY Zenon, <1>3, <2>1, <2>2
<1>15. Truthful'
  <2>. SUFFICES ASSUME NEW n \in Node, NEW p \in Node, NEW v \in Vid,
                       n # p, due'[n][v] > 0, Satisfies(link'[n], v)
       PROVE  State(p, v)' \in Quick /\ join'[p] # 1
    BY Zenon, TruthfulNext
  <2>1. link'[n] = link[n]
    BY Zenon, <1>7 DEF Satisfies
  <2>2. State(p, v) \in Quick /\ join[p] # 1
    BY Zenon, <1>1, <1>14, <2>1 DEF Truthful
  <2>. QED  BY Zenon, <1>5, <1>8, <2>2
<1>16. Answered'
  <2>. SUFFICES ASSUME NEW n \in Node, NEW p \in Node, NEW v \in Vid, n # p, due'[n][v] > 0
       PROVE  /\ Registrar(n, v)' = "LV"
              /\ v \in held'[p]
              /\ Come(link'[n], link'[p], v, State(p, v)', join'[p], Owes(p)', lvat'[p],
                      LvTicks + 1 - lv'[n], due'[n][v] - 1)
    BY Zenon, AnsweredNext
  <2>1. due[n][v] > 0
    BY Zenon, <1>14
  <2>. DEFINE s == State(p, v)
              j == join[p]
              la == Owes(p)
              lt == lvat[p]
              a == LvTicks + 1 - lv[n]
  <2>2. /\ Registrar(n, v) = "LV" /\ v \in held[p]
        /\ Come(link[n], link[p], v, s, j, la, lt, a, due[n][v] - 1)
    BY Zenon, <1>1, <2>1 DEF Answered
  <2>3. a \in Nat /\ j \in 0 .. 2 /\ lt \in Nat
    BY Zenon, Values
  <2>. HIDE DEF s, j, la, lt, a
  <2>4. Come(link'[n], link'[p], v, s, j, la, lt, a, due'[n][v] - 1)
    <3>1. CASE n = x
      <4>1. ~link[n].lva /\ due'[n][v] = due[n][v] /\ link'[p] = link[p]
        BY Zenon, <1>3, <1>4, <1>6, <3>1
      <4>. QED  BY Zenon, <2>2, <4>1 DEF Come, Ask
    <3>2. CASE n = y
      <4>1. p = x /\ link'[n] = link[n]
        BY Zenon, <1>3, <1>6, <3>2
      <4>2. IF Declares(link[p], v) THEN due[n][v] = 2 /\ due'[n][v] = 1
            ELSE due'[n][v] = due[n][v]
        BY Zenon, <1>4, <3>2, <4>1
      <4>3. CASE Declares(link[p], v)
        <5>1. due[n][v] - 1 = 1 /\ due'[n][v] - 1 = 0
          BY <4>2, <4>3
        <5>2. Come(link[n], link[p], v, s, j, la, lt, a, 1)
          BY Zenon, <2>2, <5>1
        <5>3. Ask(link[n], a, 0) \/ Pend(s, j, la, lt, a, 0)
          BY <2>3, <5>2 DEF Come, Ask, Pend, InTime
        <5>. QED  BY Zenon, <4>1, <5>1, <5>3 DEF Come
      <4>4. CASE ~Declares(link[p], v)
        BY Zenon, <2>2, <4>1, <4>2, <4>4 DEF Come
      <4>. QED  BY Zenon, <4>3, <4>4
    <3>. QED  BY Zenon, <1>3, <3>1, <3>2
  <2>. QED  BY Zenon, <1>5, <1>8, <1>17, <2>2, <2>4 DEF s, j, la, lt, a
<1>18. EndedEarly'
  BY Zenon, <1>1, <1>5, <1>14 DEF EndedEarly
<1>. QED  BY Zenon, <1>4, <1>9, <1>10, <1>11, <1>12, <1>13, <1>15, <1>16, <1>18 DEF Answers

(***************************************************************************)
(* Time advances.  Nothing is on its way then, so that every answer to     *)
(* come is one that the peer is about to send.                             *)
(***************************************************************************)
LEMMA TickAnswers ==
    ASSUME TInv, History, Answers, Tick
    PROVE  Answers' /\ History'
<1>1. /\ OneInFlight /\ HeldDeclared /\ DeclaredUsed /\ NoLeaveHeld
      /\ LeaveAllSent /\ Truthful /\ Answered /\ EndedEarly
  BY Zenon DEF Answers
<1>2. /\ \A n \in Node : link[n] = NoPdu /\ join[n] # 1 /\ lv[n] # 1
      /\ join' = [n \in Node |-> Down(join[n])]
      /\ lv' = [n \in Node |-> Down(lv[n])]
      /\ lvat' = [n \in Node |-> Down(lvat[n])]
      /\ held' = [n \in Node |-> {v \in Vid : IsDeclared(n, v)}]
  BY Zenon DEF Tick
<1>3. /\ attribs' = attribs /\ lva' = lva /\ stale' = stale
      /\ link' = link /\ due' = due
  BY DEF Tick
<1>4. History'
  <2>1. held' \in [Node -> SUBSET Vid]
    BY <1>2
  <2>. QED  BY Zenon, <1>3, <2>1 DEF History
<1>5. ASSUME NEW n, NEW v
      PROVE  State(n, v)' = State(n, v) /\ Registrar(n, v)' = Registrar(n, v)
  BY Zenon, <1>3, SameList
<1>6. \A n \in Node : held'[n] = {v \in Vid : State(n, v) \in Declared}
  BY Zenon, <1>2 DEF IsDeclared, State
<1>7. \A n \in Node : link'[n] = NoPdu
  BY Zenon, <1>2, <1>3
<1>8. OneInFlight' /\ NoLeaveHeld' /\ LeaveAllSent'
  BY Zenon, <1>7 DEF OneInFlight, NoLeaveHeld, LeaveAllSent
<1>9. HeldDeclared'
  <2>. SUFFICES ASSUME NEW n \in Node, NEW v \in held'[n]  PROVE State(n, v)' \in Declared
    BY Zenon DEF HeldDeclared
  <2>1. State(n, v) \in Declared
    BY Zenon, <1>6
  <2>. QED  BY Zenon, <1>5, <2>1
<1>10. DeclaredUsed'
  BY Zenon, <1>1, <1>5 DEF DeclaredUsed
<1>11. Truthful'
  <2>1. \A n \in Node, v \in Vid : ~Satisfies(link'[n], v)
    BY Zenon, <1>7 DEF Satisfies
  <2>. QED  BY Zenon, <2>1, TruthfulNext
<1>12. Answered'
  <2>. SUFFICES ASSUME NEW n \in Node, NEW p \in Node, NEW v \in Vid, n # p, due'[n][v] > 0
       PROVE  /\ Registrar(n, v)' = "LV"
              /\ v \in held'[p]
              /\ Come(link'[n], link'[p], v, State(p, v)', join'[p], Owes(p)', lvat'[p],
                      LvTicks + 1 - lv'[n], due'[n][v] - 1)
    BY Zenon, AnsweredNext
  <2>. DEFINE b == due[n][v] - 1
  <2>1. /\ Registrar(n, v) = "LV" /\ v \in held[p]
        /\ Come(link[n], link[p], v, State(p, v), join[p], Owes(p), lvat[p],
                LvTicks + 1 - lv[n], b)
    BY Zenon, <1>1, <1>3 DEF Answered
  <2>2. Pend(State(p, v), join[p], Owes(p), lvat[p], LvTicks + 1 - lv[n], b)
    BY Zenon, <1>2, <2>1 DEF Come, Ask
  <2>3. v \in held'[p]
    BY Zenon, <1>1, <1>6, <2>1 DEF HeldDeclared
  <2>4. lv[n] > 0
    BY Zenon, <2>1, InvImplies DEF TInv, LeavingIsTimed
  <2>5. /\ join[p] \in 0 .. 2 /\ lvat[p] \in Nat /\ lv[n] \in Nat /\ lv[n] # 1 /\ join[p] # 1
        /\ due[n][v] \in 0 .. 2 /\ LvTicks + 1 - lv[n] \in Nat
    BY Zenon, <1>2, Values
  <2>6. due[n][v] > 0
    BY Zenon, <1>3
  <2>7. LvTicks \in Nat
    BY MvrpAssumption
  <2>8. /\ join'[p] = Down(join[p]) /\ lvat'[p] = Down(lvat[p]) /\ lv'[n] = Down(lv[n])
        /\ Owes(p)' = Owes(p)
    BY Zenon, <1>2, <1>3 DEF Owes
  <2>9. Pend(State(p, v), join'[p], Owes(p)', lvat'[p], LvTicks + 1 - lv'[n], b)
    <3>1. /\ join'[p] = 1 /\ join[p] = 2
          /\ LvTicks + 1 - lv'[n] = LvTicks + 1 - lv[n] + 1
      BY <2>2, <2>4, <2>5, <2>7, <2>8 DEF Pend, Down
    <3>2. InTime(1, Owes(p), lvat'[p], LvTicks + 1 - lv'[n], b)
      <4>1. InTime(2, Owes(p), lvat[p], LvTicks + 1 - lv[n], b)
        BY Zenon, <2>2, <3>1 DEF Pend
      <4>. DEFINE a == LvTicks + 1 - lv[n]
                  d == LvTicks + 1 - lv'[n]
      <4>2. d = a + 1 /\ a \in Nat /\ b \in Nat
        BY <2>5, <2>6, <3>1
      <4>. HIDE DEF a, b, d
      <4>3. CASE Owes(p)
        <5>1. a + 2 + b <= 3
          BY Zenon, <4>1, <4>3 DEF InTime, a
        <5>2. d + 1 + b <= 3
          BY <4>2, <5>1
        <5>. QED  BY Zenon, <4>3, <5>2 DEF InTime, d
      <4>4. CASE ~Owes(p)
        <5>1. a + 2 + b <= 4 /\ lvat[p] > 2 + b
          BY Zenon, <4>1, <4>4 DEF InTime, a
        <5>2. d + 1 + b <= 4 /\ lvat'[p] > 1 + b
          BY <2>5, <2>8, <4>2, <5>1 DEF Down
        <5>. QED  BY Zenon, <4>4, <5>2 DEF InTime, d
      <4>. QED  BY Zenon, <4>3, <4>4
    <3>3. join'[p] >= 1
      BY <3>1
    <3>. QED  BY Zenon, <2>2, <2>8, <3>1, <3>2, <3>3 DEF Pend
  <2>. QED  BY Zenon, <1>3, <1>5, <2>1, <2>3, <2>9 DEF Come
<1>13. EndedEarly'
  BY Zenon, <1>1, <1>3 DEF EndedEarly
<1>. QED  BY Zenon, <1>4, <1>8, <1>9, <1>10, <1>11, <1>12, <1>13 DEF Answers

\* When the leave timer of a daemon runs out no answer can be outstanding.
LEMMA NoneDue ==
    ASSUME Fits, TInv, History, Answers, NEW n \in Node, NEW v \in Vid, lv[n] = 1
    PROVE  ~(due[n][v] > 0)
<1>. SUFFICES ASSUME due[n][v] > 0  PROVE FALSE
  OBVIOUS
<1>1. PICK p \in Node : n # p
  BY Zenon, PeerIs
<1>. DEFINE a == LvTicks + 1 - lv[n]
            b == due[n][v] - 1
            s == State(p, v)
            j == join[p]
<1>2. due[n][v] \in 0 .. 2 /\ j \in 0 .. 2
  BY Zenon, Values
<1>3. b \in 0 .. 1
  BY <1>2
<1>4. a \in Nat /\ a >= 4
  <2>1. LvTicks >= 4
    BY Zenon DEF Fits
  <2>2. LvTicks \in Nat
    BY MvrpAssumption
  <2>. QED  BY <2>1, <2>2
<1>5. Come(link[n], link[p], v, s, j, Owes(p), lvat[p], a, b)
  BY Zenon, <1>1 DEF Answers, Answered
<1>. HIDE DEF a, b, s, j
<1>6. /\ ~(a <= 3) /\ ~(a + b <= 1)
      /\ ~(j >= 1 /\ a + j + b <= 4) /\ ~(j >= 1 /\ a + j + b <= 3)
      /\ ~(j >= 1 /\ a + j + 0 <= 4) /\ ~(j >= 1 /\ a + j + 0 <= 3) /\ ~(a + 0 <= 1)
  BY <1>2, <1>3, <1>4
<1>. QED  BY Zenon, <1>5, <1>6 DEF Come, Ask, Pend, InTime

-----------------------------------------------------------------------------
(***************************************************************************)
(* A PDU is received.                                                      *)
(***************************************************************************)
LEMMA LeaveSteps ==
    ASSUME NEW s \in ApplicantState
    PROVE  /\ s \in Declared => OnRLeave(s) \in Quick
           /\ s \notin Declared => OnRLeave(s) \notin Declared
           /\ s \in Quick \cup Soon => s \in Declared
<1>1. s \in Declared => OnRLeave(s) \in Quick
  BY DEF ApplicantState, Declared, Quick, OnRLeave, Step
<1>2. s \notin Declared => OnRLeave(s) \notin Declared
  BY DEF ApplicantState, Declared, OnRLeave, Step
<1>3. s \in Quick \cup Soon => s \in Declared
  BY DEF Declared, Quick, Soon
<1>. QED  BY Zenon, <1>1, <1>2, <1>3

LEMMA RxSteps ==
    ASSUME NEW s \in ApplicantState, NEW e
    PROVE  /\ RxApplicant(e, s) \in Declared <=> s \in Declared
           /\ s \in Quick => RxApplicant(e, s) \in Quick
           /\ s \in Soon => RxApplicant(e, s) \in Quick \cup Soon \/ e \in {"IN", "JOININ"}
<1>1. CASE e = "JOININ"
  <2>1. RxApplicant(e, s) = OnRJoinIn(s)
    BY <1>1 DEF RxApplicant
  <2>2. /\ OnRJoinIn(s) \in Declared <=> s \in Declared
        /\ s \in Quick => OnRJoinIn(s) \in Quick
    BY DEF ApplicantState, Declared, Quick, OnRJoinIn, Step
  <2>. QED  BY <1>1, <2>1, <2>2
<1>2. CASE e = "IN"
  <2>1. RxApplicant(e, s) = OnRIn(s)
    BY <1>2 DEF RxApplicant
  <2>2. /\ OnRIn(s) \in Declared <=> s \in Declared
        /\ s \in Quick => OnRIn(s) \in Quick
    BY DEF ApplicantState, Declared, Quick, OnRIn, Step
  <2>. QED  BY <1>2, <2>1, <2>2
<1>3. CASE e \in {"JOINMT", "MT"}
  <2>1. RxApplicant(e, s) = OnREmpty(s)
    BY <1>3 DEF RxApplicant
  <2>2. /\ OnREmpty(s) \in Declared <=> s \in Declared
        /\ s \in Quick => OnREmpty(s) \in Quick
        /\ s \in Soon => OnREmpty(s) \in Soon
    BY DEF ApplicantState, Declared, Quick, Soon, OnREmpty, Step
  <2>. QED  BY Zenon, <2>1, <2>2
<1>4. CASE e = "LV"
  <2>1. RxApplicant(e, s) = OnRLeave(s)
    BY <1>4 DEF RxApplicant
  <2>2. /\ OnRLeave(s) \in Declared <=> s \in Declared
        /\ s \in Quick => OnRLeave(s) \in Quick
        /\ s \in Soon => OnRLeave(s) \in Quick
    BY DEF ApplicantState, Declared, Quick, Soon, OnRLeave, Step
  <2>. QED  BY Zenon, <2>1, <2>2
<1>5. CASE e \notin {"JOININ", "IN", "JOINMT", "MT", "LV"}
  <2>1. RxApplicant(e, s) = s
    BY <1>5 DEF RxApplicant
  <2>. QED  BY Zenon, <2>1
<1>. QED  BY Zenon, <1>1, <1>2, <1>3, <1>4, <1>5

\* What a PDU does to a VLAN: its LeaveAll, then the VLAN's event.
HeardAll(pdu, s) == IF pdu.lva THEN OnRLeave(s) ELSE s
RegAll(pdu, r) == IF pdu.lva THEN RegLeave(r) ELSE r

LEMMA RxPduIs ==
    ASSUME TInv, NEW n \in Node, NEW pdu, RxPdu(n, pdu), NEW v
    PROVE  LET hears == v \in DOMAIN pdu.ev
                        /\ (v \in DOMAIN attribs[n] \/ pdu.ev[v] # "MT")
           IN  /\ \E s \in {HeardAll(pdu, State(n, v)), State(n, v)} :
                     /\ s # HeardAll(pdu, State(n, v)) => State(n, v) = "VO"
                     /\ State(n, v)' = IF hears THEN RxApplicant(pdu.ev[v], s) ELSE s
               /\ Registrar(n, v)' = IF hears
                                     THEN RxRegistrar(pdu.ev[v], RegAll(pdu, Registrar(n, v)))
                                     ELSE RegAll(pdu, Registrar(n, v))
               /\ Registrar(n, v) = "IN" /\ (pdu.lva \/ (hears /\ pdu.ev[v] = "LV")) =>
                     lv'[n] = LvTicks + 1
<1>. DEFINE old == attribs[n]
            all == IF pdu.lva
                   THEN [w \in DOMAIN old |->
                           [app |-> Quietly(old[w].app, OnRLeave(old[w].app.state)),
                            reg |-> RegLeave(old[w].reg)]]
                   ELSE old
            heard == {w \in DOMAIN pdu.ev : w \in DOMAIN old \/ pdu.ev[w] # "MT"}
            was(w) == IF w \in DOMAIN all THEN all[w] ELSE NewAttrib
            new == [w \in DOMAIN old \cup heard |->
                      IF w \notin heard THEN all[w]
                      ELSE [app |-> Quietly(was(w).app,
                                       RxApplicant(pdu.ev[w], was(w).app.state)),
                            reg |-> RxRegistrar(pdu.ev[w], was(w).reg)]]
            leaves == \E w \in DOMAIN old :
                          /\ old[w].reg = "IN"
                          /\ pdu.lva \/ (w \in heard /\ pdu.ev[w] = "LV")
<1>1. attribs' = [attribs EXCEPT ![n] = new]
  BY Zenon DEF RxPdu
<1>2. lv' = [lv EXCEPT ![n] = IF leaves THEN mrp_lvtimer_start(lv[n]) ELSE lv[n]]
  BY Zenon DEF RxPdu
<1>3. State(n, v) = StateIn(old, v) /\ Registrar(n, v) = Reg(old, v)
  BY Zenon, StateIs
<1>4. \A w \in DOMAIN old : /\ old[w].app \in Applicant
                            /\ old[w].app.state \in ApplicantState
                            /\ old[w].reg \in RegistrarState
  BY Zenon, ApplicantFields DEF TInv, Lists, Typed, Inv, NodeOK, IsList, IsAttrib
<1>5. leaves => lv'[n] = LvTicks + 1
  <2>. HIDE DEF leaves
  <2>. QED  BY <1>2 DEF TInv, Timers, mrp_lvtimer_start
<1>6. v \in DOMAIN old /\ pdu.lva =>
         /\ all[v].app \in Applicant /\ all[v].app.state = OnRLeave(old[v].app.state)
         /\ all[v].reg = RegLeave(old[v].reg)
  <2>. SUFFICES ASSUME v \in DOMAIN old, pdu.lva
       PROVE  /\ all[v].app \in Applicant /\ all[v].app.state = OnRLeave(old[v].app.state)
              /\ all[v].reg = RegLeave(old[v].reg)
    BY Zenon
  <2>. DEFINE q == Quietly(old[v].app, OnRLeave(old[v].app.state))
              r == RegLeave(old[v].reg)
              c == all[v]
  <2>1. c = [app |-> q, reg |-> r]
    BY Zenon
  <2>2. OnRLeave(old[v].app.state) \in ApplicantState
    BY Zenon, <1>4, ApplicantSteps
  <2>3. q \in Applicant /\ q.state = OnRLeave(old[v].app.state)
    BY Zenon, <1>4, <2>2, QuietlyIs
  <2>. HIDE DEF q, r, c
  <2>4. c.app = q /\ c.reg = r
    BY <2>1
  <2>5. c.app \in Applicant /\ c.app.state = OnRLeave(old[v].app.state)
    BY SMT, <2>3, <2>4
  <2>. QED  BY Zenon, <2>4, <2>5 DEF c, r
<1>7. ~pdu.lva => all = old
  BY Zenon
<1>8. DOMAIN all = DOMAIN old
  BY Zenon
<1>. HIDE DEF all
<1>9. NewAttrib.app \in Applicant /\ NewAttrib.app.state = "VO" /\ NewAttrib.reg = "MT"
  BY NewAttribIs DEF NewAttrib
<1>10. /\ was(v).app \in Applicant /\ was(v).app.state \in {HeardAll(pdu, State(n, v)), State(n, v)}
       /\ was(v).app.state # HeardAll(pdu, State(n, v)) => State(n, v) = "VO"
       /\ was(v).reg = RegAll(pdu, Registrar(n, v))
  <2>1. CASE v \in DOMAIN old
    <3>1. State(n, v) = old[v].app.state /\ Registrar(n, v) = old[v].reg /\ was(v) = all[v]
      BY Zenon, <1>3, <1>8, <2>1 DEF StateIn, Reg
    <3>2. CASE pdu.lva
      BY Zenon, <1>6, <2>1, <3>1, <3>2 DEF HeardAll, RegAll
    <3>3. CASE ~pdu.lva
      BY Zenon, <1>4, <1>7, <2>1, <3>1, <3>3 DEF HeardAll, RegAll
    <3>. QED  BY Zenon, <3>2, <3>3
  <2>2. CASE v \notin DOMAIN old
    <3>1. State(n, v) = "VO" /\ Registrar(n, v) = "MT" /\ was(v) = NewAttrib
      BY Zenon, <1>3, <1>8, <2>2 DEF StateIn, Reg
    <3>2. RegAll(pdu, "MT") = "MT"
      BY DEF RegAll, RegLeave
    <3>. QED  BY Zenon, <1>9, <3>1, <3>2
  <2>. QED  BY Zenon, <2>1, <2>2
<1>11. attribs'[n] = new
  BY Zenon, <1>1, NewList
<1>12. State(n, v)' = StateIn(new, v) /\ Registrar(n, v)' = Reg(new, v)
  <2>1. State(n, v)' = StateIn(attribs'[n], v) /\ Registrar(n, v)' = Reg(attribs'[n], v)
    BY Zenon, StateIs
  <2>. HIDE DEF new
  <2>. QED  BY Zenon, <1>11, <2>1
<1>13. CASE v \in heard
  <2>. DEFINE e == pdu.ev[v]
              a == was(v)
              q == Quietly(a.app, RxApplicant(e, a.app.state))
              r == RxRegistrar(e, a.reg)
              c == new[v]
  <2>1. c = [app |-> q, reg |-> r] /\ v \in DOMAIN new
    BY Zenon, <1>13
  <2>2. RxApplicant(e, a.app.state) \in ApplicantState
    BY Zenon, <1>10, ApplicantFields, RxApplicantIs
  <2>3. q.state = RxApplicant(e, a.app.state)
    BY Zenon, <1>10, <2>2, QuietlyIs
  <2>. HIDE DEF q, r, c
  <2>4. c.app = q /\ c.reg = r
    BY <2>1
  <2>5. StateIn(new, v) = c.app.state /\ Reg(new, v) = c.reg
    BY Zenon, <2>1 DEF StateIn, Reg, c
  <2>6. StateIn(new, v) = RxApplicant(e, a.app.state)
    <3>. HIDE DEF a, e, new, was
    <3>1. c.app.state = q.state
      BY Zenon, <2>4
    <3>. QED  BY Zenon, <2>3, <2>5, <3>1
  <2>7. Reg(new, v) = RxRegistrar(e, a.reg)
    BY Zenon, <2>4, <2>5 DEF r
  <2>8. Registrar(n, v) = "IN" /\ (pdu.lva \/ e = "LV") => leaves
    <3>1. Registrar(n, v) = "IN" => v \in DOMAIN old /\ old[v].reg = "IN"
      BY Zenon, <1>3 DEF Reg
    <3>. QED  BY Zenon, <1>13, <3>1
  <2>9. v \in DOMAIN pdu.ev /\ (v \in DOMAIN attribs[n] \/ pdu.ev[v] # "MT")
    BY Zenon, <1>13
  <2>. HIDE DEF leaves, new, heard, was
  <2>. QED  BY Zenon, <1>5, <1>10, <1>12, <2>6, <2>7, <2>8, <2>9
<1>14. CASE v \notin heard
  <2>1. ~(v \in DOMAIN pdu.ev /\ (v \in DOMAIN attribs[n] \/ pdu.ev[v] # "MT"))
    BY Zenon, <1>14
  <2>2. v \in DOMAIN old => v \in DOMAIN new /\ new[v] = was(v)
    BY Zenon, <1>8, <1>14
  <2>3. v \notin DOMAIN old => v \notin DOMAIN new /\ was(v) = NewAttrib
    BY Zenon, <1>8, <1>14
  <2>4. Registrar(n, v) = "IN" /\ pdu.lva => leaves
    <3>1. Registrar(n, v) = "IN" => v \in DOMAIN old /\ old[v].reg = "IN"
      BY Zenon, <1>3 DEF Reg
    <3>. QED  BY Zenon, <3>1
  <2>. HIDE DEF leaves, new, heard, was
  <2>5. StateIn(new, v) = was(v).app.state /\ Reg(new, v) = was(v).reg
    BY Zenon, <1>9, <2>2, <2>3 DEF StateIn, Reg
  <2>. QED  BY Zenon, <1>5, <1>10, <1>12, <2>1, <2>4, <2>5
<1>. QED  BY Zenon, <1>13, <1>14

LEMMA RegSteps ==
    ASSUME NEW r \in RegistrarState, NEW e
    PROVE  /\ e \in {"NEW", "JOININ", "JOINMT"} => RxRegistrar(e, r) = "IN"
           /\ RegLeave(r) \in RegistrarState
           /\ RegLeave(r) = "LV" => r \in {"LV", "IN"}
BY DEF RxRegistrar, RegJoin, RegLeave, RegistrarState

\* A VLAN of a daemon that receives a PDU.
HearsOf(n, pdu, v) ==
    /\ State(n, v)' \in Declared <=> State(n, v) \in Declared
    /\ State(n, v) \in Quick => State(n, v)' \in Quick
    /\ pdu.lva /\ State(n, v) \in Declared => State(n, v)' \in Quick
    /\ State(n, v) \in Soon => State(n, v)' \in Quick \cup Soon \/ Satisfies(pdu, v)
    /\ Declares(pdu, v) => Registrar(n, v)' = "IN"
    /\ Registrar(n, v)' = "LV" /\ Registrar(n, v) # "LV" =>
          /\ lv'[n] = LvTicks + 1
          /\ pdu.lva \/ (v \in DOMAIN pdu.ev /\ pdu.ev[v] = "LV")

LEMMA RxPduHears ==
    ASSUME TInv, NEW n \in Node, NEW pdu, pdu # NoPdu, RxPdu(n, pdu), NEW v
    PROVE  HearsOf(n, pdu, v)
<1>. DEFINE hears == v \in DOMAIN pdu.ev
                     /\ (v \in DOMAIN attribs[n] \/ pdu.ev[v] # "MT")
            s == State(n, v)
            t == State(n, v)'
            h == HeardAll(pdu, s)
            e == pdu.ev[v]
            r == Registrar(n, v)
            ra == RegAll(pdu, r)
            rr == Registrar(n, v)'
<1>1. /\ \E u \in {h, s} : /\ u # h => s = "VO"
                           /\ t = IF hears THEN RxApplicant(e, u) ELSE u
      /\ rr = IF hears THEN RxRegistrar(e, ra) ELSE ra
      /\ r = "IN" /\ (pdu.lva \/ (hears /\ e = "LV")) => lv'[n] = LvTicks + 1
  BY Zenon, RxPduIs
<1>2. s \in ApplicantState /\ r \in RegistrarState
  BY Zenon, StateTyped
<1>3. Declares(pdu, v) => hears /\ e \in {"NEW", "JOININ", "JOINMT"}
  BY DEF Declares
<1>4. hears /\ e \in {"IN", "JOININ"} /\ ~pdu.lva => Satisfies(pdu, v)
  BY Zenon DEF Satisfies
<1>5. h = (IF pdu.lva THEN OnRLeave(s) ELSE s) /\ ra = (IF pdu.lva THEN RegLeave(r) ELSE r)
  BY Zenon DEF HeardAll, RegAll
<1>6. hears => v \in DOMAIN pdu.ev
  BY Zenon
<1>. HIDE DEF hears, s, t, h, e, r, ra, rr
<1>7. PICK u \in {h, s} : (u # h => s = "VO") /\ t = IF hears THEN RxApplicant(e, u) ELSE u
  BY Zenon, <1>1
<1>8. "VO" \notin Declared
  BY DEF Declared
<1>9. /\ s \in Declared => OnRLeave(s) \in Quick
      /\ s \notin Declared => OnRLeave(s) \notin Declared
      /\ s \in Quick \cup Soon => s \in Declared
  BY Zenon, <1>2, LeaveSteps
<1>10. u \in ApplicantState
  BY Zenon, <1>2, <1>5, <1>7, ApplicantSteps
<1>11. /\ u \in Declared <=> s \in Declared
       /\ s \in Quick => u \in Quick
       /\ pdu.lva /\ s \in Declared => u \in Quick
       /\ s \in Soon => u \in Quick \/ (~pdu.lva /\ u \in Soon)
  <2>1. \A q : q \in Quick => q \in Declared
    BY DEF Quick, Declared
  <2>. QED  BY Zenon, <1>5, <1>7, <1>8, <1>9, <2>1
<1>12. /\ RxApplicant(e, u) \in Declared <=> u \in Declared
       /\ u \in Quick => RxApplicant(e, u) \in Quick
       /\ u \in Soon => RxApplicant(e, u) \in Quick \cup Soon \/ e \in {"IN", "JOININ"}
  BY Zenon, <1>10, RxSteps
<1>13. /\ t \in Declared <=> s \in Declared
       /\ s \in Quick => t \in Quick
       /\ pdu.lva /\ s \in Declared => t \in Quick
       /\ s \in Soon => t \in Quick \cup Soon \/ Satisfies(pdu, v)
  <2>1. CASE hears
    BY Zenon, <1>4, <1>7, <1>11, <1>12, <2>1
  <2>2. CASE ~hears
    BY Zenon, <1>7, <1>11, <2>2
  <2>. QED  BY Zenon, <2>1, <2>2
<1>14. ra \in RegistrarState /\ (ra = "LV" => r = "LV" \/ (r = "IN" /\ pdu.lva))
       /\ (ra = "IN" => r = "IN")
  <2>1. RegLeave(r) \in RegistrarState /\ (RegLeave(r) = "LV" => r \in {"LV", "IN"})
    BY Zenon, <1>2, RegSteps
  <2>2. RegLeave(r) = "IN" => r = "IN"
    BY DEF RegLeave
  <2>. QED  BY Zenon, <1>2, <1>5, <2>1, <2>2
<1>15. /\ RxRegistrar(e, ra) = "LV" => ra = "LV" \/ (ra = "IN" /\ e = "LV")
       /\ e \in {"NEW", "JOININ", "JOINMT"} => RxRegistrar(e, ra) = "IN"
  BY Zenon, <1>14, RxRegistrarIs, RegSteps
<1>16. Declares(pdu, v) => rr = "IN"
  BY Zenon, <1>1, <1>3, <1>15
<1>17. rr = "LV" /\ r # "LV" => /\ lv'[n] = LvTicks + 1
                                /\ pdu.lva \/ (v \in DOMAIN pdu.ev /\ e = "LV")
  <2>1. CASE hears
    BY Zenon, <1>1, <1>6, <1>14, <1>15, <2>1
  <2>2. CASE ~hears
    BY Zenon, <1>1, <1>14, <2>2
  <2>. QED  BY Zenon, <2>1, <2>2
<1>. QED  BY Zenon, <1>13, <1>16, <1>17 DEF HearsOf, s, t, e, r, rr

\* A daemon with a declaration to send has its join timer running.
LEMMA ServedIs ==
    ASSUME Served, NEW n \in Node, NEW v, State(n, v) \in Quick \cup Soon
    PROVE  join[n] > 0
<1>1. State(n, v) = StateIn(attribs[n], v)
  BY Zenon, StateIs
<1>2. State(n, v) # "VO" /\ State(n, v) \in Anxious \ {"LO"}
  BY DEF Quick, Soon, Anxious
<1>3. v \in DOMAIN attribs[n] /\ attribs[n][v].app.state \in Anxious \ {"LO"}
  BY Zenon, <1>1, <1>2 DEF StateIn
<1>. QED  BY Zenon, <1>3 DEF Served, Pressing

LEMMA ServedNext ==
    ASSUME Served', NEW n \in Node, NEW v, State(n, v)' \in Quick \cup Soon
    PROVE  join'[n] > 0
<1>1. State(n, v)' = StateIn(attribs'[n], v)
  BY Zenon, StateIs
<1>2. State(n, v)' # "VO" /\ State(n, v)' \in Anxious \ {"LO"}
  BY DEF Quick, Soon, Anxious
<1>3. v \in DOMAIN attribs'[n] /\ attribs'[n][v].app.state \in Anxious \ {"LO"}
  BY Zenon, <1>1, <1>2 DEF StateIn
<1>. QED  BY Zenon, <1>3 DEF Served, Pressing

LEMMA ReceiveIs ==
    ASSUME TInv, Passes, History, NEW n \in Node, NEW p \in Node, n # p, Receive(n)
    PROVE  /\ link[p] # NoPdu /\ link'[p] = NoPdu /\ link'[n] = link[n]
           /\ \A v : /\ HearsOf(n, link[p], v)
                     /\ State(p, v)' = State(p, v) /\ Registrar(p, v)' = Registrar(p, v)
           /\ held' = held /\ Counts(n, "lv" \in stale'[n])
           /\ join'[p] = join[p] /\ lvat'[p] = lvat[p] /\ lv'[p] = lv[p]
           /\ Owes(p)' = Owes(p) /\ stale'[p] = stale[p]
           /\ "lv" \in stale'[n] => lv[n] = 1
           /\ JoinKept(join[n], join'[n])
           /\ lv'[n] \in {lv[n], LvTicks + 1}
           /\ IF link[p].lva THEN lvat'[n] = LvaTicks + 1 /\ (Owes(n)' => lvat[n] = 1)
              ELSE Owes(n)' = Owes(n) /\ lvat'[n] = lvat[n]
<1>1. Peer(n) = p
  BY Zenon, PeerOf
<1>2. /\ link[p] # NoPdu /\ RxPdu(n, link[p])
      /\ link' = [link EXCEPT ![p] = NoPdu] /\ Counts(n, "lv" \in stale'[n])
      /\ stale[n] = {}
      /\ \E found \in SUBSET (RunOut(n) \ RunOut(n)') :
            stale' = [stale EXCEPT ![n] = found]
  BY Zenon, <1>1 DEF Receive
<1>3. held' = held
  BY DEF Receive
<1>4. link'[p] = NoPdu /\ link'[n] = link[n]
  BY <1>2 DEF TInv, Links
<1>6. \A v : HearsOf(n, link[p], v)
  BY Zenon, <1>2, RxPduHears
<1>. DEFINE pdu == link[p]
<1>7. /\ \E w : TxOp(n, w)
      /\ lva' = [lva EXCEPT ![n] = lva[n] /\ ~pdu.lva]
      /\ lvat' = [lvat EXCEPT ![n] = IF pdu.lva THEN LvaTicks + 1 ELSE lvat[n]]
      /\ \E w : lv' = [lv EXCEPT ![n] = IF w THEN mrp_lvtimer_start(lv[n]) ELSE lv[n]]
      /\ \E w : attribs' = [attribs EXCEPT ![n] = w]
  BY Zenon, <1>2 DEF RxPdu
<1>. HIDE DEF pdu
<1>8. JoinKept(join[n], join'[n]) /\ join'[p] = join[p]
  BY Zenon, <1>7, TxOpIs
<1>9. attribs'[p] = attribs[p]
  BY <1>7
<1>10. \A v : State(p, v)' = State(p, v) /\ Registrar(p, v)' = Registrar(p, v)
  <2>. TAKE v
  <2>1. State(p, v)' = StateIn(attribs'[p], v) /\ Registrar(p, v)' = Reg(attribs'[p], v)
    BY Zenon, StateIs
  <2>2. State(p, v) = StateIn(attribs[p], v) /\ Registrar(p, v) = Reg(attribs[p], v)
    BY Zenon, StateIs
  <2>. QED  BY Zenon, <1>9, <2>1, <2>2
<1>11. Timers /\ lva \in [Node -> BOOLEAN]
  BY Zenon DEF TInv, Others
<1>12. lv'[p] = lv[p] /\ lv'[n] \in {lv[n], LvTicks + 1}
  BY <1>7, <1>11 DEF Timers, mrp_lvtimer_start
<1>13. /\ lva'[p] = lva[p] /\ lvat'[p] = lvat[p]
       /\ lva'[n] = (lva[n] /\ ~pdu.lva)
       /\ lvat'[n] = IF pdu.lva THEN LvaTicks + 1 ELSE lvat[n]
  BY <1>7, <1>11 DEF Timers
<1>14. lva[n] \in BOOLEAN
  BY Zenon, <1>11
<1>15. stale'[p] = stale[p] /\ stale'[n] \subseteq RunOut(n) \ RunOut(n)'
  BY <1>2 DEF Passes
<1>16. Owes(p)' = Owes(p)
  BY Zenon, <1>13, <1>15 DEF Owes
<1>17. "lv" \in stale'[n] => lv[n] = 1
  <2>1. "lv" \in RunOut(n) => lv[n] = 1
    BY DEF RunOut
  <2>. QED  BY Zenon, <1>15, <2>1
<1>18. "lva" \in stale'[n] => lvat[n] = 1 /\ lvat'[n] # 1
  <2>1. ("lva" \in RunOut(n) => lvat[n] = 1) /\ (lvat'[n] = 1 => "lva" \in RunOut(n)')
    BY DEF RunOut
  <2>. QED  BY Zenon, <1>15, <2>1
<1>19. IF pdu.lva THEN lvat'[n] = LvaTicks + 1 /\ (Owes(n)' => lvat[n] = 1)
       ELSE Owes(n)' = Owes(n) /\ lvat'[n] = lvat[n]
  <2>1. CASE pdu.lva
    <3>1. ~lva'[n]
      BY Zenon, <1>13, <2>1
    <3>. QED  BY Zenon, <1>13, <1>18, <2>1, <3>1 DEF Owes
  <2>2. CASE ~pdu.lva
    <3>1. lva'[n] = lva[n] /\ lvat'[n] = lvat[n]
      BY Zenon, <1>13, <1>14, <2>2
    <3>2. "lva" \notin stale'[n] /\ "lva" \notin stale[n]
      BY <1>2, <1>18, <3>1
    <3>3. Owes(n)' = Owes(n)
      BY Zenon, <3>1, <3>2 DEF Owes
    <3>. QED  BY Zenon, <2>2, <3>1, <3>3
  <2>. QED  BY Zenon, <2>1, <2>2
<1>. QED  BY Zenon, <1>2, <1>3, <1>4, <1>6, <1>8, <1>10, <1>12, <1>13, <1>15, <1>16, <1>17,
             <1>19 DEF pdu

LEMMA JoinStays ==
    ASSUME NEW j \in 0 .. 2, NEW k, JoinKept(j, k), j >= 1
    PROVE  k = j
BY DEF JoinKept

LEMMA ReceiveAnswers ==
    ASSUME TInv, Passes, History, Served, Answers, Fits, TInv', Served',
           NEW x \in Node, Receive(x)
    PROVE  Answers' /\ History'
<1>1. /\ OneInFlight /\ HeldDeclared /\ DeclaredUsed /\ NoLeaveHeld
      /\ LeaveAllSent /\ Truthful /\ Answered /\ EndedEarly
  BY Zenon DEF Answers
<1>2. PICK y \in Node : x # y
  BY Zenon, PeerIs
<1>3. \A m \in Node : m = x \/ m = y
  BY Zenon, <1>2, PeerOf
<1>. DEFINE pdu == link[y]
<1>4. /\ pdu # NoPdu /\ link'[y] = NoPdu /\ link'[x] = link[x]
      /\ \A v : /\ HearsOf(x, pdu, v)
                /\ State(y, v)' = State(y, v) /\ Registrar(y, v)' = Registrar(y, v)
      /\ held' = held /\ Counts(x, "lv" \in stale'[x])
      /\ join'[y] = join[y] /\ lvat'[y] = lvat[y] /\ lv'[y] = lv[y]
      /\ Owes(y)' = Owes(y) /\ stale'[y] = stale[y]
      /\ "lv" \in stale'[x] => lv[x] = 1
      /\ JoinKept(join[x], join'[x])
      /\ lv'[x] \in {lv[x], LvTicks + 1}
      /\ IF pdu.lva THEN lvat'[x] = LvaTicks + 1 /\ (Owes(x)' => lvat[x] = 1)
         ELSE Owes(x)' = Owes(x) /\ lvat'[x] = lvat[x]
  BY Zenon, <1>2, ReceiveIs
<1>5. /\ History'
      /\ due'[y] = due[y]
      /\ \A v \in Vid :
            due'[x][v] > 0 =>
               /\ Registrar(x, v)' = "LV"
               /\ \/ Registrar(x, v) = "LV" /\ due'[x][v] = due[x][v]
                  \/ /\ Registrar(x, v) # "LV" /\ due'[x][v] = 2
                     /\ v \in held[y] /\ "lv" \notin stale'[x]
  <2>. DEFINE over == "lv" \in stale'[x]
  <2>1. Counts(x, over) /\ held' = held
    BY Zenon, <1>4
  <2>2. over = ("lv" \in stale'[x])
    OBVIOUS
  <2>. HIDE DEF over
  <2>. QED  BY Zenon, <1>2, <2>1, <2>2, CountsIs
<1>6. LvTicks \in Nat /\ LvaTicks \in Nat /\ LvaTicks >= 3
  BY MvrpAssumption DEF Fits
<1>7. OneInFlight'
  <2>. SUFFICES ASSUME NEW n \in Node, link'[n] # NoPdu  PROVE join'[n] # 1
    BY Zenon DEF OneInFlight
  <2>1. n = x /\ join[x] # 1
    BY Zenon, <1>1, <1>3, <1>4 DEF OneInFlight
  <2>. QED  BY <1>4, <2>1 DEF JoinKept
<1>8. ASSUME NEW n \in Node, NEW v
      PROVE  /\ State(n, v)' \in Declared <=> State(n, v) \in Declared
             /\ State(n, v) \in Quick => State(n, v)' \in Quick
  BY Zenon, <1>3, <1>4 DEF HearsOf
<1>9. HeldDeclared'
  <2>. SUFFICES ASSUME NEW n \in Node, NEW v \in held'[n]  PROVE State(n, v)' \in Declared
    BY Zenon DEF HeldDeclared
  <2>1. State(n, v) \in Declared
    BY Zenon, <1>1, <1>4 DEF HeldDeclared
  <2>. QED  BY Zenon, <1>8, <2>1
<1>10. DeclaredUsed'
  BY Zenon, <1>1, <1>8 DEF DeclaredUsed
<1>11. \A n \in Node : link'[n] # NoPdu => link'[n] = link[n] /\ n = x
  BY Zenon, <1>3, <1>4
<1>12. NoLeaveHeld'
  BY Zenon, <1>1, <1>4, <1>11 DEF NoLeaveHeld
<1>13. LeaveAllSent'
  <2>. SUFFICES ASSUME NEW n \in Node, link'[n] # NoPdu, link'[n].lva
       PROVE  /\ ~Owes(n)' /\ lvat'[n] = LvaTicks + 1
              /\ \A v \in held'[n] : State(n, v)' \in Quick
    BY Zenon DEF LeaveAllSent
  <2>1. /\ ~Owes(n) /\ lvat[n] = LvaTicks + 1 /\ n = x
        /\ \A v \in held[n] : State(n, v) \in Quick
    BY Zenon, <1>1, <1>11 DEF LeaveAllSent
  <2>2. lvat[n] # 1
    BY <1>6, <2>1
  <2>. QED  BY Zenon, <1>4, <1>8, <2>1, <2>2
\* A registration that the LeaveAll makes leave: the sender is ready to declare.
<1>14. ASSUME NEW v \in Vid, due'[x][v] > 0, Registrar(x, v) # "LV"
       PROVE  /\ due'[x][v] = 2 /\ v \in held[y] /\ lv'[x] = LvTicks + 1
              /\ State(y, v) \in Quick /\ join[y] = 2
              /\ ~Owes(y) /\ lvat[y] = LvaTicks + 1
  <2>1. due'[x][v] = 2 /\ v \in held[y] /\ Registrar(x, v)' = "LV"
    BY Zenon, <1>5, <1>14
  <2>2. lv'[x] = LvTicks + 1 /\ (pdu.lva \/ (v \in DOMAIN pdu.ev /\ pdu.ev[v] = "LV"))
    BY Zenon, <1>4, <1>14, <2>1 DEF HearsOf
  <2>3. pdu.lva
    BY Zenon, <1>1, <1>4, <2>1, <2>2 DEF NoLeaveHeld
  <2>4. State(y, v) \in Quick /\ ~Owes(y) /\ lvat[y] = LvaTicks + 1
    BY Zenon, <1>1, <1>4, <2>1, <2>3 DEF LeaveAllSent
  <2>5. join[y] > 0
    BY Zenon, <2>4, ServedIs
  <2>6. join[y] # 1 /\ join[y] \in 0 .. 2
    BY Zenon, <1>1, <1>4, Values DEF OneInFlight
  <2>7. join[y] = 2
    BY <2>5, <2>6
  <2>. QED  BY Zenon, <2>1, <2>2, <2>4, <2>7
<1>15. ASSUME NEW v \in Vid, due'[x][v] > 0, Registrar(x, v) = "LV"
       PROVE  due'[x][v] = due[x][v] /\ due[x][v] > 0
  BY Zenon, <1>5, <1>15
<1>16. Truthful'
  <2>. SUFFICES ASSUME NEW n \in Node, NEW p \in Node, NEW v \in Vid,
                       n # p, due'[n][v] > 0, Satisfies(link'[n], v)
       PROVE  State(p, v)' \in Quick /\ join'[p] # 1
    BY Zenon, TruthfulNext
  <2>1. n = x /\ p = y /\ link'[n] = link[n]
    BY Zenon, <1>3, <1>11 DEF Satisfies
  <2>2. State(y, v) \in Quick /\ join[y] # 1
    <3>1. CASE Registrar(x, v) = "LV"
      BY Zenon, <1>1, <1>15, <2>1, <3>1 DEF Truthful
    <3>2. CASE Registrar(x, v) # "LV"
      <4>1. State(y, v) \in Quick /\ join[y] = 2
        BY Zenon, <1>14, <2>1, <3>2
      <4>. QED  BY <4>1
    <3>. QED  BY Zenon, <3>1, <3>2
  <2>. QED  BY Zenon, <1>4, <2>1, <2>2
<1>17. Answered'
  <2>. SUFFICES ASSUME NEW n \in Node, NEW p \in Node, NEW v \in Vid, n # p, due'[n][v] > 0
       PROVE  /\ Registrar(n, v)' = "LV"
              /\ v \in held'[p]
              /\ Come(link'[n], link'[p], v, State(p, v)', join'[p], Owes(p)', lvat'[p],
                      LvTicks + 1 - lv'[n], due'[n][v] - 1)
    BY Zenon, AnsweredNext
  <2>1. CASE n = x /\ Registrar(x, v) # "LV"
    <3>1. p = y
      BY Zenon, <1>3, <2>1
    <3>2. /\ due'[x][v] = 2 /\ v \in held[y] /\ lv'[x] = LvTicks + 1
          /\ State(y, v) \in Quick /\ join[y] = 2
          /\ ~Owes(y) /\ lvat[y] = LvaTicks + 1
      BY Zenon, <1>14, <2>1
    <3>3. Pend(State(y, v), join[y], Owes(y), lvat[y], LvTicks + 1 - lv'[x], due'[x][v] - 1)
      BY <1>6, <3>2 DEF Pend, InTime
    <3>. QED  BY Zenon, <1>4, <1>5, <2>1, <3>1, <3>2, <3>3 DEF Come
  <2>2. CASE n = x /\ Registrar(x, v) = "LV"
    <3>1. p = y /\ due'[x][v] = due[x][v] /\ due[x][v] > 0
      BY Zenon, <1>3, <1>15, <2>2
    <3>. DEFINE a == LvTicks + 1 - lv[x]
                d == LvTicks + 1 - lv'[x]
                b == due[x][v] - 1
    <3>2. /\ v \in held[y]
          /\ Come(link[x], link[y], v, State(y, v), join[y], Owes(y), lvat[y], a, b)
      BY Zenon, <1>1, <2>2, <3>1 DEF Answered
    <3>3. Registrar(x, v)' = "LV"
      BY Zenon, <1>5, <2>2
    <3>4. ~Declares(link[y], v)
      BY Zenon, <1>4, <3>3 DEF HearsOf
    <3>5. a \in Nat /\ d \in Nat /\ d <= a /\ b \in 0 .. 1 /\ join[y] \in 0 .. 2
      <4>1. /\ lv[x] \in Nat /\ LvTicks + 1 - lv[x] \in Nat /\ due[x][v] \in 0 .. 2
            /\ join[y] \in 0 .. 2
        BY Zenon, Values
      <4>2. lv'[x] \in {lv[x], LvTicks + 1}
        BY Zenon, <1>4
      <4>. QED  BY <1>6, <3>1, <4>1, <4>2
    <3>. HIDE DEF a, b, d
    <3>6. Ask(link[x], a, b) => Ask(link[x], d, b)
      BY <3>5 DEF Ask
    <3>7. Pend(State(y, v), join[y], Owes(y), lvat[y], a, b) =>
             Pend(State(y, v), join[y], Owes(y), lvat[y], d, b)
      BY <3>5 DEF Pend, InTime
    <3>8. Come(link[x], NoPdu, v, State(y, v), join[y], Owes(y), lvat[y], d, b)
      BY Zenon, <3>2, <3>4, <3>6, <3>7 DEF Come
    <3>. QED  BY Zenon, <1>4, <2>2, <3>1, <3>2, <3>3, <3>8 DEF b, d
  <2>3. CASE n = y
    <3>1. p = x /\ due'[y] = due[y]
      BY Zenon, <1>3, <1>5, <2>3
    <3>. DEFINE a == LvTicks + 1 - lv[y]
                b == due[y][v] - 1
                s == State(x, v)
                t == State(x, v)'
    <3>2. /\ Registrar(y, v) = "LV" /\ v \in held[x]
          /\ Come(pdu, link[x], v, s, join[x], Owes(x), lvat[x], a, b)
      BY Zenon, <1>1, <2>3, <3>1 DEF Answered
    <3>3. a \in Nat /\ b \in 0 .. 1
      <4>1. LvTicks + 1 - lv[y] \in Nat /\ due[y][v] \in 0 .. 2
        BY Zenon, Values
      <4>. QED  BY <2>3, <3>1, <4>1
    <3>4. join[x] \in 0 .. 2 /\ lvat[x] \in Nat
      BY Zenon, Values
    <3>5. join'[x] \in 0 .. 2
      BY Zenon DEF TInv, Timers
    <3>6. s \in Declared /\ HearsOf(x, pdu, v)
      BY Zenon, <1>1, <1>4, <3>2 DEF HeldDeclared
    <3>7. pdu.lva => t \in Quick /\ join'[x] > 0
      <4>1. pdu.lva => t \in Quick
        BY Zenon, <3>6 DEF HearsOf
      <4>. QED  BY Zenon, <4>1, ServedNext
    <3>8. ~pdu.lva => /\ s \in Quick => t \in Quick
                      /\ s \in Soon => t \in Quick \cup Soon
      <4>1. Satisfies(pdu, v) => s \in Quick
        BY Zenon, <1>1, <2>3, <3>1 DEF Truthful
      <4>. QED  BY Zenon, <3>6, <4>1 DEF HearsOf
    <3>. HIDE DEF a, b, s, t
    <3>9. ASSUME NEW c \in 0 .. 1,
                 Ask(pdu, a, c) \/ Pend(s, join[x], Owes(x), lvat[x], a, c)
          PROVE  Pend(t, join'[x], Owes(x)', lvat'[x], a, c)
      <4>1. CASE pdu.lva
        <5>1. /\ lvat'[x] = LvaTicks + 1 /\ (Owes(x)' => lvat[x] = 1)
              /\ t \in Quick /\ join'[x] > 0
          BY Zenon, <1>4, <3>7, <4>1
        <5>2. lvat'[x] > join'[x] + c /\ join'[x] >= 1
          BY <1>6, <3>5, <5>1
        <5>3. a + join'[x] + c <= 3 \/ (a + join'[x] + c <= 4 /\ ~Owes(x)')
          <6>1. CASE Ask(pdu, a, c)
            BY <3>3, <3>5, <3>9, <6>1 DEF Ask
          <6>2. CASE Pend(s, join[x], Owes(x), lvat[x], a, c)
            <7>1. join'[x] = join[x] /\ join[x] >= 1
              <8>1. JoinKept(join[x], join'[x]) /\ join[x] >= 1
                BY Zenon, <1>4, <6>2 DEF Pend
              <8>. QED  BY Zenon, <3>4, <8>1, JoinStays
            <7>2. CASE Owes(x)
              BY Zenon, <6>2, <7>1, <7>2 DEF Pend, InTime
            <7>3. CASE ~Owes(x)
              <8>1. a + join[x] + c <= 4 /\ lvat[x] > join[x] + c
                BY Zenon, <6>2, <7>3 DEF Pend, InTime
              <8>2. lvat[x] # 1
                BY <3>4, <7>1, <8>1
              <8>. QED  BY Zenon, <5>1, <7>1, <8>1, <8>2
            <7>. QED  BY Zenon, <7>2, <7>3
          <6>. QED  BY Zenon, <3>9, <6>1, <6>2
        <5>4. a + join'[x] + c <= 3 => a + join'[x] + c <= 4
          BY <3>3, <3>5
        <5>. QED  BY Zenon, <5>1, <5>2, <5>3, <5>4 DEF Pend, InTime
      <4>2. CASE ~pdu.lva
        <5>1. Pend(s, join[x], Owes(x), lvat[x], a, c)
          BY Zenon, <3>9, <4>2 DEF Ask
        <5>2. join'[x] = join[x]
          <6>1. JoinKept(join[x], join'[x]) /\ join[x] >= 1
            BY Zenon, <1>4, <5>1 DEF Pend
          <6>. QED  BY Zenon, <3>4, <6>1, JoinStays
        <5>3. Owes(x)' = Owes(x) /\ lvat'[x] = lvat[x]
          BY Zenon, <1>4, <4>2
        <5>4. t \in Quick \/ (c = 0 /\ t \in Soon)
          BY Zenon, <3>8, <4>2, <5>1 DEF Pend
        <5>. QED  BY Zenon, <5>1, <5>2, <5>3, <5>4 DEF Pend
      <4>. QED  BY Zenon, <4>1, <4>2
    <3>10. 0 \in 0 .. 1
      OBVIOUS
    <3>11. Come(NoPdu, link[x], v, t, join'[x], Owes(x)', lvat'[x], a, b)
      BY Zenon, <3>2, <3>3, <3>9, <3>10 DEF Come
    <3>. QED  BY Zenon, <1>4, <2>3, <3>1, <3>2, <3>11 DEF a, b, t
  <2>. QED  BY Zenon, <1>3, <2>1, <2>2, <2>3
<1>18. EndedEarly'
  <2>. SUFFICES ASSUME NEW n \in Node, NEW v \in Vid, "lv" \in stale'[n], due'[n][v] > 0
       PROVE  FALSE
    BY Zenon DEF EndedEarly
  <2>1. CASE n = y
    BY Zenon, <1>1, <1>4, <1>5, <2>1 DEF EndedEarly
  <2>2. CASE n = x
    <3>1. lv[x] = 1
      BY Zenon, <1>4, <2>2
    <3>2. ~(due[x][v] > 0)
      BY Zenon, <3>1, NoneDue
    <3>. QED  BY Zenon, <1>5, <1>15, <2>2, <3>2
  <2>. QED  BY Zenon, <1>3, <2>1, <2>2
<1>. QED  BY Zenon, <1>5, <1>7, <1>9, <1>10, <1>12, <1>13, <1>16, <1>17, <1>18 DEF Answers
=============================================================================
