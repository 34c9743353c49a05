---------------------------- MODULE PdelayProofs ----------------------------
(***************************************************************************)
(* Proofs about Pdelay, for any peers, any limits, any queue and any       *)
(* number of troubles.                                                     *)
(***************************************************************************)
EXTENDS Pdelay, TLAPS

\* Where the tasks are, and what is known of the last request.
PcOK == pc = [timer |-> pc.timer, work |-> pc.work, rx |-> pc.rx, proc |-> pc.proc]
ReqOK == req = [valid |-> req.valid, resp |-> req.resp, ts |-> req.ts]

LEMMA PcStep ==
    ASSUME PcOK
    PROVE  /\ \A x : [pc EXCEPT !.timer = x] =
                 [timer |-> x, work |-> pc.work, rx |-> pc.rx, proc |-> pc.proc]
           /\ \A x : [pc EXCEPT !.work = x] =
                 [timer |-> pc.timer, work |-> x, rx |-> pc.rx, proc |-> pc.proc]
           /\ \A x : [pc EXCEPT !.rx = x] =
                 [timer |-> pc.timer, work |-> pc.work, rx |-> x, proc |-> pc.proc]
           /\ \A x : [pc EXCEPT !.proc = x] =
                 [timer |-> pc.timer, work |-> pc.work, rx |-> pc.rx, proc |-> x]
           /\ \A x, y : [pc EXCEPT !.work = x, !.rx = y] =
                 [timer |-> pc.timer, work |-> x, rx |-> y, proc |-> pc.proc]
<1>. DEFINE a == pc.timer
            b == pc.work
            c == pc.rx
            d == pc.proc
<1>1. pc = [timer |-> a, work |-> b, rx |-> c, proc |-> d]
  BY DEF PcOK
<1>. HIDE DEF a, b, c, d
<1>2. \A x : [pc EXCEPT !.timer = x] = [timer |-> x, work |-> b, rx |-> c, proc |-> d]
  BY <1>1
<1>3. \A x : [pc EXCEPT !.work = x] = [timer |-> a, work |-> x, rx |-> c, proc |-> d]
  BY <1>1
<1>4. \A x : [pc EXCEPT !.rx = x] = [timer |-> a, work |-> b, rx |-> x, proc |-> d]
  BY <1>1
<1>5. \A x : [pc EXCEPT !.proc = x] = [timer |-> a, work |-> b, rx |-> c, proc |-> x]
  BY <1>1
<1>6. \A x, y : [pc EXCEPT !.work = x, !.rx = y] =
                 [timer |-> a, work |-> x, rx |-> y, proc |-> d]
  <2>. TAKE x, y
  <2>1. PICK q : q = [pc EXCEPT !.work = x]
    BY Zenon
  <2>2. q = [timer |-> a, work |-> x, rx |-> c, proc |-> d]
    BY Zenon, <1>3, <2>1
  <2>3. [q EXCEPT !.rx = y] = [timer |-> a, work |-> x, rx |-> y, proc |-> d]
    BY <2>2
  <2>. QED  BY ZenonT(40), <2>1, <2>3
<1>. QED  BY Zenon, <1>2, <1>3, <1>4, <1>5, <1>6 DEF a, b, c, d

(***************************************************************************)
(* What a step does to the places of the tasks.                            *)
(***************************************************************************)
Places(t, w, r, p) ==
    /\ PcOK'
    /\ pc'.timer = t /\ pc'.work = w /\ pc'.rx = r /\ pc'.proc = p

LEMMA PlacesAre ==
    ASSUME NEW t, NEW w, NEW r, NEW p,
           pc' = [timer |-> t, work |-> w, rx |-> r, proc |-> p]
    PROVE  Places(t, w, r, p)
BY DEF Places, PcOK

LEMMA PlacesOf ==
    ASSUME PcOK, Next
    PROVE  \/ /\ TimerFires
              /\ Places("start", pc.work, pc.rx, pc.proc)
           \/ /\ port_pdelay_req_func
              /\ Places("idle", pc.work, pc.rx, pc.proc)
           \/ /\ TxMissing
              /\ Places(pc.timer, "count", pc.rx, pc.proc)
           \/ /\ TxCount /\ pc.work = "count"
              /\ Places(pc.timer, "clear", pc.rx, pc.proc)
           \/ /\ TxClear /\ pc.work = "clear"
              /\ Places(pc.timer, "drop", pc.rx, pc.proc)
           \/ /\ TxDrop /\ pc.work = "drop"
              /\ Places(pc.timer, "save", pc.rx, pc.proc)
           \/ /\ TxSave /\ pc.work = "save"
              /\ Places(pc.timer, "send", pc.rx, pc.proc)
           \/ /\ TxSend /\ pc.work = "send"
              /\ Places(pc.timer, "idle", [i \in DOMAIN pc.rx |-> Aged(pc.rx[i])],
                        pc.proc)
           \/ /\ TxFails /\ pc.work = "save"
              /\ Places(pc.timer, "idle", pc.rx, pc.proc)
           \/ \E m \in net :
                 /\ Rx(m)
                 /\ \/ /\ Places(pc.timer, pc.work, <<m>>, pc.proc)
                       /\ Expected(m) /\ state = "UP"
                    \/ Places(pc.timer, pc.work, pc.rx, pc.proc) /\ UNCHANGED <<racing, raced>>
           \/ /\ RxSave
              /\ Places(pc.timer, pc.work, <<>>, pc.proc)
           \/ /\ Proc
              /\ \E x : Places(pc.timer, pc.work, pc.rx, x)
           \/ /\ ProcAnswered
              /\ Places(pc.timer, pc.work, pc.rx, "idle")
           \/ /\ \/ \E m \in net : handle_delayed_pdelay_req(m)
                 \/ RxOther \/ port_fault_timeout_work \/ Environment
              /\ Places(pc.timer, pc.work, pc.rx, pc.proc)
<1>1. CASE TimerFires
  BY Zenon, <1>1, PcStep, PlacesAre DEF TimerFires
<1>2. CASE port_pdelay_req_func
  BY Zenon, <1>2, PcStep, PlacesAre DEF port_pdelay_req_func
<1>3. CASE TxMissing
  BY Zenon, <1>3, PcStep, PlacesAre DEF TxMissing
<1>4. CASE TxCount \/ TxClear \/ TxDrop \/ TxSave
  <2>1. CASE TxCount
    BY Zenon, <2>1, PcStep, PlacesAre DEF TxCount
  <2>2. CASE TxClear
    BY Zenon, <2>2, PcStep, PlacesAre DEF TxClear
  <2>3. CASE TxDrop
    BY Zenon, <2>3, PcStep, PlacesAre DEF TxDrop
  <2>4. CASE TxSave
    BY Zenon, <2>4, PcStep, PlacesAre DEF TxSave
  <2>. QED  BY Zenon, <1>4, <2>1, <2>2, <2>3, <2>4
<1>5. CASE TxSend
  BY ZenonT(40), <1>5, PcStep, PlacesAre DEF TxSend
<1>6. CASE TxFails
  BY Zenon, <1>6, PcStep, PlacesAre DEF TxFails
<1>same. UNCHANGED pc => Places(pc.timer, pc.work, pc.rx, pc.proc)
  BY Zenon, PlacesAre DEF PcOK
<1>7. ASSUME NEW m \in net, Rx(m)
      PROVE  \/ /\ Places(pc.timer, pc.work, <<m>>, pc.proc)
                /\ Expected(m) /\ state = "UP"
             \/ Places(pc.timer, pc.work, pc.rx, pc.proc) /\ UNCHANGED <<racing, raced>>
  BY Zenon, <1>7, <1>same, PcStep, PlacesAre DEF Rx
<1>8. CASE RxSave
  BY Zenon, <1>8, PcStep, PlacesAre DEF RxSave
<1>9. CASE Proc
  <2>1. pc' = pc \/ pc' = [pc EXCEPT !.proc = "answered"]
    BY Zenon, <1>9 DEF Proc, proc_pdelay_req, ProcDelay
  <2>. QED  BY Zenon, <1>9, <1>same, <2>1, PcStep, PlacesAre
<1>10. CASE ProcAnswered
  BY Zenon, <1>10, PcStep, PlacesAre DEF ProcAnswered
<1>11. CASE \/ \E m \in net : handle_delayed_pdelay_req(m)
            \/ RxOther \/ port_fault_timeout_work \/ Environment
  <2>1. UNCHANGED pc
    BY Zenon, <1>11 DEF handle_delayed_pdelay_req, RxOther, port_fault_timeout_work,
         Environment, Answer, handle_pdelay_req, Lose, LinkUp, LinkDown, Die
  <2>. QED  BY Zenon, <1>11, <1>same, <2>1
<1>. QED
  BY Zenon, <1>1, <1>2, <1>3, <1>4, <1>5, <1>6, <1>7, <1>8, <1>9, <1>10, <1>11
     DEF Next, Timer, Work, Receive, Message
-----------------------------------------------------------------------------
(***************************************************************************)
(* A port that is up keeps asking.                                         *)
(***************************************************************************)
Asking == state \in {"UP", "FAULTY"} /\ KeepsAsking

LEMMA AskingInit == Init => PcOK /\ Asking
BY DEF Init, PcOK, Idle, Asking, KeepsAsking

\* A handler that finds too many responses makes the port FAULTY.
LEMMA RxSavePort ==
    ASSUME RxSave
    PROVE  /\ UNCHANGED no_link
           /\ \/ state' = "FAULTY" /\ last_fault' = TRUE
              \/ UNCHANGED <<state, last_fault, timer>>
BY Zenon DEF RxSave, handle_pdelay_resp, handle_pdelay_resp_fup, Fault

LEMMA AskingStep ==
    ASSUME PcOK, Asking, [Next]_vars
    PROVE  PcOK' /\ Asking'
<1>1. CASE TimerFires /\ Places("start", pc.work, pc.rx, pc.proc)
  BY <1>1 DEF TimerFires, Asking, KeepsAsking, Places
<1>2. CASE port_pdelay_req_func /\ Places("idle", pc.work, pc.rx, pc.proc)
  BY <1>2 DEF port_pdelay_req_func, Asking, KeepsAsking, Places
<1>3. ASSUME NEW w, NEW r, NEW p, Places(pc.timer, w, r, p), UNCHANGED portVars
      PROVE  PcOK' /\ Asking'
  BY <1>3 DEF portVars, Asking, KeepsAsking, Places
<1>4. CASE \/ TxMissing \/ TxCount \/ TxClear \/ TxDrop \/ TxSave \/ TxSend \/ TxFails
           \/ Proc \/ ProcAnswered \/ RxOther
           \/ \E m \in net : Rx(m) \/ handle_delayed_pdelay_req(m)
  <2>1. UNCHANGED portVars
    BY Zenon, <1>4 DEF TxMissing, TxCount, TxClear, TxDrop, TxSave, TxSend, TxFails,
         Proc, ProcAnswered, RxOther, handle_delayed_pdelay_req, Rx
  <2>2. \E w, r, p : Places(pc.timer, w, r, p)
    <3>1. pc'.timer = pc.timer /\ PcOK'
      <4>1. CASE TxMissing \/ TxCount \/ TxClear \/ TxDrop \/ TxSave \/ TxSend \/ TxFails
        BY ZenonT(40), <4>1, PcStep, PlacesAre DEF Places, TxMissing, TxCount, TxClear,
             TxDrop, TxSave, TxSend, TxFails
      <4>2. CASE Proc \/ ProcAnswered
        BY ZenonT(40), <4>2, PcStep, PlacesAre DEF Places, Proc, proc_pdelay_req,
             ProcDelay, ProcAnswered, PcOK
      <4>3. CASE RxOther \/ \E m \in net : Rx(m) \/ handle_delayed_pdelay_req(m)
        BY ZenonT(40), <4>3, PcStep, PlacesAre DEF Places, RxOther,
             handle_delayed_pdelay_req, Rx, PcOK
      <4>. QED  BY Zenon, <1>4, <4>1, <4>2, <4>3
    <3>. QED  BY Zenon, <3>1 DEF Places
  <2>. QED  BY Zenon, <1>3, <2>1, <2>2
<1>5. ASSUME NEW w, NEW r, NEW p, Places(pc.timer, w, r, p), RxSave
      PROVE  PcOK' /\ Asking'
  <2>1. CASE state' = "FAULTY" /\ last_fault' = TRUE
    BY <1>5, <2>1 DEF Asking, KeepsAsking, Places
  <2>2. CASE UNCHANGED <<state, last_fault, timer>>
    BY Zenon, <1>3, <1>5, <2>2, RxSavePort DEF portVars
  <2>. QED  BY Zenon, <1>5, <2>1, <2>2, RxSavePort
<1>6. ASSUME Places(pc.timer, pc.work, pc.rx, pc.proc),
             port_fault_timeout_work \/ LinkUp \/ LinkDown
      PROVE  PcOK' /\ Asking'
  <2>1. CASE port_fault_timeout_work
    BY <1>6, <2>1 DEF port_fault_timeout_work, port_initialize, Stay, Asking,
         KeepsAsking, Places
  <2>2. CASE LinkUp
    BY <1>6, <2>2 DEF LinkUp, port_initialize, Stay, Asking, KeepsAsking, Places
  <2>3. CASE LinkDown
    BY <1>6, <2>3 DEF LinkDown, Asking, KeepsAsking, Places
  <2>. QED  BY Zenon, <1>6, <2>1, <2>2, <2>3
<1>7. ASSUME Places(pc.timer, pc.work, pc.rx, pc.proc), Environment
      PROVE  PcOK' /\ Asking'
  <2>1. LinkUp \/ LinkDown \/ UNCHANGED portVars
    BY Zenon, <1>7 DEF Environment, Answer, handle_pdelay_req, Lose, Die
  <2>. QED  BY Zenon, <1>3, <1>6, <1>7, <2>1
<1>8. CASE UNCHANGED vars
  BY <1>8 DEF vars, portVars, PcOK, Asking, KeepsAsking
<1>. QED
  BY Zenon, <1>1, <1>2, <1>4, <1>5, <1>6, <1>7, <1>8, PlacesOf

(***************************************************************************)
(* The timer callback, port_stop_p2p, the link and the fault timeout may   *)
(* come in any order: a port that is not FAULTY always has its Pdelay_Req  *)
(* timer armed or about to be, and a FAULTY one a cause that will end.     *)
(***************************************************************************)
THEOREM NeverStopsAsking == Spec => []KeepsAsking
<1>1. Asking => KeepsAsking
  BY DEF Asking
<1>. QED  BY <1>1, AskingInit, AskingStep, PTL DEF Spec

-----------------------------------------------------------------------------
(***************************************************************************)
(* asCapable is not kept without responses.  Low bounds resp_missing while *)
(* the port may be asCapable; the requests sent since the last response    *)
(* are at most two ahead of it, how far depends on where the work task is  *)
(* in port_tx_pdelay_req and on whether the last request is answered.      *)
(* The bound holds as well while as_capable is FALSE and resp_missing      *)
(* would allow it, since port_peer_delay may set it before the counter is  *)
(* cleared; and while resp_missing is above the limit and as_capable TRUE, *)
(* since port_initialize leaves it so.                                     *)
(***************************************************************************)
Low(r) == IF r < AllowedLost THEN r ELSE AllowedLost - 1

FreshAt(w, valid, resp, r, s) ==
    /\ w = "idle" /\ valid /\ ~resp => s <= Low(r) + 2
    /\ w = "idle" /\ valid /\ resp => s <= 1
    /\ w = "idle" /\ ~valid => s <= Low(r) + 1
    /\ w # "idle" => s <= Low(r) + 1
    /\ w \in {"drop", "save", "send"} /\ resp => s = 0

MayBe == as_capable \/ resp_missing < AllowedLost

Fresh ==
    /\ PcOK /\ ReqOK
    /\ resp_missing \in Nat /\ silent \in Nat
    /\ pc.work \in {"idle", "count", "clear", "drop", "save", "send"}
    /\ pc.work = "send" => req.valid
    /\ MayBe => FreshAt(pc.work, req.valid, req.resp, resp_missing, silent)

LEMMA FreshImplies == Fresh => CapableIsFresh
<1>1. ASSUME NEW w, NEW valid, NEW resp, NEW r \in Nat, NEW s \in Nat,
             FreshAt(w, valid, resp, r, s)
      PROVE  s <= AllowedLost + 1
  BY <1>1, PdelayAssumption DEF FreshAt, Low
<1>. QED  BY Zenon, <1>1 DEF Fresh, MayBe, CapableIsFresh

LEMMA FreshInit == Init => Fresh
BY PdelayAssumption DEF Init, Fresh, PcOK, ReqOK, Idle, NoReq, MayBe, FreshAt, Low

LEMMA ReqStep ==
    ASSUME ReqOK
    PROVE  /\ \A x : [req EXCEPT !.resp = x] =
                        [valid |-> req.valid, resp |-> x, ts |-> req.ts]
           /\ \A x : [req EXCEPT !.ts = x] =
                        [valid |-> req.valid, resp |-> req.resp, ts |-> x]
           /\ \A x : [req EXCEPT !.valid = x] =
                        [valid |-> x, resp |-> req.resp, ts |-> req.ts]
<1>. DEFINE a == req.valid
            b == req.resp
            c == req.ts
<1>1. req = [valid |-> a, resp |-> b, ts |-> c]
  BY DEF ReqOK
<1>. HIDE DEF a, b, c
<1>2. \A x : [req EXCEPT !.resp = x] = [valid |-> a, resp |-> x, ts |-> c]
  BY <1>1
<1>3. \A x : [req EXCEPT !.ts = x] = [valid |-> a, resp |-> b, ts |-> x]
  BY <1>1
<1>4. \A x : [req EXCEPT !.valid = x] = [valid |-> x, resp |-> b, ts |-> c]
  BY <1>1
<1>. QED  BY Zenon, <1>2, <1>3, <1>4 DEF a, b, c

Request(valid, resp) == ReqOK' /\ req'.valid = valid /\ req'.resp = resp

LEMMA RequestIs ==
    ASSUME NEW v, NEW x, NEW t, req' = [valid |-> v, resp |-> x, ts |-> t]
    PROVE  Request(v, x)
BY DEF Request, ReqOK

LEMMA FreshStep ==
    ASSUME Fresh, [Next]_vars
    PROVE  Fresh'
<1>1. /\ PcOK /\ ReqOK
      /\ resp_missing \in Nat /\ silent \in Nat
      /\ pc.work \in {"idle", "count", "clear", "drop", "save", "send"}
      /\ pc.work = "send" => req.valid
      /\ MayBe => FreshAt(pc.work, req.valid, req.resp, resp_missing, silent)
  BY Zenon DEF Fresh
<1>req. UNCHANGED req => Request(req.valid, req.resp)
  BY Zenon, <1>1, RequestIs DEF ReqOK
<1>2. ASSUME NEW t, NEW r, NEW p, Places(t, pc.work, r, p),
             Request(req.valid, req.resp), UNCHANGED <<resp_missing, silent>>,
             as_capable' => MayBe
      PROVE  Fresh'
  BY Zenon, <1>1, <1>2 DEF Fresh, MayBe, Places, Request
<1>3. ASSUME NEW t, NEW r, NEW p, Places(t, "count", r, p), TxMissing
      PROVE  Fresh'
  <2>1. pc.work = "idle" /\ UNCHANGED silent /\ Request(req.valid, req.resp)
    BY Zenon, <1>3, <1>req DEF TxMissing, infoVars, ghosts
  <2>2. CASE req.valid /\ ~req.resp
    <3>1. /\ resp_missing' = OneMoreMissing
          /\ as_capable' => resp_missing' < AllowedLost
      BY Zenon, <1>3, <2>2 DEF TxMissing, NoResponse, Capable
    <3>2. resp_missing' \in Nat
      BY <1>1, <3>1 DEF OneMoreMissing
    <3>3. ASSUME MayBe'
          PROVE  FreshAt("count", req.valid, req.resp, resp_missing', silent)
      <4>1. resp_missing' = resp_missing + 1 /\ resp_missing' < AllowedLost
        BY <1>1, <3>1, <3>3, PdelayAssumption DEF OneMoreMissing, MayBe
      <4>2. silent <= Low(resp_missing) + 2
        <5>1. MayBe
          BY <1>1, <4>1, PdelayAssumption DEF MayBe
        <5>. QED  BY Zenon, <1>1, <2>1, <2>2, <5>1 DEF FreshAt
      <4>3. silent <= Low(resp_missing') + 1
        BY <1>1, <4>1, <4>2, PdelayAssumption DEF Low
      <4>. QED  BY <4>3 DEF FreshAt
    <3>. QED  BY Zenon, <1>1, <1>3, <2>1, <3>2, <3>3 DEF Fresh, Places, Request
  <2>3. CASE ~(req.valid /\ ~req.resp)
    <3>1. UNCHANGED <<resp_missing, as_capable>>
      BY Zenon, <1>3, <2>3 DEF TxMissing
    <3>2. ASSUME MayBe
          PROVE  FreshAt("count", req.valid, req.resp, resp_missing, silent)
      <4>1. silent <= 1 \/ silent <= Low(resp_missing) + 1
        BY Zenon, <1>1, <2>1, <2>3, <3>2 DEF FreshAt
      <4>2. silent <= Low(resp_missing) + 1
        BY <1>1, <4>1, PdelayAssumption DEF Low
      <4>. QED  BY <4>2 DEF FreshAt
    <3>. QED  BY Zenon, <1>1, <1>3, <2>1, <3>1, <3>2 DEF Fresh, Places, Request, MayBe
  <2>. QED  BY Zenon, <2>2, <2>3
<1>4. ASSUME NEW t, NEW r, NEW p, TxClear, Places(t, "drop", r, p)
      PROVE  Fresh'
  <2>1. /\ pc.work = "clear" /\ req' = NoReq
        /\ UNCHANGED <<silent, resp_missing, as_capable>>
    BY Zenon, <1>4 DEF TxClear, capVars, ghosts
  <2>2. Request(FALSE, FALSE)
    BY Zenon, <2>1, RequestIs DEF NoReq
  <2>3. MayBe => silent <= Low(resp_missing) + 1
    BY <1>1, <2>1 DEF FreshAt
  <2>4. MayBe => FreshAt("drop", FALSE, FALSE, resp_missing, silent)
    BY <2>3 DEF FreshAt
  <2>. QED  BY Zenon, <1>1, <1>4, <2>1, <2>2, <2>4 DEF Fresh, Places, Request, MayBe
<1>on. ASSUME NEW t, NEW w, NEW r, NEW p, NEW v, Places(t, w, r, p), Request(v, req.resp),
              UNCHANGED <<resp_missing, silent, as_capable>>,
              \/ pc.work = "count" /\ w = "clear"
              \/ pc.work = "drop" /\ w = "save"
              \/ pc.work = "save" /\ w = "send" /\ v
       PROVE  Fresh'
  <2>1. MayBe => FreshAt(w, v, req.resp, resp_missing, silent)
    BY <1>1, <1>on DEF FreshAt
  <2>2. /\ w \in {"idle", "count", "clear", "drop", "save", "send"}
        /\ w = "send" => v
    BY <1>on
  <2>. QED  BY Zenon, <1>1, <1>on, <2>1, <2>2 DEF Fresh, Places, Request, MayBe
<1>tx. ASSUME NEW t, NEW w, NEW r, NEW p, Places(t, w, r, p),
              \/ TxCount /\ pc.work = "count" /\ w = "clear"
              \/ TxDrop /\ pc.work = "drop" /\ w = "save"
       PROVE  Fresh'
  <2>1. UNCHANGED <<resp_missing, silent, as_capable, req>>
    BY Zenon, <1>tx DEF TxCount, TxDrop, capVars, infoVars
  <2>. QED  BY Zenon, <1>tx, <1>on, <1>req, <2>1
<1>sv. ASSUME NEW t, NEW r, NEW p, Places(t, "send", r, p), TxSave, pc.work = "save"
       PROVE  Fresh'
  <2>1. /\ UNCHANGED <<resp_missing, silent, as_capable>>
        /\ req' = [req EXCEPT !.valid = TRUE]
    BY Zenon, <1>sv DEF TxSave, capVars, ghosts
  <2>2. Request(TRUE, req.resp)
    <3>1. req' = [valid |-> TRUE, resp |-> req.resp, ts |-> req.ts]
      BY Zenon, <1>1, <2>1, ReqStep
    <3>. QED  BY SMTT(30), <3>1 DEF Request, ReqOK
  <2>. QED  BY Zenon, <1>sv, <1>on, <2>1, <2>2
<1>5. ASSUME NEW t, NEW r, NEW p, Places(t, "idle", r, p), TxSend
      PROVE  Fresh'
  <2>1. /\ pc.work = "send" /\ UNCHANGED <<resp_missing, as_capable>>
        /\ req' = [req EXCEPT !.ts = FALSE] /\ req.valid
        /\ silent' = IF silent <= AllowedLost + 1 THEN silent + 1 ELSE silent
    BY Zenon, <1>1, <1>5 DEF TxSend, capVars
  <2>2. Request(req.valid, req.resp)
    <3>1. req' = [valid |-> req.valid, resp |-> req.resp, ts |-> FALSE]
      BY Zenon, <1>1, <2>1, ReqStep
    <3>. QED  BY SMTT(30), <3>1 DEF Request, ReqOK
  <2>3. silent' \in Nat /\ silent' <= silent + 1
    BY <1>1, <2>1, PdelayAssumption
  <2>4. ASSUME MayBe
        PROVE  FreshAt("idle", req.valid, req.resp, resp_missing, silent')
    <3>1. /\ silent <= Low(resp_missing) + 1
          /\ req.resp => silent = 0
      BY <1>1, <2>1, <2>4 DEF FreshAt
    <3>2. /\ silent' <= Low(resp_missing) + 2
          /\ req.resp => silent' <= 1
      BY <1>1, <2>3, <3>1, PdelayAssumption DEF Low
    <3>. QED  BY <2>1, <3>2 DEF FreshAt
  <2>. QED  BY Zenon, <1>1, <1>5, <2>1, <2>2, <2>3, <2>4 DEF Fresh, Places, Request, MayBe
<1>6. ASSUME NEW t, NEW r, NEW p, Places(t, "idle", r, p), TxFails
      PROVE  Fresh'
  <2>1. /\ pc.work = "save" /\ UNCHANGED <<resp_missing, as_capable, silent>>
        /\ Request(req.valid, req.resp)
    BY Zenon, <1>6, <1>req DEF TxFails, capVars, infoVars, ghosts
  <2>2. ASSUME MayBe
        PROVE  FreshAt("idle", req.valid, req.resp, resp_missing, silent)
    <3>1. /\ silent <= Low(resp_missing) + 1
          /\ req.resp => silent = 0
      BY <1>1, <2>1, <2>2 DEF FreshAt
    <3>2. /\ silent <= Low(resp_missing) + 2
          /\ req.resp => silent <= 1
      BY <1>1, <3>1, PdelayAssumption DEF Low
    <3>. QED  BY <3>1, <3>2 DEF FreshAt
  <2>. QED  BY Zenon, <1>1, <1>6, <2>1, <2>2 DEF Fresh, Places, Request, MayBe
<1>7. ASSUME NEW t, NEW r, NEW p, Places(t, pc.work, r, p), ProcAnswered
      PROVE  Fresh'
  <2>1. /\ req' = [req EXCEPT !.resp = TRUE] /\ resp_missing' = 0 /\ silent' = 0
    BY Zenon, <1>7 DEF ProcAnswered, Answered
  <2>2. Request(req.valid, TRUE)
    <3>1. req' = [valid |-> req.valid, resp |-> TRUE, ts |-> req.ts]
      BY Zenon, <1>1, <2>1, ReqStep
    <3>. QED  BY SMTT(30), <3>1 DEF Request, ReqOK
  <2>3. FreshAt(pc.work, req.valid, TRUE, 0, 0)
    <3>1. Low(0) = 0
      BY PdelayAssumption DEF Low
    <3>. QED  BY <3>1 DEF FreshAt
  <2>4. 0 \in Nat
    OBVIOUS
  <2>. QED  BY Zenon, <1>1, <1>7, <2>1, <2>2, <2>3, <2>4 DEF Fresh, Places, Request
<1>8. ASSUME Places(pc.timer, pc.work, pc.rx, pc.proc), port_initialize,
             UNCHANGED <<as_capable, req, silent>>
      PROVE  Fresh'
  <2>1. resp_missing' = AllowedLost + 1 /\ resp_missing' \in Nat
    BY <1>8, PdelayAssumption DEF port_initialize
  <2>2. ASSUME MayBe'
        PROVE  FreshAt(pc.work, req.valid, req.resp, resp_missing', silent)
    <3>1. MayBe
      BY <1>8, <2>1, <2>2, PdelayAssumption DEF MayBe
    <3>2. /\ Low(resp_missing) <= Low(resp_missing')
          /\ Low(resp_missing) \in Nat /\ Low(resp_missing') \in Nat
      BY <1>1, <2>1, PdelayAssumption DEF Low
    <3>3. FreshAt(pc.work, req.valid, req.resp, resp_missing, silent)
      BY Zenon, <1>1, <3>1
    <3>4. \A k \in Nat : silent <= Low(resp_missing) + k => silent <= Low(resp_missing') + k
      BY <1>1, <3>2
    <3>. QED  BY <3>3, <3>4 DEF FreshAt
  <2>. QED  BY Zenon, <1>1, <1>8, <1>req, <2>1, <2>2 DEF Fresh, Places, Request
<1>9. ASSUME Places(pc.timer, pc.work, pc.rx, pc.proc),
             \/ \E m \in net : handle_delayed_pdelay_req(m)
             \/ RxOther \/ port_fault_timeout_work \/ Environment
      PROVE  Fresh'
  <2>0. CASE RxOther
    <3>1. resp_missing' = AllowedLost - 1 /\ silent' = 0 /\ Request(req.valid, req.resp)
      BY Zenon, <2>0, <1>req DEF RxOther, infoVars
    <3>2. resp_missing' \in Nat /\ silent' \in Nat /\ Low(resp_missing') = AllowedLost - 1
      BY <3>1, PdelayAssumption DEF Low
    <3>3. FreshAt(pc.work, req.valid, req.resp, resp_missing', silent')
      BY <3>1, <3>2, PdelayAssumption DEF FreshAt
    <3>. QED  BY Zenon, <1>1, <1>9, <3>1, <3>2, <3>3 DEF Fresh, Places, Request
  <2>1. CASE \E m \in net : handle_delayed_pdelay_req(m)
    <3>1. UNCHANGED <<as_capable, resp_missing, silent>>
      BY Zenon, <2>1 DEF handle_delayed_pdelay_req, capVars, ghosts
    <3>2. Request(req.valid, req.resp)
      <4>1. UNCHANGED req \/ req' = [req EXCEPT !.ts = TRUE]
        BY Zenon, <2>1 DEF handle_delayed_pdelay_req
      <4>. QED  BY Zenon, <1>1, <1>req, <4>1, ReqStep, RequestIs
    <3>. QED  BY Zenon, <1>2, <1>9, <3>1, <3>2 DEF MayBe
  <2>2. CASE port_fault_timeout_work \/ LinkUp
    <3>1. /\ port_initialize \/ UNCHANGED resp_missing
          /\ UNCHANGED <<as_capable, req, silent>>
      BY Zenon, <2>2 DEF port_fault_timeout_work, LinkUp, Stay, ghosts
    <3>. QED  BY Zenon, <1>2, <1>8, <1>9, <1>req, <3>1 DEF MayBe
  <2>3. CASE LinkDown \/ Lose \/ Die \/ \E q \in Peer : Answer(q) \/ handle_pdelay_req(q)
    <3>1. UNCHANGED <<as_capable, resp_missing, silent, req>>
      BY Zenon, <2>3 DEF LinkDown, Lose, Die, Answer, handle_pdelay_req, capVars,
           infoVars, ghosts
    <3>. QED  BY Zenon, <1>2, <1>9, <1>req, <3>1 DEF MayBe
  <2>. QED  BY Zenon, <1>9, <2>0, <2>1, <2>2, <2>3 DEF Environment
<1>10. ASSUME NEW t, NEW r, NEW p, Places(t, pc.work, r, p),
              \/ TimerFires \/ port_pdelay_req_func \/ RxSave
              \/ \E m \in net : Rx(m)
       PROVE  Fresh'
  <2>1. UNCHANGED <<resp_missing, silent, req>> /\ (as_capable' => as_capable)
    <3>1. CASE TimerFires \/ port_pdelay_req_func \/ \E m \in net : Rx(m)
      <4>1. UNCHANGED <<capVars, infoVars, silent>>
        BY Zenon, <3>1 DEF TimerFires, port_pdelay_req_func, Rx, ghosts
      <4>. QED  BY <4>1 DEF capVars, infoVars
    <3>2. CASE RxSave
      <4>1. UNCHANGED <<resp_missing, silent, req>>
        BY Zenon, <3>2 DEF RxSave, ghosts
      <4>2. \E many : as_capable' = (as_capable /\ ~many)
        BY Zenon, <3>2 DEF RxSave, handle_pdelay_resp, handle_pdelay_resp_fup
      <4>. QED  BY Zenon, <4>1, <4>2
    <3>. QED  BY Zenon, <1>10, <3>1, <3>2
  <2>. QED  BY Zenon, <1>2, <1>10, <1>req, <2>1 DEF MayBe
<1>11. ASSUME NEW t, NEW r, NEW p, Places(t, pc.work, r, p), Proc
       PROVE  Fresh'
  <2>1. UNCHANGED <<resp_missing, silent, req>>
    BY Zenon, <1>11 DEF Proc
  <2>2. as_capable' => as_capable \/ resp_missing < AllowedLost
    <3>1. \/ UNCHANGED as_capable
          \/ as_capable' = Capable(resp_missing, big', mult_resp, peer, nrate')
      BY Zenon, <1>11 DEF Proc, proc_pdelay_req, ProcDelay, port_peer_delay
    <3>. QED  BY Zenon, <3>1 DEF Capable
  <2>. QED  BY Zenon, <1>2, <1>11, <1>req, <2>1, <2>2 DEF MayBe
<1>12. CASE UNCHANGED vars
  <2>1. UNCHANGED <<pc, req, resp_missing, silent, as_capable>>
    BY Zenon, <1>12 DEF vars, capVars, infoVars, ghosts
  <2>2. Places(pc.timer, pc.work, pc.rx, pc.proc)
    BY Zenon, <1>1, <2>1, PlacesAre DEF PcOK
  <2>. QED  BY Zenon, <1>2, <1>req, <2>1, <2>2 DEF MayBe
<1>. QED
  BY ZenonT(40), <1>1, <1>3, <1>4, <1>tx, <1>sv, <1>5, <1>6, <1>7, <1>9, <1>10, <1>11,
       <1>12, PlacesOf

(***************************************************************************)
(* port_tx_pdelay_req counts a missing response when it sends the next     *)
(* request, the message task clears the counter at any moment of that, and *)
(* port_initialize changes the counter and not as_capable: all the same a  *)
(* port is never asCapable when more than allowed_lost_responses + 1       *)
(* requests have gone without a processed response, or without a message   *)
(* of another transportSpecific, for which ptp_rx restarts the count.      *)
(***************************************************************************)
THEOREM CapableNeedsResponses == Spec => []CapableIsFresh
BY FreshInit, FreshStep, FreshImplies, PTL DEF Spec
-----------------------------------------------------------------------------
(***************************************************************************)
(* Multiple responses.  The answers of the last request that are still to  *)
(* be taken in, and those counted already, are never more than were given. *)
(***************************************************************************)
Kinds == {"RESP", "FUP"}
Count(t) == IF t = "RESP" THEN cnt.resp ELSE cnt.fup
InFlight(t) == {m \in net : m.type = t /\ ~m.old}

IsMsg(m) == m = [type |-> m.type, src |-> m.src, old |-> m.old]
CntOK == cnt = [resp |-> cnt.resp, fup |-> cnt.fup, mult |-> cnt.mult,
                mult_fup |-> cnt.mult_fup]

\* The steps of port_tx_pdelay_req between resp_cnt = 0 and the sequence number,
\* and those before and after the end of clear_pdelay_req.
Sending == {"clear", "drop", "save", "send"}
Uncounted == {"clear", "drop"}
Forgotten == {"save", "send"}

\* What is on its way, whether or not a message was handled meanwhile.
NetOK ==
    /\ \A m \in net : IsMsg(m)
    /\ \A t \in Kinds : InFlight(t) # {} => answers >= 1
    /\ \A t \in Kinds : \A m1, m2 \in InFlight(t) : m1 # m2 => answers = 2

\* A message in the receive task's hands.
HandOK(m) ==
    /\ m.type \in Kinds => ~m.old /\ answers >= 1
    /\ \A t \in Kinds : m.type = t /\ (Count(t) > 0 \/ InFlight(t) # {}) => answers = 2

\* Nothing has been counted since resp_cnt = 0.
Quiet == pc.rx = <<>> /\ ~mult_resp /\ \A t \in Kinds : Count(t) = 0

Once ==
    /\ mult_resp => answers = 2
    /\ \A t \in Kinds : Count(t) > 0 =>
          answers >= 1 /\ (InFlight(t) # {} => answers = 2)
    /\ pc.rx # <<>> => \E m : pc.rx = <<m>> /\ HandOK(m)
    /\ pc.work \in Sending => Quiet

Multiple ==
    /\ PcOK /\ CntOK /\ NetOK
    /\ cnt.resp \in Nat /\ cnt.fup \in Nat /\ answers \in Nat
    /\ pc.work \in Uncounted /\ ~racing => Quiet
    /\ ~raced => Once

LEMMA MultipleInit == Init => Multiple
BY DEF Init, Multiple, PcOK, CntOK, NetOK, Idle, Once, Count, InFlight, Kinds, Sending, Uncounted

LEMMA MultipleImplies == Multiple => NoFalseMultiple
BY DEF Multiple, Once, NoFalseMultiple

\* Everything but req and the places of the other tasks stays.
LEMMA MultipleSame ==
    ASSUME Multiple, NEW t, NEW w, NEW p, Places(t, w, pc.rx, p),
           w \in Sending => pc.work \in Sending,
           w \in Uncounted => pc.work \in Uncounted,
           UNCHANGED <<cnt, net, answers, racing, raced, mult_resp>>
    PROVE  Multiple'
<1>1. CntOK' /\ NetOK' /\ cnt'.resp \in Nat /\ cnt'.fup \in Nat /\ answers' \in Nat
  BY Zenon DEF Multiple, CntOK, NetOK, InFlight
<1>2. ~raced' => Once'
  BY Zenon DEF Multiple, Once, Quiet, HandOK, Count, InFlight, Places
<1>3. pc'.work \in Uncounted /\ ~racing' => Quiet'
  BY Zenon DEF Multiple, Quiet, Places, Count
<1>. QED  BY Zenon, <1>1, <1>2, <1>3 DEF Multiple, Places

\* Messages that do not count get lost.
LEMMA NetShrinks ==
    ASSUME NetOK, net' \subseteq net, UNCHANGED answers
    PROVE  NetOK' /\ \A t \in Kinds : InFlight(t)' \subseteq InFlight(t)
<1>1. \A t \in Kinds : InFlight(t)' \subseteq InFlight(t)
  BY Zenon DEF InFlight
<1>. QED  BY Zenon, <1>1 DEF NetOK

LEMMA MultipleShrinks ==
    ASSUME Multiple, Places(pc.timer, pc.work, pc.rx, pc.proc), net' \subseteq net,
           UNCHANGED <<cnt, answers, racing, raced, mult_resp>>
    PROVE  Multiple'
<1>1. NetOK' /\ \A t \in Kinds : InFlight(t)' \subseteq InFlight(t)
  BY Zenon, NetShrinks DEF Multiple
<1>2. \A t \in Kinds : Count(t)' = Count(t)
  BY Zenon DEF Count
<1>3. ~raced' => Once'
  BY Zenon, <1>1, <1>2 DEF Multiple, Once, Quiet, HandOK, Places
<1>4. CntOK' /\ cnt'.resp \in Nat /\ cnt'.fup \in Nat /\ answers' \in Nat
  BY Zenon DEF Multiple, CntOK
<1>5. pc'.work \in Uncounted /\ ~racing' => Quiet'
  BY Zenon, <1>2 DEF Multiple, Quiet, Places
<1>. QED  BY Zenon, <1>1, <1>3, <1>4, <1>5 DEF Multiple, Places

\* Receiving a message of the last request: it was one of those in flight.
LEMMA MultipleRx ==
    ASSUME Multiple, NEW m \in net, Rx(m), Expected(m), state = "UP",
           Places(pc.timer, pc.work, <<m>>, pc.proc)
    PROVE  Multiple'
<1>1. /\ net' = net \ {m}
      /\ racing' = (pc.work \in {"clear", "drop"})
      /\ raced' = (raced \/ pc.work \notin {"idle", "count"})
      /\ UNCHANGED <<cnt, answers, mult_resp>>
  BY Zenon DEF Rx, capVars
<1>2. ~m.old
  BY Zenon DEF Expected
<1>3. NetOK' /\ \A t \in Kinds : InFlight(t)' \subseteq InFlight(t)
  BY Zenon, <1>1, NetShrinks DEF Multiple
<1>4. \A t \in Kinds : Count(t)' = Count(t)
  BY Zenon, <1>1 DEF Count
<1>5. ASSUME ~raced  PROVE HandOK(m)'
  <2>1. m.type \in Kinds => m \in InFlight(m.type)
    BY Zenon, <1>2 DEF InFlight
  <2>2. m.type \in Kinds => answers' >= 1
    BY Zenon, <1>1, <2>1 DEF Multiple, NetOK
  <2>3. ASSUME NEW t \in Kinds, m.type = t, Count(t)' > 0  PROVE answers' = 2
    BY Zenon, <1>1, <1>4, <1>5, <2>1, <2>3 DEF Multiple, Once
  <2>4. ASSUME NEW t \in Kinds, m.type = t, InFlight(t)' # {}  PROVE answers' = 2
    <3>1. PICK k : k \in InFlight(t)'
      BY Zenon, <2>4
    <3>2. k \in InFlight(t) /\ k # m
      BY Zenon, <1>1, <1>3, <3>1 DEF InFlight
    <3>. QED  BY Zenon, <1>1, <2>1, <2>4, <3>2 DEF Multiple, NetOK
  <2>. QED  BY Zenon, <1>2, <2>2, <2>3, <2>4 DEF HandOK
<1>6. ASSUME ~raced'  PROVE Once'
  <2>1. ~raced /\ pc.work \in {"idle", "count"}
    BY Zenon, <1>1, <1>6
  <2>2. pc.work \notin Sending
    BY <2>1 DEF Sending
  <2>. QED  BY Zenon, <1>1, <1>3, <1>4, <1>5, <2>1, <2>2 DEF Multiple, Once, Places
<1>7. CntOK' /\ cnt'.resp \in Nat /\ cnt'.fup \in Nat /\ answers' \in Nat
  BY Zenon, <1>1 DEF Multiple, CntOK
<1>8. pc'.work \in Uncounted => racing'
  BY Zenon, <1>1 DEF Uncounted, Places
<1>. QED  BY Zenon, <1>1, <1>3, <1>6, <1>7, <1>8 DEF Multiple, Places

LEMMA MultipleAnswer ==
    ASSUME Multiple, NEW q \in Peer, Answer(q),
           Places(pc.timer, pc.work, pc.rx, pc.proc)
    PROVE  Multiple'
<1>. DEFINE kinds == IF q \in TwoStep THEN {"RESP", "FUP"} ELSE {"RESP"}
            msg(t) == [type |-> t, src |-> q, old |-> FALSE]
<1>1. /\ answers < 2 /\ answers' = answers + 1
      /\ net' = net \cup {msg(t) : t \in kinds}
      /\ UNCHANGED <<cnt, racing, raced, mult_resp>>
  BY Zenon DEF Answer, capVars, ghosts
<1>2. answers \in Nat /\ NetOK
  BY Zenon DEF Multiple
<1>3. answers' \in Nat /\ answers' >= 1 /\ (answers >= 1 => answers' = 2)
  BY <1>1, <1>2
<1>4. \A t : IsMsg(msg(t)) /\ msg(t).type = t
  BY DEF IsMsg
<1>. HIDE DEF msg, kinds
<1>5. \A t \in Kinds : \A m \in InFlight(t)' : m \in InFlight(t) \/ m = msg(t)
  <2>. SUFFICES ASSUME NEW t \in Kinds, NEW m \in InFlight(t)'
       PROVE  m \in InFlight(t) \/ m = msg(t)
    BY Zenon
  <2>1. m \in net' /\ m.type = t /\ ~m.old
    BY Zenon DEF InFlight
  <2>2. m \in net \/ \E k \in kinds : m = msg(k)
    BY Zenon, <1>1, <2>1
  <2>. QED  BY Zenon, <1>4, <2>1, <2>2 DEF InFlight
<1>6. NetOK'
  <2>1. \A m \in net' : IsMsg(m)
    BY Zenon, <1>1, <1>2, <1>4 DEF NetOK
  <2>2. ASSUME NEW t \in Kinds, NEW m1 \in InFlight(t)', NEW m2 \in InFlight(t)', m1 # m2
        PROVE  answers' = 2
    BY Zenon, <1>2, <1>3, <1>5, <2>2 DEF NetOK
  <2>. QED  BY Zenon, <1>3, <2>1, <2>2 DEF NetOK
<1>7. \A t \in Kinds : Count(t)' = Count(t)
  BY Zenon, <1>1 DEF Count
<1>8. ASSUME ~raced  PROVE Once'
  <2>1. Once
    BY Zenon, <1>8 DEF Multiple
  <2>2. mult_resp' => answers' = 2
    <3>1. mult_resp => FALSE
      BY <1>1, <2>1 DEF Once
    <3>. QED  BY Zenon, <1>1, <3>1
  <2>3. \A t \in Kinds : Count(t)' > 0 => answers' >= 1 /\ answers' = 2
    BY Zenon, <1>3, <1>7, <2>1 DEF Once
  <2>4. ASSUME pc'.rx # <<>>  PROVE \E m : pc'.rx = <<m>> /\ HandOK(m)'
    <3>1. PICK m : pc.rx = <<m>> /\ HandOK(m)
      BY Zenon, <2>1, <2>4 DEF Once, Places
    <3>2. HandOK(m)'
      BY Zenon, <1>3, <3>1 DEF HandOK
    <3>. QED  BY Zenon, <3>1, <3>2 DEF Places
  <2>5. pc'.work \in Sending => Quiet'
    BY Zenon, <1>1, <1>7, <2>1 DEF Once, Quiet, Places
  <2>. QED  BY Zenon, <2>2, <2>3, <2>4, <2>5 DEF Once
<1>9. CntOK' /\ cnt'.resp \in Nat /\ cnt'.fup \in Nat
  BY Zenon, <1>1 DEF Multiple, CntOK
<1>10. pc'.work \in Uncounted /\ ~racing' => Quiet'
  BY Zenon, <1>1, <1>7 DEF Multiple, Quiet, Places
<1>. QED  BY Zenon, <1>1, <1>3, <1>6, <1>8, <1>9, <1>10 DEF Multiple, Places

IsCnt(c, r, f) == \E x, y : c = [resp |-> r, fup |-> f, mult |-> x, mult_fup |-> y]

LEMMA CntStep ==
    ASSUME NEW c, NEW r, NEW f, IsCnt(c, r, f)
    PROVE  /\ c.resp = r /\ c.fup = f
           /\ \A z : IsCnt([c EXCEPT !.resp = z], z, f)
           /\ \A z : IsCnt([c EXCEPT !.fup = z], r, z)
           /\ \A z : IsCnt([c EXCEPT !.mult = z], r, f)
           /\ \A z : IsCnt([c EXCEPT !.mult_fup = z], r, f)
<1>1. PICK x, y : c = [resp |-> r, fup |-> f, mult |-> x, mult_fup |-> y]
  BY Zenon DEF IsCnt
<1>2. c.resp = r /\ c.fup = f
  BY <1>1
<1>3. \A z : [c EXCEPT !.resp = z] = [resp |-> z, fup |-> f, mult |-> x, mult_fup |-> y]
  BY <1>1
<1>4. \A z : [c EXCEPT !.fup = z] = [resp |-> r, fup |-> z, mult |-> x, mult_fup |-> y]
  BY <1>1
<1>5. \A z : [c EXCEPT !.mult = z] = [resp |-> r, fup |-> f, mult |-> z, mult_fup |-> y]
  BY <1>1
<1>6. \A z : [c EXCEPT !.mult_fup = z] = [resp |-> r, fup |-> f, mult |-> x, mult_fup |-> z]
  BY <1>1
<1>7. \A z : IsCnt([c EXCEPT !.resp = z], z, f)
  BY Zenon, <1>3 DEF IsCnt
<1>8. \A z : IsCnt([c EXCEPT !.fup = z], r, z)
  BY Zenon, <1>4 DEF IsCnt
<1>9. \A z : IsCnt([c EXCEPT !.mult = z], r, f)
  <2>. TAKE z
  <2>1. PICK e : e = [c EXCEPT !.mult = z]
    BY Zenon
  <2>2. e = [resp |-> r, fup |-> f, mult |-> z, mult_fup |-> y]
    BY Zenon, <1>5, <2>1
  <2>3. IsCnt(e, r, f)
    BY Zenon, <2>2 DEF IsCnt
  <2>. QED  BY Zenon, <2>1, <2>3
<1>10. \A z : IsCnt([c EXCEPT !.mult_fup = z], r, f)
  BY Zenon, <1>6 DEF IsCnt
<1>. QED  BY Zenon, <1>2, <1>7, <1>8, <1>9, <1>10

LEMMA CntIs ==
    /\ CntOK => IsCnt(cnt, cnt.resp, cnt.fup)
    /\ \A r, f : IsCnt(cnt', r, f) => CntOK' /\ cnt'.resp = r /\ cnt'.fup = f
<1>1. CntOK => IsCnt(cnt, cnt.resp, cnt.fup)
  BY Zenon DEF CntOK, IsCnt
<1>2. \A r, f, x, y :
         cnt' = [resp |-> r, fup |-> f, mult |-> x, mult_fup |-> y] =>
         CntOK' /\ cnt'.resp = r /\ cnt'.fup = f
  BY DEF CntOK
<1>. QED  BY Zenon, <1>1, <1>2 DEF IsCnt

LEMMA MultipleCount ==
    ASSUME Multiple, NEW t, NEW p, TxCount, Places(t, "clear", pc.rx, p)
    PROVE  Multiple'
<1>1. /\ cnt' = NextCount /\ mult_resp' = FALSE
      /\ racing' = (pc.rx # <<>>) /\ raced' = (raced \/ racing')
      /\ UNCHANGED <<net, answers>>
  BY Zenon DEF TxCount, netVars
<1>2. CntOK' /\ cnt'.resp = 0 /\ cnt'.fup = 0
  <2>1. PICK c : c = [cnt EXCEPT !.resp = 0]
    BY Zenon
  <2>2. PICK d : d = [c EXCEPT !.fup = 0]
    BY Zenon
  <2>3. IsCnt(d, 0, 0)
    <3>1. IsCnt(cnt, cnt.resp, cnt.fup)
      BY Zenon, CntIs DEF Multiple
    <3>2. IsCnt(c, 0, cnt.fup)
      BY Zenon, <2>1, <3>1, CntStep
    <3>. QED  BY Zenon, <2>2, <3>2, CntStep
  <2>4. PICK z : cnt' = [d EXCEPT !.mult = z]
    BY Zenon, <1>1, <2>1, <2>2 DEF NextCount
  <2>. QED  BY Zenon, <2>3, <2>4, CntStep, CntIs
<1>3. NetOK' /\ answers' \in Nat
  BY Zenon, <1>1 DEF Multiple, NetOK, InFlight
<1>4. \A k \in Kinds : Count(k)' = 0
  BY Zenon, <1>2 DEF Count
<1>5. ~racing' => Quiet'
  BY Zenon, <1>1, <1>4 DEF Quiet, Places
<1>6. ASSUME ~raced'  PROVE Once'
  <2>1. Quiet'
    BY Zenon, <1>1, <1>5, <1>6
  <2>2. \A k \in Kinds : ~(Count(k)' > 0)
    BY <1>4
  <2>. QED  BY Zenon, <2>1, <2>2 DEF Once, Quiet
<1>7. cnt'.resp \in Nat /\ cnt'.fup \in Nat
  BY <1>2
<1>. QED  BY Zenon, <1>2, <1>3, <1>5, <1>6, <1>7 DEF Multiple, Places

\* Nothing is left of the last exchange, or raced says so.
LEMMA MultipleDrop ==
    ASSUME Multiple, NEW t, NEW p, TxDrop, pc.work = "drop", Places(t, "save", pc.rx, p)
    PROVE  Multiple'
<1>1. raced' = racing /\ UNCHANGED <<net, answers, cnt, mult_resp>>
  BY Zenon DEF TxDrop, netVars, capVars
<1>2. CntOK' /\ NetOK' /\ cnt'.resp \in Nat /\ cnt'.fup \in Nat /\ answers' \in Nat
  BY Zenon, <1>1 DEF Multiple, CntOK, NetOK, InFlight
<1>3. "drop" \in Uncounted /\ "save" \notin Uncounted
  BY DEF Uncounted
<1>4. ASSUME ~raced'  PROVE Once'
  <2>1. Quiet
    BY Zenon, <1>1, <1>3, <1>4 DEF Multiple
  <2>2. Quiet'
    BY Zenon, <1>1, <2>1 DEF Quiet, Count, Places
  <2>3. \A k \in Kinds : ~(Count(k)' > 0)
    BY <2>2 DEF Quiet
  <2>. QED  BY Zenon, <2>2, <2>3 DEF Once, Quiet
<1>. QED  BY Zenon, <1>2, <1>3, <1>4 DEF Multiple, Places

\* Sending the request makes every message old.
LEMMA MultipleSend ==
    ASSUME Multiple, NEW t, NEW p, TxSend,
           Places(t, "idle", [i \in DOMAIN pc.rx |-> Aged(pc.rx[i])], p)
    PROVE  Multiple'
<1>1. /\ pc.work = "send" /\ net' = {Aged(m) : m \in net} \cup {Ts} /\ answers' = 0
      /\ UNCHANGED <<cnt, mult_resp, raced>>
  BY Zenon DEF TxSend, capVars
<1>2. ASSUME NEW m, IsMsg(m)  PROVE IsMsg(Aged(m)) /\ Aged(m).old
  <2>1. PICK a, b, c : m = [type |-> a, src |-> b, old |-> c]
    BY Zenon, <1>2 DEF IsMsg
  <2>2. Aged(m) = [type |-> a, src |-> b, old |-> TRUE]
    <3>1. \A z : [m EXCEPT !.old = z] = [type |-> a, src |-> b, old |-> z]
      BY <2>1
    <3>. QED  BY Zenon, <3>1 DEF Aged
  <2>. QED  BY <2>2 DEF IsMsg
<1>ts. IsMsg(Ts) /\ Ts.type \notin Kinds
  BY DEF Ts, IsMsg, Kinds
<1>3. \A m \in net' : IsMsg(m) /\ (m.type \in Kinds => m.old)
  BY Zenon, <1>1, <1>2, <1>ts DEF Multiple, NetOK
<1>4. \A k \in Kinds : InFlight(k)' = {}
  BY Zenon, <1>3 DEF InFlight
<1>5. NetOK'
  BY Zenon, <1>3, <1>4 DEF NetOK
<1>6. ASSUME ~raced'  PROVE Once'
  <2>1. pc.rx = <<>> /\ ~mult_resp' /\ \A k \in Kinds : Count(k)' = 0
    <3>1. Once /\ \A k \in Kinds : Count(k)' = Count(k)
      BY Zenon, <1>1, <1>6 DEF Multiple, Count
    <3>2. pc.rx = <<>> /\ ~mult_resp /\ \A k \in Kinds : Count(k) = 0
      <4>1. pc.work \in Sending
        BY <1>1 DEF Sending
      <4>. QED  BY Zenon, <3>1, <4>1 DEF Once, Quiet
    <3>. QED  BY <1>1, <3>1, <3>2
  <2>2. pc'.rx = <<>> /\ pc'.work = "idle"
    BY <2>1 DEF Places
  <2>3. \A k \in Kinds : ~(Count(k)' > 0)
    BY <2>1
  <2>4. pc'.work \notin Sending
    BY <2>2 DEF Sending
  <2>. QED  BY Zenon, <2>1, <2>2, <2>3, <2>4 DEF Once
<1>7. CntOK' /\ cnt'.resp \in Nat /\ cnt'.fup \in Nat
  BY Zenon, <1>1 DEF Multiple, CntOK
<1>8. answers' \in Nat /\ pc'.work \notin Uncounted
  BY <1>1 DEF Places, Uncounted
<1>. QED  BY Zenon, <1>5, <1>6, <1>7, <1>8 DEF Multiple, Places

LEMMA TwoIs == \A k \in Nat : Two(k) \in Nat
BY DEF Two

\* A handler counts the message it has, and only that.
LEMMA RxSaveCounts ==
    ASSUME Multiple, RxSave
    PROVE  /\ UNCHANGED <<net, answers, racing, raced, req>>
           /\ CntOK' /\ cnt'.resp \in Nat /\ cnt'.fup \in Nat
           /\ \E t \in Kinds :
                 /\ Head(pc.rx).type = t
                 /\ mult_resp' = (mult_resp \/ Count(t) > 0)
                 /\ Count(t)' = Two(Count(t))
                 /\ \A k \in Kinds : k # t => Count(k)' = Count(k)
<1>1. UNCHANGED <<net, answers, racing, raced, req>>
  BY Zenon DEF RxSave, netVars, ghosts
<1>2. IsCnt(cnt, cnt.resp, cnt.fup) /\ cnt.resp \in Nat /\ cnt.fup \in Nat
  BY Zenon, CntIs DEF Multiple
<1>3. ASSUME NEW m, m.type = "RESP", handle_pdelay_resp(m)
      PROVE  /\ mult_resp' = (mult_resp \/ cnt.resp > 0)
             /\ IsCnt(cnt', Two(cnt.resp), cnt.fup)
  <2>1. mult_resp' = (mult_resp \/ cnt.resp > 0)
    BY Zenon, <1>3 DEF handle_pdelay_resp
  <2>2. PICK x : \/ cnt' = [cnt EXCEPT !.resp = Two(@), !.mult = x]
                 \/ cnt' = [[cnt EXCEPT !.resp = Two(@), !.mult = x]
                               EXCEPT !.mult = 0, !.mult_fup = 0]
    BY Zenon, <1>3 DEF handle_pdelay_resp
  <2>3. PICK c : c = [cnt EXCEPT !.resp = Two(cnt.resp)]
    BY Zenon
  <2>4. PICK d : d = [c EXCEPT !.mult = x]
    BY Zenon
  <2>5. PICK e : e = [d EXCEPT !.mult = 0]
    BY Zenon
  <2>6. cnt' = d \/ cnt' = [e EXCEPT !.mult_fup = 0]
    BY Zenon, <2>2, <2>3, <2>4, <2>5
  <2>7. IsCnt(c, Two(cnt.resp), cnt.fup)
    BY Zenon, <1>2, <2>3, CntStep
  <2>8. IsCnt(d, Two(cnt.resp), cnt.fup)
    BY Zenon, <2>4, <2>7, CntStep
  <2>9. IsCnt(e, Two(cnt.resp), cnt.fup)
    BY Zenon, <2>5, <2>8, CntStep
  <2>10. IsCnt([e EXCEPT !.mult_fup = 0], Two(cnt.resp), cnt.fup)
    BY Zenon, <2>9, CntStep
  <2>11. IsCnt(cnt', Two(cnt.resp), cnt.fup)
    BY Zenon, <2>6, <2>8, <2>10
  <2>. QED  BY Zenon, <2>1, <2>11
<1>4. ASSUME NEW m, m.type = "FUP", handle_pdelay_resp_fup(m)
      PROVE  /\ mult_resp' = (mult_resp \/ cnt.fup > 0)
             /\ IsCnt(cnt', cnt.resp, Two(cnt.fup))
  <2>1. mult_resp' = (mult_resp \/ cnt.fup > 0)
    BY Zenon, <1>4 DEF handle_pdelay_resp_fup
  <2>2. PICK x : \/ cnt' = [cnt EXCEPT !.fup = Two(@), !.mult_fup = x]
                 \/ cnt' = [[cnt EXCEPT !.fup = Two(@), !.mult_fup = x]
                               EXCEPT !.mult = 0, !.mult_fup = 0]
    BY Zenon, <1>4 DEF handle_pdelay_resp_fup
  <2>3. PICK c : c = [cnt EXCEPT !.fup = Two(cnt.fup)]
    BY Zenon
  <2>4. PICK d : d = [c EXCEPT !.mult_fup = x]
    BY Zenon
  <2>5. PICK e : e = [d EXCEPT !.mult = 0]
    BY Zenon
  <2>6. cnt' = d \/ cnt' = [e EXCEPT !.mult_fup = 0]
    BY Zenon, <2>2, <2>3, <2>4, <2>5
  <2>7. IsCnt(c, cnt.resp, Two(cnt.fup))
    BY Zenon, <1>2, <2>3, CntStep
  <2>8. IsCnt(d, cnt.resp, Two(cnt.fup))
    BY Zenon, <2>4, <2>7, CntStep
  <2>9. IsCnt(e, cnt.resp, Two(cnt.fup))
    BY Zenon, <2>5, <2>8, CntStep
  <2>10. IsCnt([e EXCEPT !.mult_fup = 0], cnt.resp, Two(cnt.fup))
    BY Zenon, <2>9, CntStep
  <2>11. IsCnt(cnt', cnt.resp, Two(cnt.fup))
    BY Zenon, <2>6, <2>8, <2>10
  <2>. QED  BY Zenon, <2>1, <2>11
<1>5. CASE Head(pc.rx).type = "RESP" /\ handle_pdelay_resp(Head(pc.rx))
  <2>1. /\ mult_resp' = (mult_resp \/ cnt.resp > 0)
        /\ CntOK' /\ cnt'.resp = Two(cnt.resp) /\ cnt'.fup = cnt.fup
    BY Zenon, <1>3, <1>5, CntIs
  <2>2. \A k \in Kinds : k # "RESP" => Count(k)' = Count(k)
    BY Zenon, <2>1 DEF Count
  <2>3. "RESP" \in Kinds /\ Count("RESP") = cnt.resp /\ Count("RESP")' = cnt'.resp
    BY DEF Kinds, Count
  <2>. QED  BY Zenon, <1>1, <1>2, <1>5, <2>1, <2>2, <2>3, TwoIs
<1>6. CASE Head(pc.rx).type = "FUP" /\ handle_pdelay_resp_fup(Head(pc.rx))
  <2>1. /\ mult_resp' = (mult_resp \/ cnt.fup > 0)
        /\ CntOK' /\ cnt'.resp = cnt.resp /\ cnt'.fup = Two(cnt.fup)
    BY Zenon, <1>4, <1>6, CntIs
  <2>2. \A k \in Kinds : k # "FUP" => Count(k)' = Count(k)
    BY <2>1 DEF Count, Kinds
  <2>3. "FUP" \in Kinds /\ Count("FUP") = cnt.fup /\ Count("FUP")' = cnt'.fup
    BY DEF Kinds, Count
  <2>. QED  BY Zenon, <1>1, <1>2, <1>6, <2>1, <2>2, <2>3, TwoIs
<1>. QED  BY Zenon, <1>5, <1>6 DEF RxSave

LEMMA MultipleRxSave ==
    ASSUME Multiple, RxSave, Places(pc.timer, pc.work, <<>>, pc.proc)
    PROVE  Multiple'
<1>1. /\ UNCHANGED <<net, answers, racing, raced, req>>
      /\ CntOK' /\ cnt'.resp \in Nat /\ cnt'.fup \in Nat
  BY Zenon, RxSaveCounts
<1>2. NetOK' /\ answers' \in Nat /\ \A k \in Kinds : InFlight(k)' = InFlight(k)
  BY Zenon, <1>1 DEF Multiple, NetOK, InFlight
<1>3. ASSUME ~raced  PROVE Once'
  <2>1. PICK t \in Kinds : /\ Head(pc.rx).type = t
                           /\ mult_resp' = (mult_resp \/ Count(t) > 0)
                           /\ \A k \in Kinds : k # t => Count(k)' = Count(k)
    BY Zenon, RxSaveCounts
  <2>2. Once /\ pc.rx # <<>>
    BY Zenon, <1>3 DEF Multiple, RxSave
  <2>3. PICK m : pc.rx = <<m>> /\ HandOK(m)
    BY Zenon, <2>2 DEF Once
  <2>4. m.type = t
    BY <2>1, <2>3
  <2>5. answers >= 1 /\ (Count(t) > 0 \/ InFlight(t) # {} => answers = 2)
    BY Zenon, <2>3, <2>4 DEF HandOK
  <2>6. mult_resp' => answers' = 2
    <3>1. mult_resp => answers = 2
      BY Zenon, <2>2 DEF Once
    <3>. QED  BY Zenon, <1>1, <2>1, <2>5, <3>1
  <2>7. \A k \in Kinds : Count(k)' > 0 =>
           answers' >= 1 /\ (InFlight(k)' # {} => answers' = 2)
    BY Zenon, <1>1, <1>2, <2>1, <2>2, <2>5 DEF Once
  <2>8. pc'.rx = <<>> /\ pc'.work \notin Sending
    BY Zenon, <2>2 DEF Once, Quiet, Places
  <2>. QED  BY Zenon, <2>6, <2>7, <2>8 DEF Once
<1>4. pc'.work \in Uncounted => racing'
  <2>1. pc.rx # <<>>
    BY Zenon DEF RxSave
  <2>. QED  BY Zenon, <1>1, <2>1 DEF Multiple, Quiet, Places
<1>. QED  BY Zenon, <1>1, <1>2, <1>3, <1>4 DEF Multiple, Places

LEMMA MultipleStep ==
    ASSUME Multiple, [Next]_vars
    PROVE  Multiple'
<1>1. ASSUME NEW t, NEW w, NEW p, Places(t, w, pc.rx, p),
             w \in Sending => pc.work \in Sending,
             w \in Uncounted => pc.work \in Uncounted,
             UNCHANGED <<cnt, net, answers, racing, raced, mult_resp>>
      PROVE  Multiple'
  BY Zenon, <1>1, MultipleSame
<1>2. CASE UNCHANGED vars
  <2>1. Places(pc.timer, pc.work, pc.rx, pc.proc)
    BY Zenon, <1>2, PlacesAre DEF Multiple, PcOK, vars
  <2>2. UNCHANGED <<cnt, net, answers, racing, raced, mult_resp>>
    BY Zenon, <1>2 DEF vars, capVars, infoVars, netVars, ghosts
  <2>. QED  BY Zenon, <1>1, <2>1, <2>2
<1>3. ASSUME NEW t, Places(t, pc.work, pc.rx, pc.proc),
             TimerFires \/ port_pdelay_req_func
      PROVE  Multiple'
  <2>1. UNCHANGED <<cnt, net, answers, racing, raced, mult_resp>>
    BY Zenon, <1>3 DEF TimerFires, port_pdelay_req_func, capVars, infoVars,
         netVars, ghosts
  <2>. QED  BY Zenon, <1>1, <1>3, <2>1
<1>4. ASSUME NEW w, Places(pc.timer, w, pc.rx, pc.proc),
             \/ TxMissing /\ w = "count"
             \/ TxClear /\ w = "drop" /\ pc.work = "clear"
             \/ TxSave /\ w = "send" /\ pc.work = "save"
             \/ TxFails /\ w = "idle"
      PROVE  Multiple'
  <2>1. UNCHANGED <<cnt, net, answers, racing, raced, mult_resp>>
    BY Zenon, <1>4 DEF TxMissing, TxClear, TxSave, TxFails, capVars, netVars, ghosts
  <2>2. /\ w \in Sending => pc.work \in Sending
        /\ w \in Uncounted => pc.work \in Uncounted
    BY <1>4 DEF Sending, Uncounted
  <2>. QED  BY Zenon, <1>1, <1>4, <2>1, <2>2
<1>6. ASSUME NEW m \in net, Rx(m), UNCHANGED <<racing, raced>>,
             Places(pc.timer, pc.work, pc.rx, pc.proc)
      PROVE  Multiple'
  <2>1. net' \subseteq net /\ UNCHANGED <<cnt, answers, racing, raced, mult_resp>>
    BY Zenon, <1>6 DEF Rx, capVars, infoVars, ghosts
  <2>. QED  BY Zenon, <1>6, <2>1, MultipleShrinks
<1>7. ASSUME NEW p, Places(pc.timer, pc.work, pc.rx, p), Proc
      PROVE  Multiple'
  <2>1. UNCHANGED <<cnt, net, answers, racing, raced, mult_resp>>
    BY Zenon, <1>7 DEF Proc
  <2>. QED  BY Zenon, <1>1, <1>7, <2>1
<1>8. ASSUME NEW p, Places(pc.timer, pc.work, pc.rx, p), ProcAnswered
      PROVE  Multiple'
  <2>1. UNCHANGED <<cnt, net, answers, racing, raced, mult_resp>>
    BY Zenon, <1>8 DEF ProcAnswered, netVars
  <2>. QED  BY Zenon, <1>1, <1>8, <2>1
<1>9. ASSUME Places(pc.timer, pc.work, pc.rx, pc.proc),
             \/ \E m \in net : handle_delayed_pdelay_req(m)
             \/ RxOther \/ port_fault_timeout_work \/ Environment
      PROVE  Multiple'
  <2>1. CASE \E q \in Peer : Answer(q)
    BY Zenon, <1>9, <2>1, MultipleAnswer
  <2>2. CASE Lose \/ \E m \in net : handle_delayed_pdelay_req(m)
    <3>1. net' \subseteq net /\ UNCHANGED <<cnt, answers, racing, raced, mult_resp>>
      BY Zenon, <2>2 DEF Lose, handle_delayed_pdelay_req, capVars, ghosts
    <3>. QED  BY Zenon, <1>9, <3>1, MultipleShrinks
  <2>3. CASE \/ RxOther \/ port_fault_timeout_work \/ LinkUp \/ LinkDown \/ Die
             \/ \E q \in Peer : handle_pdelay_req(q)
    <3>1. UNCHANGED <<cnt, net, answers, racing, raced, mult_resp>>
      BY Zenon, <2>3 DEF RxOther, port_fault_timeout_work, LinkUp, LinkDown, Die,
           handle_pdelay_req, capVars, infoVars, netVars, ghosts
    <3>. QED  BY Zenon, <1>1, <1>9, <3>1
  <2>. QED  BY Zenon, <1>9, <2>1, <2>2, <2>3 DEF Environment
<1>10. PcOK
  BY Zenon DEF Multiple
<1>. QED
  BY ZenonT(40), <1>2, <1>3, <1>4, <1>6, <1>7, <1>8, <1>9, <1>10, PlacesOf,
     MultipleCount, MultipleDrop, MultipleSend, MultipleRx, MultipleRxSave

(***************************************************************************)
(* handle_pdelay_resp counts every response it expects, and from the       *)
(* second on takes the peer for several: it never does so for a request    *)
(* that had one answer, however late the answers to earlier requests come, *)
(* unless one is handled while port_tx_pdelay_req is between resp_cnt = 0  *)
(* and the new sequence number.                                            *)
(***************************************************************************)
THEOREM LateIsNotMultiple == Spec => []NoFalseMultiple
BY MultipleInit, MultipleStep, MultipleImplies, PTL DEF Spec

-----------------------------------------------------------------------------
(***************************************************************************)
(* One exchange.  While nothing is handled as a request is being sent,     *)
(* what is saved belongs to the last request, a saved response is counted  *)
(* unless port_tx_pdelay_req has just set the counter to 0, and a          *)
(* follow-up that came after it is of the same sender unless several       *)
(* messages were counted.                                                  *)
(***************************************************************************)
InfoOK(x) == x = [valid |-> x.valid, resp |-> x.resp, old |-> x.old, src |-> x.src]

InHand(m) == ~m.old /\ (m.type = "FUP" => m.src = rsp.src)

Exchange ==
    /\ ~rsp.old /\ ~fup.old
    /\ pc.rx # <<>> => \E m : pc.rx = <<m>> /\ InHand(m)
    /\ pc.work \in Sending => pc.rx = <<>>
    /\ pc.work \in Forgotten => ~rsp.valid /\ ~fup.valid
    /\ pc.work \notin Uncounted => (rsp.valid => cnt.resp > 0)
    /\ fup.valid /\ ~doubt => rsp.valid /\ fup.src = rsp.src

Unmixed ==
    /\ InfoOK(rsp) /\ InfoOK(fup)
    /\ ~mixed
    /\ ~raced => Exchange

RspIs(v, o, s) == InfoOK(rsp)' /\ rsp'.valid = v /\ rsp'.old = o /\ rsp'.src = s
FupIs(v, o, s) == InfoOK(fup)' /\ fup'.valid = v /\ fup'.old = o /\ fup'.src = s

LEMMA InfoIs ==
    \A v, r, o, s :
       /\ rsp' = [valid |-> v, resp |-> r, old |-> o, src |-> s] => RspIs(v, o, s)
       /\ fup' = [valid |-> v, resp |-> r, old |-> o, src |-> s] => FupIs(v, o, s)
<1>. SUFFICES ASSUME NEW v, NEW r, NEW o, NEW s
     PROVE /\ rsp' = [valid |-> v, resp |-> r, old |-> o, src |-> s] => RspIs(v, o, s)
           /\ fup' = [valid |-> v, resp |-> r, old |-> o, src |-> s] => FupIs(v, o, s)
  BY Zenon
<1>1. rsp' = [valid |-> v, resp |-> r, old |-> o, src |-> s] => RspIs(v, o, s)
  BY DEF RspIs, InfoOK
<1>2. fup' = [valid |-> v, resp |-> r, old |-> o, src |-> s] => FupIs(v, o, s)
  BY DEF FupIs, InfoOK
<1>. QED  BY Zenon, <1>1, <1>2

\* What the handlers make of a saved message.
LEMMA InfoStep ==
    \A i : InfoOK(i) =>
       /\ \A x : [i EXCEPT !.resp = x] =
                 [valid |-> i.valid, resp |-> x, old |-> i.old, src |-> i.src]
       /\ \A x : [i EXCEPT !.old = x] =
                 [valid |-> i.valid, resp |-> i.resp, old |-> x, src |-> i.src]
       /\ \A m : Saved(i, m) =
                 [valid |-> TRUE, resp |-> i.resp, old |-> m.old, src |-> m.src]
<1>. SUFFICES ASSUME NEW i, InfoOK(i)
     PROVE  /\ \A x : [i EXCEPT !.resp = x] =
                      [valid |-> i.valid, resp |-> x, old |-> i.old, src |-> i.src]
            /\ \A x : [i EXCEPT !.old = x] =
                      [valid |-> i.valid, resp |-> i.resp, old |-> x, src |-> i.src]
            /\ \A m : Saved(i, m) =
                      [valid |-> TRUE, resp |-> i.resp, old |-> m.old, src |-> m.src]
  BY Zenon
<1>. DEFINE a == i.valid
            b == i.resp
            c == i.old
            d == i.src
<1>1. i = [valid |-> a, resp |-> b, old |-> c, src |-> d]
  BY DEF InfoOK
<1>. HIDE DEF a, b, c, d
<1>2. \A x : [i EXCEPT !.resp = x] = [valid |-> a, resp |-> x, old |-> c, src |-> d]
  BY <1>1
<1>3. \A x : [i EXCEPT !.old = x] = [valid |-> a, resp |-> b, old |-> x, src |-> d]
  BY <1>1
<1>4. ASSUME NEW t, NEW y, NEW z
      PROVE  [i EXCEPT !.valid = t, !.old = y, !.src = z] =
             [valid |-> t, resp |-> b, old |-> y, src |-> z]
  <2>1. PICK j : j = [i EXCEPT !.valid = t]
    BY Zenon
  <2>2. j = [valid |-> t, resp |-> b, old |-> c, src |-> d]
    <3>1. \A x : [i EXCEPT !.valid = x] = [valid |-> x, resp |-> b, old |-> c, src |-> d]
      BY <1>1
    <3>. QED  BY Zenon, <2>1, <3>1
  <2>3. PICK k : k = [j EXCEPT !.old = y]
    BY Zenon
  <2>4. k = [valid |-> t, resp |-> b, old |-> y, src |-> d]
    <3>1. \A x : [j EXCEPT !.old = x] = [valid |-> t, resp |-> b, old |-> x, src |-> d]
      BY <2>2
    <3>. QED  BY Zenon, <2>3, <3>1
  <2>5. \A x : [k EXCEPT !.src = x] = [valid |-> t, resp |-> b, old |-> y, src |-> x]
    BY <2>4
  <2>. QED  BY Zenon, <2>1, <2>3, <2>5
<1>5. \A m : Saved(i, m) = [valid |-> TRUE, resp |-> b, old |-> m.old, src |-> m.src]
  BY Zenon, <1>4 DEF Saved
<1>. QED  BY Zenon, <1>2, <1>3, <1>5 DEF a, b, c, d

LEMMA SavedIs ==
    ASSUME InfoOK(rsp), InfoOK(fup), NEW m
    PROVE  /\ rsp' = Saved(rsp, m) => RspIs(TRUE, m.old, m.src)
           /\ fup' = Saved(fup, m) => FupIs(TRUE, m.old, m.src)
<1>1. /\ Saved(rsp, m) = [valid |-> TRUE, resp |-> rsp.resp, old |-> m.old, src |-> m.src]
      /\ Saved(fup, m) = [valid |-> TRUE, resp |-> fup.resp, old |-> m.old, src |-> m.src]
  BY Zenon, InfoStep
<1>2. \A r, o, s :
         /\ rsp' = [valid |-> TRUE, resp |-> r, old |-> o, src |-> s] => RspIs(TRUE, o, s)
         /\ fup' = [valid |-> TRUE, resp |-> r, old |-> o, src |-> s] => FupIs(TRUE, o, s)
  BY Zenon, InfoIs
<1>. QED  BY Zenon, <1>1, <1>2

LEMMA UnmixedInit == Init => Unmixed
BY DEF Init, Unmixed, InfoOK, Exchange, Empty, Idle, Sending, Forgotten

LEMMA UnmixedImplies == Unmixed => NoMixedSample
BY Zenon DEF Unmixed, NoMixedSample

\* No step between the two places leaves what Exchange says of the work task.
Onward(w) ==
    /\ w \in Sending => pc.work \in Sending
    /\ w \in Forgotten => pc.work \in Forgotten
    /\ w \notin Uncounted => pc.work \notin Uncounted

LEMMA OnwardIs ==
    /\ Onward(pc.work)
    /\ pc.work = "idle" => Onward("count")
    /\ pc.work = "clear" => Onward("drop")
    /\ pc.work = "save" => Onward("send") /\ Onward("idle")
BY DEF Onward, Sending, Forgotten, Uncounted

LEMMA UnmixedSame ==
    ASSUME Unmixed, NEW t, NEW w, NEW p, Places(t, w, pc.rx, p), Onward(w),
           UNCHANGED <<rsp, fup, cnt, raced, doubt, mixed>>
    PROVE  Unmixed'
<1>1. ~raced' => Exchange'
  BY Zenon DEF Unmixed, Exchange, InHand, Places, Onward
<1>2. InfoOK(rsp)' /\ InfoOK(fup)' /\ ~mixed'
  BY Zenon DEF Unmixed, InfoOK
<1>. QED  BY Zenon, <1>1, <1>2 DEF Unmixed

LEMMA UnmixedCount ==
    ASSUME Unmixed, NEW t, NEW p, TxCount, Places(t, "clear", pc.rx, p)
    PROVE  Unmixed'
<1>1. raced' = (raced \/ pc.rx # <<>>) /\ UNCHANGED <<rsp, fup, doubt, mixed>>
  BY Zenon DEF TxCount, infoVars
<1>2. "clear" \in Uncounted /\ "clear" \notin Forgotten
  BY DEF Uncounted, Forgotten
<1>3. ASSUME ~raced'  PROVE Exchange'
  <2>1. Exchange /\ pc.rx = <<>>
    BY Zenon, <1>1, <1>3 DEF Unmixed
  <2>. QED  BY Zenon, <1>1, <1>2, <2>1 DEF Exchange, Places
<1>4. InfoOK(rsp)' /\ InfoOK(fup)' /\ ~mixed'
  BY Zenon, <1>1 DEF Unmixed, InfoOK
<1>. QED  BY Zenon, <1>3, <1>4 DEF Unmixed

\* clear_pdelay_req forgets the messages, but not who sent the response.
LEMMA UnmixedDrop ==
    ASSUME Unmixed, Multiple, NEW t, NEW p, TxDrop, Places(t, "save", pc.rx, p)
    PROVE  Unmixed'
<1>1. /\ rsp' = [Empty EXCEPT !.src = rsp.src] /\ fup' = Empty
      /\ pc.work = "drop" /\ raced' = racing /\ UNCHANGED mixed
  BY Zenon DEF TxDrop
<1>2. RspIs(FALSE, FALSE, rsp.src) /\ FupIs(FALSE, FALSE, None)
  <2>1. \A a, b, c, d, x : [[valid |-> a, resp |-> b, old |-> c, src |-> d] EXCEPT !.src = x] =
                           [valid |-> a, resp |-> b, old |-> c, src |-> x]
    OBVIOUS
  <2>2. rsp' = [valid |-> FALSE, resp |-> FALSE, old |-> FALSE, src |-> rsp.src]
    BY Zenon, <1>1, <2>1 DEF Empty
  <2>. QED  BY Zenon, <1>1, <2>2, InfoIs DEF Empty
<1>3. ~raced' => pc'.rx = <<>>
  <2>1. pc.work \in Uncounted
    BY <1>1 DEF Uncounted
  <2>. QED  BY Zenon, <1>1, <2>1 DEF Multiple, Quiet, Places
<1>4. ~raced' => Exchange'
  BY Zenon, <1>2, <1>3 DEF Exchange, RspIs, FupIs
<1>. QED  BY Zenon, <1>1, <1>2, <1>4 DEF Unmixed, RspIs, FupIs

\* Nothing is saved between clear_pdelay_req and the new sequence number.
LEMMA UnmixedSend ==
    ASSUME Unmixed, NEW t, NEW p, TxSend,
           Places(t, "idle", [i \in DOMAIN pc.rx |-> Aged(pc.rx[i])], p)
    PROVE  Unmixed'
<1>1. /\ pc.work = "send"
      /\ rsp' = [rsp EXCEPT !.old = rsp.valid] /\ fup' = [fup EXCEPT !.old = fup.valid]
      /\ UNCHANGED <<raced, mixed>>
  BY Zenon DEF TxSend
<1>2. RspIs(rsp.valid, rsp.valid, rsp.src) /\ FupIs(fup.valid, fup.valid, fup.src)
  BY Zenon, <1>1, InfoStep, InfoIs DEF Unmixed
<1>3. ASSUME ~raced  PROVE Exchange'
  <2>1. pc.work \in Sending /\ pc.work \in Forgotten
    BY <1>1 DEF Sending, Forgotten
  <2>2. pc.rx = <<>> /\ ~rsp.valid /\ ~fup.valid
    BY Zenon, <1>3, <2>1 DEF Unmixed, Exchange
  <2>3. pc'.rx = <<>>
    BY <2>2 DEF Places
  <2>. QED  BY Zenon, <1>2, <2>2, <2>3 DEF Exchange, RspIs, FupIs
<1>. QED  BY Zenon, <1>1, <1>2, <1>3 DEF Unmixed, RspIs, FupIs

LEMMA UnmixedRx ==
    ASSUME Unmixed, NEW m \in net, Rx(m), Expected(m), state = "UP",
           Places(pc.timer, pc.work, <<m>>, pc.proc)
    PROVE  Unmixed'
<1>1. /\ UNCHANGED <<rsp, fup, cnt, doubt, mixed>>
      /\ raced' = (raced \/ pc.work \notin {"idle", "count"})
  BY Zenon DEF Rx, capVars, infoVars
<1>2. InHand(m)'
  BY Zenon, <1>1 DEF Expected, InHand
<1>3. ASSUME ~raced'  PROVE Exchange'
  <2>1. ~raced /\ pc.work \in {"idle", "count"}
    BY Zenon, <1>1, <1>3
  <2>2. pc.work \notin Sending
    BY <2>1 DEF Sending
  <2>. QED  BY Zenon, <1>1, <1>2, <2>1, <2>2 DEF Unmixed, Exchange, Places
<1>4. InfoOK(rsp)' /\ InfoOK(fup)' /\ ~mixed'
  BY Zenon, <1>1 DEF Unmixed, InfoOK
<1>. QED  BY Zenon, <1>3, <1>4 DEF Unmixed

\* handle_pdelay_resp counts what it saves; a second one is noticed.
LEMMA UnmixedResp ==
    ASSUME Unmixed, Multiple, RxSave, Places(pc.timer, pc.work, <<>>, pc.proc),
           NEW m, pc.rx = <<m>>, m.type = "RESP", handle_pdelay_resp(m),
           cnt'.resp = Two(cnt.resp)
    PROVE  Unmixed'
<1>1. UNCHANGED <<raced, mixed, fup>> /\ pc.rx # <<>>
  BY Zenon DEF RxSave, handle_pdelay_resp
<1>2. FupIs(fup.valid, fup.old, fup.src) /\ InfoOK(rsp)'
  <2>1. FupIs(fup.valid, fup.old, fup.src)
    BY Zenon, <1>1, InfoIs DEF Unmixed, InfoOK
  <2>2. rsp' = rsp \/ rsp' = Saved(rsp, m)
    BY Zenon DEF handle_pdelay_resp
  <2>3. rsp' = Saved(rsp, m) => RspIs(TRUE, m.old, m.src)
    BY Zenon, SavedIs DEF Unmixed
  <2>4. InfoOK(rsp)'
    BY Zenon, <2>2, <2>3 DEF Unmixed, RspIs, InfoOK
  <2>. QED  BY Zenon, <2>1, <2>4
<1>3. cnt'.resp > 0
  <2>1. cnt.resp \in Nat
    BY Zenon DEF Multiple
  <2>. QED  BY <2>1 DEF Two
<1>4. doubt' = (doubt \/ cnt.resp > 0)
  BY Zenon DEF handle_pdelay_resp
<1>5. ASSUME ~raced  PROVE Exchange'
  <2>1. Exchange
    BY Zenon, <1>5 DEF Unmixed
  <2>2. ~m.old
    <3>1. PICK k : pc.rx = <<k>> /\ InHand(k)
      BY Zenon, <1>1, <2>1 DEF Exchange
    <3>2. k = m
      BY <3>1
    <3>. QED  BY Zenon, <3>1, <3>2 DEF InHand
  <2>3. pc'.rx = <<>> /\ UNCHANGED pc.work /\ pc.work \notin Sending
    BY Zenon, <1>1, <2>1 DEF Exchange, Places
  <2>31. pc.work \notin Uncounted /\ pc.work \notin Forgotten
    BY <2>3 DEF Sending, Uncounted, Forgotten
  <2>4. fup'.valid /\ ~doubt' => FALSE
    BY Zenon, <1>1, <1>2, <1>4, <2>1, <2>31 DEF Exchange, FupIs
  <2>5. ~rsp'.old
    <3>1. CASE rsp' = rsp
      BY Zenon, <2>1, <3>1 DEF Exchange
    <3>2. CASE rsp' = Saved(rsp, m)
      <4>1. RspIs(TRUE, m.old, m.src)
        BY Zenon, <3>2, SavedIs DEF Unmixed
      <4>. QED  BY Zenon, <2>2, <4>1 DEF RspIs
    <3>. QED  BY Zenon, <3>1, <3>2 DEF handle_pdelay_resp
  <2>. QED  BY Zenon, <1>2, <1>3, <2>1, <2>3, <2>31, <2>4, <2>5 DEF Exchange, FupIs
<1>. QED  BY Zenon, <1>1, <1>2, <1>5 DEF Unmixed, FupIs

\* handle_pdelay_resp_fup saves what comes from the sender of the response.
LEMMA UnmixedFup ==
    ASSUME Unmixed, RxSave, Places(pc.timer, pc.work, <<>>, pc.proc),
           NEW m, pc.rx = <<m>>, m.type = "FUP", handle_pdelay_resp_fup(m),
           cnt'.resp = cnt.resp
    PROVE  Unmixed'
<1>1. UNCHANGED <<raced, mixed, rsp>> /\ pc.rx # <<>>
  BY Zenon DEF RxSave, handle_pdelay_resp_fup
<1>2. RspIs(rsp.valid, rsp.old, rsp.src)
  BY Zenon, <1>1, InfoIs DEF Unmixed, InfoOK
<1>3. \/ FupIs(fup.valid, fup.old, fup.src) /\ UNCHANGED fup
      \/ FupIs(TRUE, m.old, m.src)
  <2>1. UNCHANGED fup \/ fup' = Saved(fup, m)
    BY Zenon DEF handle_pdelay_resp_fup
  <2>2. UNCHANGED fup => FupIs(fup.valid, fup.old, fup.src)
    BY Zenon, InfoIs DEF Unmixed, InfoOK
  <2>3. fup' = Saved(fup, m) => FupIs(TRUE, m.old, m.src)
    BY Zenon, SavedIs DEF Unmixed
  <2>. QED  BY Zenon, <2>1, <2>2, <2>3
<1>4. doubt' = (doubt \/ cnt.fup > 0 \/ ~rsp.valid)
  BY Zenon DEF handle_pdelay_resp_fup
<1>5. ASSUME ~raced  PROVE Exchange'
  <2>1. Exchange
    BY Zenon, <1>5 DEF Unmixed
  <2>2. InHand(m)
    <3>1. PICK k : pc.rx = <<k>> /\ InHand(k)
      BY Zenon, <1>1, <2>1 DEF Exchange
    <3>2. k = m
      BY <3>1
    <3>. QED  BY Zenon, <3>1, <3>2
  <2>3. pc'.rx = <<>> /\ UNCHANGED pc.work /\ pc.work \notin Sending
    BY Zenon, <1>1, <2>1 DEF Exchange, Places
  <2>31. pc.work \notin Uncounted /\ pc.work \notin Forgotten
    BY <2>3 DEF Sending, Uncounted, Forgotten
  <2>4. ~fup'.old /\ (fup'.valid /\ ~doubt' => rsp'.valid /\ fup'.src = rsp'.src)
    BY Zenon, <1>2, <1>3, <1>4, <2>1, <2>2 DEF Exchange, InHand, FupIs, RspIs
  <2>5. ~rsp'.old /\ (rsp'.valid => cnt'.resp > 0)
    BY Zenon, <1>2, <2>1, <2>31 DEF Exchange, RspIs
  <2>. QED  BY Zenon, <2>3, <2>31, <2>4, <2>5 DEF Exchange
<1>. QED  BY Zenon, <1>1, <1>2, <1>3, <1>5 DEF Unmixed, FupIs, RspIs

\* Every handler has one message in hand.
OneInHand == pc.rx # <<>> => \E m : pc.rx = <<m>>

LEMMA UnmixedRxSave ==
    ASSUME Unmixed, Multiple, OneInHand, RxSave, Places(pc.timer, pc.work, <<>>, pc.proc)
    PROVE  Unmixed'
<1>1. PICK m : pc.rx = <<m>>
  BY Zenon DEF OneInHand, RxSave
<1>2. Head(pc.rx) = m
  BY <1>1
<1>3. PICK t \in Kinds : /\ m.type = t
                         /\ Count(t)' = Two(Count(t))
                         /\ \A k \in Kinds : k # t => Count(k)' = Count(k)
  BY Zenon, <1>2, RxSaveCounts
<1>4. \/ m.type = "RESP" /\ handle_pdelay_resp(m)
      \/ m.type = "FUP" /\ handle_pdelay_resp_fup(m)
  BY Zenon, <1>2 DEF RxSave
<1>5. m.type = "RESP" => cnt'.resp = Two(cnt.resp)
  BY <1>3 DEF Count
<1>6. m.type = "FUP" => cnt'.resp = cnt.resp
  BY <1>3 DEF Count, Kinds
<1>. QED  BY Zenon, <1>1, <1>4, <1>5, <1>6, UnmixedResp, UnmixedFup

\* The delay is computed from what was saved, of one exchange.
LEMMA UnmixedProc ==
    ASSUME Unmixed, Proc, NEW p, Places(pc.timer, pc.work, pc.rx, p)
    PROVE  Unmixed'
<1>1. UNCHANGED <<cnt, raced, doubt>>
  BY Zenon DEF Proc
<1>2. CASE UNCHANGED <<rsp, fup, mixed>>
  BY Zenon, <1>1, <1>2, UnmixedSame, OnwardIs
<1>3. CASE /\ rsp.valid /\ (rsp.src \in TwoStep => fup.valid)
           /\ port_peer_delay
  <2>1. /\ rsp' = [rsp EXCEPT !.resp = TRUE] /\ fup' = [fup EXCEPT !.resp = TRUE]
    BY Zenon, <1>3 DEF port_peer_delay
  <2>2. RspIs(rsp.valid, rsp.old, rsp.src) /\ FupIs(fup.valid, fup.old, fup.src)
    <3>1. /\ rsp' = [valid |-> rsp.valid, resp |-> TRUE, old |-> rsp.old, src |-> rsp.src]
          /\ fup' = [valid |-> fup.valid, resp |-> TRUE, old |-> fup.old, src |-> fup.src]
      BY Zenon, <2>1, InfoStep DEF Unmixed
    <3>. QED  BY Zenon, <3>1, InfoIs
  <2>3. ~raced' => Exchange'
    BY Zenon, <1>1, <2>2 DEF Unmixed, Exchange, InHand, Places, RspIs, FupIs
  <2>4. ~mixed'
    <3>1. mixed' => \/ mixed
                    \/ /\ ~raced
                       /\ \/ rsp.old
                          \/ rsp.src \in TwoStep /\ fup.old
                          \/ /\ rsp.src \in TwoStep /\ fup.src # rsp.src
                             /\ ~doubt
      BY Zenon, <1>3 DEF port_peer_delay
    <3>. QED  BY Zenon, <1>3, <3>1 DEF Unmixed, Exchange
  <2>. QED  BY Zenon, <2>2, <2>3, <2>4 DEF Unmixed, RspIs, FupIs
<1>. QED  BY Zenon, <1>2, <1>3 DEF Proc, proc_pdelay_req, ProcDelay

-----------------------------------------------------------------------------
(***************************************************************************)
(* Types, one group of variables after the other.                          *)
(***************************************************************************)
\* BOOLEAN under a name, for steps that need not distinguish the two values.
Flag == BOOLEAN

Flags ==
    /\ state \in {"UP", "FAULTY"}
    /\ no_link \in Flag /\ last_fault \in Flag /\ as_capable \in Flag
    /\ mult_resp \in Flag /\ big \in Flag /\ timer \in Flag
    /\ work \in Flag /\ alive \in Flag
    /\ racing \in Flag /\ raced \in Flag /\ doubt \in Flag /\ mixed \in Flag

Numbers ==
    /\ resp_missing \in 0 .. MaxMissing /\ silent \in 0 .. AllowedLost + 2
    /\ nrate \in 0 .. 2 /\ answers \in 0 .. 2 /\ trouble \in 0 .. MaxTrouble

Counters == cnt \in [resp : 0 .. 2, fup : 0 .. 2, mult : 0 .. AllowedFaults - 1,
                     mult_fup : 0 .. AllowedFupFaults - 1]

ReqInfo == [valid : BOOLEAN, resp : BOOLEAN, ts : BOOLEAN]
Info == [valid : BOOLEAN, resp : BOOLEAN, old : BOOLEAN, src : Peer \cup {None}]

Infos ==
    /\ peer \in Peer \cup {None}
    /\ req \in ReqInfo
    /\ rsp \in Info /\ fup \in Info

Messages ==
    /\ net \subseteq Message_ /\ queue \in Seq(Queued)
    /\ pc.rx # <<>> => \E m \in Message_ : pc.rx = <<m>>

Typed == Flags /\ Numbers /\ Counters /\ Infos /\ Messages

LEMMA TypedImplies == Typed => TypeOK
<1>1. Flags => {no_link, last_fault, as_capable, mult_resp, big, timer,
                work, alive, racing, raced, doubt, mixed} \subseteq BOOLEAN
  BY Zenon DEF Flags, Flag
<1>2. Infos => {rsp, fup} \subseteq Info
  BY Zenon DEF Infos
<1>. QED  BY Zenon, <1>1, <1>2 DEF Typed, Flags, Numbers, Counters, Infos, ReqInfo, Info, Messages, TypeOK

LEMMA TypedInit == Init => Typed
<1>. SUFFICES ASSUME Init  PROVE Typed
  OBVIOUS
<1>1. Flags
  BY Zenon DEF Init, Flags, Flag
<1>2. Numbers /\ Counters
  BY PdelayAssumption DEF Init, Numbers, Counters
<1>3. Infos
  BY DEF Init, Infos, ReqInfo, Info, Empty, NoReq
<1>4. Messages
  BY DEF Init, Messages, Idle
<1>. QED  BY Zenon, <1>1, <1>2, <1>3, <1>4 DEF Typed

\* Every step is one of these.
LEMMA Steps ==
    ASSUME [Next]_vars
    PROVE  \/ UNCHANGED vars
           \/ TimerFires \/ port_pdelay_req_func
           \/ TxMissing \/ TxCount \/ TxClear \/ TxDrop \/ TxSave \/ TxSend \/ TxFails
           \/ (\E m \in net : Rx(m) \/ handle_delayed_pdelay_req(m))
           \/ RxSave \/ RxOther
           \/ Proc \/ ProcAnswered \/ port_fault_timeout_work
           \/ (\E q \in Peer : Answer(q) \/ handle_pdelay_req(q))
           \/ Lose \/ LinkUp \/ LinkDown \/ Die
BY Zenon DEF Next, Timer, Work, Receive, Message, Environment

LEMMA CapableIs == \A r, l, m, id, n : Capable(r, l, m, id, n) \in Flag
BY Zenon DEF Capable, Flag

LEMMA FlagsStep ==
    ASSUME Flags, [Next]_vars
    PROVE  Flags'
<1>. USE DEF portVars, capVars, infoVars, netVars, ghosts
<1>. DEFINE same == UNCHANGED <<state, no_link, last_fault, as_capable, mult_resp, big,
                                timer, work, alive, racing,
                       raced, doubt, mixed>>
<1>1. same => Flags'
  BY Zenon DEF Flags
<1>2. CASE TimerFires \/ port_pdelay_req_func
  <2>1. /\ timer' \in Flag /\ work' \in {work, TRUE}
        /\ UNCHANGED <<state, no_link, last_fault, as_capable, mult_resp, big, alive, racing,
                       raced, doubt, mixed>>
    BY Zenon, <1>2 DEF TimerFires, port_pdelay_req_func, Flag
  <2>2. work' \in Flag
    BY Zenon, <2>1 DEF Flags, Flag
  <2>. QED  BY Zenon, <2>1, <2>2 DEF Flags
<1>3. CASE TxMissing
  <2>1. UNCHANGED as_capable \/ as_capable' = Capable(resp_missing', big, mult_resp, peer, nrate)
    BY Zenon, <1>3 DEF TxMissing, NoResponse
  <2>2. as_capable' \in Flag
    BY Zenon, <2>1, CapableIs DEF Flags
  <2>3. /\ work' \in Flag
        /\ UNCHANGED <<state, no_link, last_fault, mult_resp, big, timer, alive, racing, raced,
                       doubt, mixed>>
    BY Zenon, <1>3 DEF TxMissing, Flag
  <2>. QED  BY Zenon, <2>2, <2>3 DEF Flags
<1>4. CASE TxCount \/ TxDrop
  <2>1. /\ \/ racing' = (pc.rx # <<>>) /\ raced' = (raced \/ racing')
           \/ racing' = FALSE /\ raced' = racing
        /\ UNCHANGED doubt \/ doubt' = FALSE
        /\ UNCHANGED mult_resp \/ mult_resp' = FALSE
        /\ UNCHANGED <<state, no_link, last_fault, as_capable, big, timer, work, alive,
                       mixed>>
    <3>1. CASE TxCount
      BY Zenon, <3>1 DEF TxCount
    <3>2. CASE TxDrop
      BY Zenon, <3>2 DEF TxDrop
    <3>. QED  BY Zenon, <1>4, <3>1, <3>2
  <2>2. racing' \in Flag /\ raced' \in Flag /\ doubt' \in Flag /\ mult_resp' \in Flag
    BY Zenon, <2>1 DEF Flags, Flag
  <2>. QED  BY Zenon, <2>1, <2>2 DEF Flags
<1>5. CASE TxClear \/ TxSave \/ TxSend \/ TxFails \/ RxOther
  <2>1. same
    BY Zenon, <1>5 DEF TxClear, TxSave, TxSend, TxFails, RxOther
  <2>. QED  BY Zenon, <1>1, <2>1
<1>6. ASSUME NEW m \in net, Rx(m)  PROVE Flags'
  <2>1. \/ UNCHANGED <<racing, raced>>
        \/ /\ racing' = (pc.work \in {"clear", "drop"})
           /\ raced' = (raced \/ pc.work \notin {"idle", "count"})
    BY Zenon, <1>6 DEF Rx
  <2>2. racing' \in Flag /\ raced' \in Flag
    <3>1. UNCHANGED <<racing, raced>> => racing' \in Flag /\ raced' \in Flag
      BY Zenon DEF Flags
    <3>2. /\ (pc.work \in {"clear", "drop"}) \in Flag
          /\ (raced \/ pc.work \notin {"idle", "count"}) \in Flag
      BY DEF Flag
    <3>. QED  BY Zenon, <2>1, <3>1, <3>2
  <2>. QED  BY Zenon, <1>6, <2>2 DEF Flags, Rx
<1>7. CASE RxSave
  <2>1. PICK many \in BOOLEAN : /\ mult_resp' = (mult_resp \/ many)
                                /\ as_capable' = (as_capable /\ ~many)
    BY Zenon, <1>7 DEF RxSave, handle_pdelay_resp, handle_pdelay_resp_fup
  <2>2. /\ UNCHANGED <<state, last_fault, timer>> \/ Fault
        /\ \E other : doubt' = (doubt \/ other)
        /\ UNCHANGED <<no_link, big, work, alive, racing, raced, mixed>>
    BY Zenon, <1>7 DEF RxSave, handle_pdelay_resp, handle_pdelay_resp_fup
  <2>3. mult_resp' \in Flag /\ as_capable' \in Flag
    BY Zenon, <2>1 DEF Flag
  <2>4. doubt' \in Flag /\ last_fault' \in Flag /\ timer' \in Flag /\ state' \in {"UP", "FAULTY"}
    BY Zenon, <2>2 DEF Flags, Fault, Flag
  <2>. QED  BY Zenon, <2>2, <2>3, <2>4 DEF Flags
<1>8. ASSUME NEW m \in net, handle_delayed_pdelay_req(m)  PROVE Flags'
  <2>1. same
    BY Zenon, <1>8 DEF handle_delayed_pdelay_req
  <2>. QED  BY Zenon, <1>1, <2>1
<1>9. CASE Proc
  <2>1. /\ UNCHANGED <<state, no_link, last_fault, mult_resp, timer, work, alive, racing,
                       raced, doubt>>
        /\ UNCHANGED <<big, as_capable, mixed>> \/ port_peer_delay
    BY Zenon, <1>9 DEF Proc, proc_pdelay_req, ProcDelay
  <2>2. big' \in Flag /\ as_capable' \in Flag
    <3>1. port_peer_delay =>
            \/ UNCHANGED <<big, as_capable>>
            \/ /\ big' \in Flag
               /\ as_capable' = Capable(resp_missing, big', mult_resp, peer, nrate')
      BY Zenon DEF port_peer_delay, Flag
    <3>. QED  BY Zenon, <2>1, <3>1, CapableIs DEF Flags
  <2>3. mixed' \in Flag
    BY Zenon, <2>1 DEF Flags, port_peer_delay, Flag
  <2>. QED  BY Zenon, <2>1, <2>2, <2>3 DEF Flags
<1>10. CASE ProcAnswered
  <2>1. as_capable' \in Flag
    BY Zenon, <1>10, CapableIs DEF ProcAnswered
  <2>. QED  BY Zenon, <1>10, <2>1 DEF Flags, ProcAnswered
<1>11. CASE port_fault_timeout_work \/ LinkUp
  <2>1. /\ UNCHANGED <<as_capable, mult_resp, work, alive, racing,
                       raced, doubt, mixed>>
        /\ no_link' \in Flag /\ last_fault' \in Flag
        /\ port_initialize \/ Stay
    BY Zenon, <1>11 DEF Flags, port_fault_timeout_work, LinkUp, Flag
  <2>2. state' \in {"UP", "FAULTY"} /\ big' \in Flag /\ timer' \in Flag
    BY Zenon, <2>1 DEF Flags, port_initialize, Stay, Flag
  <2>. QED  BY Zenon, <2>1, <2>2 DEF Flags
<1>12. ASSUME NEW q \in Peer, Answer(q) \/ handle_pdelay_req(q)  PROVE Flags'
  <2>1. same
    BY Zenon, <1>12 DEF Answer, handle_pdelay_req
  <2>. QED  BY Zenon, <1>1, <2>1
<1>13. CASE Lose \/ LinkDown \/ Die
  <2>1. CASE Lose
    <3>1. same
      BY Zenon, <2>1 DEF Lose
    <3>. QED  BY Zenon, <1>1, <3>1
  <2>2. CASE LinkDown
    <3>1. /\ no_link' \in Flag /\ timer' \in Flag /\ state' \in {"UP", "FAULTY"}
          /\ UNCHANGED <<last_fault, as_capable, mult_resp, big, work, alive, racing, raced,
                         doubt, mixed>>
      BY Zenon, <2>2 DEF LinkDown, Flag
    <3>. QED  BY Zenon, <3>1 DEF Flags
  <2>3. CASE Die
    <3>1. /\ alive' \in Flag
          /\ UNCHANGED <<state, no_link, last_fault, as_capable, mult_resp, big, timer, work,
                         racing, raced, doubt, mixed>>
      BY Zenon, <2>3 DEF Die, Flag
    <3>. QED  BY Zenon, <3>1 DEF Flags
  <2>. QED  BY Zenon, <1>13, <2>1, <2>2, <2>3
<1>14. UNCHANGED vars => same
  BY Zenon DEF vars
<1>. HIDE DEF same
<1>. QED
  BY Zenon, <1>1, <1>2, <1>3, <1>4, <1>5, <1>6, <1>7, <1>8, <1>9, <1>10, <1>11, <1>12,
     <1>13, <1>14, Steps

\* What a step does to the numbers.
LEMMA NumbersChange ==
    ASSUME [Next]_vars
    PROVE  /\ \/ UNCHANGED resp_missing
              \/ resp_missing' = OneMoreMissing
              \/ resp_missing' = 0
              \/ resp_missing' = AllowedLost + 1
              \/ resp_missing' = AllowedLost - 1
           /\ \/ UNCHANGED silent
              \/ silent' = IF silent <= AllowedLost + 1 THEN silent + 1 ELSE silent
              \/ silent' = 0
           /\ UNCHANGED nrate \/ nrate' = Two(nrate) \/ nrate' = 1 \/ nrate' = 0
           /\ UNCHANGED answers \/ answers' = 0 \/ (answers < 2 /\ answers' = answers + 1)
           /\ UNCHANGED trouble \/ (\E wrong \in BOOLEAN : Trouble(wrong))
<1>. USE DEF portVars, capVars, infoVars, netVars, ghosts
<1>1. CASE TimerFires \/ port_pdelay_req_func
  <2>1. /\ UNCHANGED <<resp_missing, silent, nrate, answers>>
        /\ UNCHANGED trouble \/ Trouble(~Settled)
    <3>1. CASE TimerFires
      BY Zenon, <3>1 DEF TimerFires
    <3>2. CASE port_pdelay_req_func
      BY Zenon, <3>2 DEF port_pdelay_req_func
    <3>. QED  BY Zenon, <1>1, <3>1, <3>2
  <2>2. (~Settled) \in BOOLEAN
    BY Zenon
  <2>. QED  BY Zenon, <2>1, <2>2
<1>2. CASE TxMissing
  BY Zenon, <1>2 DEF TxMissing, NoResponse
<1>3. CASE TxCount \/ TxClear \/ TxDrop \/ TxSave \/ TxSend
  BY Zenon, <1>3 DEF TxCount, TxClear, TxDrop, TxSave, TxSend
<1>4. CASE TxFails \/ Lose \/ LinkDown \/ Die \/ RxOther
  BY Zenon, <1>4 DEF TxFails, Lose, LinkDown, Die, RxOther
<1>5. ASSUME NEW m \in net, Rx(m)
      PROVE  /\ UNCHANGED <<resp_missing, silent, nrate, answers>>
             /\ \E wrong \in BOOLEAN : Trouble(wrong)
  <2>1. Trouble(m.type = "FUP" /\ [m EXCEPT !.type = "RESP"] \in net)
    BY Zenon, <1>5 DEF Rx
  <2>. QED  BY Zenon, <1>5, <2>1 DEF Rx
<1>6. CASE RxSave
  BY Zenon, <1>6 DEF RxSave
<1>7. ASSUME NEW m \in net, handle_delayed_pdelay_req(m)
      PROVE  UNCHANGED <<resp_missing, silent, nrate, answers, trouble>>
  BY Zenon, <1>7 DEF handle_delayed_pdelay_req
<1>8. CASE Proc
  <2>1. /\ UNCHANGED <<resp_missing, silent, answers>>
        /\ UNCHANGED <<nrate, trouble>> \/ port_peer_delay
    BY Zenon, <1>8 DEF Proc, proc_pdelay_req, ProcDelay
  <2>2. port_peer_delay =>
          Trouble((nrate = 1 /\ nrate' = 1) \/ (req.ts /\ big'))
    BY Zenon DEF port_peer_delay
  <2>3. ((nrate = 1 /\ nrate' = 1) \/ (req.ts /\ big')) \in BOOLEAN
    BY Zenon
  <2>. QED  BY Zenon, <2>1, <2>2, <2>3 DEF port_peer_delay
<1>9. CASE ProcAnswered
  BY Zenon, <1>9 DEF ProcAnswered, Answered
<1>10. CASE port_fault_timeout_work \/ LinkUp
  BY Zenon, <1>10 DEF port_fault_timeout_work, LinkUp, port_initialize, Stay
<1>11. ASSUME NEW q \in Peer, Answer(q) \/ handle_pdelay_req(q)
       PROVE  /\ UNCHANGED <<resp_missing, silent, nrate>>
              /\ UNCHANGED answers \/ (answers < 2 /\ answers' = answers + 1)
              /\ \E wrong \in BOOLEAN : Trouble(wrong)
  BY Zenon, <1>11 DEF Answer, handle_pdelay_req
<1>12. CASE UNCHANGED vars
  BY Zenon, <1>12 DEF vars
<1>. QED
  BY Zenon, <1>1, <1>2, <1>3, <1>4, <1>5, <1>6, <1>7, <1>8, <1>9, <1>10, <1>11, <1>12, Steps

LEMMA NumbersStep ==
    ASSUME Numbers, [Next]_vars
    PROVE  Numbers'
<1>1. resp_missing' \in 0 .. MaxMissing
  <2>1. OneMoreMissing \in 0 .. MaxMissing
    BY PdelayAssumption DEF Numbers, OneMoreMissing
  <2>. QED  BY <2>1, NumbersChange, PdelayAssumption DEF Numbers
<1>2. silent' \in 0 .. AllowedLost + 2
  BY NumbersChange, PdelayAssumption DEF Numbers
<1>3. nrate' \in 0 .. 2 /\ answers' \in 0 .. 2
  BY NumbersChange DEF Numbers, Two
<1>4. trouble' \in 0 .. MaxTrouble
  BY NumbersChange, PdelayAssumption DEF Numbers, Trouble
<1>. QED  BY Zenon, <1>1, <1>2, <1>3, <1>4 DEF Numbers

Limits == [resp : 0 .. 2, fup : 0 .. 2, mult : 0 .. AllowedFaults - 1,
           mult_fup : 0 .. AllowedFupFaults - 1]

Counted(c, r, f, m, n) == c = [resp |-> r, fup |-> f, mult |-> m, mult_fup |-> n]

LEMMA CountedStep ==
    ASSUME NEW c, NEW r, NEW f, NEW m, NEW n, Counted(c, r, f, m, n)
    PROVE  /\ \A z : Counted([c EXCEPT !.resp = z], z, f, m, n)
           /\ \A z : Counted([c EXCEPT !.fup = z], r, z, m, n)
           /\ \A z : Counted([c EXCEPT !.mult = z], r, f, z, n)
           /\ \A z : Counted([c EXCEPT !.mult_fup = z], r, f, m, z)
<1>1. \A z : Counted([c EXCEPT !.resp = z], z, f, m, n)
  BY DEF Counted
<1>2. \A z : Counted([c EXCEPT !.fup = z], r, z, m, n)
  BY DEF Counted
<1>3. \A z : Counted([c EXCEPT !.mult = z], r, f, z, n)
  BY DEF Counted
<1>4. \A z : Counted([c EXCEPT !.mult_fup = z], r, f, m, z)
  BY DEF Counted
<1>. QED  BY Zenon, <1>1, <1>2, <1>3, <1>4

\* The records of counters that the handlers build.
LEMMA CountIs ==
    ASSUME NEW c \in Limits
    PROVE  /\ c.resp \in 0 .. 2 /\ c.fup \in 0 .. 2
           /\ c.mult \in 0 .. AllowedFaults - 1 /\ c.mult_fup \in 0 .. AllowedFupFaults - 1
           /\ \A n \in 0 .. AllowedFaults - 1 :
                [c EXCEPT !.resp = 0, !.fup = 0, !.mult = n] \in Limits
           /\ \A m \in 0 .. 2, n \in 0 .. AllowedFaults - 1 :
                [c EXCEPT !.resp = m, !.mult = n] \in Limits
           /\ \A m \in 0 .. 2, n \in 0 .. AllowedFupFaults - 1 :
                [c EXCEPT !.fup = m, !.mult_fup = n] \in Limits
           /\ \A m \in 0 .. 2 : \A n :
                [[c EXCEPT !.resp = m, !.mult = n] EXCEPT !.mult = 0, !.mult_fup = 0] \in Limits
           /\ \A m \in 0 .. 2 : \A n :
                [[c EXCEPT !.fup = m, !.mult_fup = n] EXCEPT !.mult = 0, !.mult_fup = 0] \in Limits
<1>1. /\ c.resp \in 0 .. 2 /\ c.fup \in 0 .. 2
      /\ c.mult \in 0 .. AllowedFaults - 1 /\ c.mult_fup \in 0 .. AllowedFupFaults - 1
      /\ Counted(c, c.resp, c.fup, c.mult, c.mult_fup)
  BY DEF Limits, Counted
<1>2. 0 \in 0 .. 2 /\ 0 \in 0 .. AllowedFaults - 1 /\ 0 \in 0 .. AllowedFupFaults - 1
  BY PdelayAssumption
<1>3. ASSUME NEW e, NEW i \in 0 .. 2, NEW k \in 0 .. 2, NEW m \in 0 .. AllowedFaults - 1,
             NEW n \in 0 .. AllowedFupFaults - 1, Counted(e, i, k, m, n)
      PROVE  e \in Limits
  BY <1>3 DEF Limits, Counted
<1>4. ASSUME NEW n \in 0 .. AllowedFaults - 1
      PROVE  [c EXCEPT !.resp = 0, !.fup = 0, !.mult = n] \in Limits
  <2>1. PICK d : d = [c EXCEPT !.resp = 0]
    BY Zenon
  <2>2. PICK e : e = [d EXCEPT !.fup = 0]
    BY Zenon
  <2>3. Counted(e, 0, 0, c.mult, c.mult_fup)
    BY Zenon, <1>1, <2>1, <2>2, CountedStep
  <2>4. Counted([e EXCEPT !.mult = n], 0, 0, n, c.mult_fup)
    BY Zenon, <2>3, CountedStep
  <2>5. [e EXCEPT !.mult = n] \in Limits
    BY Zenon, <1>1, <1>2, <1>3, <2>4
  <2>. QED  BY Zenon, <2>1, <2>2, <2>5
<1>5. ASSUME NEW m \in 0 .. 2, NEW n
      PROVE  /\ n \in 0 .. AllowedFaults - 1 => [c EXCEPT !.resp = m, !.mult = n] \in Limits
             /\ [[c EXCEPT !.resp = m, !.mult = n] EXCEPT !.mult = 0, !.mult_fup = 0] \in Limits
  <2>1. PICK d : d = [c EXCEPT !.resp = m]
    BY Zenon
  <2>2. PICK e : e = [d EXCEPT !.mult = n]
    BY Zenon
  <2>3. PICK g : g = [e EXCEPT !.mult = 0]
    BY Zenon
  <2>4. Counted(e, m, c.fup, n, c.mult_fup)
    BY Zenon, <1>1, <2>1, <2>2, CountedStep
  <2>5. Counted(g, m, c.fup, 0, c.mult_fup)
    BY Zenon, <2>3, <2>4, CountedStep
  <2>6. Counted([g EXCEPT !.mult_fup = 0], m, c.fup, 0, 0)
    BY Zenon, <2>5, CountedStep
  <2>7. (n \in 0 .. AllowedFaults - 1 => e \in Limits) /\ [g EXCEPT !.mult_fup = 0] \in Limits
    BY Zenon, <1>1, <1>2, <1>3, <2>4, <2>6
  <2>. QED  BY Zenon, <2>1, <2>2, <2>3, <2>7
<1>6. ASSUME NEW m \in 0 .. 2, NEW n
      PROVE  /\ n \in 0 .. AllowedFupFaults - 1 => [c EXCEPT !.fup = m, !.mult_fup = n] \in Limits
             /\ [[c EXCEPT !.fup = m, !.mult_fup = n] EXCEPT !.mult = 0, !.mult_fup = 0] \in Limits
  <2>1. PICK d : d = [c EXCEPT !.fup = m]
    BY Zenon
  <2>2. PICK e : e = [d EXCEPT !.mult_fup = n]
    BY Zenon
  <2>3. PICK g : g = [e EXCEPT !.mult = 0]
    BY Zenon
  <2>4. Counted(e, c.resp, m, c.mult, n)
    BY Zenon, <1>1, <2>1, <2>2, CountedStep
  <2>5. Counted(g, c.resp, m, 0, n)
    BY Zenon, <2>3, <2>4, CountedStep
  <2>6. Counted([g EXCEPT !.mult_fup = 0], c.resp, m, 0, 0)
    BY Zenon, <2>5, CountedStep
  <2>7. (n \in 0 .. AllowedFupFaults - 1 => e \in Limits) /\ [g EXCEPT !.mult_fup = 0] \in Limits
    BY Zenon, <1>1, <1>2, <1>3, <2>4, <2>6
  <2>. QED  BY Zenon, <2>1, <2>2, <2>3, <2>7
<1>. QED  BY Zenon, <1>1, <1>4, <1>5, <1>6

LEMMA CountersStep ==
    ASSUME Counters, [Next]_vars
    PROVE  Counters'
<1>. USE DEF portVars, capVars, infoVars, netVars, ghosts
<1>0. cnt \in Limits /\ (cnt' \in Limits => Counters')
  BY Zenon DEF Counters, Limits
<1>. DEFINE fields == /\ cnt.resp \in 0 .. 2 /\ cnt.fup \in 0 .. 2
                      /\ cnt.mult \in 0 .. AllowedFaults - 1
                      /\ cnt.mult_fup \in 0 .. AllowedFupFaults - 1
<1>01. fields
  BY Zenon, <1>0, CountIs
<1>1. CASE TxCount
  <2>1. cnt' = NextCount
    BY Zenon, <1>1 DEF TxCount
  <2>2. PICK n : n = IF cnt.resp <= 1 /\ cnt.mult > 0 THEN cnt.mult - 1 ELSE cnt.mult
    OBVIOUS
  <2>3. n \in 0 .. AllowedFaults - 1
    BY <2>2, <1>01, PdelayAssumption
  <2>4. cnt' = [cnt EXCEPT !.resp = 0, !.fup = 0, !.mult = n]
    BY Zenon, <2>1, <2>2 DEF NextCount
  <2>. QED  BY Zenon, <1>0, <2>3, <2>4, CountIs
<1>2. CASE RxSave
  <2>1. PICK m : handle_pdelay_resp(m) \/ handle_pdelay_resp_fup(m)
    BY Zenon, <1>2 DEF RxSave
  <2>2. CASE handle_pdelay_resp(m)
    <3>1. PICK n : n = IF cnt.resp > 0 THEN cnt.mult + 1 ELSE cnt.mult
      OBVIOUS
    <3>2. PICK k : k = Two(cnt.resp)
      OBVIOUS
    <3>3. \/ /\ cnt.resp > 0 /\ n >= AllowedFaults
             /\ cnt' = [[cnt EXCEPT !.resp = k, !.mult = n] EXCEPT !.mult = 0, !.mult_fup = 0]
          \/ /\ ~(cnt.resp > 0 /\ n >= AllowedFaults)
             /\ cnt' = [cnt EXCEPT !.resp = k, !.mult = n]
      BY Zenon, <2>2, <3>1, <3>2 DEF handle_pdelay_resp
    <3>4. k \in 0 .. 2
      BY <3>2, <1>01 DEF Two
    <3>5. ~(cnt.resp > 0 /\ n >= AllowedFaults) => n \in 0 .. AllowedFaults - 1
      BY <3>1, <1>01, PdelayAssumption
    <3>6. [[cnt EXCEPT !.resp = k, !.mult = n] EXCEPT !.mult = 0, !.mult_fup = 0] \in Limits
      BY Zenon, <1>0, <3>4, CountIs
    <3>7. n \in 0 .. AllowedFaults - 1 => [cnt EXCEPT !.resp = k, !.mult = n] \in Limits
      BY Zenon, <1>0, <3>4, CountIs
    <3>8. cnt' \in Limits
      BY Zenon, <3>3, <3>5, <3>6, <3>7
    <3>. QED  BY Zenon, <1>0, <3>8
  <2>3. CASE handle_pdelay_resp_fup(m)
    <3>1. PICK n : n = IF cnt.fup > 0 THEN cnt.mult_fup + 1
                       ELSE IF cnt.mult_fup > 0 THEN cnt.mult_fup - 1 ELSE 0
      OBVIOUS
    <3>2. PICK k : k = Two(cnt.fup)
      OBVIOUS
    <3>3. \/ /\ cnt.fup > 0 /\ n >= AllowedFupFaults
             /\ cnt' = [[cnt EXCEPT !.fup = k, !.mult_fup = n] EXCEPT !.mult = 0, !.mult_fup = 0]
          \/ /\ ~(cnt.fup > 0 /\ n >= AllowedFupFaults)
             /\ cnt' = [cnt EXCEPT !.fup = k, !.mult_fup = n]
      BY Zenon, <2>3, <3>1, <3>2 DEF handle_pdelay_resp_fup
    <3>4. k \in 0 .. 2
      BY <3>2, <1>01 DEF Two
    <3>5. ~(cnt.fup > 0 /\ n >= AllowedFupFaults) => n \in 0 .. AllowedFupFaults - 1
      BY <3>1, <1>01, PdelayAssumption
    <3>6. [[cnt EXCEPT !.fup = k, !.mult_fup = n] EXCEPT !.mult = 0, !.mult_fup = 0] \in Limits
      BY Zenon, <1>0, <3>4, CountIs
    <3>7. n \in 0 .. AllowedFupFaults - 1 => [cnt EXCEPT !.fup = k, !.mult_fup = n] \in Limits
      BY Zenon, <1>0, <3>4, CountIs
    <3>8. cnt' \in Limits
      BY Zenon, <3>3, <3>5, <3>6, <3>7
    <3>. QED  BY Zenon, <1>0, <3>8
  <2>. QED  BY Zenon, <2>1, <2>2, <2>3
<1>3. CASE \/ TimerFires \/ port_pdelay_req_func \/ TxMissing
           \/ TxClear \/ TxDrop \/ TxSave \/ TxSend \/ TxFails
  BY Zenon, <1>3 DEF Counters, TimerFires, port_pdelay_req_func, TxMissing, TxClear,
     TxDrop, TxSave, TxSend, TxFails
<1>4. CASE \/ \E m \in net : handle_delayed_pdelay_req(m)
           \/ RxOther \/ Proc \/ ProcAnswered \/ port_fault_timeout_work
  BY Zenon, <1>4 DEF Counters, handle_delayed_pdelay_req, RxOther, Proc, ProcAnswered,
     port_fault_timeout_work
<1>5. CASE (\E m \in net : Rx(m)) \/ (\E q \in Peer : Answer(q) \/ handle_pdelay_req(q))
  BY Zenon, <1>5 DEF Counters, Rx, Answer, handle_pdelay_req
<1>6. CASE Lose \/ LinkUp \/ LinkDown \/ Die \/ UNCHANGED vars
  BY Zenon, <1>6 DEF Counters, Lose, LinkUp, LinkDown, Die, vars
<1>. QED
  BY Zenon, <1>1, <1>2, <1>3, <1>4, <1>5, <1>6, Steps

\* The two records after an exchange has been started or a message saved.
LEMMA InfosStep ==
    ASSUME Infos, Messages, [Next]_vars
    PROVE  Infos'
<1>. USE DEF portVars, capVars, infoVars, netVars, ghosts
<1>1. \A r \in Info, v \in BOOLEAN, o \in BOOLEAN, q \in Peer \cup {None} :
        /\ [r EXCEPT !.resp = v] \in Info
        /\ [r EXCEPT !.old = v] \in Info
        /\ [r EXCEPT !.valid = v, !.old = o, !.src = q] \in Info
        /\ [Empty EXCEPT !.src = r.src] \in Info
        /\ r.valid \in BOOLEAN
  BY DEF Info, Empty
<1>2. \A r \in ReqInfo, v \in BOOLEAN :
        /\ [r EXCEPT !.resp = v] \in ReqInfo
        /\ [r EXCEPT !.ts = v] \in ReqInfo
        /\ [r EXCEPT !.valid = v] \in ReqInfo
  BY DEF ReqInfo
<1>3. Empty \in Info /\ NoReq \in ReqInfo
  BY DEF ReqInfo, Info, Empty, NoReq
<1>4. /\ \A m \in Message_ : m.src \in Peer \cup {None} /\ m.old \in BOOLEAN
      /\ \A m \in Queued : m.src \in Peer \cup {None}
  BY DEF Message_, Queued
<1>5. CASE TxClear \/ TxDrop \/ TxSave
  <2>1. CASE TxClear
    BY Zenon, <1>3, <2>1 DEF Infos, TxClear
  <2>2. CASE TxDrop
    BY Zenon, <1>1, <1>3, <2>2 DEF Infos, TxDrop
  <2>3. CASE TxSave
    BY Zenon, <1>2, <2>3 DEF Infos, TxSave
  <2>. QED  BY Zenon, <1>5, <2>1, <2>2, <2>3
<1>6. CASE TxSend
  <2>1. /\ req' = [req EXCEPT !.ts = FALSE]
        /\ rsp' = [rsp EXCEPT !.old = rsp.valid] /\ fup' = [fup EXCEPT !.old = fup.valid]
        /\ peer' = peer
    BY Zenon, <1>6 DEF TxSend
  <2>2. rsp' \in Info /\ fup' \in Info
    BY Zenon, <1>1, <2>1 DEF Infos
  <2>3. req' \in ReqInfo
    BY Zenon, <1>2, <2>1 DEF Infos
  <2>. QED  BY Zenon, <2>1, <2>2, <2>3 DEF Infos
<1>7. CASE RxSave
  <2>1. PICK m \in Message_ : pc.rx = <<m>>
    BY Zenon, <1>7 DEF RxSave, Messages
  <2>2. Head(pc.rx) = m
    BY <2>1
  <2>3. /\ UNCHANGED rsp \/ rsp' = Saved(rsp, m)
        /\ UNCHANGED fup \/ fup' = Saved(fup, m)
        /\ UNCHANGED <<peer, req>>
    BY Zenon, <1>7, <2>2 DEF RxSave, handle_pdelay_resp, handle_pdelay_resp_fup
  <2>4. \A r \in Info : Saved(r, m) \in Info
    BY Zenon, <1>1, <1>4 DEF Saved
  <2>. QED  BY Zenon, <2>3, <2>4 DEF Infos
<1>8. ASSUME NEW m \in net, handle_delayed_pdelay_req(m)  PROVE Infos'
  <2>1. /\ UNCHANGED <<peer, rsp, fup>>
        /\ UNCHANGED req \/ req' = [req EXCEPT !.ts = TRUE]
    BY Zenon, <1>8 DEF handle_delayed_pdelay_req
  <2>2. req' \in ReqInfo
    <3>1. req \in ReqInfo
      BY Zenon DEF Infos
    <3>2. [req EXCEPT !.ts = TRUE] \in ReqInfo
      BY Zenon, <1>2, <3>1
    <3>. QED  BY Zenon, <2>1, <3>1, <3>2
  <2>. QED  BY Zenon, <2>1, <2>2 DEF Infos
<1>9. CASE Proc
  <2>1. Head(queue) \in Queued
    BY <1>9 DEF Proc, Messages
  <2>2. peer' = peer \/ peer' = None \/ peer' = Head(queue).src
    BY Zenon, <1>9 DEF Proc, proc_pdelay_req, ProcDelay
  <2>3. /\ UNCHANGED rsp \/ rsp' = [rsp EXCEPT !.resp = TRUE]
        /\ UNCHANGED fup \/ fup' = [fup EXCEPT !.resp = TRUE]
        /\ UNCHANGED req
    BY Zenon, <1>9 DEF Proc, proc_pdelay_req, ProcDelay, port_peer_delay
  <2>4. peer' \in Peer \cup {None}
    BY Zenon, <2>1, <2>2, <1>4 DEF Infos
  <2>. QED  BY Zenon, <2>3, <2>4, <1>1 DEF Infos
<1>10. CASE ProcAnswered
  BY Zenon, <1>2, <1>10 DEF Infos, ProcAnswered
<1>11. CASE port_fault_timeout_work \/ LinkUp
  <2>1. UNCHANGED <<req, rsp, fup>> /\ (peer' = peer \/ peer' = None)
    BY Zenon, <1>11 DEF port_fault_timeout_work, LinkUp, port_initialize, Stay
  <2>. QED  BY Zenon, <2>1 DEF Infos
<1>12. CASE TimerFires \/ port_pdelay_req_func \/ TxMissing \/ TxCount \/ TxFails \/ RxOther
  BY Zenon, <1>12 DEF Infos, TimerFires, port_pdelay_req_func, TxMissing, TxCount, TxFails,
     RxOther
<1>13. CASE (\E m \in net : Rx(m)) \/ (\E q \in Peer : Answer(q) \/ handle_pdelay_req(q))
  BY Zenon, <1>13 DEF Infos, Rx, Answer, handle_pdelay_req
<1>14. CASE Lose \/ LinkDown \/ Die \/ UNCHANGED vars
  BY Zenon, <1>14 DEF Infos, Lose, LinkDown, Die, vars
<1>. QED
  BY Zenon, <1>5, <1>6, <1>7, <1>8, <1>9, <1>10, <1>11, <1>12, <1>13, <1>14, Steps

LEMMA AgedIs == \A m \in Message_ : Aged(m) \in Message_
<1>1. \A m \in Message_, x \in BOOLEAN : [m EXCEPT !.old = x] \in Message_
  BY DEF Message_
<1>. QED  BY Zenon, <1>1 DEF Aged

InRx(r) == r # <<>> => \E m \in Message_ : r = <<m>>

LEMMA MessagesRx ==
    ASSUME PcOK, Messages, [Next]_vars
    PROVE  InRx(pc'.rx)
<1>1. InRx(pc.rx) /\ InRx(<<>>) /\ (\A m \in net : InRx(<<m>>))
  BY Zenon DEF InRx, Messages
<1>2. InRx([i \in DOMAIN pc.rx |-> Aged(pc.rx[i])])
  <2>1. CASE pc.rx = <<>>
    <3>1. [i \in DOMAIN pc.rx |-> Aged(pc.rx[i])] = <<>>
      BY <2>1
    <3>. QED  BY Zenon, <1>1, <3>1
  <2>2. CASE pc.rx # <<>>
    <3>1. PICK m \in Message_ : pc.rx = <<m>>
      BY Zenon, <2>2 DEF Messages
    <3>2. [i \in DOMAIN pc.rx |-> Aged(pc.rx[i])] = <<Aged(m)>>
      BY <3>1
    <3>. QED  BY Zenon, <3>2, AgedIs DEF InRx
  <2>. QED  BY Zenon, <2>1, <2>2
<1>3. CASE Next
  BY Zenon, <1>1, <1>2, <1>3, PlacesOf DEF Places
<1>4. CASE UNCHANGED vars
  BY Zenon, <1>1, <1>4 DEF vars
<1>. QED  BY Zenon, <1>3, <1>4

LEMMA MessagesStep ==
    ASSUME PcOK, Messages, [Next]_vars
    PROVE  Messages'
<1>. USE DEF portVars, capVars, infoVars, netVars, ghosts
<1>. DEFINE set == net' \subseteq Message_
            list == queue' \in Seq(Queued)
<1>. SUFFICES set /\ list
  BY Zenon, MessagesRx DEF Messages, InRx
<1>0. (UNCHANGED net => set) /\ (UNCHANGED queue => list)
  BY Zenon DEF Messages
<1>1. ASSUME NEW m, [type |-> m.type, src |-> m.src] \in Queued, NEW go, Enqueue(m, go)
      PROVE  list
  <2>1. queue \in Seq(Queued)
    BY Zenon DEF Messages
  <2>2. queue' = queue \/ queue' = Append(queue, [type |-> m.type, src |-> m.src])
    BY Zenon, <1>1 DEF Enqueue
  <2>. HIDE DEF Queued
  <2>. QED  BY <1>1, <2>1, <2>2
<1>11. \A m \in Message_ : [type |-> m.type, src |-> m.src] \in Queued
  BY DEF Message_, Queued
<1>ts. Ts \in Message_
  BY DEF Ts, Message_
<1>2. CASE TxSend
  <2>1. net' = {Aged(m) : m \in net} \cup {Ts} /\ UNCHANGED queue
    BY Zenon, <1>2 DEF TxSend
  <2>2. set
    BY Zenon, <1>ts, <2>1, AgedIs DEF Messages
  <2>. QED  BY Zenon, <1>0, <2>1, <2>2
<1>3. ASSUME NEW m \in net, Rx(m)  PROVE set /\ list
  <2>1. net' = net \ {m} /\ UNCHANGED queue
    BY Zenon, <1>3 DEF Rx
  <2>. QED  BY Zenon, <1>0, <2>1 DEF Messages
<1>4. CASE RxSave
  <2>1. PICK m \in Message_ : pc.rx = <<m>>
    BY Zenon, <1>4 DEF RxSave, Messages
  <2>2. Head(pc.rx) = m
    BY <2>1
  <2>3. UNCHANGED net /\ (UNCHANGED queue \/ \E go : Enqueue(m, go))
    BY Zenon, <1>4, <2>2 DEF RxSave, handle_pdelay_resp, handle_pdelay_resp_fup
  <2>. QED  BY Zenon, <1>0, <1>1, <1>11, <2>3
<1>5. ASSUME NEW m \in net, handle_delayed_pdelay_req(m)  PROVE set /\ list
  <2>1. net' = net \ {m} /\ (UNCHANGED queue \/ Enqueue(m, Complete))
    BY Zenon, <1>5 DEF handle_delayed_pdelay_req
  <2>2. m \in Message_
    BY Zenon DEF Messages
  <2>. QED  BY Zenon, <1>0, <1>1, <1>11, <2>1, <2>2 DEF Messages
<1>6. CASE Proc
  <2>1. UNCHANGED net /\ queue' = Tail(queue) /\ queue # <<>>
    BY Zenon, <1>6 DEF Proc
  <2>2. list
    BY <2>1 DEF Messages
  <2>. QED  BY Zenon, <1>0, <2>1, <2>2
<1>7. ASSUME NEW q \in Peer, Answer(q)  PROVE set /\ list
  <2>1. /\ UNCHANGED queue
        /\ net' = net \cup {[type |-> t, src |-> q, old |-> FALSE] :
                              t \in IF q \in TwoStep THEN {"RESP", "FUP"} ELSE {"RESP"}}
    BY Zenon, <1>7 DEF Answer
  <2>2. \A t \in {"RESP", "FUP"} : [type |-> t, src |-> q, old |-> FALSE] \in Message_
    BY DEF Message_
  <2>. QED  BY Zenon, <1>0, <2>1, <2>2 DEF Messages
<1>8. ASSUME NEW q \in Peer, handle_pdelay_req(q)  PROVE set /\ list
  <2>1. UNCHANGED net /\ Enqueue([type |-> "REQ", src |-> q], TRUE)
    BY Zenon, <1>8 DEF handle_pdelay_req
  <2>2. [type |-> [type |-> "REQ", src |-> q].type, src |-> [type |-> "REQ", src |-> q].src]
          \in Queued
    BY DEF Queued
  <2>. QED  BY Zenon, <1>0, <1>1, <2>1, <2>2
<1>9. CASE Lose
  <2>1. UNCHANGED queue /\ (UNCHANGED net \/ \E m : net' = net \ {m})
    BY Zenon, <1>9 DEF Lose
  <2>. QED  BY Zenon, <1>0, <2>1 DEF Messages
<1>10. CASE \/ TimerFires \/ port_pdelay_req_func \/ TxMissing \/ TxCount
            \/ TxClear \/ TxDrop \/ TxSave \/ TxFails \/ RxOther
  BY Zenon, <1>0, <1>10 DEF TimerFires, port_pdelay_req_func, TxMissing, TxCount, TxClear,
     TxDrop, TxSave, TxFails, RxOther
<1>13. CASE ProcAnswered \/ port_fault_timeout_work \/ LinkUp \/ LinkDown \/ Die
  BY Zenon, <1>0, <1>13 DEF ProcAnswered, port_fault_timeout_work, LinkUp, LinkDown, Die
<1>12. CASE UNCHANGED vars
  BY Zenon, <1>0, <1>12 DEF vars
<1>. HIDE DEF set, list
<1>. QED
  BY Zenon, <1>2, <1>3, <1>4, <1>5, <1>6, <1>7, <1>8, <1>9, <1>10, <1>12, <1>13, Steps

LEMMA TypedStep ==
    ASSUME PcOK, Typed, [Next]_vars
    PROVE  Typed'
BY Zenon, FlagsStep, NumbersStep, CountersStep, InfosStep, MessagesStep DEF Typed

(***************************************************************************)
(* Type correctness: the counters of multiple responses never reach the    *)
(* numbers at which the port goes to FAULTY without being reset, and the   *)
(* missing responses and the requests stay within their limits.            *)
(***************************************************************************)
THEOREM TypeCorrect == Spec => []TypeOK
<1>1. Fresh => PcOK
  BY DEF Fresh
<1>. QED
  BY <1>1, FreshInit, FreshStep, TypedInit, TypedStep, TypedImplies, PTL DEF Spec

LEMMA UnmixedStep ==
    ASSUME Multiple, OneInHand, Unmixed, [Next]_vars
    PROVE  Unmixed'
<1>. DEFINE same == UNCHANGED <<rsp, fup, cnt, raced, doubt, mixed>>
<1>. USE DEF capVars, infoVars, netVars, ghosts
<1>1. PcOK
  BY Zenon DEF Multiple
<1>2. ASSUME NEW t, NEW w, NEW p, Places(t, w, pc.rx, p), Onward(w), same
      PROVE  Unmixed'
  BY Zenon, <1>2, UnmixedSame
<1>3. /\ TimerFires \/ port_pdelay_req_func \/ TxMissing \/ TxClear \/ TxSave \/ TxFails => same
      /\ ProcAnswered \/ RxOther \/ (\E m \in net : handle_delayed_pdelay_req(m)) => same
  BY Zenon DEF TimerFires, port_pdelay_req_func, TxMissing, TxClear, TxSave, TxFails,
     ProcAnswered, RxOther, handle_delayed_pdelay_req
<1>4. port_fault_timeout_work \/ Environment => same
  BY Zenon DEF port_fault_timeout_work, Environment, Answer, handle_pdelay_req, Lose, LinkUp,
     LinkDown, Die
<1>5. \A m \in net : Rx(m) /\ UNCHANGED raced => same
  BY Zenon DEF Rx
<1>6. CASE UNCHANGED vars
  <2>1. same /\ Places(pc.timer, pc.work, pc.rx, pc.proc)
    BY Zenon, <1>1, <1>6, PlacesAre DEF vars, PcOK
  <2>. QED  BY Zenon, <1>2, <2>1, OnwardIs
<1>7. CASE Next
  <2>. HIDE DEF same
  <2>1. CASE \/ TxCount /\ Places(pc.timer, "clear", pc.rx, pc.proc)
             \/ TxDrop /\ Places(pc.timer, "save", pc.rx, pc.proc)
    BY Zenon, <2>1, UnmixedCount, UnmixedDrop
  <2>2. CASE /\ TxSend
             /\ Places(pc.timer, "idle", [i \in DOMAIN pc.rx |-> Aged(pc.rx[i])], pc.proc)
    BY Zenon, <2>2, UnmixedSend
  <2>3. ASSUME NEW m \in net, Rx(m),
               \/ Places(pc.timer, pc.work, <<m>>, pc.proc) /\ Expected(m) /\ state = "UP"
               \/ Places(pc.timer, pc.work, pc.rx, pc.proc) /\ UNCHANGED <<racing, raced>>
        PROVE  Unmixed'
    BY Zenon, <1>2, <1>5, <2>3, UnmixedRx, OnwardIs
  <2>4. CASE RxSave /\ Places(pc.timer, pc.work, <<>>, pc.proc)
    BY Zenon, <2>4, UnmixedRxSave
  <2>5. CASE Proc /\ \E x : Places(pc.timer, pc.work, pc.rx, x)
    BY Zenon, <2>5, UnmixedProc
  <2>6. CASE \/ TimerFires /\ Places("start", pc.work, pc.rx, pc.proc)
             \/ port_pdelay_req_func /\ Places("idle", pc.work, pc.rx, pc.proc)
             \/ ProcAnswered /\ Places(pc.timer, pc.work, pc.rx, "idle")
    BY Zenon, <1>2, <1>3, <2>6, OnwardIs
  <2>7. CASE \/ TxMissing /\ Places(pc.timer, "count", pc.rx, pc.proc)
             \/ TxClear /\ pc.work = "clear" /\ Places(pc.timer, "drop", pc.rx, pc.proc)
             \/ TxSave /\ pc.work = "save" /\ Places(pc.timer, "send", pc.rx, pc.proc)
             \/ TxFails /\ pc.work = "save" /\ Places(pc.timer, "idle", pc.rx, pc.proc)
    <3>1. TxMissing => pc.work = "idle"
      BY Zenon DEF TxMissing
    <3>. QED  BY Zenon, <1>2, <1>3, <2>7, <3>1, OnwardIs
  <2>8. CASE /\ \/ \E m \in net : handle_delayed_pdelay_req(m)
                \/ RxOther \/ port_fault_timeout_work \/ Environment
             /\ Places(pc.timer, pc.work, pc.rx, pc.proc)
    <3>1. same
      BY Zenon, <1>3, <1>4, <2>8
    <3>. QED  BY Zenon, <1>2, <2>8, <3>1, OnwardIs
  <2>. QED
    BY ZenonT(40), <1>1, <1>7, <2>1, <2>2, <2>3, <2>4, <2>5, <2>6, <2>7, <2>8, PlacesOf
<1>. QED  BY Zenon, <1>6, <1>7

(***************************************************************************)
(* No delay is computed from a response or a follow-up to an earlier       *)
(* request, nor from the messages of two responders that go unnoticed,     *)
(* however messages are lost, late or answered twice.  Outside it are a    *)
(* message handled while port_tx_pdelay_req is between resp_cnt = 0 and    *)
(* the new sequence number, a follow-up saved before any response, and the *)
(* transmit timestamp, whose request is not compared.                      *)
(***************************************************************************)
THEOREM OneExchange == Spec => []NoMixedSample
<1>1. Multiple => PcOK
  BY DEF Multiple
<1>2. Typed => OneInHand
  BY Zenon DEF Typed, Messages, OneInHand
<1>. QED
  BY <1>1, <1>2, MultipleInit, MultipleStep, TypedInit, TypedStep,
     UnmixedInit, UnmixedStep, UnmixedImplies, PTL DEF Spec

=============================================================================
