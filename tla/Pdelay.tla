------------------------------- MODULE Pdelay -------------------------------
(***************************************************************************)
(* A gPTP port measures the delay to its neighbour: it sends a Pdelay_Req  *)
(* at every tick of a timer, takes in the Pdelay_Resp and the              *)
(* Pdelay_Resp_Follow_Up, and decides from what it got whether the         *)
(* neighbour is "asCapable", without which no Announce or Sync is sent     *)
(* (ptp_protocol.c and ptp_port.c, one response expected, multi_pdelay     *)
(* NULL, no_capable 0).                                                    *)
(*                                                                         *)
(* Four threads take part.  The timer task calls port_pdelay_req_func;     *)
(* the work task runs port_tx_pdelay_req under tx_lock; the receive task   *)
(* runs the handle_ functions and the message task the proc_ functions,    *)
(* both under rx_lock.  Nothing orders the work task and the other two.    *)
(*                                                                         *)
(* A sequence number is only ever compared with that of the last request,  *)
(* so that a message is either of the last request (new) or of an earlier  *)
(* one (old).                                                              *)
(***************************************************************************)
EXTENDS Naturals, Sequences, Functions

CONSTANTS
    Peer,           \* the ports that answer
    Neighbour,      \* the one that is meant to
    TwoStep,        \* the peers that send a Pdelay_Resp_Follow_Up
    None,           \* no peer
    AllowedLost,    \* allowed_lost_responses
    AllowedFaults,  \* allowed_pdelay_faults
    AllowedFupFaults,   \* the 3 of handle_pdelay_resp_fup
    MaxMissing,     \* the limit of resp_missing, 10
    MaxQueue,       \* bound: messages that wait for the message task
    MaxTrouble      \* bound: things that go wrong

ASSUME PdelayAssumption ==
    /\ Neighbour \in Peer /\ TwoStep \subseteq Peer /\ None \notin Peer
    /\ AllowedLost \in Nat \ {0} /\ AllowedFaults \in Nat \ {0}
    /\ AllowedFupFaults \in Nat \ {0}
    /\ MaxMissing \in Nat /\ AllowedLost + 1 <= MaxMissing
    /\ MaxQueue \in Nat \ {0} /\ MaxTrouble \in Nat

VARIABLES
    state,      \* "UP" for LISTENING and above, or "FAULTY"
    no_link, last_fault,
    as_capable, resp_missing,
    peer,       \* peer_id while peer_valid, else None
    cnt,        \* [resp, fup, mult, mult_fup]: resp_cnt, resp_fup_cnt,
                \* mult_resp_cnt, mult_resp_fup_cnt
    mult_resp,
    req, rsp, fup,      \* tx_delay_req, rx_delay_resp, rx_pdelay_fup
    nrate,      \* samples the rate ratio has seen: none, one, valid
    big,        \* info->delay > neighborDelayThresh
    timer, work,    \* the timer is armed; delay_req_work waits
    queue,      \* messages that wait for the message task
    net,        \* messages and timestamps on their way to the port
    answers,    \* answers given to the last request, two for many
    pc,         \* where the timer, work, receive and message task are
    alive,      \* the neighbour answers
    trouble,    \* how often something went wrong
    silent,     \* requests sent since a response was processed
    racing,     \* a message is handled as the next request is prepared
    raced,      \* a message was handled while the last request was sent
    doubt,      \* a follow-up to it was saved before any response, or
                \* several responses or follow-ups were counted
    mixed       \* a delay was computed from two exchanges

portVars == <<state, no_link, last_fault, timer>>
capVars == <<as_capable, resp_missing, peer, cnt, mult_resp>>
infoVars == <<req, rsp, fup, nrate, big>>
netVars == <<net, answers, alive, trouble>>
ghosts == <<silent, racing, raced, doubt, mixed>>
vars == <<portVars, capVars, infoVars, work, queue, netVars, pc, ghosts>>

Empty == [valid |-> FALSE, resp |-> FALSE, old |-> FALSE, src |-> None]
NoReq == [valid |-> FALSE, resp |-> FALSE, ts |-> FALSE]
Idle == [timer |-> "idle", work |-> "idle", rx |-> <<>>, proc |-> "idle"]

Init ==
    /\ state = "UP" /\ no_link = FALSE /\ last_fault = FALSE
    /\ as_capable = FALSE /\ resp_missing = AllowedLost + 1
    /\ peer = None
    /\ cnt = [resp |-> 0, fup |-> 0, mult |-> 0, mult_fup |-> 0]
    /\ mult_resp = FALSE
    /\ req = NoReq /\ rsp = Empty /\ fup = Empty
    /\ nrate = 0 /\ big = FALSE
    /\ timer = TRUE /\ work = FALSE
    /\ queue = <<>> /\ net = {} /\ answers = 0
    /\ pc = Idle
    /\ alive = TRUE /\ trouble = 0 /\ silent = 0
    /\ racing = FALSE /\ raced = FALSE /\ doubt = FALSE /\ mixed = FALSE

\* Something goes wrong, if it does.
Trouble(wrong) ==
    /\ wrong => trouble < MaxTrouble
    /\ trouble' = IF wrong THEN trouble + 1 ELSE trouble

-----------------------------------------------------------------------------
\* Mutant: one response more may be missing.
Capable_one_more(missing, large, mult, id, samples) ==
    missing <= AllowedLost /\ ~large /\ ~mult /\ id # None /\ samples = 2

(***************************************************************************)
(* port_check_capable, from the values its caller has just assigned.       *)
(***************************************************************************)
Capable(missing, large, mult, id, samples) ==
    /\ missing < AllowedLost
    /\ ~large
    /\ ~mult
    /\ id # None
    /\ samples = 2

(***************************************************************************)
(* The timer task.  port_pdelay_req_func only looks for DISABLED, then     *)
(* starts the timer again and schedules the request.  That the timer fires *)
(* before the last exchange is over is a trouble.                          *)
(***************************************************************************)
Settled ==
    /\ net = {} /\ pc.rx = <<>> /\ pc.proc = "idle"
    /\ pc.work = "idle" /\ ~work
    /\ \A m \in Range(queue) : m.type = "REQ"
    /\ alive /\ state = "UP" /\ req.valid => answers > 0

TimerFires ==
    /\ timer /\ pc.timer = "idle"
    /\ Trouble(~Settled)
    /\ timer' = FALSE
    /\ pc' = [pc EXCEPT !.timer = "start"]
    /\ UNCHANGED <<state, no_link, last_fault, capVars, infoVars, work, queue,
                   net, answers, alive, ghosts>>

port_pdelay_req_func ==
    /\ pc.timer = "start"
    /\ pc' = [pc EXCEPT !.timer = "idle"]
    /\ timer' = TRUE
    /\ work' = TRUE
    /\ UNCHANGED <<state, no_link, last_fault, capVars, infoVars, queue,
                   netVars, ghosts>>

-----------------------------------------------------------------------------
(***************************************************************************)
(* The work task: port_tx_pdelay_req, in the steps that the receive and    *)
(* the message task can see.                                               *)
(***************************************************************************)

\* Mutant: the counter has no limit.
OneMoreMissing_unlimited == resp_missing + 1

\* p->resp_missing++
OneMoreMissing ==
    IF resp_missing < MaxMissing THEN resp_missing + 1 ELSE resp_missing

\* Mutant: the missing response is not counted.
NoResponse_uncounted ==
    /\ UNCHANGED resp_missing
    /\ as_capable' = Capable(resp_missing, big, mult_resp, peer, nrate)

\* No Pdelay_Resp received.
NoResponse ==
    /\ resp_missing' = OneMoreMissing
    /\ as_capable' = Capable(resp_missing', big, mult_resp, peer, nrate)

TxMissing ==
    /\ work /\ pc.work = "idle"
    /\ work' = FALSE
    /\ pc' = [pc EXCEPT !.work = "count"]
    /\ IF req.valid /\ ~req.resp
       THEN NoResponse
       ELSE UNCHANGED <<resp_missing, as_capable>>
    /\ UNCHANGED <<portVars, peer, cnt, mult_resp, infoVars, queue, netVars,
                   ghosts>>

\* Mutant: resp_cnt is not reset.
NextCount_keeps ==
    [cnt EXCEPT !.fup = 0, !.mult = IF cnt.resp <= 1 /\ @ > 0 THEN @ - 1 ELSE @]

\* Expect only one response.
NextCount ==
    [cnt EXCEPT !.resp = 0, !.fup = 0,
                !.mult = IF cnt.resp <= 1 /\ @ > 0 THEN @ - 1 ELSE @]

TxCount ==
    /\ pc.work = "count"
    /\ cnt' = NextCount
    /\ mult_resp' = FALSE
    /\ racing' = (pc.rx # <<>>)
    /\ raced' = (raced \/ racing')
    /\ pc' = [pc EXCEPT !.work = "clear"]
    /\ UNCHANGED <<portVars, as_capable, resp_missing, peer, infoVars, work,
                   queue, netVars, silent, doubt, mixed>>

\* clear_pdelay_req: first the request, then what was received.
TxClear ==
    /\ pc.work = "clear"
    /\ req' = NoReq
    /\ pc' = [pc EXCEPT !.work = "drop"]
    /\ UNCHANGED <<portVars, capVars, rsp, fup, nrate, big, work, queue,
                   netVars, ghosts>>

TxDrop ==
    /\ pc.work = "drop"
    /\ rsp' = [Empty EXCEPT !.src = rsp.src]
    /\ fup' = Empty
    /\ racing' = FALSE /\ raced' = racing /\ doubt' = FALSE
    /\ pc' = [pc EXCEPT !.work = "save"]
    /\ UNCHANGED <<portVars, capVars, req, nrate, big, work, queue, netVars,
                   silent, mixed>>

\* msg_info_save sets valid first, and leaves resp alone.
TxSave ==
    /\ pc.work = "save"
    /\ req' = [req EXCEPT !.valid = TRUE]
    /\ pc' = [pc EXCEPT !.work = "send"]
    /\ UNCHANGED <<portVars, capVars, rsp, fup, nrate, big, work, queue,
                   netVars, ghosts>>

Aged(m) == [m EXCEPT !.old = TRUE]
Ts == [type |-> "TS", src |-> None, old |-> FALSE]

\* The sequence number, no timestamp as yet, and the request is sent.
TxSend ==
    /\ pc.work = "send"
    /\ pc' = [pc EXCEPT !.work = "idle",
                        !.rx = [i \in DOMAIN @ |-> Aged(@[i])]]
    /\ req' = [req EXCEPT !.ts = FALSE]
    /\ rsp' = [rsp EXCEPT !.old = rsp.valid]
    /\ fup' = [fup EXCEPT !.old = fup.valid]
    /\ net' = {Aged(m) : m \in net} \cup {Ts}
    /\ answers' = 0
    /\ silent' = IF silent <= AllowedLost + 1 THEN silent + 1 ELSE silent
    /\ UNCHANGED <<portVars, capVars, nrate, big, work, queue, alive, trouble,
                   racing, raced, doubt, mixed>>

\* alloc_msg fails.
TxFails ==
    /\ pc.work = "save"
    /\ Trouble(TRUE)
    /\ pc' = [pc EXCEPT !.work = "idle"]
    /\ UNCHANGED <<portVars, capVars, infoVars, work, queue, net, answers,
                   alive, ghosts>>

-----------------------------------------------------------------------------
(***************************************************************************)
(* The receive task takes a message that ptp_rx lets through, runs the     *)
(* checks of its handler, and in a second step what follows them.          *)
(***************************************************************************)
RxLockFree == pc.rx = <<>> /\ pc.proc = "idle"
Room == Len(queue) < MaxQueue

\* Mutant: the sequence number is not compared.
Expected_any(m) == req.valid /\ (m.type = "FUP" => m.src = rsp.src)

\* The checks of handle_pdelay_resp and handle_pdelay_resp_fup.
Expected(m) ==
    /\ req.valid
    /\ ~m.old
    /\ m.type = "FUP" => m.src = rsp.src

Rx(m) ==
    /\ m \in net /\ m.type # "TS"
    /\ RxLockFree /\ Room
    /\ Trouble(m.type = "FUP" /\ [m EXCEPT !.type = "RESP"] \in net)
    /\ net' = net \ {m}
    /\ IF state = "UP" /\ Expected(m)
       THEN /\ pc' = [pc EXCEPT !.rx = <<m>>]
            /\ racing' = (pc.work \in {"clear", "drop"})
            /\ raced' = (raced \/ pc.work \notin {"idle", "count"})
       ELSE UNCHANGED <<pc, racing, raced>>
    /\ UNCHANGED <<portVars, capVars, infoVars, work, queue, answers, alive,
                   silent, doubt, mixed>>

\* ptp_rx takes a message of another transportSpecific than the last one for
\* a sign of the neighbour ("Workaround for test case").
RxOther ==
    /\ RxLockFree
    /\ Trouble(TRUE)
    /\ resp_missing' = AllowedLost - 1
    /\ silent' = 0
    /\ UNCHANGED <<portVars, as_capable, peer, cnt, mult_resp, infoVars, work,
                   queue, net, answers, alive, pc, racing, raced, doubt, mixed>>

\* ptp_save_rx_msg: the message waits for the message task.
Enqueue(m, go) ==
    queue' = IF go THEN Append(queue, [type |-> m.type, src |-> m.src])
             ELSE queue

\* port_set_fault_timeout and, in port_set_state, port_stop_p2p.
Fault ==
    /\ last_fault' = TRUE
    /\ state' = "FAULTY"
    /\ timer' = (timer /\ state = "FAULTY")

Saved(info, m) == [info EXCEPT !.valid = TRUE, !.old = m.old, !.src = m.src]

Two(n) == IF n < 2 THEN n + 1 ELSE 2

\* handle_pdelay_resp, once the checks are passed.
handle_pdelay_resp(m) ==
    LET many == cnt.resp > 0
        mult == IF many THEN cnt.mult + 1 ELSE cnt.mult
        counted == [cnt EXCEPT !.resp = Two(@), !.mult = mult]
    IN  /\ mult_resp' = (mult_resp \/ many)
        /\ as_capable' = (as_capable /\ ~many)
        /\ doubt' = (doubt \/ many)
        /\ IF many /\ mult >= AllowedFaults
           THEN /\ cnt' = [counted EXCEPT !.mult = 0, !.mult_fup = 0]
                /\ Fault
                /\ UNCHANGED <<rsp, fup, queue>>
           ELSE /\ cnt' = counted
                /\ rsp' = Saved(rsp, m)
                /\ Enqueue(m, req.ts /\ m.src \notin TwoStep)
                /\ UNCHANGED <<state, last_fault, timer, fup>>

\* handle_pdelay_resp_fup, once the checks are passed.
handle_pdelay_resp_fup(m) ==
    LET many == cnt.fup > 0
        mult == IF many THEN cnt.mult_fup + 1
                ELSE IF cnt.mult_fup > 0 THEN cnt.mult_fup - 1 ELSE 0
        counted == [cnt EXCEPT !.fup = Two(@), !.mult_fup = mult]
    IN  /\ mult_resp' = (mult_resp \/ many)
        /\ as_capable' = (as_capable /\ ~many)
        /\ doubt' = (doubt \/ many \/ ~rsp.valid)
        /\ IF many /\ mult >= AllowedFupFaults
           THEN /\ cnt' = [counted EXCEPT !.mult = 0, !.mult_fup = 0]
                /\ Fault
                /\ UNCHANGED <<rsp, fup, queue>>
           ELSE /\ cnt' = counted
                /\ fup' = Saved(fup, m)
                /\ Enqueue(m, req.ts /\ rsp.valid)
                /\ UNCHANGED <<state, last_fault, timer, rsp>>

RxSave ==
    /\ pc.rx # <<>>
    /\ LET m == Head(pc.rx)
       IN  \/ m.type = "RESP" /\ handle_pdelay_resp(m)
           \/ m.type = "FUP" /\ handle_pdelay_resp_fup(m)
    /\ pc' = [pc EXCEPT !.rx = <<>>]
    /\ UNCHANGED <<no_link, resp_missing, peer, req, nrate, big,
                   work, netVars, silent, racing, raced, mixed>>

Complete == rsp.valid /\ ~rsp.old /\ (rsp.src \in TwoStep => fup.valid)

\* A transmit timestamp is reported.  Whose it is is not compared.
handle_delayed_pdelay_req(m) ==
    /\ m \in net /\ m.type = "TS"
    /\ RxLockFree /\ Room
    /\ net' = net \ {m}
    /\ IF state = "UP" /\ req.valid
       THEN /\ req' = [req EXCEPT !.ts = TRUE]
            /\ Enqueue(m, Complete)
       ELSE UNCHANGED <<req, queue>>
    /\ UNCHANGED <<portVars, capVars, rsp, fup, nrate, big, work, answers,
                   alive, trouble, pc, ghosts>>

\* handle_pdelay_req: a request of a peer; the neighbour alone once it is calm.
handle_pdelay_req(q) ==
    /\ RxLockFree /\ state = "UP"
    /\ queue = <<>>
    /\ alive /\ Trouble(q # Neighbour)
    /\ Enqueue([type |-> "REQ", src |-> q], TRUE)
    /\ UNCHANGED <<portVars, capVars, infoVars, work, net, answers, alive,
                   pc, ghosts>>

-----------------------------------------------------------------------------
(***************************************************************************)
(* The message task, under rx_lock.  proc_pdelay_response first computes   *)
(* the delay, then notes that the request has been answered.               *)
(***************************************************************************)

\* proc_pdelay_req
proc_pdelay_req(m) ==
    /\ peer' = IF peer \in {None, m.src} THEN m.src ELSE None
    /\ UNCHANGED <<as_capable, rsp, fup, nrate, big, pc, mixed, trouble>>

\* The checks of proc_pdelay_resp, proc_pdelay_resp_fup and
\* proc_delayed_pdelay_req.
Ready(m) ==
    \/ m.type = "RESP" /\ req.ts
    \/ m.type = "FUP" /\ req.ts /\ rsp.valid
    \/ m.type = "TS" /\ Complete

\* port_peer_delay: the ratio is valid from the second sample on, unless the
\* samples are too far apart; filter_update_delay fails without a transmit
\* timestamp, which the work task may have cleared.
port_peer_delay ==
    /\ nrate' \in {Two(nrate)} \cup ({1} \cap {nrate})
    /\ IF req.ts
       THEN /\ big' \in BOOLEAN
            /\ as_capable' = Capable(resp_missing, big', mult_resp, peer, nrate')
            /\ mixed' = \/ mixed
                        \/ /\ ~raced
                           /\ \/ rsp.old
                              \/ rsp.src \in TwoStep /\ fup.old
                              \/ /\ rsp.src \in TwoStep /\ fup.src # rsp.src
                                 /\ ~doubt
       ELSE UNCHANGED <<big, as_capable, mixed>>
    /\ Trouble((nrate = 1 /\ nrate' = 1) \/ (req.ts /\ big'))
    /\ rsp' = [rsp EXCEPT !.resp = TRUE]
    /\ fup' = [fup EXCEPT !.resp = TRUE]

ProcDelay(m) ==
    /\ IF /\ rsp.valid /\ ~rsp.resp
          /\ rsp.src \in TwoStep => fup.valid /\ ~fup.resp
       THEN port_peer_delay
       ELSE UNCHANGED <<nrate, big, as_capable, mixed, rsp, fup, trouble>>
    /\ pc' = [pc EXCEPT !.proc = "answered"]
    /\ UNCHANGED <<peer>>

Proc ==
    /\ queue # <<>> /\ RxLockFree
    /\ queue' = Tail(queue)
    /\ LET m == Head(queue)
       IN  \/ m.type = "REQ" /\ proc_pdelay_req(m)
           \/ Ready(m) /\ ProcDelay(m)
           \/ /\ m.type # "REQ" /\ ~Ready(m)
              /\ UNCHANGED <<peer, as_capable, rsp, fup, nrate, big, pc, mixed,
                             trouble>>
    /\ UNCHANGED <<portVars, resp_missing, cnt, mult_resp, req, work, net,
                   answers, alive, silent, racing, raced, doubt>>

\* Mutant: the missing responses are still counted.
Answered_counts == resp_missing

\* Clear missing response counter.
Answered == 0

\* Have at least one response.
ProcAnswered ==
    /\ pc.proc # "idle"
    /\ pc' = [pc EXCEPT !.proc = "idle"]
    /\ req' = [req EXCEPT !.resp = TRUE]
    /\ resp_missing' = Answered
    /\ as_capable' = Capable(Answered, big, mult_resp, peer, nrate)
    /\ silent' = 0
    /\ UNCHANGED <<portVars, peer, cnt, mult_resp, rsp, fup,
                   nrate, big, work, queue, netVars, racing, raced, doubt, mixed>>

-----------------------------------------------------------------------------
(***************************************************************************)
(* The link and the fault timeout.                                         *)
(***************************************************************************)

\* port_initialize of a port with a link: as_capable is left alone.
port_initialize ==
    /\ state' = "UP"
    /\ resp_missing' = AllowedLost + 1
    /\ peer' = None
    /\ nrate' = 0 /\ big' = FALSE
    /\ timer' = TRUE

Stay == UNCHANGED <<state, resp_missing, peer, nrate, big, timer>>

LinkUp ==
    /\ no_link
    /\ no_link' = FALSE
    /\ IF state = "FAULTY" /\ ~last_fault THEN port_initialize ELSE Stay
    /\ UNCHANGED <<last_fault, as_capable, cnt, mult_resp, req, rsp,
                   fup, work, queue, netVars, pc, ghosts>>

LinkDown ==
    /\ ~no_link
    /\ Trouble(TRUE)
    /\ no_link' = TRUE
    /\ state' = "FAULTY"
    /\ timer' = (timer /\ state = "FAULTY")
    /\ UNCHANGED <<last_fault, capVars, infoVars, work, queue, net, answers,
                   alive, pc, ghosts>>

\* Mutant: the port is not initialized again.
port_fault_timeout_work_only ==
    /\ last_fault
    /\ last_fault' = FALSE
    /\ Stay
    /\ UNCHANGED <<no_link, as_capable, cnt, mult_resp, req, rsp, fup, work,
                   queue, netVars, pc, ghosts>>

port_fault_timeout_work ==
    /\ last_fault
    /\ last_fault' = FALSE
    /\ IF ~no_link /\ state = "FAULTY" THEN port_initialize ELSE Stay
    /\ UNCHANGED <<no_link, as_capable, cnt, mult_resp, req, rsp, fup,
                   work, queue, netVars, pc, ghosts>>

-----------------------------------------------------------------------------
(***************************************************************************)
(* What is not this port: the peers that answer, the network, the driver.  *)
(***************************************************************************)
Answer(q) ==
    /\ req.valid /\ pc.work # "send" /\ answers < 2
    /\ alive /\ Trouble(q # Neighbour \/ answers > 0)
    /\ answers' = answers + 1
    /\ net' = net \cup {[type |-> t, src |-> q, old |-> FALSE] :
                  t \in IF q \in TwoStep THEN {"RESP", "FUP"} ELSE {"RESP"}}
    /\ UNCHANGED <<portVars, capVars, infoVars, work, queue, alive, pc,
                   ghosts>>

Lose ==
    /\ Trouble(TRUE)
    /\ \E m \in net : net' = net \ {m}
    /\ UNCHANGED <<portVars, capVars, infoVars, work, queue, answers, alive, pc,
                   ghosts>>

Die ==
    /\ alive
    /\ alive' = FALSE
    /\ UNCHANGED <<portVars, capVars, infoVars, work, queue, net, answers,
                   trouble, pc, ghosts>>

Timer == TimerFires \/ port_pdelay_req_func
Work ==
    \/ TxMissing \/ TxCount \/ TxClear \/ TxDrop
    \/ TxSave \/ TxSend \/ TxFails
Receive ==
    \/ \E m \in net : Rx(m) \/ handle_delayed_pdelay_req(m)
    \/ RxSave \/ RxOther
Message == Proc \/ ProcAnswered
Environment ==
    \/ \E q \in Peer : Answer(q) \/ handle_pdelay_req(q)
    \/ Lose \/ LinkUp \/ LinkDown \/ Die

Next == Timer \/ Work \/ Receive \/ Message \/ port_fault_timeout_work
        \/ Environment

Spec == Init /\ [][Next]_vars

(***************************************************************************)
(* The timer expires, each task gets on with what it has to do, the driver *)
(* reports the timestamp, the messages arrive; a neighbour that is alive   *)
(* answers and sends its own requests, and its link comes back.            *)
(***************************************************************************)
Fairness ==
    /\ []<>(~timer \/ ~Settled) /\ []<>(pc.timer = "idle")
    /\ []<>(~work)
    /\ []<>(pc.work = "idle")
    /\ []<>(pc.rx = <<>> /\ net = {})
    /\ []<>(pc.proc = "idle" /\ queue = <<>>)
    /\ []<>(~last_fault)
    /\ []<>(alive => ~no_link)
    /\ []<>(alive /\ req.valid => answers > 0)
    /\ []<>(alive /\ state = "UP" =>
             \E m \in Range(queue) : m.type = "REQ" /\ m.src = Neighbour)

-----------------------------------------------------------------------------
Queued == [type : {"RESP", "FUP", "TS", "REQ"}, src : Peer \cup {None}]
Message_ == [type : {"RESP", "FUP", "TS"}, src : Peer \cup {None}, old : BOOLEAN]

(***************************************************************************)
(* Type correctness; the counters of multiple responses stay below the     *)
(* numbers at which the port goes to FAULTY.                               *)
(***************************************************************************)
TypeOK ==
    /\ state \in {"UP", "FAULTY"}
    /\ {no_link, last_fault, as_capable, mult_resp, big, timer,
        work, alive, racing, raced, doubt, mixed} \subseteq BOOLEAN
    /\ resp_missing \in 0 .. MaxMissing /\ silent \in 0 .. AllowedLost + 2
    /\ peer \in Peer \cup {None}
    /\ cnt \in [resp : 0 .. 2, fup : 0 .. 2, mult : 0 .. AllowedFaults - 1,
                mult_fup : 0 .. AllowedFupFaults - 1]
    /\ req \in [valid : BOOLEAN, resp : BOOLEAN, ts : BOOLEAN]
    /\ {rsp, fup} \subseteq [valid : BOOLEAN, resp : BOOLEAN, old : BOOLEAN,
                             src : Peer \cup {None}]
    /\ nrate \in 0 .. 2 /\ answers \in 0 .. 2
    /\ net \subseteq Message_ /\ queue \in Seq(Queued)
    /\ trouble \in 0 .. MaxTrouble

(***************************************************************************)
(* A port whose state is not FAULTY keeps its request timer going: it is   *)
(* armed or its callback is about to arm it, and a fault always has the    *)
(* link or the fault timeout to end it.                                    *)
(***************************************************************************)
KeepsAsking ==
    /\ state = "UP" => timer \/ pc.timer = "start"
    /\ state = "FAULTY" => no_link \/ last_fault

(***************************************************************************)
(* No delay is computed from a response or a follow-up to an earlier       *)
(* request, as long as neither is handled while a request is being sent;   *)
(* nor from the messages of two responders unless they are noticed, as     *)
(* long as no follow-up comes before its response ("sourcePortIdentity has *)
(* to be the same for both responses": rx_delay_resp keeps the identity of *)
(* the last response when it is cleared).  It says nothing of the transmit *)
(* timestamp: handle_delayed_pdelay_req takes one that is late for that of *)
(* the last request.                                                       *)
(***************************************************************************)
NoMixedSample == ~mixed

(***************************************************************************)
(* Multiple responses are only seen when the request had several answers:  *)
(* a late answer to an earlier request is not taken for a second one,      *)
(* unless it is handled while the request is being sent, between resp_cnt  *)
(* = 0 and the sequence number.                                            *)
(***************************************************************************)
NoFalseMultiple == mult_resp => answers = 2 \/ raced

(***************************************************************************)
(* A port is asCapable only while the neighbour answers: not after         *)
(* allowed_lost_responses requests, and the one under way, have been sent  *)
(* since a response was processed, though the request that is being sent   *)
(* when it is processed is taken for answered.  ptp_rx starts the count    *)
(* anew for a message of another transportSpecific.                        *)
(***************************************************************************)
CapableIsFresh == as_capable => silent <= AllowedLost + 1

(***************************************************************************)
(* A neighbour that stays is found asCapable for good once nothing goes    *)
(* wrong any more, whatever state the faults have left behind.             *)
(***************************************************************************)
CapableAgain == []alive => <>[]as_capable

(***************************************************************************)
(* A neighbour that is gone is noticed, unless the port is FAULTY and no   *)
(* longer asks.                                                            *)
(***************************************************************************)
SilenceNoticed == <>[](alive \/ state = "FAULTY" \/ ~as_capable)

=============================================================================
