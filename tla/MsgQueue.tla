------------------------------ MODULE MsgQueue ------------------------------
(***************************************************************************)
(* How a message travels between the threads of the PTP stack: the receive *)
(* threads and the notify thread handle it under rx_lock and may leave it  *)
(* for ptp_process_task in a POSIX message queue of fixed size; the works  *)
(* that send build a message under tx_lock and queue it as well;           *)
(* ptp_process_task takes one after the other and needs the same locks.    *)
(* Messages are reference counted.                                         *)
(***************************************************************************)
EXTENDS Naturals, Sequences, FiniteSets

CONSTANTS
    Msg,        \* struct ptp_message objects that memory allows
    Receiver,   \* ReceiveTask of each socket, ptp_notify_task
    Sender,     \* threads that send: the schedule thread, commands
    Process,    \* the thread of ptp_process_task
    MaxMsg,     \* attr.mq_maxmsg
    NULL

ASSUME MsgQueueAssumption ==
    /\ Process \notin Receiver \cup Sender /\ Receiver \cap Sender = {}
    /\ MaxMsg \in Nat \ {0}
    /\ NULL \notin Msg \cup Receiver \cup Sender \cup {Process}

Thread == Receiver \cup Sender \cup {Process}

VARIABLES
    refcnt,     \* m->refcnt, 0 for memory that is not allocated
    tx,         \* the messages with m->save.tx set
    q,          \* the queue "/ptp_msg"
    rx_lock, tx_lock,   \* the owner
    pc,         \* where each thread is
    msg,        \* the message it handles
    reply       \* the message ptp_process_task has built meanwhile

vars == <<refcnt, tx, q, rx_lock, tx_lock, pc, msg, reply>>

Init ==
    /\ refcnt = [m \in Msg |-> 0]
    /\ tx = {}
    /\ q = <<>>
    /\ rx_lock = NULL /\ tx_lock = NULL
    /\ pc = [t \in Thread |-> "idle"]
    /\ msg = [t \in Thread |-> NULL]
    /\ reply = NULL

Goto(t, step) == pc' = [pc EXCEPT ![t] = step]
Free(m) == refcnt[m] = 0

\* Mutant: the caller takes a reference as well.
msg_get_two(m) == refcnt' = [refcnt EXCEPT ![m] = @ + 2]

msg_get(m) == refcnt' = [refcnt EXCEPT ![m] = @ + 1]
msg_put(m) == refcnt' = [refcnt EXCEPT ![m] = @ - 1]

\* mq_send blocks while the queue is full.
queue_send(m) == Len(q) < MaxMsg /\ q' = Append(q, m)

-----------------------------------------------------------------------------
(***************************************************************************)
(* A receiving thread: ptp_setup_rx and ptp_rx under rx_lock.              *)
(***************************************************************************)
RxLock(t) ==
    /\ pc[t] = "idle"
    /\ rx_lock = NULL
    /\ rx_lock' = t
    /\ Goto(t, "rx")
    /\ UNCHANGED <<refcnt, tx, q, tx_lock, msg, reply>>

\* The message is not for this clock, or there is no memory for it.
RxIgnore(t) ==
    /\ pc[t] = "rx"
    /\ rx_lock' = NULL
    /\ Goto(t, "idle")
    /\ UNCHANGED <<refcnt, tx, q, tx_lock, msg, reply>>

\* alloc_msg and the handler of the message up to what may block.
RxHandle(t, m) ==
    /\ pc[t] = "rx"
    /\ Free(m)
    /\ refcnt' = [refcnt EXCEPT ![m] = 1]
    /\ msg' = [msg EXCEPT ![t] = m]
    /\ \E step \in {"forward", "save", "put"} : Goto(t, step)
    /\ UNCHANGED <<tx, q, rx_lock, tx_lock, reply>>

\* ptp_forward transmits on the other ports, under tx_lock for each.
Forward(t) ==
    /\ pc[t] = "forward"
    /\ tx_lock = NULL
    /\ \E step \in {"save", "put"} : Goto(t, step)
    /\ UNCHANGED <<refcnt, tx, q, rx_lock, tx_lock, msg, reply>>

\* Mutant: the queue gets no reference of its own.
ptp_save_rx_msg_unowned(t) ==
    /\ pc[t] = "save"
    /\ tx' = tx \ {msg[t]}
    /\ Goto(t, "send")
    /\ UNCHANGED <<refcnt, q, rx_lock, tx_lock, msg, reply>>

ptp_save_rx_msg(t) ==
    /\ pc[t] = "save"
    /\ msg_get(msg[t])
    /\ tx' = tx \ {msg[t]}
    /\ Goto(t, "send")
    /\ UNCHANGED <<q, rx_lock, tx_lock, msg, reply>>

RxSend(t) ==
    /\ pc[t] = "send"
    /\ queue_send(msg[t])
    /\ Goto(t, "put")
    /\ UNCHANGED <<refcnt, tx, rx_lock, tx_lock, msg, reply>>

RxPut(t) ==
    /\ pc[t] = "put"
    /\ msg_put(msg[t])
    /\ msg' = [msg EXCEPT ![t] = NULL]
    /\ rx_lock' = NULL
    /\ Goto(t, "idle")
    /\ UNCHANGED <<tx, q, tx_lock, reply>>

-----------------------------------------------------------------------------
(***************************************************************************)
(* A sending thread: clock_tx_sync, clock_tx_announce, port_delay_req_work *)
(* and the like.  The reference of alloc_msg goes into the queue.          *)
(***************************************************************************)
TxBuild(t, m) ==
    /\ pc[t] = "idle"
    /\ tx_lock = NULL
    /\ Free(m)
    /\ tx_lock' = t
    /\ refcnt' = [refcnt EXCEPT ![m] = 1]
    /\ tx' = tx \cup {m}
    /\ msg' = [msg EXCEPT ![t] = m]
    /\ Goto(t, "send_tx")
    /\ UNCHANGED <<q, rx_lock, reply>>

ptp_save_tx_msg(t) ==
    /\ pc[t] = "send_tx"
    /\ queue_send(msg[t])
    /\ msg' = [msg EXCEPT ![t] = NULL]
    /\ tx_lock' = NULL
    /\ Goto(t, "idle")
    /\ UNCHANGED <<refcnt, tx, rx_lock, reply>>

-----------------------------------------------------------------------------
(***************************************************************************)
(* ptp_process_task.                                                       *)
(***************************************************************************)
Receive ==
    /\ pc[Process] = "idle"
    /\ q # <<>>
    /\ q' = Tail(q)
    /\ msg' = [msg EXCEPT ![Process] = Head(q)]
    /\ Goto(Process, IF Head(q) \in tx THEN "transmit" ELSE "lock")
    /\ UNCHANGED <<refcnt, tx, rx_lock, tx_lock, reply>>

\* ptp_tx_msg under tx_lock.
Transmit ==
    /\ pc[Process] = "transmit"
    /\ tx_lock = NULL
    /\ Goto(Process, "release")
    /\ UNCHANGED <<refcnt, tx, q, rx_lock, tx_lock, msg, reply>>

\* Mutant: ptp_proc_rx is called without rx_lock.
ProcLock_unlocked ==
    /\ pc[Process] = "lock"
    /\ rx_lock' = Process
    /\ \E step \in {"proc", "proc_tx"} : Goto(Process, step)
    /\ UNCHANGED <<refcnt, tx, q, tx_lock, msg, reply>>

ProcLock ==
    /\ pc[Process] = "lock"
    /\ rx_lock = NULL
    /\ rx_lock' = Process
    /\ \E step \in {"proc", "proc_tx"} : Goto(Process, step)
    /\ UNCHANGED <<refcnt, tx, q, tx_lock, msg, reply>>

\* ptp_proc_rx for most messages.
Proc ==
    /\ pc[Process] = "proc"
    /\ rx_lock' = NULL
    /\ Goto(Process, "release")
    /\ UNCHANGED <<refcnt, tx, q, tx_lock, msg, reply>>

\* The ones that send take tx_lock; what they send goes out directly, except
\* for the Follow_Up of proc_delayed_sync.
ProcDirect ==
    /\ pc[Process] = "proc_tx"
    /\ tx_lock = NULL
    /\ rx_lock' = NULL
    /\ Goto(Process, "release")
    /\ UNCHANGED <<refcnt, tx, q, tx_lock, msg, reply>>

port_tx_fup(m) ==
    /\ pc[Process] = "proc_tx"
    /\ tx_lock = NULL
    /\ Free(m)
    /\ tx_lock' = Process
    /\ refcnt' = [refcnt EXCEPT ![m] = 1]
    /\ tx' = tx \cup {m}
    /\ reply' = m
    /\ Goto(Process, "send_reply")
    /\ UNCHANGED <<q, rx_lock, msg>>

SendReply ==
    /\ pc[Process] = "send_reply"
    /\ queue_send(reply)
    /\ reply' = NULL
    /\ tx_lock' = NULL /\ rx_lock' = NULL
    /\ Goto(Process, "release")
    /\ UNCHANGED <<refcnt, tx, msg>>

\* Mutant: a message that was sent is not released.
Release_rx_only ==
    /\ pc[Process] = "release"
    /\ IF msg[Process] \in tx THEN UNCHANGED refcnt ELSE msg_put(msg[Process])
    /\ msg' = [msg EXCEPT ![Process] = NULL]
    /\ Goto(Process, "idle")
    /\ UNCHANGED <<tx, q, rx_lock, tx_lock, reply>>

Release ==
    /\ pc[Process] = "release"
    /\ msg_put(msg[Process])
    /\ msg' = [msg EXCEPT ![Process] = NULL]
    /\ Goto(Process, "idle")
    /\ UNCHANGED <<tx, q, rx_lock, tx_lock, reply>>

-----------------------------------------------------------------------------
RxStep(t) ==
    \/ RxIgnore(t)
    \/ \E m \in Msg : RxHandle(t, m)
    \/ Forward(t) \/ ptp_save_rx_msg(t) \/ RxSend(t) \/ RxPut(t)
TxStep(t) == ptp_save_tx_msg(t)
ProcessStep ==
    \/ Receive \/ Transmit \/ ProcLock \/ Proc \/ ProcDirect \/ SendReply \/ Release
    \/ \E m \in Msg : port_tx_fup(m)

Next ==
    \/ \E t \in Receiver : RxLock(t) \/ RxStep(t)
    \/ \E t \in Sender : TxStep(t) \/ \E m \in Msg : TxBuild(t, m)
    \/ ProcessStep

Spec == Init /\ [][Next]_vars

(***************************************************************************)
(* Threads that hold or wait for a lock go on; a mutex that is released    *)
(* again and again is eventually got.                                      *)
(***************************************************************************)
Fairness ==
    /\ \A t \in Receiver : WF_vars(RxStep(t)) /\ SF_vars(Forward(t)) /\ SF_vars(RxSend(t))
    /\ \A t \in Sender : SF_vars(TxStep(t))
    /\ WF_vars(ProcessStep)
    /\ SF_vars(Transmit) /\ SF_vars(ProcLock) /\ SF_vars(ProcDirect) /\ SF_vars(SendReply)

-----------------------------------------------------------------------------
(* Types of the variables. *)
TypeOK ==
    /\ refcnt \in [Msg -> 0..2]
    /\ tx \in SUBSET Msg
    /\ q \in Seq(Msg) /\ Len(q) <= MaxMsg
    /\ rx_lock \in Thread \cup {NULL} /\ tx_lock \in Thread \cup {NULL}
    /\ pc \in [Thread -> {"idle", "rx", "forward", "save", "send", "put", "send_tx", "transmit",
                          "lock", "proc", "proc_tx", "send_reply", "release"}]
    /\ msg \in [Thread -> Msg \cup {NULL}]
    /\ reply \in Msg \cup {NULL}

(***************************************************************************)
(* The reference count of a message is the number of its holders: it is    *)
(* freed by the last msg_put and not before, whichever of the receiving    *)
(* thread and ptp_process_task is done with it first.                      *)
(***************************************************************************)
Queued(m) == Cardinality({i \in 1..Len(q) : q[i] = m})
Holders(m) ==
    Queued(m) + Cardinality({t \in Thread : msg[t] = m})
              + (IF reply = m THEN 1 ELSE 0)
              + Cardinality({t \in Receiver : pc[t] = "send" /\ msg[t] = m})
RefcntIsHolders == \A m \in Msg : refcnt[m] = Holders(m)

(***************************************************************************)
(* A message is handled by one thread at a time: ptp_process_task touches  *)
(* a received message only after the thread that queued it is done with it *)
(* (rx_lock is held across ptp_rx), and a message to send after its sender *)
(* has let it go.                                                          *)
(***************************************************************************)
OneUser ==
    pc[Process] \in {"proc", "proc_tx", "send_reply", "release"} =>
        \A t \in Receiver \cup Sender : msg[t] # msg[Process]

(***************************************************************************)
(* Every message is released in the end ("message is released in the       *)
(* receive process function", "message will be released after transmit").  *)
(***************************************************************************)
EveryMessageReleased == \A m \in Msg : refcnt[m] > 0 ~> refcnt[m] = 0
=============================================================================
