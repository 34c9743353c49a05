--------------------------- MODULE MsgQueueProofs ---------------------------
(***************************************************************************)
(* Proofs about MsgQueue, for any messages, any receiving and sending      *)
(* threads and any size of the queue.                                      *)
(***************************************************************************)
EXTENDS MsgQueue, FiniteSetTheorems, TLAPS

\* m is in the queue s, and once only.
In(s, m) == \E i \in 1 .. Len(s) : s[i] = m
Distinct(s) == \A i, j \in 1 .. Len(s) : s[i] = s[j] => i = j

LEMMA AppendIs ==
    ASSUME NEW S, NEW s \in Seq(S), NEW m \in S, Distinct(s), ~In(s, m)
    PROVE  /\ Append(s, m) \in Seq(S)
           /\ Distinct(Append(s, m))
           /\ \A k : In(Append(s, m), k) <=> In(s, k) \/ k = m
<1>1. /\ Append(s, m) \in Seq(S) /\ Len(s) \in Nat
      /\ Len(Append(s, m)) = Len(s) + 1
      /\ \A i \in 1 .. Len(s) : Append(s, m)[i] = s[i]
      /\ Append(s, m)[Len(s) + 1] = m
  OBVIOUS
<1>. DEFINE e == Append(s, m)
<1>. HIDE DEF e
<1>2. \A i \in 1 .. Len(s) + 1 : i \in 1 .. Len(s) \/ i = Len(s) + 1
  BY <1>1
<1>3. 1 .. Len(e) = 1 .. Len(s) + 1 /\ Len(s) + 1 \in 1 .. Len(e)
  BY <1>1 DEF e
<1>4. \A i \in 1 .. Len(s) : i \in 1 .. Len(e) /\ e[i] = s[i]
  BY <1>1, <1>3 DEF e
<1>5. e[Len(s) + 1] = m
  BY <1>1 DEF e
<1>6. Distinct(e)
  BY Zenon, <1>2, <1>3, <1>4, <1>5 DEF Distinct, In
<1>7. \A k : In(e, k) <=> In(s, k) \/ k = m
  BY Zenon, <1>2, <1>3, <1>4, <1>5 DEF In
<1>. QED  BY Zenon, <1>1, <1>6, <1>7 DEF e

LEMMA TailIs ==
    ASSUME NEW S, NEW s \in Seq(S), Distinct(s), s # <<>>
    PROVE  /\ Tail(s) \in Seq(S) /\ Head(s) \in S
           /\ Distinct(Tail(s))
           /\ In(s, Head(s))
           /\ \A k : In(Tail(s), k) <=> In(s, k) /\ k # Head(s)
<1>1. /\ Tail(s) \in Seq(S) /\ Len(s) \in Nat \ {0} /\ Len(Tail(s)) = Len(s) - 1
      /\ Head(s) = s[1] /\ s[1] \in S
      /\ \A i \in 1 .. Len(Tail(s)) : Tail(s)[i] = s[i + 1]
  OBVIOUS
<1>. DEFINE e == Tail(s)
<1>2. \A i \in 1 .. Len(e) : i + 1 \in 1 .. Len(s) /\ i + 1 # 1 /\ e[i] = s[i + 1]
  BY <1>1
<1>3. 1 \in 1 .. Len(s) /\ \A i \in 1 .. Len(s) : i = 1 \/ (i - 1 \in 1 .. Len(e) /\ i = (i - 1) + 1)
  BY <1>1
<1>4. \A i, j \in 1 .. Len(e) : i + 1 = j + 1 => i = j
  BY <1>1
<1>. HIDE DEF e
<1>5. Distinct(e)
  BY Zenon, <1>2, <1>4 DEF Distinct
<1>6. In(s, Head(s))
  BY Zenon, <1>1, <1>3 DEF In
<1>7. ASSUME NEW k  PROVE In(e, k) <=> In(s, k) /\ k # Head(s)
  <2>1. ASSUME In(e, k)  PROVE In(s, k) /\ k # Head(s)
    <3>1. PICK i \in 1 .. Len(e) : e[i] = k
      BY Zenon, <2>1 DEF In
    <3>2. i + 1 \in 1 .. Len(s) /\ i + 1 # 1 /\ s[i + 1] = k
      BY Zenon, <1>2, <3>1
    <3>3. k # s[1]
      BY Zenon, <1>3, <3>2 DEF Distinct
    <3>. QED  BY Zenon, <1>1, <3>2, <3>3 DEF In
  <2>2. ASSUME In(s, k), k # Head(s)  PROVE In(e, k)
    <3>1. PICK i \in 1 .. Len(s) : s[i] = k
      BY Zenon, <2>2 DEF In
    <3>2. i - 1 \in 1 .. Len(e) /\ i = (i - 1) + 1
      BY Zenon, <1>1, <1>3, <2>2, <3>1
    <3>3. e[i - 1] = k
      BY Zenon, <1>2, <3>1, <3>2
    <3>. QED  BY Zenon, <3>2, <3>3 DEF In
  <2>. QED  BY Zenon, <2>1, <2>2
<1>. QED  BY Zenon, <1>1, <1>5, <1>6, <1>7 DEF e

-----------------------------------------------------------------------------
(***************************************************************************)
(* The inductive invariant.  Threads: which thread is where, by the locks: *)
(* at most one receiving thread is not idle, the owner of rx_lock.         *)
(***************************************************************************)
RxPc == {"rx", "forward", "save", "send", "put"}
ProcessPc == {"idle", "transmit", "lock", "proc", "proc_tx", "send_reply", "release"}

Types ==
    /\ refcnt \in [Msg -> Nat] /\ q \in Seq(Msg) /\ Distinct(q)
    /\ pc = [t \in Thread |-> pc[t]] /\ msg = [t \in Thread |-> msg[t]]
    /\ rx_lock \in Receiver \cup {Process, NULL}
    /\ tx_lock \in Sender \cup {Process, NULL}

Receivers ==
    /\ \A t \in Receiver : rx_lock # t => pc[t] = "idle" /\ msg[t] = NULL
    /\ rx_lock \in Receiver =>
          /\ pc[rx_lock] \in RxPc
          /\ pc[rx_lock] = "rx" => msg[rx_lock] = NULL
          /\ pc[rx_lock] # "rx" => msg[rx_lock] \in Msg

Senders ==
    /\ \A t \in Sender : tx_lock # t => pc[t] = "idle" /\ msg[t] = NULL
    /\ tx_lock \in Sender => pc[tx_lock] = "send_tx" /\ msg[tx_lock] \in Msg

Processing ==
    /\ pc[Process] \in ProcessPc
    /\ rx_lock = Process <=> pc[Process] \in {"proc", "proc_tx", "send_reply"}
    /\ tx_lock = Process <=> pc[Process] = "send_reply"
    /\ pc[Process] = "idle" => msg[Process] = NULL
    /\ pc[Process] # "idle" => msg[Process] \in Msg
    /\ pc[Process] = "send_reply" => reply \in Msg
    /\ pc[Process] # "send_reply" => reply = NULL

(***************************************************************************)
(* Counts: a message has at most one holder on its way to being sent or    *)
(* processed, and the receiving thread may be another.                     *)
(***************************************************************************)
RxMsg == IF rx_lock \in Receiver THEN msg[rx_lock] ELSE NULL
RxAt == IF rx_lock \in Receiver THEN pc[rx_lock] ELSE "idle"
TxMsg == IF tx_lock \in Sender THEN msg[tx_lock] ELSE NULL

One(b) == IF b THEN 1 ELSE 0

Side(m, queued, processed, replied, sent, sending) ==
    One(queued) + One(processed = m) + One(replied = m) + One(sent = m) + One(sending)

Shared(m, queued, at, processed, step, replied, sent, isTx) ==
    /\ replied # m /\ sent # m
    /\ processed = m => step = "lock"
    /\ at \in {"forward", "save"} => ~queued /\ processed # m
    /\ queued \/ at = "send" => ~isTx

CountOK(m, n, queued, rx, at, processed, step, replied, sent, isTx) ==
    LET side == Side(m, queued, processed, replied, sent, rx = m /\ at = "send")
    IN  /\ n = side + One(rx = m) /\ side <= 1
        /\ rx = m => Shared(m, queued, at, processed, step, replied, sent, isTx)

MsgOK(m) == CountOK(m, refcnt[m], In(q, m), RxMsg, RxAt, msg[Process], pc[Process],
                    reply, TxMsg, m \in tx)

Inv ==
    /\ Types /\ Receivers /\ Senders /\ Processing
    /\ \A m \in Msg : MsgOK(m)

LEMMA InitInv == Init => Inv
<1>. SUFFICES ASSUME Init  PROVE Inv
  OBVIOUS
<1>1. Types
  BY MsgQueueAssumption DEF Init, Types, Distinct
<1>2. Receivers /\ Senders
  BY MsgQueueAssumption DEF Init, Receivers, Senders, Thread
<1>3. Processing
  BY MsgQueueAssumption DEF Init, Processing, ProcessPc, Thread
<1>4. ASSUME NEW m \in Msg  PROVE MsgOK(m)
  <2>1. /\ refcnt[m] = 0 /\ ~In(q, m) /\ RxMsg = NULL /\ msg[Process] = NULL
        /\ reply = NULL /\ TxMsg = NULL /\ m # NULL
    BY MsgQueueAssumption DEF Init, In, RxMsg, TxMsg, Thread
  <2>. QED  BY <2>1 DEF MsgOK, CountOK, Side, One
<1>. QED  BY Zenon, <1>1, <1>2, <1>3, <1>4 DEF Inv

-----------------------------------------------------------------------------
(***************************************************************************)
(* What the step of one thread does to what the counts depend on.          *)
(***************************************************************************)
LEMMA OneThread ==
    ASSUME NEW f, f = [u \in Thread |-> f[u]], NEW t \in Thread, NEW x
    PROVE  /\ [f EXCEPT ![t] = x] = [u \in Thread |-> [f EXCEPT ![t] = x][u]]
           /\ [f EXCEPT ![t] = x][t] = x
           /\ \A u \in Thread : u # t => [f EXCEPT ![t] = x][u] = f[u]
<1>. DEFINE g == [f EXCEPT ![t] = x]
<1>1. g = [u \in Thread |-> IF u = t THEN x ELSE f[u]]
  OBVIOUS
<1>. QED  BY <1>1

LEMMA Kinds ==
    /\ Process \in Thread /\ \A t \in Receiver \cup Sender : t \in Thread
    /\ \A t \in Receiver : t # Process /\ t \notin Sender /\ t # NULL
    /\ \A t \in Sender : t # Process /\ t \notin Receiver /\ t # NULL
    /\ NULL \notin Receiver /\ NULL \notin Sender /\ Process # NULL
    /\ Process \notin Receiver /\ Process \notin Sender
    /\ \A m \in Msg : m # NULL
BY MsgQueueAssumption DEF Thread

\* The locks after the step of a receiving thread.
RxLocks(t, step, x) ==
    \/ rx_lock' = t /\ step \in RxPc /\ (step = "rx" => x = NULL) /\ (step # "rx" => x \in Msg)
    \/ rx_lock' = NULL /\ step = "idle" /\ x = NULL

LEMMA ReceiverStep ==
    ASSUME Inv, NEW t \in Receiver, rx_lock \in {t, NULL}, NEW step, NEW x,
           pc' = [pc EXCEPT ![t] = step], msg' = [msg EXCEPT ![t] = x],
           UNCHANGED <<tx_lock, reply>>, RxLocks(t, step, x),
           refcnt' \in [Msg -> Nat], q' \in Seq(Msg), Distinct(q')
    PROVE  /\ Types' /\ Receivers' /\ Senders' /\ Processing'
           /\ RxMsg' = x /\ RxAt' = step /\ TxMsg' = TxMsg
           /\ msg'[Process] = msg[Process] /\ pc'[Process] = pc[Process]
<1>1. /\ Types /\ Receivers /\ Senders /\ Processing
      /\ pc = [u \in Thread |-> pc[u]] /\ msg = [u \in Thread |-> msg[u]]
  BY Zenon DEF Inv, Types
<1>2. /\ pc' = [u \in Thread |-> pc'[u]] /\ msg' = [u \in Thread |-> msg'[u]]
      /\ pc'[t] = step /\ msg'[t] = x
      /\ \A u \in Thread : u # t => pc'[u] = pc[u] /\ msg'[u] = msg[u]
  BY Zenon, <1>1, Kinds, OneThread
<1>3. msg'[Process] = msg[Process] /\ pc'[Process] = pc[Process]
  BY Zenon, <1>2, Kinds
<1>4. rx_lock' \in {t, NULL} /\ rx_lock' # Process /\ rx_lock # Process
  BY Zenon, Kinds DEF RxLocks
<1>5. Types'
  BY Zenon, <1>1, <1>2, <1>4 DEF Types
<1>6. Senders' /\ TxMsg' = TxMsg
  BY Zenon, <1>1, <1>2, Kinds DEF Senders, TxMsg
<1>7. Processing'
  BY Zenon, <1>1, <1>3, <1>4 DEF Processing
<1>8. \A u \in Receiver : rx_lock' # u => pc'[u] = "idle" /\ msg'[u] = NULL
  BY ZenonT(30), <1>1, <1>2, Kinds DEF Receivers, RxLocks
<1>9. rx_lock' \in Receiver => rx_lock' = t /\ step \in RxPc /\
         (step = "rx" => x = NULL) /\ (step # "rx" => x \in Msg)
  BY Zenon, Kinds DEF RxLocks
<1>10. Receivers'
  BY Zenon, <1>2, <1>8, <1>9 DEF Receivers
<1>11. RxMsg' = x /\ RxAt' = step
  BY Zenon, <1>2, Kinds DEF RxMsg, RxAt, RxLocks
<1>. QED  BY Zenon, <1>3, <1>5, <1>6, <1>7, <1>10, <1>11

LEMMA SenderStep ==
    ASSUME Inv, NEW t \in Sender, tx_lock \in {t, NULL}, NEW step, NEW x,
           pc' = [pc EXCEPT ![t] = step], msg' = [msg EXCEPT ![t] = x],
           UNCHANGED <<rx_lock, reply>>,
           \/ tx_lock' = t /\ step = "send_tx" /\ x \in Msg
           \/ tx_lock' = NULL /\ step = "idle" /\ x = NULL,
           refcnt' \in [Msg -> Nat], q' \in Seq(Msg), Distinct(q')
    PROVE  /\ Types' /\ Receivers' /\ Senders' /\ Processing'
           /\ RxMsg' = RxMsg /\ RxAt' = RxAt /\ TxMsg' = x
           /\ msg'[Process] = msg[Process] /\ pc'[Process] = pc[Process]
<1>1. /\ Types /\ Receivers /\ Senders /\ Processing
      /\ pc = [u \in Thread |-> pc[u]] /\ msg = [u \in Thread |-> msg[u]]
  BY Zenon DEF Inv, Types
<1>2. /\ pc' = [u \in Thread |-> pc'[u]] /\ msg' = [u \in Thread |-> msg'[u]]
      /\ pc'[t] = step /\ msg'[t] = x
      /\ \A u \in Thread : u # t => pc'[u] = pc[u] /\ msg'[u] = msg[u]
  BY Zenon, <1>1, Kinds, OneThread
<1>3. msg'[Process] = msg[Process] /\ pc'[Process] = pc[Process]
  BY Zenon, <1>2, Kinds
<1>4. tx_lock' \in {t, NULL} /\ tx_lock' # Process /\ tx_lock # Process
  BY Zenon, Kinds
<1>5. Types'
  BY Zenon, <1>1, <1>2, <1>4 DEF Types
<1>6. Receivers' /\ RxMsg' = RxMsg /\ RxAt' = RxAt
  BY Zenon, <1>1, <1>2, Kinds DEF Receivers, RxMsg, RxAt
<1>7. Processing'
  BY Zenon, <1>1, <1>3, <1>4 DEF Processing
<1>8. \A u \in Sender : tx_lock' # u => pc'[u] = "idle" /\ msg'[u] = NULL
  BY Zenon, <1>1, <1>2, Kinds DEF Senders
<1>9. tx_lock' \in Sender => tx_lock' = t /\ step = "send_tx" /\ x \in Msg
  BY Zenon, Kinds
<1>10. Senders'
  BY Zenon, <1>2, <1>8, <1>9 DEF Senders
<1>11. TxMsg' = x
  BY Zenon, <1>2, Kinds DEF TxMsg
<1>. QED  BY Zenon, <1>3, <1>5, <1>6, <1>7, <1>10, <1>11

Locked == {"proc", "proc_tx", "send_reply"}

ProcessLocks(step) ==
    /\ \/ rx_lock' = rx_lock /\ rx_lock # Process /\ step \notin Locked
       \/ rx_lock' = Process /\ rx_lock \in {Process, NULL} /\ step \in Locked
       \/ rx_lock' = NULL /\ rx_lock = Process /\ step \notin Locked
    /\ \/ tx_lock' = tx_lock /\ tx_lock # Process /\ step # "send_reply"
       \/ tx_lock' = Process /\ tx_lock = NULL /\ step = "send_reply"
       \/ tx_lock' = NULL /\ tx_lock = Process /\ step # "send_reply"

LEMMA ProcessMoves ==
    ASSUME Inv, NEW step \in ProcessPc, NEW x,
           pc' = [pc EXCEPT ![Process] = step], msg' = [msg EXCEPT ![Process] = x],
           ProcessLocks(step),
           step = "idle" => x = NULL, step # "idle" => x \in Msg,
           step = "send_reply" => reply' \in Msg, step # "send_reply" => reply' = NULL,
           refcnt' \in [Msg -> Nat], q' \in Seq(Msg), Distinct(q')
    PROVE  /\ Types' /\ Receivers' /\ Senders' /\ Processing'
           /\ RxMsg' = RxMsg /\ RxAt' = RxAt /\ TxMsg' = TxMsg
           /\ msg'[Process] = x /\ pc'[Process] = step
<1>1. /\ Types /\ Receivers /\ Senders
      /\ pc = [u \in Thread |-> pc[u]] /\ msg = [u \in Thread |-> msg[u]]
  BY Zenon DEF Inv, Types
<1>2. /\ pc' = [u \in Thread |-> pc'[u]] /\ msg' = [u \in Thread |-> msg'[u]]
      /\ pc'[Process] = step /\ msg'[Process] = x
      /\ \A u \in Thread : u # Process => pc'[u] = pc[u] /\ msg'[u] = msg[u]
  BY Zenon, <1>1, Kinds, OneThread
<1>3. \A u \in Receiver \cup Sender : pc'[u] = pc[u] /\ msg'[u] = msg[u]
  BY Zenon, <1>2, Kinds
<1>4. \/ rx_lock' = rx_lock
      \/ rx_lock \in {Process, NULL} /\ rx_lock' \in {Process, NULL}
  BY Zenon DEF ProcessLocks
<1>5. \/ tx_lock' = tx_lock
      \/ tx_lock \in {Process, NULL} /\ tx_lock' \in {Process, NULL}
  BY Zenon DEF ProcessLocks
<1>6. Types'
  BY Zenon, <1>1, <1>2, <1>4, <1>5 DEF Types
<1>7. \A u \in Receiver : rx_lock' = u <=> rx_lock = u
  BY Zenon, <1>4, Kinds
<1>8. \A u \in Sender : tx_lock' = u <=> tx_lock = u
  BY Zenon, <1>5, Kinds
<1>9. Receivers' /\ RxMsg' = RxMsg /\ RxAt' = RxAt
  BY Zenon, <1>1, <1>3, <1>4, <1>7, Kinds DEF Receivers, RxMsg, RxAt
<1>10. Senders' /\ TxMsg' = TxMsg
  BY Zenon, <1>1, <1>3, <1>5, <1>8, Kinds DEF Senders, TxMsg
<1>11. rx_lock' = Process <=> step \in Locked
  BY Zenon, Kinds DEF ProcessLocks
<1>12. tx_lock' = Process <=> step = "send_reply"
  BY Zenon, Kinds DEF ProcessLocks
<1>13. Processing'
  BY Zenon, <1>2, <1>11, <1>12 DEF Processing, Locked
<1>. QED  BY Zenon, <1>2, <1>6, <1>9, <1>10, <1>13

-----------------------------------------------------------------------------
(***************************************************************************)
(* The receiving thread.                                                   *)
(***************************************************************************)
LEMMA HasRxLock ==
    ASSUME Inv, NEW t \in Receiver, pc[t] # "idle"
    PROVE  /\ rx_lock = t /\ RxMsg = msg[t] /\ RxAt = pc[t] /\ pc[t] \in RxPc
           /\ pc[t] = "rx" => msg[t] = NULL
           /\ pc[t] # "rx" => msg[t] \in Msg
BY Zenon DEF Inv, Receivers, RxMsg, RxAt

LEMMA Counts ==
    ASSUME Inv
    PROVE  /\ refcnt \in [Msg -> Nat] /\ q \in Seq(Msg) /\ Distinct(q)
           /\ pc = [t \in Thread |-> pc[t]] /\ msg = [t \in Thread |-> msg[t]]
           /\ \A m \in Msg : MsgOK(m) /\ refcnt[m] \in Nat
BY DEF Inv, Types

LEMMA Unfold ==
    ASSUME NEW m, NEW n, NEW queued, NEW rx, NEW at, NEW p, NEW step, NEW r, NEW s, NEW isTx
    PROVE  CountOK(m, n, queued, rx, at, p, step, r, s, isTx) <=>
             /\ n = One(queued) + One(p = m) + One(r = m) + One(s = m)
                      + One(rx = m /\ at = "send") + One(rx = m)
             /\ One(queued) + One(p = m) + One(r = m) + One(s = m)
                      + One(rx = m /\ at = "send") <= 1
             /\ rx = m => Shared(m, queued, at, p, step, r, s, isTx)
BY DEF CountOK, Side

\* ... for a message that no receiving thread handles.
LEMMA Elsewhere ==
    ASSUME NEW m, NEW n, NEW queued, NEW rx, NEW at, NEW p, NEW step, NEW r, NEW s, NEW isTx,
           rx # m
    PROVE  CountOK(m, n, queued, rx, at, p, step, r, s, isTx) <=>
             /\ n = One(queued) + One(p = m) + One(r = m) + One(s = m)
             /\ One(queued) + One(p = m) + One(r = m) + One(s = m) <= 1
BY Unfold DEF One

\* A step of receiving thread t that changes neither queue nor counts.
Moves(t, step) ==
    /\ rx_lock \in {t, NULL}
    /\ pc' = [pc EXCEPT ![t] = step] /\ UNCHANGED <<refcnt, tx, q, tx_lock, msg, reply>>
Forwards(step) == RxMsg # NULL => RxAt = "forward" /\ step \in {"save", "put"}

LEMMA RxQuiet ==
    ASSUME Inv, NEW t \in Receiver, NEW step, NEW x,
           Moves(t, step), RxLocks(t, step, x), RxMsg = x, msg[t] = x, Forwards(step)
    PROVE  Inv'
<1>1. /\ refcnt' \in [Msg -> Nat] /\ q' \in Seq(Msg) /\ Distinct(q')
      /\ msg = [u \in Thread |-> msg[u]] /\ \A m \in Msg : MsgOK(m) /\ refcnt[m] \in Nat
  BY Zenon, Counts DEF Moves
<1>2. msg' = [msg EXCEPT ![t] = x]
  BY <1>1 DEF Moves
<1>3. /\ Types' /\ Receivers' /\ Senders' /\ Processing'
      /\ RxMsg' = RxMsg /\ RxAt' = step /\ TxMsg' = TxMsg
      /\ msg'[Process] = msg[Process] /\ pc'[Process] = pc[Process]
  BY Zenon, <1>1, <1>2, ReceiverStep DEF Moves
<1>4. ASSUME NEW m \in Msg  PROVE MsgOK(m)'
  <2>1. CountOK(m, refcnt[m], In(q, m), RxMsg, RxAt, msg[Process], pc[Process],
                reply, TxMsg, m \in tx)
    BY Zenon, <1>1 DEF MsgOK
  <2>2. CountOK(m, refcnt[m], In(q, m), RxMsg, step, msg[Process], pc[Process],
                reply, TxMsg, m \in tx)
    <3>1. CASE RxMsg = m
      <4>1. RxAt = "forward" /\ step \in {"save", "put"}
        BY Zenon, <3>1, Kinds DEF Forwards
      <4>. QED  BY <2>1, <3>1, <4>1, Unfold DEF Shared, One
    <3>2. CASE RxMsg # m
      BY <2>1, <3>2, Unfold DEF One
    <3>. QED  BY Zenon, <3>1, <3>2
  <2>. QED  BY Zenon, <1>3, <2>2 DEF MsgOK, In, Moves
<1>. QED  BY Zenon, <1>3, <1>4 DEF Inv

LEMMA RxQuietInv ==
    ASSUME Inv, NEW t \in Receiver, RxLock(t) \/ RxIgnore(t) \/ Forward(t)
    PROVE  Inv'
<1>1. CASE RxLock(t)
  <2>1. rx_lock = NULL /\ rx_lock' = t /\ Moves(t, "rx")
    BY Zenon, <1>1 DEF RxLock, Goto, Moves
  <2>2. RxMsg = NULL /\ msg[t] = NULL /\ Forwards("rx")
    BY Zenon, <2>1, Kinds DEF Inv, Receivers, RxMsg, Forwards
  <2>3. RxLocks(t, "rx", NULL)
    BY <2>1 DEF RxLocks, RxPc
  <2>. QED  BY Zenon, <2>1, <2>2, <2>3, RxQuiet
<1>2. CASE RxIgnore(t)
  <2>1. pc[t] = "rx" /\ pc[t] # "idle" /\ rx_lock' = NULL
    BY <1>2 DEF RxIgnore
  <2>2. RxMsg = NULL /\ msg[t] = NULL /\ rx_lock = t
    BY <2>1, HasRxLock
  <2>3. RxLocks(t, "idle", NULL) /\ Moves(t, "idle")
    BY Zenon, <1>2, <2>1, <2>2 DEF RxLocks, RxIgnore, Goto, Moves
  <2>4. Forwards("idle")
    BY Zenon, <2>2 DEF Forwards
  <2>. QED  BY Zenon, <2>2, <2>3, <2>4, RxQuiet
<1>3. CASE Forward(t)
  <2>1. pc[t] = "forward" /\ pc[t] # "idle" /\ pc[t] # "rx" /\ rx_lock' = rx_lock
    BY <1>3 DEF Forward
  <2>2. msg[t] \in Msg /\ RxMsg = msg[t] /\ rx_lock = t /\ RxAt = "forward"
    BY Zenon, <2>1, HasRxLock
  <2>3. PICK step \in {"save", "put"} : Moves(t, step)
    BY Zenon, <1>3, <2>2 DEF Forward, Goto, Moves
  <2>4. PICK x \in Msg : RxMsg = x /\ msg[t] = x
    BY Zenon, <2>2
  <2>5. RxLocks(t, step, x)
    BY <2>1, <2>2, <2>3, <2>4 DEF RxLocks, RxPc
  <2>6. Forwards(step)
    BY Zenon, <2>2, <2>3 DEF Forwards
  <2>. QED  BY Zenon, <2>3, <2>4, <2>5, <2>6, RxQuiet
<1>. QED  BY Zenon, <1>1, <1>2, <1>3

\* What is left to show once the threads are known to be where they should.
LEMMA Counted ==
    ASSUME Types', Receivers', Senders', Processing',
           \A m \in Msg : CountOK(m, refcnt'[m], In(q', m), RxMsg', RxAt', msg'[Process],
                                  pc'[Process], reply', TxMsg', m \in tx')
    PROVE  Inv'
BY Zenon DEF Inv, MsgOK, In

LEMMA Counting ==
    ASSUME Inv, NEW m \in Msg
    PROVE  CountOK(m, refcnt[m], In(q, m), RxMsg, RxAt, msg[Process],
                   pc[Process], reply, TxMsg, m \in tx)
BY Zenon DEF Inv, MsgOK, In

LEMMA RxHandleInv ==
    ASSUME Inv, NEW t \in Receiver, NEW x \in Msg, RxHandle(t, x)
    PROVE  Inv'
<1>1. PICK step \in {"forward", "save", "put"} : pc' = [pc EXCEPT ![t] = step]
  BY Zenon DEF RxHandle, Goto
<1>2. /\ pc[t] = "rx" /\ pc[t] # "idle" /\ refcnt[x] = 0 /\ refcnt' = [refcnt EXCEPT ![x] = 1]
      /\ msg' = [msg EXCEPT ![t] = x] /\ UNCHANGED <<tx, q, rx_lock, tx_lock, reply>>
  BY DEF RxHandle, Free
<1>9. rx_lock = t /\ RxMsg = NULL
  BY <1>2, HasRxLock
<1>3. /\ rx_lock \in {t, NULL}
      /\ refcnt \in [Msg -> Nat] /\ q' \in Seq(Msg) /\ Distinct(q')
  BY Zenon, <1>2, <1>9, Counts
<1>4. RxLocks(t, step, x)
  BY <1>1, <1>2, <1>9 DEF RxLocks, RxPc
<1>5. refcnt' \in [Msg -> Nat] /\ refcnt'[x] = 1 /\ \A k \in Msg : k # x => refcnt'[k] = refcnt[k]
  BY <1>2, <1>3
<1>6. /\ Types' /\ Receivers' /\ Senders' /\ Processing'
      /\ RxMsg' = x /\ RxAt' = step /\ TxMsg' = TxMsg
      /\ msg'[Process] = msg[Process] /\ pc'[Process] = pc[Process]
  BY Zenon, <1>1, <1>2, <1>3, <1>4, <1>5, ReceiverStep
<1>7. ASSUME NEW k \in Msg
      PROVE  CountOK(k, refcnt'[k], In(q, k), x, step, msg[Process], pc[Process],
                     reply, TxMsg, k \in tx)
  <2>1. CountOK(k, refcnt[k], In(q, k), NULL, RxAt, msg[Process], pc[Process],
                reply, TxMsg, k \in tx)
    BY Zenon, <1>9, Counting
  <2>2. CASE k = x
    BY <1>1, <1>2, <1>5, <2>1, <2>2, Unfold DEF Shared, One
  <2>3. CASE k # x
    BY <1>5, <2>1, <2>3, Unfold, Kinds DEF One
  <2>. QED  BY Zenon, <2>2, <2>3
<1>. QED  BY Zenon, <1>2, <1>6, <1>7, Counted

LEMMA SaveInv ==
    ASSUME Inv, NEW t \in Receiver, ptp_save_rx_msg(t)
    PROVE  Inv'
<1>1. /\ pc[t] = "save" /\ pc[t] # "idle" /\ pc[t] # "rx"
      /\ refcnt' = [refcnt EXCEPT ![msg[t]] = refcnt[msg[t]] + 1]
      /\ tx' = tx \ {msg[t]} /\ pc' = [pc EXCEPT ![t] = "send"]
      /\ UNCHANGED <<q, rx_lock, tx_lock, msg, reply>>
  BY DEF ptp_save_rx_msg, msg_get, Goto
<1>2. PICK x \in Msg : msg[t] = x
  BY Zenon, <1>1, HasRxLock
<1>9. rx_lock = t /\ RxMsg = x /\ RxAt = "save"
  BY <1>1, <1>2, HasRxLock
<1>3. /\ rx_lock \in {t, NULL}
      /\ refcnt \in [Msg -> Nat] /\ q' \in Seq(Msg) /\ Distinct(q')
      /\ msg = [u \in Thread |-> msg[u]]
  BY Zenon, <1>1, <1>9, Counts
<1>4. RxLocks(t, "send", x)
  BY <1>1, <1>2, <1>9 DEF RxLocks, RxPc
<1>5. /\ refcnt' \in [Msg -> Nat] /\ refcnt'[x] = refcnt[x] + 1
      /\ \A k \in Msg : refcnt[k] \in Nat /\ (k # x => refcnt'[k] = refcnt[k])
  BY <1>1, <1>2, <1>3
<1>6. msg' = [msg EXCEPT ![t] = x]
  BY <1>1, <1>2, <1>3
<1>7. /\ Types' /\ Receivers' /\ Senders' /\ Processing'
      /\ RxMsg' = x /\ RxAt' = "send" /\ TxMsg' = TxMsg
      /\ msg'[Process] = msg[Process] /\ pc'[Process] = pc[Process]
  BY Zenon, <1>1, <1>3, <1>4, <1>5, <1>6, ReceiverStep
<1>8. ASSUME NEW k \in Msg
      PROVE  CountOK(k, refcnt'[k], In(q, k), x, "send", msg[Process], pc[Process],
                     reply, TxMsg, k \in tx')
  <2>1. CountOK(k, refcnt[k], In(q, k), x, "save", msg[Process], pc[Process],
                reply, TxMsg, k \in tx)
    BY Zenon, <1>9, Counting
  <2>2. CASE k = x
    <3>1. k \notin tx'
      BY <1>1, <1>2, <2>2
    <3>2. Shared(k, In(q, k), "save", msg[Process], pc[Process], reply, TxMsg, k \in tx)
      BY Zenon, <2>1, <2>2, Unfold
    <3>3. Shared(k, In(q, k), "send", msg[Process], pc[Process], reply, TxMsg, k \in tx')
      BY <3>1, <3>2 DEF Shared
    <3>4. reply # k /\ TxMsg # k /\ ~In(q, k) /\ msg[Process] # k
      BY Zenon, <3>2 DEF Shared
    <3>5. refcnt[k] = 1
      BY <2>1, <2>2, <3>4, Unfold DEF One
    <3>6. refcnt'[k] = 2
      BY <1>5, <2>2, <3>5
    <3>. QED  BY <2>2, <3>3, <3>4, <3>6, Unfold DEF One
  <2>3. CASE k # x
    BY <1>1, <1>5, <2>1, <2>3, Unfold DEF One
  <2>. QED  BY Zenon, <2>2, <2>3
<1>. QED  BY Zenon, <1>1, <1>7, <1>8, Counted

LEMMA SendInv ==
    ASSUME Inv, NEW t \in Receiver, RxSend(t)
    PROVE  Inv'
<1>1. /\ pc[t] = "send" /\ pc[t] # "idle" /\ pc[t] # "rx"
      /\ q' = Append(q, msg[t]) /\ pc' = [pc EXCEPT ![t] = "put"]
      /\ UNCHANGED <<refcnt, tx, rx_lock, tx_lock, msg, reply>>
  BY DEF RxSend, queue_send, Goto
<1>2. PICK x \in Msg : msg[t] = x
  BY Zenon, <1>1, HasRxLock
<1>3. rx_lock = t /\ RxMsg = x /\ RxAt = "send"
  BY <1>1, <1>2, HasRxLock
<1>4. /\ rx_lock \in {t, NULL} /\ refcnt' \in [Msg -> Nat] /\ q \in Seq(Msg) /\ Distinct(q)
      /\ msg = [u \in Thread |-> msg[u]] /\ \A k \in Msg : refcnt[k] \in Nat
  BY Zenon, <1>1, <1>3, Counts
<1>5. /\ refcnt[x] = 2 /\ ~In(q, x) /\ msg[Process] # x /\ reply # x /\ TxMsg # x
      /\ Shared(x, In(q, x), "send", msg[Process], pc[Process], reply, TxMsg, x \in tx)
  <2>1. CountOK(x, refcnt[x], In(q, x), x, "send", msg[Process], pc[Process],
                reply, TxMsg, x \in tx)
    BY Zenon, <1>3, Counting
  <2>. QED  BY <1>4, <2>1, Unfold DEF One
<1>6. x \notin tx
  BY <1>5 DEF Shared
<1>7. q' \in Seq(Msg) /\ Distinct(q') /\ \A k : In(q', k) <=> In(q, k) \/ k = x
  <2>1. /\ Append(q, x) \in Seq(Msg) /\ Distinct(Append(q, x))
        /\ \A k : In(Append(q, x), k) <=> In(q, k) \/ k = x
    BY Zenon, <1>4, <1>5, AppendIs
  <2>2. q' = Append(q, x)
    BY Zenon, <1>1, <1>2
  <2>. QED  BY Zenon, <2>1, <2>2
<1>8. RxLocks(t, "put", x)
  BY <1>1, <1>3 DEF RxLocks, RxPc
<1>9. msg' = [msg EXCEPT ![t] = x]
  BY <1>1, <1>2, <1>4
<1>10. /\ Types' /\ Receivers' /\ Senders' /\ Processing'
       /\ RxMsg' = x /\ RxAt' = "put" /\ TxMsg' = TxMsg
       /\ msg'[Process] = msg[Process] /\ pc'[Process] = pc[Process]
  BY Zenon, <1>1, <1>4, <1>7, <1>8, <1>9, ReceiverStep
<1>11. ASSUME NEW k \in Msg
       PROVE  CountOK(k, refcnt[k], In(q', k), x, "put", msg[Process], pc[Process],
                      reply, TxMsg, k \in tx)
  <2>1. CASE k = x
    <3>1. In(q', k)
      BY Zenon, <1>7, <2>1
    <3>2. Shared(k, In(q', k), "put", msg[Process], pc[Process], reply, TxMsg, k \in tx)
      BY <1>5, <1>6, <2>1, <3>1 DEF Shared
    <3>3. refcnt[k] = 2 /\ msg[Process] # k /\ reply # k /\ TxMsg # k
      BY <1>5, <2>1
    <3>4. /\ One(In(q', k)) = 1 /\ One(msg[Process] = k) = 0 /\ One(reply = k) = 0
          /\ One(TxMsg = k) = 0 /\ One(x = k /\ "put" = "send") = 0 /\ One(x = k) = 1
      BY <2>1, <3>1, <3>3 DEF One
    <3>. QED  BY <3>2, <3>3, <3>4, Unfold
  <2>2. CASE k # x
    <3>1. CountOK(k, refcnt[k], In(q, k), x, "send", msg[Process], pc[Process],
                  reply, TxMsg, k \in tx)
      BY Zenon, <1>3, Counting
    <3>2. One(In(q', k)) = One(In(q, k))
      BY <1>7, <2>2 DEF One
    <3>3. x # k
      BY <2>2
    <3>4. /\ refcnt[k] = One(In(q, k)) + One(msg[Process] = k) + One(reply = k) + One(TxMsg = k)
          /\ One(In(q, k)) + One(msg[Process] = k) + One(reply = k) + One(TxMsg = k) <= 1
      BY <3>1, <3>3, Elsewhere
    <3>5. /\ refcnt[k] = One(In(q', k)) + One(msg[Process] = k) + One(reply = k) + One(TxMsg = k)
          /\ One(In(q', k)) + One(msg[Process] = k) + One(reply = k) + One(TxMsg = k) <= 1
      BY Zenon, <3>2, <3>4
    <3>. QED  BY <3>3, <3>5, Elsewhere
  <2>. QED  BY Zenon, <2>1, <2>2
<1>. QED  BY Zenon, <1>1, <1>10, <1>11, Counted

LEMMA PutInv ==
    ASSUME Inv, NEW t \in Receiver, RxPut(t)
    PROVE  Inv'
<1>1. /\ pc[t] = "put" /\ pc[t] # "idle" /\ pc[t] # "rx"
      /\ refcnt' = [refcnt EXCEPT ![msg[t]] = refcnt[msg[t]] - 1]
      /\ pc' = [pc EXCEPT ![t] = "idle"] /\ msg' = [msg EXCEPT ![t] = NULL]
      /\ rx_lock' = NULL /\ UNCHANGED <<tx, q, tx_lock, reply>>
  BY DEF RxPut, msg_put, Goto
<1>2. PICK x \in Msg : msg[t] = x
  BY Zenon, <1>1, HasRxLock
<1>3. rx_lock = t /\ RxMsg = x /\ RxAt = "put"
  BY <1>1, <1>2, HasRxLock
<1>4. /\ rx_lock \in {t, NULL} /\ refcnt \in [Msg -> Nat] /\ q' \in Seq(Msg) /\ Distinct(q')
  BY Zenon, <1>1, <1>3, Counts
<1>5. ASSUME NEW k \in Msg
      PROVE  CountOK(k, refcnt[k], In(q, k), x, "put", msg[Process], pc[Process],
                     reply, TxMsg, k \in tx)
  BY Zenon, <1>3, Counting
<1>6. refcnt[x] > 0
  BY <1>5, Unfold DEF One
<1>7. /\ refcnt' \in [Msg -> Nat] /\ refcnt'[x] = refcnt[x] - 1
      /\ \A k \in Msg : refcnt[k] \in Nat /\ (k # x => refcnt'[k] = refcnt[k])
  BY <1>1, <1>2, <1>4, <1>6
<1>8. RxLocks(t, "idle", NULL)
  BY <1>1 DEF RxLocks
<1>9. /\ Types' /\ Receivers' /\ Senders' /\ Processing'
      /\ RxMsg' = NULL /\ RxAt' = "idle" /\ TxMsg' = TxMsg
      /\ msg'[Process] = msg[Process] /\ pc'[Process] = pc[Process]
  BY Zenon, <1>1, <1>4, <1>7, <1>8, ReceiverStep
<1>10. ASSUME NEW k \in Msg
       PROVE  CountOK(k, refcnt'[k], In(q, k), NULL, "idle", msg[Process], pc[Process],
                      reply, TxMsg, k \in tx)
  <2>1. k # NULL
    BY Zenon, Kinds
  <2>2. CASE k = x
    BY <1>5, <1>7, <2>1, <2>2, Unfold DEF One
  <2>3. CASE k # x
    BY <1>5, <1>7, <2>1, <2>3, Unfold DEF One
  <2>. QED  BY Zenon, <2>2, <2>3
<1>. QED  BY Zenon, <1>1, <1>9, <1>10, Counted

-----------------------------------------------------------------------------
(***************************************************************************)
(* The sending threads.                                                    *)
(***************************************************************************)
LEMMA HasTxLock ==
    ASSUME Inv, NEW t \in Sender, pc[t] # "idle"
    PROVE  tx_lock = t /\ TxMsg = msg[t] /\ msg[t] \in Msg
BY Zenon DEF Inv, Senders, TxMsg

\* Memory that is not allocated is held by nobody.
LEMMA FreeIsUnused ==
    ASSUME Inv, NEW x \in Msg, refcnt[x] = 0
    PROVE  ~In(q, x) /\ RxMsg # x /\ msg[Process] # x /\ reply # x /\ TxMsg # x
<1>1. CountOK(x, refcnt[x], In(q, x), RxMsg, RxAt, msg[Process], pc[Process],
              reply, TxMsg, x \in tx)
  BY Zenon, Counting
<1>. QED  BY <1>1, Unfold DEF One

LEMMA TxBuildInv ==
    ASSUME Inv, NEW t \in Sender, NEW x \in Msg, TxBuild(t, x)
    PROVE  Inv'
<1>1. /\ tx_lock = NULL /\ tx_lock' = t /\ refcnt[x] = 0
      /\ refcnt' = [refcnt EXCEPT ![x] = 1] /\ tx' = tx \cup {x}
      /\ msg' = [msg EXCEPT ![t] = x] /\ pc' = [pc EXCEPT ![t] = "send_tx"]
      /\ UNCHANGED <<q, rx_lock, reply>>
  BY Zenon DEF TxBuild, Free, Goto
<1>2. /\ tx_lock \in {t, NULL} /\ TxMsg = NULL
      /\ refcnt \in [Msg -> Nat] /\ q' \in Seq(Msg) /\ Distinct(q')
  BY Zenon, <1>1, Counts, Kinds DEF TxMsg
<1>3. refcnt' \in [Msg -> Nat] /\ refcnt'[x] = 1 /\ \A k \in Msg : k # x => refcnt'[k] = refcnt[k]
  BY <1>1, <1>2
<1>4. /\ Types' /\ Receivers' /\ Senders' /\ Processing'
      /\ RxMsg' = RxMsg /\ RxAt' = RxAt /\ TxMsg' = x
      /\ msg'[Process] = msg[Process] /\ pc'[Process] = pc[Process]
  BY Zenon, <1>1, <1>2, <1>3, SenderStep
<1>5. ~In(q, x) /\ RxMsg # x /\ msg[Process] # x /\ reply # x
  BY Zenon, <1>1, FreeIsUnused
<1>6. ASSUME NEW k \in Msg
      PROVE  CountOK(k, refcnt'[k], In(q, k), RxMsg, RxAt, msg[Process], pc[Process],
                     reply, x, k \in tx')
  <2>1. CASE k = x
    <3>1. /\ One(In(q, k)) = 0 /\ One(msg[Process] = k) = 0 /\ One(reply = k) = 0
          /\ One(x = k) = 1 /\ refcnt'[k] = 1 /\ RxMsg # k
      BY <1>3, <1>5, <2>1 DEF One
    <3>. QED  BY <3>1, Elsewhere
  <2>2. CASE k # x
    <3>1. CountOK(k, refcnt[k], In(q, k), RxMsg, RxAt, msg[Process], pc[Process],
                  reply, NULL, k \in tx)
      BY Zenon, <1>2, Counting
    <3>2. (k \in tx') = (k \in tx) /\ refcnt'[k] = refcnt[k]
      BY <1>1, <1>3, <2>2
    <3>3. One(NULL = k) = 0 /\ One(x = k) = 0 /\ NULL # k
      BY <2>2, Kinds DEF One
    <3>4. CountOK(k, refcnt[k], In(q, k), RxMsg, RxAt, msg[Process], pc[Process],
                  reply, x, k \in tx)
      BY <2>2, <3>1, <3>3, Unfold DEF Shared
    <3>. QED  BY Zenon, <3>2, <3>4
  <2>. QED  BY Zenon, <2>1, <2>2
<1>. QED  BY Zenon, <1>1, <1>4, <1>6, Counted

LEMMA SaveTxInv ==
    ASSUME Inv, NEW t \in Sender, ptp_save_tx_msg(t)
    PROVE  Inv'
<1>1. /\ pc[t] = "send_tx" /\ pc[t] # "idle" /\ tx_lock' = NULL
      /\ q' = Append(q, msg[t]) /\ pc' = [pc EXCEPT ![t] = "idle"]
      /\ msg' = [msg EXCEPT ![t] = NULL] /\ UNCHANGED <<refcnt, tx, rx_lock, reply>>
  BY DEF ptp_save_tx_msg, queue_send, Goto
<1>2. PICK x \in Msg : msg[t] = x
  BY Zenon, <1>1, HasTxLock
<1>3. tx_lock = t /\ TxMsg = x
  BY <1>1, <1>2, HasTxLock
<1>4. /\ tx_lock \in {t, NULL} /\ refcnt' \in [Msg -> Nat] /\ q \in Seq(Msg) /\ Distinct(q)
      /\ \A k \in Msg : refcnt[k] \in Nat
  BY Zenon, <1>1, <1>3, Counts
<1>5. ASSUME NEW k \in Msg
      PROVE  CountOK(k, refcnt[k], In(q, k), RxMsg, RxAt, msg[Process], pc[Process],
                     reply, x, k \in tx)
  BY Zenon, <1>3, Counting
<1>6. RxMsg # x
  BY <1>5, Unfold DEF Shared
<1>7. refcnt[x] = 1 /\ ~In(q, x) /\ msg[Process] # x /\ reply # x
  BY <1>5, <1>6, Elsewhere DEF One
<1>8. q' \in Seq(Msg) /\ Distinct(q') /\ \A k : In(q', k) <=> In(q, k) \/ k = x
  <2>1. /\ Append(q, x) \in Seq(Msg) /\ Distinct(Append(q, x))
        /\ \A k : In(Append(q, x), k) <=> In(q, k) \/ k = x
    BY Zenon, <1>4, <1>7, AppendIs
  <2>2. q' = Append(q, x)
    BY Zenon, <1>1, <1>2
  <2>. QED  BY Zenon, <2>1, <2>2
<1>9. /\ Types' /\ Receivers' /\ Senders' /\ Processing'
      /\ RxMsg' = RxMsg /\ RxAt' = RxAt /\ TxMsg' = NULL
      /\ msg'[Process] = msg[Process] /\ pc'[Process] = pc[Process]
  BY Zenon, <1>1, <1>4, <1>8, SenderStep
<1>10. ASSUME NEW k \in Msg
       PROVE  CountOK(k, refcnt[k], In(q', k), RxMsg, RxAt, msg[Process], pc[Process],
                      reply, NULL, k \in tx)
  <2>. k # NULL
    BY Zenon, Kinds
  <2>1. CASE k = x
    <3>1. /\ One(In(q', k)) = 1 /\ One(msg[Process] = k) = 0 /\ One(reply = k) = 0
          /\ One(NULL = k) = 0 /\ refcnt[k] = 1 /\ RxMsg # k
      BY <1>6, <1>7, <1>8, <2>1 DEF One
    <3>. QED  BY <3>1, Elsewhere
  <2>2. CASE k # x
    <3>1. In(q', k) = In(q, k)
      BY <1>8, <2>2 DEF In
    <3>2. One(NULL = k) = 0 /\ One(x = k) = 0
      BY <2>2 DEF One
    <3>3. CountOK(k, refcnt[k], In(q, k), RxMsg, RxAt, msg[Process], pc[Process],
                  reply, NULL, k \in tx)
      BY <1>5, <2>2, <3>2, Unfold DEF Shared
    <3>. QED  BY Zenon, <3>1, <3>3
  <2>. QED  BY Zenon, <2>1, <2>2
<1>. QED  BY Zenon, <1>1, <1>9, <1>10, Counted

-----------------------------------------------------------------------------
(***************************************************************************)
(* ptp_process_task.                                                       *)
(***************************************************************************)
LEMMA ProcessHas ==
    ASSUME Inv, pc[Process] # "idle"
    PROVE  /\ msg[Process] \in Msg
           /\ pc[Process] # "lock" => RxMsg # msg[Process]
           /\ pc[Process] \in Locked <=> rx_lock = Process
           /\ pc[Process] \in Locked => RxMsg = NULL
           /\ pc[Process] # "send_reply" => reply = NULL /\ tx_lock # Process
           /\ pc[Process] = "send_reply" => reply \in Msg /\ tx_lock = Process /\ TxMsg = NULL
<1>1. Processing
  BY Zenon DEF Inv
<1>2. PICK x \in Msg : msg[Process] = x
  BY Zenon, <1>1 DEF Processing
<1>3. CountOK(x, refcnt[x], In(q, x), RxMsg, RxAt, x, pc[Process],
              reply, TxMsg, x \in tx)
  BY Zenon, <1>2, Counting
<1>4. pc[Process] # "lock" => RxMsg # x
  BY <1>3, Unfold DEF Shared
<1>5. pc[Process] \in Locked <=> rx_lock = Process
  BY Zenon, <1>1 DEF Processing, Locked
<1>6. rx_lock = Process => RxMsg = NULL
  BY Zenon, Kinds DEF RxMsg
<1>7. tx_lock = Process => TxMsg = NULL
  BY Zenon, Kinds DEF TxMsg
<1>. QED  BY Zenon, <1>1, <1>2, <1>4, <1>5, <1>6, <1>7 DEF Processing

\* A step within the handling of message x.
Handles(step) ==
    /\ pc' = [pc EXCEPT ![Process] = step] /\ ProcessLocks(step)
    /\ UNCHANGED <<refcnt, tx, q, msg, reply>> /\ reply = NULL

LEMMA ProcessQuiet ==
    ASSUME Inv, NEW step \in {"proc", "proc_tx", "release"}, NEW x \in Msg, msg[Process] = x,
           RxMsg # x, Handles(step)
    PROVE  Inv'
<1>1. /\ refcnt' \in [Msg -> Nat] /\ q' \in Seq(Msg) /\ Distinct(q')
      /\ msg = [u \in Thread |-> msg[u]]
  BY Zenon, Counts DEF Handles
<1>2. msg' = [msg EXCEPT ![Process] = x]
  BY <1>1 DEF Handles
<1>3. /\ step \in ProcessPc /\ (step = "idle" => x = NULL) /\ (step # "idle" => x \in Msg)
      /\ (step = "send_reply" => reply' \in Msg) /\ (step # "send_reply" => reply' = NULL)
  BY DEF ProcessPc, Handles
<1>4. /\ Types' /\ Receivers' /\ Senders' /\ Processing'
      /\ RxMsg' = RxMsg /\ RxAt' = RxAt /\ TxMsg' = TxMsg
      /\ msg'[Process] = x /\ pc'[Process] = step
  BY Zenon, <1>1, <1>2, <1>3, ProcessMoves DEF Handles
<1>5. ASSUME NEW k \in Msg
      PROVE  CountOK(k, refcnt[k], In(q, k), RxMsg, RxAt, x, step, reply, TxMsg, k \in tx)
  <2>1. CountOK(k, refcnt[k], In(q, k), RxMsg, RxAt, x, pc[Process], reply, TxMsg, k \in tx)
    BY Zenon, Counting
  <2>. QED  BY <2>1, Unfold DEF Shared
<1>. QED  BY Zenon, <1>4, <1>5, Counted DEF Handles

LEMMA ProcessQuietInv ==
    ASSUME Inv, Transmit \/ ProcLock \/ Proc \/ ProcDirect
    PROVE  Inv'
<1>1. CASE Transmit
  <2>1. pc[Process] = "transmit" /\ pc[Process] # "idle" /\ pc[Process] # "lock"
        /\ pc[Process] \notin Locked /\ pc[Process] # "send_reply"
    BY <1>1 DEF Transmit, Locked
  <2>2. PICK x \in Msg : msg[Process] = x /\ RxMsg # x
    BY Zenon, <2>1, ProcessHas
  <2>3. rx_lock # Process /\ tx_lock # Process /\ reply = NULL
    BY Zenon, <2>1, ProcessHas
  <2>4. ProcessLocks("release")
    BY <1>1, <2>3 DEF ProcessLocks, Transmit, Locked
  <2>5. Handles("release")
    BY Zenon, <1>1, <2>3, <2>4 DEF Handles, Transmit, Goto
  <2>. QED  BY Zenon, <2>2, <2>5, ProcessQuiet
<1>2. CASE ProcLock
  <2>1. pc[Process] = "lock" /\ pc[Process] # "idle" /\ pc[Process] # "send_reply"
    BY <1>2 DEF ProcLock
  <2>2. PICK x \in Msg : msg[Process] = x
    BY Zenon, <2>1, ProcessHas
  <2>3. tx_lock # Process /\ reply = NULL
    BY Zenon, <2>1, ProcessHas
  <2>4. rx_lock = NULL /\ RxMsg = NULL /\ RxMsg # x
    BY Zenon, <1>2, Kinds DEF ProcLock, RxMsg
  <2>5. PICK step \in {"proc", "proc_tx"} : pc' = [pc EXCEPT ![Process] = step]
    BY Zenon, <1>2 DEF ProcLock, Goto
  <2>6. ProcessLocks(step)
    BY <1>2, <2>3, <2>5 DEF ProcessLocks, ProcLock, Locked
  <2>7. Handles(step)
    BY Zenon, <1>2, <2>3, <2>5, <2>6 DEF Handles, ProcLock
  <2>8. step \in {"proc", "proc_tx", "release"}
    BY <2>5
  <2>. QED  BY Zenon, <2>2, <2>4, <2>7, <2>8, ProcessQuiet
<1>3. CASE Proc \/ ProcDirect
  <2>1. /\ pc[Process] \in {"proc", "proc_tx"} /\ pc[Process] # "idle" /\ pc[Process] # "lock"
        /\ pc[Process] \in Locked /\ pc[Process] # "send_reply"
        /\ rx_lock' = NULL /\ UNCHANGED <<refcnt, tx, q, tx_lock, msg, reply>>
        /\ pc' = [pc EXCEPT ![Process] = "release"]
    BY <1>3 DEF Proc, ProcDirect, Locked, Goto
  <2>2. PICK x \in Msg : msg[Process] = x /\ RxMsg # x
    BY Zenon, <2>1, ProcessHas
  <2>3. rx_lock = Process /\ tx_lock # Process /\ reply = NULL
    BY Zenon, <2>1, ProcessHas
  <2>4. ProcessLocks("release")
    BY <2>1, <2>3 DEF ProcessLocks, Locked
  <2>5. Handles("release")
    BY Zenon, <2>1, <2>3, <2>4 DEF Handles
  <2>. QED  BY Zenon, <2>2, <2>5, ProcessQuiet
<1>. QED  BY Zenon, <1>1, <1>2, <1>3

LEMMA ReceiveInv ==
    ASSUME Inv, Receive
    PROVE  Inv'
<1>1. /\ pc[Process] = "idle" /\ q # <<>> /\ q' = Tail(q)
      /\ msg' = [msg EXCEPT ![Process] = Head(q)]
      /\ pc' = [pc EXCEPT ![Process] = IF Head(q) \in tx THEN "transmit" ELSE "lock"]
      /\ UNCHANGED <<refcnt, tx, rx_lock, tx_lock, reply>>
  BY Zenon DEF Receive, Goto
<1>2. refcnt' \in [Msg -> Nat] /\ q \in Seq(Msg) /\ Distinct(q) /\ \A k \in Msg : refcnt[k] \in Nat
  BY Zenon, <1>1, Counts
<1>3. /\ Tail(q) \in Seq(Msg) /\ Head(q) \in Msg /\ Distinct(Tail(q)) /\ In(q, Head(q))
      /\ \A k : In(Tail(q), k) <=> In(q, k) /\ k # Head(q)
  BY Zenon, <1>1, <1>2, TailIs
<1>4. PICK x \in Msg : x = Head(q)
  BY Zenon, <1>3
<1>5. /\ In(q, x) /\ q' \in Seq(Msg) /\ Distinct(q') /\ msg' = [msg EXCEPT ![Process] = x]
      /\ \A k : In(q', k) <=> In(q, k) /\ k # x
  BY Zenon, <1>1, <1>3, <1>4
<1>6. PICK step \in {"transmit", "lock"} :
         pc' = [pc EXCEPT ![Process] = step] /\ (step = "transmit" => x \in tx)
  BY <1>1, <1>4
<1>7. msg[Process] = NULL /\ reply = NULL /\ rx_lock # Process /\ tx_lock # Process
  BY <1>1 DEF Inv, Processing
<1>8. ProcessLocks(step)
  BY <1>1, <1>6, <1>7 DEF ProcessLocks, Locked
<1>9. /\ step \in ProcessPc /\ (step = "idle" => x = NULL) /\ (step # "idle" => x \in Msg)
      /\ (step = "send_reply" => reply' \in Msg) /\ (step # "send_reply" => reply' = NULL)
  BY <1>1, <1>6, <1>7 DEF ProcessPc
<1>10. /\ Types' /\ Receivers' /\ Senders' /\ Processing'
       /\ RxMsg' = RxMsg /\ RxAt' = RxAt /\ TxMsg' = TxMsg
       /\ msg'[Process] = x /\ pc'[Process] = step
  BY Zenon, <1>1, <1>2, <1>5, <1>6, <1>8, <1>9, ProcessMoves
<1>11. ASSUME NEW k \in Msg
       PROVE  CountOK(k, refcnt[k], In(q', k), RxMsg, RxAt, x, step, reply, TxMsg, k \in tx)
  <2>1. CountOK(k, refcnt[k], In(q, k), RxMsg, RxAt, NULL, pc[Process], reply, TxMsg, k \in tx)
    BY Zenon, <1>7, Counting
  <2>2. NULL # k
    BY Zenon, Kinds
  <2>3. CASE k = x
    <3>1. In(q, k) /\ ~In(q', k)
      BY Zenon, <1>5, <2>3
    <3>2. One(In(q, k)) = 1 /\ One(In(q', k)) = 0 /\ One(x = k) = 1 /\ One(NULL = k) = 0
      BY <2>2, <2>3, <3>1 DEF One
    <3>3. ASSUME RxMsg = k
          PROVE  Shared(k, In(q', k), RxAt, x, step, reply, TxMsg, k \in tx)
      <4>1. Shared(k, In(q, k), RxAt, NULL, pc[Process], reply, TxMsg, k \in tx)
        BY <2>1, <3>3, Unfold
      <4>2. k \notin tx
        BY Zenon, <3>1, <4>1 DEF Shared
      <4>3. step = "lock"
        BY Zenon, <1>6, <2>3, <4>2
      <4>. QED  BY Zenon, <3>1, <4>1, <4>2, <4>3 DEF Shared
    <3>. QED  BY <2>1, <3>2, <3>3, Unfold
  <2>4. CASE k # x
    <3>1. In(q', k) = In(q, k)
      BY <1>5, <2>4 DEF In
    <3>2. One(NULL = k) = 0 /\ One(x = k) = 0
      BY <2>2, <2>4 DEF One
    <3>3. CountOK(k, refcnt[k], In(q, k), RxMsg, RxAt, x, step, reply, TxMsg, k \in tx)
      BY <2>1, <2>2, <2>4, <3>2, Unfold DEF Shared
    <3>. QED  BY Zenon, <3>1, <3>3
  <2>. QED  BY Zenon, <2>3, <2>4
<1>. QED  BY Zenon, <1>1, <1>10, <1>11, Counted

LEMMA ReleaseInv ==
    ASSUME Inv, Release
    PROVE  Inv'
<1>1. /\ pc[Process] = "release" /\ pc[Process] # "idle" /\ pc[Process] # "lock"
      /\ pc[Process] \notin Locked /\ pc[Process] # "send_reply"
      /\ refcnt' = [refcnt EXCEPT ![msg[Process]] = refcnt[msg[Process]] - 1]
      /\ msg' = [msg EXCEPT ![Process] = NULL] /\ pc' = [pc EXCEPT ![Process] = "idle"]
      /\ UNCHANGED <<tx, q, rx_lock, tx_lock, reply>>
  BY DEF Release, msg_put, Goto, Locked
<1>2. PICK x \in Msg : msg[Process] = x /\ RxMsg # x
  BY Zenon, <1>1, ProcessHas
<1>3. rx_lock # Process /\ tx_lock # Process /\ reply = NULL
  BY Zenon, <1>1, ProcessHas
<1>4. refcnt \in [Msg -> Nat] /\ q' \in Seq(Msg) /\ Distinct(q')
  BY Zenon, <1>1, Counts
<1>5. ASSUME NEW k \in Msg
      PROVE  CountOK(k, refcnt[k], In(q, k), RxMsg, RxAt, x, pc[Process], reply, TxMsg, k \in tx)
  BY Zenon, <1>2, Counting
<1>6. refcnt[x] = 1 /\ ~In(q, x) /\ reply # x /\ TxMsg # x
  BY <1>2, <1>5, Elsewhere DEF One
<1>7. refcnt' \in [Msg -> Nat] /\ refcnt'[x] = 0 /\ \A k \in Msg : k # x => refcnt'[k] = refcnt[k]
  BY <1>1, <1>2, <1>4, <1>6
<1>8. ProcessLocks("idle")
  BY <1>1, <1>3 DEF ProcessLocks, Locked
<1>9. "idle" \in ProcessPc /\ "idle" # "send_reply" /\ reply' = NULL
  BY <1>1, <1>3 DEF ProcessPc
<1>10. /\ Types' /\ Receivers' /\ Senders' /\ Processing'
       /\ RxMsg' = RxMsg /\ RxAt' = RxAt /\ TxMsg' = TxMsg
       /\ msg'[Process] = NULL /\ pc'[Process] = "idle"
  BY Zenon, <1>1, <1>4, <1>7, <1>8, <1>9, ProcessMoves
<1>11. ASSUME NEW k \in Msg
       PROVE  CountOK(k, refcnt'[k], In(q, k), RxMsg, RxAt, NULL, "idle", reply, TxMsg, k \in tx)
  <2>1. NULL # k
    BY Zenon, Kinds
  <2>2. CASE k = x
    <3>1. /\ One(In(q, k)) = 0 /\ One(NULL = k) = 0 /\ One(reply = k) = 0 /\ One(TxMsg = k) = 0
          /\ refcnt'[k] = 0 /\ RxMsg # k
      BY <1>2, <1>6, <1>7, <2>1, <2>2 DEF One
    <3>. QED  BY <3>1, Elsewhere
  <2>3. CASE k # x
    <3>1. One(NULL = k) = 0 /\ One(x = k) = 0 /\ refcnt'[k] = refcnt[k]
      BY <1>7, <2>1, <2>3 DEF One
    <3>. QED  BY <1>5, <2>1, <2>3, <3>1, Unfold DEF Shared
  <2>. QED  BY Zenon, <2>2, <2>3
<1>. QED  BY Zenon, <1>1, <1>10, <1>11, Counted

LEMMA FupInv ==
    ASSUME Inv, NEW m \in Msg, port_tx_fup(m)
    PROVE  Inv'
<1>1. /\ pc[Process] = "proc_tx" /\ pc[Process] # "idle" /\ pc[Process] \in Locked
      /\ tx_lock = NULL /\ tx_lock' = Process /\ refcnt[m] = 0
      /\ refcnt' = [refcnt EXCEPT ![m] = 1] /\ tx' = tx \cup {m} /\ reply' = m
      /\ pc' = [pc EXCEPT ![Process] = "send_reply"] /\ UNCHANGED <<q, rx_lock, msg>>
  BY DEF port_tx_fup, Free, Goto, Locked
<1>2. /\ refcnt \in [Msg -> Nat] /\ q' \in Seq(Msg) /\ Distinct(q')
      /\ msg = [u \in Thread |-> msg[u]]
  BY Zenon, <1>1, Counts
<1>3. PICK x \in Msg : msg[Process] = x
  BY Zenon, <1>1, ProcessHas
<1>4. rx_lock = Process /\ RxMsg = NULL /\ "proc_tx" # "send_reply"
  BY Zenon, <1>1, ProcessHas
<1>5. reply = NULL
  BY Zenon, <1>1, <1>4, ProcessHas
<1>6. refcnt' \in [Msg -> Nat] /\ refcnt'[m] = 1 /\ \A k \in Msg : k # m => refcnt'[k] = refcnt[k]
  BY <1>1, <1>2
<1>7. ProcessLocks("send_reply") /\ msg' = [msg EXCEPT ![Process] = x]
  BY <1>1, <1>2, <1>3, <1>4 DEF ProcessLocks, Locked
<1>8. "send_reply" \in ProcessPc /\ "send_reply" # "idle" /\ reply' \in Msg
  BY <1>1 DEF ProcessPc
<1>9. /\ Types' /\ Receivers' /\ Senders' /\ Processing'
      /\ RxMsg' = RxMsg /\ RxAt' = RxAt /\ TxMsg' = TxMsg
      /\ msg'[Process] = x /\ pc'[Process] = "send_reply"
  BY Zenon, <1>1, <1>2, <1>6, <1>7, <1>8, ProcessMoves
<1>10. ~In(q, m) /\ x # m /\ TxMsg # m
  BY Zenon, <1>1, <1>3, FreeIsUnused
<1>11. ASSUME NEW k \in Msg
       PROVE  CountOK(k, refcnt'[k], In(q, k), RxMsg, RxAt, x, "send_reply", m, TxMsg, k \in tx')
  <2>1. CountOK(k, refcnt[k], In(q, k), RxMsg, RxAt, x, pc[Process], NULL, TxMsg, k \in tx)
    BY Zenon, <1>3, <1>5, Counting
  <2>2. NULL # k /\ RxMsg # k
    BY Zenon, <1>4, Kinds
  <2>3. CASE k = m
    <3>1. /\ One(In(q, k)) = 0 /\ One(x = k) = 0 /\ One(m = k) = 1 /\ One(TxMsg = k) = 0
          /\ refcnt'[k] = 1
      BY <1>6, <1>10, <2>3 DEF One
    <3>. QED  BY <2>2, <3>1, Elsewhere
  <2>4. CASE k # m
    <3>1. One(NULL = k) = 0 /\ One(m = k) = 0 /\ refcnt'[k] = refcnt[k]
      BY <1>6, <2>2, <2>4 DEF One
    <3>. QED  BY <2>1, <2>2, <3>1, Elsewhere
  <2>. QED  BY Zenon, <2>3, <2>4
<1>. QED  BY Zenon, <1>1, <1>9, <1>11, Counted

LEMMA ReplyInv ==
    ASSUME Inv, SendReply
    PROVE  Inv'
<1>1. /\ pc[Process] = "send_reply" /\ pc[Process] # "idle" /\ pc[Process] \in Locked
      /\ q' = Append(q, reply) /\ reply' = NULL /\ tx_lock' = NULL /\ rx_lock' = NULL
      /\ pc' = [pc EXCEPT ![Process] = "release"] /\ UNCHANGED <<refcnt, tx, msg>>
  BY DEF SendReply, queue_send, Goto, Locked
<1>2. /\ refcnt' \in [Msg -> Nat] /\ q \in Seq(Msg) /\ Distinct(q)
      /\ msg = [u \in Thread |-> msg[u]]
  BY Zenon, <1>1, Counts
<1>3. PICK x \in Msg : msg[Process] = x
  BY Zenon, <1>1, ProcessHas
<1>4. PICK m \in Msg : reply = m
  BY Zenon, <1>1, ProcessHas
<1>5. rx_lock = Process /\ RxMsg = NULL /\ tx_lock = Process
  BY Zenon, <1>1, ProcessHas
<1>6. ASSUME NEW k \in Msg
      PROVE  /\ CountOK(k, refcnt[k], In(q, k), RxMsg, RxAt, x, pc[Process], m, TxMsg, k \in tx)
             /\ RxMsg # k /\ NULL # k
  BY Zenon, <1>3, <1>4, <1>5, Counting, Kinds
<1>7. refcnt[m] = 1 /\ ~In(q, m) /\ x # m /\ TxMsg # m
  BY <1>6, Elsewhere DEF One
<1>8. q' \in Seq(Msg) /\ Distinct(q') /\ \A k : In(q', k) <=> In(q, k) \/ k = m
  <2>1. /\ Append(q, m) \in Seq(Msg) /\ Distinct(Append(q, m))
        /\ \A k : In(Append(q, m), k) <=> In(q, k) \/ k = m
    BY ZenonT(30), <1>2, <1>7, AppendIs
  <2>2. q' = Append(q, m)
    BY Zenon, <1>1, <1>4
  <2>. QED  BY Zenon, <2>1, <2>2
<1>9. ProcessLocks("release") /\ msg' = [msg EXCEPT ![Process] = x]
  BY <1>1, <1>2, <1>3, <1>5 DEF ProcessLocks, Locked
<1>10. "release" \in ProcessPc /\ "release" # "idle" /\ "release" # "send_reply"
  BY DEF ProcessPc
<1>11. /\ Types' /\ Receivers' /\ Senders' /\ Processing'
       /\ RxMsg' = RxMsg /\ RxAt' = RxAt /\ TxMsg' = TxMsg
       /\ msg'[Process] = x /\ pc'[Process] = "release"
  BY Zenon, <1>1, <1>2, <1>8, <1>9, <1>10, ProcessMoves
<1>12. ASSUME NEW k \in Msg
       PROVE  CountOK(k, refcnt[k], In(q', k), RxMsg, RxAt, x, "release", NULL, TxMsg, k \in tx)
  <2>1. CASE k = m
    <3>1. /\ One(In(q', k)) = 1 /\ One(x = k) = 0 /\ One(NULL = k) = 0 /\ One(TxMsg = k) = 0
          /\ refcnt[k] = 1 /\ RxMsg # k
      BY <1>6, <1>7, <1>8, <2>1 DEF One
    <3>. QED  BY <3>1, Elsewhere
  <2>2. CASE k # m
    <3>1. In(q', k) = In(q, k)
      BY <1>8, <2>2 DEF In
    <3>2. One(NULL = k) = 0 /\ One(m = k) = 0 /\ RxMsg # k
      BY <1>6, <2>2 DEF One
    <3>3. CountOK(k, refcnt[k], In(q, k), RxMsg, RxAt, x, "release", NULL, TxMsg, k \in tx)
      BY <1>6, <3>2, Elsewhere
    <3>. QED  BY Zenon, <3>1, <3>3
  <2>. QED  BY Zenon, <2>1, <2>2
<1>. QED  BY Zenon, <1>1, <1>11, <1>12, Counted

-----------------------------------------------------------------------------
LEMMA NextInv == Inv /\ [Next]_vars => Inv'
<1>. SUFFICES ASSUME Inv, [Next]_vars  PROVE Inv'
  OBVIOUS
<1>1. CASE UNCHANGED vars
  BY Zenon, <1>1 DEF vars, Inv, Types, Receivers, Senders, Processing, MsgOK, RxMsg, RxAt,
                     TxMsg, In
<1>2. ASSUME NEW t \in Receiver, RxLock(t) \/ RxStep(t)  PROVE Inv'
  BY Zenon, <1>2, RxQuietInv, RxHandleInv, SaveInv, SendInv, PutInv DEF RxStep
<1>3. ASSUME NEW t \in Sender, TxStep(t) \/ \E m \in Msg : TxBuild(t, m)  PROVE Inv'
  BY Zenon, <1>3, TxBuildInv, SaveTxInv DEF TxStep
<1>4. CASE ProcessStep
  BY Zenon, <1>4, ProcessQuietInv, ReceiveInv, ReleaseInv, FupInv, ReplyInv DEF ProcessStep
<1>. QED  BY Zenon, <1>1, <1>2, <1>3, <1>4 DEF Next

LEMMA Invariance == Spec => []Inv
BY InitInv, NextInv, PTL DEF Spec

\* ptp_process_task is never in the middle of a message that a receiving or
\* a sending thread still handles, whatever the number of threads (OneUser):
\* rx_lock is held across ptp_rx, and a sender lets go of what it queues.
THEOREM OneThreadAtATime == Spec => []OneUser
<1>1. Inv => OneUser
  <2>. SUFFICES ASSUME Inv, pc[Process] \in {"proc", "proc_tx", "send_reply", "release"},
                       NEW t \in Receiver \cup Sender
                PROVE  msg[t] # msg[Process]
    BY Zenon DEF OneUser
  <2>1. pc[Process] # "idle" /\ pc[Process] # "lock"
    OBVIOUS
  <2>2. PICK x \in Msg : msg[Process] = x /\ RxMsg # x /\ x # NULL
    BY Zenon, <2>1, ProcessHas, Kinds
  <2>3. TxMsg # x
    <3>1. CountOK(x, refcnt[x], In(q, x), RxMsg, RxAt, x, pc[Process],
                  reply, TxMsg, x \in tx)
      BY Zenon, <2>2, Counting
    <3>. QED  BY <2>2, <3>1, Elsewhere DEF One
  <2>4. t \in Receiver => msg[t] \in {RxMsg, NULL}
    BY Zenon DEF Inv, Receivers, RxMsg
  <2>5. t \in Sender => msg[t] \in {TxMsg, NULL}
    BY Zenon DEF Inv, Senders, TxMsg
  <2>. QED  BY Zenon, <2>2, <2>3, <2>4, <2>5
<1>. QED  BY <1>1, Invariance, PTL

-----------------------------------------------------------------------------
(***************************************************************************)
(* The sets Holders counts have the sizes the invariant speaks of.         *)
(***************************************************************************)
LEMMA SizeOfTwo ==
    ASSUME NEW a, NEW b, a # b
    PROVE  Cardinality({a, b}) = 2
<1>1. IsFiniteSet({b}) /\ Cardinality({b}) = 1
  BY FS_Singleton
<1>2. Cardinality({b} \cup {a}) = 2
  BY <1>1, FS_AddElement
<1>3. {b} \cup {a} = {a, b}
  OBVIOUS
<1>. QED  BY <1>2, <1>3

\* The reference count of a message is the number of its holders, whatever
\* the number of messages and threads (RefcntIsHolders): msg_put frees it
\* with the last of them and not before.
THEOREM CountsHolders == Spec => []RefcntIsHolders
<1>1. ASSUME Inv, NEW m \in Msg  PROVE refcnt[m] = Holders(m)
  <2>. DEFINE T == {t \in Thread : msg[t] = m}
              R == {t \in Receiver : pc[t] = "send" /\ msg[t] = m}
              I == {i \in 1 .. Len(q) : q[i] = m}
  <2>1. CountOK(m, refcnt[m], In(q, m), RxMsg, RxAt, msg[Process], pc[Process],
                reply, TxMsg, m \in tx)
    BY Zenon, <1>1, Counting
  <2>2. m # NULL /\ Distinct(q)
    BY Zenon, <1>1, Counts, Kinds
  <2>3. Cardinality(I) = One(In(q, m))
    <3>1. CASE In(q, m)
      <4>1. PICK i \in 1 .. Len(q) : q[i] = m
        BY Zenon, <3>1 DEF In
      <4>2. I = {i}
        BY Zenon, <2>2, <4>1 DEF Distinct
      <4>. QED  BY <3>1, <4>2, FS_Singleton DEF One
    <3>2. CASE ~In(q, m)
      <4>1. I = {}
        BY Zenon, <3>2 DEF In
      <4>. QED  BY <3>2, <4>1, FS_EmptySet DEF One
    <3>. QED  BY Zenon, <3>1, <3>2
  <2>4. /\ \A t \in Receiver : msg[t] = m <=> rx_lock = t /\ RxMsg = m
        /\ RxMsg = m => rx_lock \in Receiver
        /\ rx_lock \in Receiver => RxAt = pc[rx_lock]
    <3>1. \A t \in Receiver : msg[t] = m => rx_lock = t
      BY Zenon, <1>1, <2>2 DEF Inv, Receivers
    <3>2. rx_lock \in Receiver => RxMsg = msg[rx_lock] /\ RxAt = pc[rx_lock]
      BY Zenon DEF RxMsg, RxAt
    <3>3. rx_lock \notin Receiver => RxMsg = NULL
      BY Zenon DEF RxMsg
    <3>. QED  BY Zenon, <2>2, <3>1, <3>2, <3>3
  <2>5. /\ \A t \in Sender : msg[t] = m <=> tx_lock = t /\ TxMsg = m
        /\ TxMsg = m => tx_lock \in Sender
    BY Zenon, <1>1, <2>2 DEF Inv, Senders, TxMsg
  <2>6. Cardinality(R) = One(RxMsg = m /\ RxAt = "send")
    <3>1. CASE RxMsg = m /\ RxAt = "send"
      <4>1. R = {rx_lock}
        BY Zenon, <2>4, <3>1
      <4>. QED  BY <3>1, <4>1, FS_Singleton DEF One
    <3>2. CASE ~(RxMsg = m /\ RxAt = "send")
      <4>1. R = {}
        BY Zenon, <2>4, <3>2
      <4>. QED  BY <3>2, <4>1, FS_EmptySet DEF One
    <3>. QED  BY Zenon, <3>1, <3>2
  <2>7. Cardinality(T) = One(RxMsg = m) + One(TxMsg = m) + One(msg[Process] = m)
    <3>1. \A t : t \in T <=> \/ t = rx_lock /\ RxMsg = m
                             \/ t = tx_lock /\ TxMsg = m
                             \/ t = Process /\ msg[Process] = m
      BY Zenon, <2>4, <2>5 DEF Thread
    <3>2. TxMsg = m => RxMsg # m /\ msg[Process] # m
      BY <2>1, Unfold DEF Shared, One
    <3>3. RxMsg = m => rx_lock # Process
      BY Zenon, <2>4, Kinds
    <3>4. CASE TxMsg = m
      <4>1. T = {tx_lock}
        BY Zenon, <3>1, <3>2, <3>4
      <4>. QED  BY <3>2, <3>4, <4>1, FS_Singleton DEF One
    <3>5. CASE TxMsg # m /\ RxMsg = m /\ msg[Process] = m
      <4>1. T = {rx_lock, Process}
        BY Zenon, <3>1, <3>5
      <4>2. Cardinality(T) = 2
        BY Zenon, <3>3, <3>5, <4>1, SizeOfTwo
      <4>. QED  BY <3>5, <4>2 DEF One
    <3>6. CASE TxMsg # m /\ RxMsg = m /\ msg[Process] # m
      <4>1. T = {rx_lock}
        BY Zenon, <3>1, <3>6
      <4>2. Cardinality(T) = 1
        BY Zenon, <4>1, FS_Singleton
      <4>. QED  BY <3>6, <4>2 DEF One
    <3>7. CASE TxMsg # m /\ RxMsg # m /\ msg[Process] = m
      <4>1. T = {Process}
        BY Zenon, <3>1, <3>7
      <4>. QED  BY <3>7, <4>1, FS_Singleton DEF One
    <3>8. CASE TxMsg # m /\ RxMsg # m /\ msg[Process] # m
      <4>1. T = {}
        BY Zenon, <3>1, <3>8
      <4>. QED  BY <3>8, <4>1, FS_EmptySet DEF One
    <3>. QED  BY Zenon, <3>4, <3>5, <3>6, <3>7, <3>8
  <2>8. Holders(m) = Cardinality(I) + Cardinality(T) + One(reply = m) + Cardinality(R)
    BY Zenon DEF Holders, Queued, One
  <2>. HIDE DEF T, R, I
  <2>. QED  BY <2>1, <2>3, <2>6, <2>7, <2>8, Unfold DEF One
<1>2. Inv => RefcntIsHolders
  BY Zenon, <1>1 DEF RefcntIsHolders
<1>. QED  BY <1>2, Invariance, PTL

-----------------------------------------------------------------------------
(***************************************************************************)
(* Types.  The bound of the counts follows from CountOK, the places of the *)
(* threads from the locks; tx and the length of the queue are left.        *)
(***************************************************************************)
Bounds == tx \in SUBSET Msg /\ Len(q) <= MaxMsg

LEMMA QueueLength ==
    ASSUME NEW s \in Seq(Msg), Len(s) <= MaxMsg
    PROVE  /\ \A m \in Msg : Len(s) < MaxMsg => Len(Append(s, m)) <= MaxMsg
           /\ s # <<>> => Len(Tail(s)) <= MaxMsg
BY MsgQueueAssumption

LEMMA BoundsStep ==
    ASSUME Inv, Bounds, [Next]_vars
    PROVE  Bounds'
<1>1. q \in Seq(Msg) /\ Len(q) <= MaxMsg /\ tx \in SUBSET Msg
  BY Zenon DEF Inv, Types, Bounds
<1>2. \/ UNCHANGED tx
      \/ \E m \in Msg : tx' = tx \cup {m}
      \/ \E x : tx' = tx \ {x}
  BY Zenon DEF vars, Next, RxLock, RxStep, RxIgnore, RxHandle, Forward, ptp_save_rx_msg, RxSend,
       RxPut, TxStep, ptp_save_tx_msg, TxBuild, ProcessStep, Receive, Transmit, ProcLock,
       Proc, ProcDirect, port_tx_fup, SendReply, Release
<1>3. \/ UNCHANGED q
      \/ \E m : m \in Msg /\ queue_send(m)
      \/ q # <<>> /\ q' = Tail(q)
  <2>1. \A t \in Receiver : RxSend(t) => msg[t] \in Msg
    <3>. SUFFICES ASSUME NEW t \in Receiver, RxSend(t)  PROVE msg[t] \in Msg
      BY Zenon
    <3>1. pc[t] # "idle" /\ pc[t] # "rx"
      BY DEF RxSend
    <3>. QED  BY Zenon, <3>1 DEF Inv, Receivers
  <2>2. \A t \in Sender : ptp_save_tx_msg(t) => msg[t] \in Msg
    <3>. SUFFICES ASSUME NEW t \in Sender, ptp_save_tx_msg(t)  PROVE msg[t] \in Msg
      BY Zenon
    <3>1. pc[t] # "idle"
      BY DEF ptp_save_tx_msg
    <3>. QED  BY Zenon, <3>1 DEF Inv, Senders
  <2>3. SendReply => reply \in Msg
    BY Zenon DEF SendReply, Inv, Processing
  <2>4. CASE UNCHANGED vars
    BY Zenon, <2>4 DEF vars
  <2>5. CASE Next
    BY Zenon, <2>1, <2>2, <2>3, <2>5 DEF Next, RxLock, RxStep, RxIgnore, RxHandle, Forward,
         ptp_save_rx_msg, RxSend, RxPut, TxStep, ptp_save_tx_msg, TxBuild, ProcessStep,
         Receive, Transmit, ProcLock, Proc, ProcDirect, port_tx_fup, SendReply, Release
  <2>. QED  BY Zenon, <2>4, <2>5
<1>4. tx' \in SUBSET Msg
  BY Zenon, <1>1, <1>2
<1>5. Len(q') <= MaxMsg
  BY Zenon, <1>1, <1>3, QueueLength DEF queue_send
<1>. QED  BY Zenon, <1>4, <1>5 DEF Bounds

\* Types: in particular no message has more than two references and the queue
\* never holds more than mq_maxmsg, whatever the number of threads and of
\* messages (TypeOK).
THEOREM TypeCorrect == Spec => []TypeOK
<1>1. ASSUME Inv, Bounds  PROVE TypeOK
  <2>1. \A m \in Msg : refcnt[m] \in 0 .. 2
    <3>. TAKE m \in Msg
    <3>1. CountOK(m, refcnt[m], In(q, m), RxMsg, RxAt, msg[Process], pc[Process],
                  reply, TxMsg, m \in tx)
      BY Zenon, <1>1, Counting
    <3>. QED  BY <3>1, Unfold DEF One
  <2>2. refcnt \in [Msg -> 0 .. 2]
    BY <1>1, <2>1 DEF Inv, Types
  <2>3. rx_lock \in Thread \cup {NULL} /\ tx_lock \in Thread \cup {NULL}
    BY Zenon, <1>1 DEF Inv, Types, Thread
  <2>4. \A t \in Thread : pc[t] \in RxPc \cup ProcessPc \cup {"send_tx"}
    <3>1. "idle" \in ProcessPc
      BY DEF ProcessPc
    <3>. QED  BY Zenon, <1>1, <3>1 DEF Inv, Receivers, Senders, Processing, Thread
  <2>5. \A t \in Thread : msg[t] \in Msg \cup {NULL}
    <3>1. \A t \in Receiver : msg[t] \in Msg \cup {NULL}
      BY Zenon, <1>1 DEF Inv, Receivers
    <3>2. \A t \in Sender : msg[t] \in Msg \cup {NULL}
      BY Zenon, <1>1 DEF Inv, Senders
    <3>3. msg[Process] \in Msg \cup {NULL}
      BY Zenon, <1>1 DEF Inv, Processing
    <3>. QED  BY Zenon, <3>1, <3>2, <3>3 DEF Thread
  <2>6. reply \in Msg \cup {NULL}
    BY Zenon, <1>1 DEF Inv, Processing
  <2>7. pc \in [Thread -> RxPc \cup ProcessPc \cup {"send_tx"}]
    BY Zenon, <1>1, <2>4 DEF Inv, Types
  <2>8. msg \in [Thread -> Msg \cup {NULL}]
    BY Zenon, <1>1, <2>5 DEF Inv, Types
  <2>9. RxPc \cup ProcessPc \cup {"send_tx"} =
          {"idle", "rx", "forward", "save", "send", "put", "send_tx", "transmit",
           "lock", "proc", "proc_tx", "send_reply", "release"}
    BY DEF RxPc, ProcessPc
  <2>10. pc \in [Thread -> {"idle", "rx", "forward", "save", "send", "put", "send_tx", "transmit",
                            "lock", "proc", "proc_tx", "send_reply", "release"}]
    BY Zenon, <2>7, <2>9
  <2>. QED  BY Zenon, <1>1, <2>2, <2>3, <2>6, <2>8, <2>10 DEF TypeOK, Inv, Types, Bounds
<1>2. Init => Bounds
  BY MsgQueueAssumption DEF Init, Bounds
<1>. QED  BY <1>1, <1>2, InitInv, NextInv, BoundsStep, PTL DEF Spec

=============================================================================
