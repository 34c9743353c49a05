-------------------------- MODULE WorkQueueProofs --------------------------
(***************************************************************************)
(* Proofs about WorkQueue, for any set of works and any set of callers.    *)
(***************************************************************************)
EXTENDS WorkQueue, TLAPS

\* The inductive invariant.
Inv == TypeOK /\ RequestIsQueued /\ ListIsSound /\ PlaceIsSound /\ AllReachable

ListInv == NextIsLinked /\ OnePredecessor /\ LastIsEnd /\ FreeHasNoNext /\ AllReachable

-----------------------------------------------------------------------------
(***************************************************************************)
(* add_work keeps the list a list: the appended work is reached through    *)
(* the old end, and nothing else changes.                                  *)
(***************************************************************************)
LEMMA AddWorkKeepsList ==
    ASSUME TypeOK, ListInv, NEW w \in Work, add_work(w)
    PROVE  /\ ListInv'
           /\ attach' = attach \cup {w}
           /\ \A n \in Linked : n \in Linked' /\ (next[n] # NULL => next'[n] = next[n])
           /\ next' \in [Node -> Work \cup {NULL}] /\ last' \in Node
<1>1. CASE w \in attach
  BY <1>1 DEF add_work, list, ListInv, NextIsLinked, OnePredecessor, LastIsEnd, FreeHasNoNext,
      AllReachable, Closed, Linked, TypeOK
<1>2. CASE w \notin attach
  <2>. USE <1>2
  <2>1. /\ next' = [next EXCEPT ![w] = NULL, ![last] = w]
        /\ last' = w
        /\ attach' = attach \cup {w}
    BY DEF add_work
  <2>2. /\ w # last /\ w # NULL /\ w # Anchor
        /\ next'[last] = w /\ next'[w] = NULL
        /\ \A n \in Node : n # last /\ n # w => next'[n] = next[n]
        /\ next[last] = NULL
        /\ last \in Linked
    BY <2>1, WorkQueueAssumption DEF ListInv, LastIsEnd, Linked, TypeOK, Node
  <2>3. Linked' = Linked \cup {w} /\ w \notin Linked /\ Linked \subseteq Node
    BY <2>1, <2>2 DEF Linked, TypeOK, Node
  <2>4. NextIsLinked'
    <3> SUFFICES ASSUME NEW n \in Linked \cup {w}, next'[n] # NULL
                 PROVE  next'[n] \in attach \cup {w}
      BY <2>1, <2>3 DEF NextIsLinked
    <3>1. n # w /\ n \in Node /\ n \in Linked
      BY <2>2, <2>3
    <3>. QED  BY <2>2, <3>1 DEF ListInv, NextIsLinked
  <2>5. OnePredecessor'
    BY <2>1, <2>2, <2>3 DEF ListInv, NextIsLinked, OnePredecessor, Linked
  <2>6. LastIsEnd'
    BY <2>1, <2>2, <2>3 DEF ListInv, LastIsEnd
  <2>7. FreeHasNoNext'
    BY <2>1, <2>2, WorkQueueAssumption DEF ListInv, FreeHasNoNext, Node, Linked
  <2>8. AllReachable'
    <3> SUFFICES ASSUME NEW S \in SUBSET Node, Anchor \in S, Closed(S)'
                 PROVE  attach' \subseteq S
      BY DEF AllReachable
    <3>1. Closed(S \ {w})
      <4> SUFFICES ASSUME NEW n \in S \ {w}, next[n] # NULL
                   PROVE  next[n] \in S \ {w}
        BY DEF Closed
      <4>1. n # last /\ next'[n] = next[n]
        BY <2>2
      <4>2. next[n] \in S
        BY <4>1 DEF Closed
      <4>3. n \in Linked
        BY DEF ListInv, FreeHasNoNext, Linked, Node
      <4>. QED  BY <4>2, <4>3 DEF ListInv, NextIsLinked
    <3>2. attach \subseteq S \ {w}
      BY <3>1, <2>2 DEF ListInv, AllReachable
    <3>3. w \in S
      BY <3>2, <2>2 DEF Closed, Linked
    <3>. QED  BY <3>2, <3>3, <2>1
  <2>9. next' \in [Node -> Work \cup {NULL}] /\ last' \in Node
    BY <2>1 DEF TypeOK, Node
  <2>. QED  BY <2>1, <2>2, <2>3, <2>4, <2>5, <2>6, <2>7, <2>8, <2>9 DEF ListInv
<1>. QED  BY <1>1, <1>2

(***************************************************************************)
(* ScheduleTask's removal of a work keeps the list a list: the successor   *)
(* of the removed work hangs behind prev, which stays in the list.         *)
(***************************************************************************)
LEMMA PopKeepsList ==
    ASSUME TypeOK, ListInv, PlaceIsSound, Pop
    PROVE  /\ ListInv'
           /\ attach' = attach \ {work} /\ prev \in Linked'
           /\ next' \in [Node -> Work \cup {NULL}] /\ last' \in Node
<1>1. /\ pc = "walk" /\ work # NULL /\ work \in Work
      /\ next' = [next EXCEPT ![prev] = next[work], ![work] = NULL]
      /\ last' = IF last = work THEN prev ELSE last
      /\ attach' = attach \ {work}
  BY DEF Pop, TypeOK
<1>2. prev \in Linked /\ prev \in Node /\ next[prev] = work /\ work \in attach /\ work # Anchor
  BY <1>1, WorkQueueAssumption DEF PlaceIsSound, ListInv, NextIsLinked, TypeOK, Linked
\* A work that follows itself would leave the rest of the list unreachable.
<1>3. prev # work
  <2> SUFFICES ASSUME prev = work  PROVE FALSE
    OBVIOUS
  <2>1. Closed(Node \ {work})
    BY <1>1, <1>2 DEF Closed, ListInv, OnePredecessor, FreeHasNoNext, Node, Linked, TypeOK
  <2>2. attach \subseteq Node \ {work}
    BY <2>1, <1>2 DEF ListInv, AllReachable, Node
  <2>. QED  BY <2>2, <1>2
<1>4. /\ next'[work] = NULL
      /\ next'[prev] = next[work]
      /\ \A n \in Node : n # prev /\ n # work => next'[n] = next[n]
  BY <1>1, <1>2, <1>3 DEF TypeOK, Node
<1>5. Linked' = Linked \ {work} /\ Linked \subseteq Node
  BY <1>1, <1>2 DEF Linked, TypeOK, Node
<1>6. \A n \in Linked : next[n] = work => n = prev
  BY <1>1, <1>2 DEF ListInv, OnePredecessor
<1>7. next[work] # work
  BY <1>2, <1>3, <1>6 DEF Linked
<1>8. NextIsLinked'
  <2> SUFFICES ASSUME NEW n \in Linked \ {work}, next'[n] # NULL
               PROVE  next'[n] \in attach \ {work}
    BY <1>1, <1>5 DEF NextIsLinked
  <2>1. CASE n = prev
    BY <2>1, <1>2, <1>4, <1>7 DEF ListInv, NextIsLinked, Linked
  <2>2. CASE n # prev
    BY <2>2, <1>4, <1>5, <1>6 DEF ListInv, NextIsLinked
  <2>. QED  BY <2>1, <2>2
<1>9. OnePredecessor'
  <2> SUFFICES ASSUME NEW n \in Linked \ {work}, NEW m \in Linked \ {work},
                      next'[n] # NULL, next'[n] = next'[m]
               PROVE  n = m
    BY <1>5 DEF OnePredecessor
  <2>1. work \in Linked /\ n \in Node /\ m \in Node
    BY <1>2, <1>5 DEF Linked
  <2>. QED  BY <2>1, <1>4, <1>6 DEF ListInv, OnePredecessor
<1>10. LastIsEnd'
  <2>1. work \in Linked
    BY <1>2 DEF Linked
  <2>2. last' \in Linked \ {work}
    BY <1>1, <1>2, <1>3 DEF ListInv, LastIsEnd
  <2>3. ASSUME NEW n \in Linked \ {work}
        PROVE  next'[n] = NULL <=> n = last'
    BY <2>1, <1>1, <1>2, <1>3, <1>4, <1>5 DEF ListInv, LastIsEnd
  <2>. QED  BY <2>2, <2>3, <1>5 DEF LastIsEnd
<1>11. FreeHasNoNext'
  BY <1>1, <1>2, <1>4, WorkQueueAssumption DEF ListInv, FreeHasNoNext, Node, Linked
<1>12. AllReachable'
  <2> SUFFICES ASSUME NEW S \in SUBSET Node, Anchor \in S, Closed(S)'
               PROVE  attach \ {work} \subseteq S
    BY <1>1 DEF AllReachable
  <2>1. CASE prev \in S
    <3>1. Closed(S \cup {work})
      <4> SUFFICES ASSUME NEW n \in S \cup {work}, next[n] # NULL
                   PROVE  next[n] \in S \cup {work}
        BY DEF Closed
      <4>1. CASE n = work
        BY <4>1, <2>1, <1>4 DEF Closed
      <4>2. CASE n = prev
        BY <4>2, <1>2
      <4>3. CASE n # work /\ n # prev
        BY <4>3, <1>4 DEF Closed
      <4>. QED  BY <4>1, <4>2, <4>3
    <3>2. S \cup {work} \in SUBSET Node
      BY <1>1 DEF Node
    <3>. QED  BY <3>1, <3>2 DEF ListInv, AllReachable
  \* Otherwise work would be unreachable.
  <2>2. CASE prev \notin S
    <3>1. Closed(S \ {work})
      <4> SUFFICES ASSUME NEW n \in S \ {work}, next[n] # NULL
                   PROVE  next[n] \in S \ {work}
        BY DEF Closed
      <4>1. next'[n] = next[n] /\ n # prev
        BY <2>2, <1>4
      <4>2. n \in Linked
        BY DEF ListInv, FreeHasNoNext, Linked, Node
      <4>. QED  BY <4>1, <4>2, <1>6 DEF Closed
    <3>2. attach \subseteq S \ {work}
      BY <3>1, <1>2 DEF ListInv, AllReachable
    <3>. QED  BY <3>2, <1>2
  <2>. QED  BY <2>1, <2>2
<1>13. next' \in [Node -> Work \cup {NULL}] /\ last' \in Node
  BY <1>1, <1>2 DEF TypeOK, Node
<1>14. prev \in Linked'
  BY <1>2, <1>3, <1>5
<1>. QED  BY <1>1, <1>8, <1>9, <1>10, <1>11, <1>12, <1>13, <1>14 DEF ListInv

-----------------------------------------------------------------------------
LEMMA InitInv == Init => Inv
<1> SUFFICES ASSUME Init  PROVE Inv
  OBVIOUS
<1>1. TypeOK
  BY WorkQueueAssumption DEF Init, TypeOK, Node, Thread, CallStep
<1>2. RequestIsQueued /\ ListIsSound /\ PlaceIsSound /\ AllReachable
  BY WorkQueueAssumption DEF Init, RequestIsQueued, ListIsSound, NextIsLinked, OnePredecessor,
      LastIsEnd, FreeHasNoNext, Linked, PlaceIsSound, AllReachable, Node
<1>. QED  BY <1>1, <1>2 DEF Inv

\* A step that leaves the list alone and moves the callers at most.
LEMMA ListUnchanged ==
    ASSUME Inv, UNCHANGED list
    PROVE  ListIsSound' /\ AllReachable'
BY DEF Inv, list, ListIsSound, NextIsLinked, OnePredecessor, LastIsEnd, FreeHasNoNext, Linked,
    AllReachable, Closed

\* The two ways ScheduleTask gets to the anchor.
LEMMA WakeKeepsPlace ==
    ASSUME Inv, UNCHANGED list, signal_update, WalkFrom
    PROVE  /\ PlaceIsSound'
           /\ pc' \in {"wait", "walk", "stop", "stop_max", "stop_fd", "run"}
           /\ prev' \in Node /\ work' \in Work \cup {NULL}
BY DEF Inv, TypeOK, list, PlaceIsSound, Linked, signal_update, WalkFrom, Node

LEMMA NextInv == Inv /\ [Next]_vars => Inv'
<1> SUFFICES ASSUME Inv, [Next]_vars  PROVE Inv'
  OBVIOUS
<1>. USE DEF Inv
<1>0. ListInv
  BY DEF ListInv, ListIsSound
<1>1. ASSUME NEW t \in Thread, NEW w \in Work, MayCall(t), add_work(w), owed' = owed \cup {w},
             UNCHANGED <<timer, task>>, delayed' \in SUBSET Work, due' \in SUBSET Work,
             NEW step \in CallStep, cpc' = [cpc EXCEPT ![t] = step],
             cwork' = [cwork EXCEPT ![t] = w]
      PROVE  Inv'
  <2>1. /\ ListInv' /\ attach' = attach \cup {w}
        /\ \A n \in Linked : n \in Linked' /\ (next[n] # NULL => next'[n] = next[n])
        /\ next' \in [Node -> Work \cup {NULL}] /\ last' \in Node
    BY <1>0, <1>1, AddWorkKeepsList
  <2>2. TypeOK'
    BY <1>1, <2>1 DEF TypeOK, timer, task
  <2>3. RequestIsQueued'
    BY <1>1, <2>1 DEF RequestIsQueued
  <2>4. PlaceIsSound'
    BY <1>1, <2>1 DEF PlaceIsSound, task, TypeOK
  <2>. QED  BY <2>1, <2>2, <2>3, <2>4 DEF ListInv, ListIsSound
<1>2. ASSUME NEW t \in Thread, NEW w \in Work, ScheduleWork(t, w)
      PROVE  Inv'
  BY <1>1, <1>2 DEF ScheduleWork, CallStep, TypeOK
<1>3. ASSUME NEW t \in Thread, NEW w \in Work, NEW zero \in BOOLEAN,
             ScheduleDelayedWork(t, w, zero)
      PROVE  Inv'
  BY <1>1, <1>3 DEF ScheduleDelayedWork, CallStep, TypeOK
<1>4. ASSUME NEW t \in Thread, Signal(t)
      PROVE  Inv'
  <2>1. ListIsSound' /\ AllReachable' /\ RequestIsQueued'
    BY <1>4, ListUnchanged DEF Signal, list, RequestIsQueued
  <2>2. /\ PlaceIsSound'
        /\ pc' \in {"wait", "walk", "stop", "stop_max", "stop_fd", "run"}
        /\ prev' \in Node /\ work' \in Work \cup {NULL}
    <3>1. CASE cwork[t] \in attach
      BY <1>4, <3>1, WakeKeepsPlace DEF Signal
    <3>2. CASE cwork[t] \notin attach
      BY <1>4, <3>2 DEF Signal, task, list, PlaceIsSound, Linked, TypeOK
    <3>. QED  BY <3>1, <3>2
  <2>3. TypeOK'
    BY <1>4, <2>2 DEF Signal, Return, list, timer, TypeOK, CallStep
  <2>. QED  BY <2>1, <2>2, <2>3
<1>5. ASSUME NEW t \in Thread, CheckTimer(t) \/ StartTimer(t)
      PROVE  Inv'
  <2>1. UNCHANGED <<list, delayed, due, task, owed>>
    BY <1>5 DEF CheckTimer, StartTimer
  <2>2. ListIsSound' /\ AllReachable' /\ RequestIsQueued' /\ PlaceIsSound'
    BY <2>1, ListUnchanged DEF list, task, RequestIsQueued, PlaceIsSound, Linked
  <2>3. TypeOK'
    BY <1>5, <2>1 DEF CheckTimer, StartTimer, Return, Goto, list, timer, task, TypeOK, CallStep
  <2>. QED  BY <2>2, <2>3
<1>6. CASE WaitTimeout \/ Tick
  <2>1. /\ UNCHANGED <<list, delayed, due, timer, call, owed>>
        /\ signal_update /\ WalkFrom
    BY <1>6 DEF WaitTimeout, Tick
  <2>2. ListIsSound' /\ AllReachable' /\ RequestIsQueued'
    BY <2>1, ListUnchanged DEF list, RequestIsQueued
  <2>3. /\ PlaceIsSound'
        /\ pc' \in {"wait", "walk", "stop", "stop_max", "stop_fd", "run"}
        /\ prev' \in Node /\ work' \in Work \cup {NULL}
    BY <2>1, WakeKeepsPlace
  <2>4. TypeOK'
    BY <2>1, <2>3 DEF list, timer, call, TypeOK
  <2>. QED  BY <2>2, <2>3, <2>4
<1>7. CASE EndOfList \/ Skip \/ Finish
  <2>1. UNCHANGED <<list, delayed, due, timer, call, owed>>
    BY <1>7 DEF EndOfList, Skip, Finish
  <2>2. ListIsSound' /\ AllReachable' /\ RequestIsQueued'
    BY <2>1, ListUnchanged DEF list, RequestIsQueued
  <2>3. TypeOK'
    BY <1>7, <2>1 DEF EndOfList, Skip, Finish, list, timer, call, TypeOK, Node
  <2>4. PlaceIsSound'
    BY <1>7, <2>1 DEF EndOfList, Skip, Finish, list, PlaceIsSound, Linked, ListIsSound,
        NextIsLinked
  <2>. QED  BY <2>2, <2>3, <2>4
<1>8. CASE Pop
  <2>1. /\ ListInv' /\ attach' = attach \ {work} /\ prev \in Linked'
        /\ next' \in [Node -> Work \cup {NULL}] /\ last' \in Node
    BY <1>0, <1>8, PopKeepsList
  <2>2. TypeOK'
    BY <1>8, <2>1 DEF Pop, TypeOK, timer, call
  <2>3. RequestIsQueued' /\ PlaceIsSound'
    BY <1>8, <2>1 DEF Pop, RequestIsQueued, PlaceIsSound
  <2>. QED  BY <2>1, <2>2, <2>3 DEF ListInv, ListIsSound
<1>9. CASE StopTimer
  <2>1. UNCHANGED <<list, delayed, due, prev, work, call, owed>> /\ pc # "wait" /\ pc' # "walk"
    BY <1>9 DEF StopTimer
  <2>2. ListIsSound' /\ AllReachable' /\ RequestIsQueued' /\ PlaceIsSound'
    BY <2>1, ListUnchanged DEF list, RequestIsQueued, PlaceIsSound, Linked
  <2>3. TypeOK'
    BY <1>9, <2>1 DEF StopTimer, list, call, timer, TypeOK
  <2>. QED  BY <2>2, <2>3
<1>10. ASSUME NEW w \in Work, BecomeDue(w)
       PROVE  Inv'
  <2>1. UNCHANGED <<list, delayed, timer, task, call, owed>>
    BY <1>10 DEF BecomeDue
  <2>2. ListIsSound' /\ AllReachable' /\ RequestIsQueued' /\ PlaceIsSound'
    BY <2>1, ListUnchanged DEF list, task, RequestIsQueued, PlaceIsSound, Linked
  <2>3. TypeOK'
    BY <1>10, <2>1 DEF BecomeDue, list, timer, task, call, TypeOK
  <2>. QED  BY <2>2, <2>3
<1>11. CASE UNCHANGED vars
  <2>1. ListIsSound' /\ AllReachable' /\ RequestIsQueued' /\ PlaceIsSound'
    BY <1>11, ListUnchanged DEF vars, list, task, RequestIsQueued, PlaceIsSound, Linked
  <2>2. TypeOK'
    BY <1>11 DEF vars, list, timer, task, call, TypeOK
  <2>. QED  BY <2>1, <2>2
<1>. QED
  BY <1>2, <1>3, <1>4, <1>5, <1>6, <1>7, <1>8, <1>9, <1>10, <1>11
  DEF Next, Calls, Steps, ScheduleTask

LEMMA Invariance == Spec => []Inv
BY InitInv, NextInv, PTL DEF Spec

(***************************************************************************)
(* The variables of the schedule system keep their types.                  *)
(***************************************************************************)
THEOREM TypeCorrect == Spec => []TypeOK
<1>1. Inv => TypeOK
  BY DEF Inv
<1>. QED  BY <1>1, Invariance, PTL

(***************************************************************************)
(* Exactly the requested works are queued: schedule_work loses no request  *)
(* that arrives while ScheduleTask is walking or running a function.       *)
(***************************************************************************)
THEOREM NoRequestIsLost == Spec => []RequestIsQueued
<1>1. Inv => RequestIsQueued
  BY DEF Inv
<1>. QED  BY <1>1, Invariance, PTL

(***************************************************************************)
(* The list is a list that ends in info->last, however callers and         *)
(* functions interleave with the walk of ScheduleTask.                     *)
(***************************************************************************)
THEOREM Safe == Spec => []ListIsSound
<1>1. Inv => ListIsSound
  BY DEF Inv
<1>. QED  BY <1>1, Invariance, PTL

(***************************************************************************)
(* The place that ScheduleTask keeps across the unlock and the call of a   *)
(* function is still in the list when it goes on.                          *)
(***************************************************************************)
THEOREM PlaceStaysInList == Spec => []PlaceIsSound
<1>1. Inv => PlaceIsSound
  BY DEF Inv
<1>. QED  BY <1>1, Invariance, PTL

(***************************************************************************)
(* All attached works hang from the anchor: none drops out of the list     *)
(* when the works around it are taken out.                                 *)
(***************************************************************************)
THEOREM NoneDropsOut == Spec => []AllReachable
<1>1. Inv => AllReachable
  BY DEF Inv
<1>. QED  BY <1>1, Invariance, PTL

\* A step that is neither a request nor the start or the end of a function.
Invisible == UNCHANGED <<owed, Running>>

(***************************************************************************)
(* The schedule system implements WorkRequests: every step is a request,   *)
(* the start of a requested work, the end of a function, or invisible      *)
(* (ImplementsRequests).                                                   *)
(***************************************************************************)
THEOREM Implements == Spec => ImplementsRequests
<1>1. Init => Requests!Init
  BY DEF Init, Requests!Init, Running
<1>2. ASSUME Inv, [Next]_vars  PROVE [Requests!Next]_(Requests!vars)
  <2>. USE <1>2
  <2>0. Invisible => [Requests!Next]_(Requests!vars)
    BY DEF Invisible, Requests!vars
  <2>1. ASSUME NEW t \in Thread, Calls(t)
        PROVE  Requests!Next
    <3>1. PICK w \in Work : owed' = owed \cup {w} /\ UNCHANGED task
      BY <2>1 DEF Calls, ScheduleWork, ScheduleDelayedWork
    <3>. QED  BY <3>1 DEF task, Running, Requests!Next, Requests!Request
  <2>2. ASSUME NEW t \in Thread, Steps(t)
        PROVE  Invisible
    BY <2>2 DEF Steps, Signal, CheckTimer, StartTimer, task, signal_update, WalkFrom, Invisible,
        Running
  <2>3. CASE Pop
    <3>1. work \in owed /\ work \in Work
      BY <2>3 DEF Pop, Inv, TypeOK, RequestIsQueued, PlaceIsSound, ListIsSound, NextIsLinked
    <3>2. Running = NULL /\ Running' = work /\ owed' = owed \ {work}
      BY <2>3 DEF Pop, Running
    <3>. QED  BY <3>1, <3>2 DEF Requests!Next, Requests!Start
  <2>4. CASE WaitTimeout \/ Tick
    BY <2>0, <2>4 DEF WaitTimeout, Tick, signal_update, WalkFrom, Invisible, Running
  <2>5. CASE EndOfList \/ Skip \/ StopTimer
    BY <2>0, <2>5 DEF EndOfList, Skip, StopTimer, Invisible, Running
  <2>6. CASE Finish
    <3>1. Running' = NULL /\ UNCHANGED owed
      BY <2>6 DEF Finish, Running
    <3>. QED  BY <3>1 DEF Requests!Next, Requests!Done, Requests!vars
  <2>7. CASE (\E w \in Work : BecomeDue(w)) \/ UNCHANGED vars
    BY <2>0, <2>7 DEF BecomeDue, vars, task, Invisible, Running
  <2>. QED
    BY <2>0, <2>1, <2>2, <2>3, <2>4, <2>5, <2>6, <2>7 DEF Next, ScheduleTask
<1>. QED
  BY InitInv, NextInv, <1>1, <1>2, PTL DEF Spec, ImplementsRequests, Requests!Spec
=============================================================================
