------------------------------ MODULE WorkQueue ------------------------------
(***************************************************************************)
(* The schedule system (os/sw_support.c): a singly linked list of works, a *)
(* task that walks it and runs the works that are due, callers on any      *)
(* thread that append to it, and a 1 ms timer that wakes the task while    *)
(* delayed works wait.  Steps are the stretches of code between lock       *)
(* operations and between accesses to data no lock protects.               *)
(***************************************************************************)
EXTENDS Naturals

CONSTANTS
    Work,       \* struct ksz_schedule_work objects
    Caller,     \* threads that schedule works
    Task,       \* the thread of ScheduleTask, a caller while it runs a work
    Anchor,     \* info->anchor
    NULL

ASSUME WorkQueueAssumption ==
    /\ Anchor \notin Work
    /\ NULL \notin Work \cup {Anchor}
    /\ Task \notin Caller

VARIABLES
    next,       \* work->next, and info->anchor.next
    last,       \* info->last
    attach,     \* the works with work->attach set
    delayed,    \* the attached works with work->xTicks # 0
    due,        \* those of them whose xTicks has been reached
    max, fd, ticking,   \* the delayed timer: timer->max, polled, armed
    pc,         \* where ScheduleTask is
    prev, work, \* its local variables
    cpc,        \* where each caller is
    cwork,      \* the work it schedules, NULL outside a call
    owed        \* history: works requested since their function last started

list  == <<next, last, attach>>
timer == <<max, fd, ticking>>
task  == <<pc, prev, work>>
call  == <<cpc, cwork>>
vars  == <<list, delayed, due, timer, task, call, owed>>

Node == Work \cup {Anchor}
Thread == Caller \cup {Task}

Init ==
    /\ next = [n \in Node |-> NULL]
    /\ last = Anchor
    /\ attach = {} /\ delayed = {} /\ due = {}
    /\ max = FALSE /\ fd = TRUE /\ ticking = FALSE
    /\ pc = "wait" /\ prev = Anchor /\ work = NULL
    /\ cpc = [t \in Thread |-> "idle"]
    /\ cwork = [t \in Thread |-> NULL]
    /\ owed = {}

-----------------------------------------------------------------------------
(***************************************************************************)
(* Callers.  ScheduleTask calls these functions from the works it runs.    *)
(* info->lock is held by ScheduleTask only while it stops the timer.       *)
(***************************************************************************)
LockFree == pc \notin {"stop", "stop_max", "stop_fd"}
MayCall(t) == cpc[t] = "idle" /\ LockFree /\ (t = Task => pc = "run")

Goto(t, step) == cpc' = [cpc EXCEPT ![t] = step] /\ UNCHANGED cwork
Return(t) == cpc' = [cpc EXCEPT ![t] = "idle"] /\ cwork' = [cwork EXCEPT ![t] = NULL]

\* Mutant: a work that is in the list already is appended again.
add_work_again(w) ==
    /\ next' = [next EXCEPT ![w] = NULL, ![last] = w]
    /\ last' = w
    /\ attach' = attach \cup {w}

add_work(w) ==
    IF w \in attach THEN UNCHANGED list
    ELSE /\ next' = [next EXCEPT ![w] = NULL, ![last] = w]
         /\ last' = w
         /\ attach' = attach \cup {w}

\* schedule_work_to_task up to the unlock.
ScheduleWork(t, w) ==
    /\ MayCall(t)
    /\ add_work(w)
    /\ delayed' = IF w \in attach THEN delayed ELSE delayed \ {w}
    /\ cpc' = [cpc EXCEPT ![t] = "signal"]
    /\ cwork' = [cwork EXCEPT ![t] = w]
    /\ owed' = owed \cup {w}
    /\ UNCHANGED <<due, timer, task>>

\* The wake-up is lost when ScheduleTask is not waiting.
signal_update == pc' = IF pc = "wait" THEN "walk" ELSE pc
\* Mutant: the walk takes the first work for its predecessor.
WalkFrom_first == IF pc = "wait" THEN prev' = next[Anchor] /\ work' = next[Anchor]
                                 ELSE UNCHANGED <<prev, work>>

\* A walk starts at the anchor.
WalkFrom == IF pc = "wait" THEN prev' = Anchor /\ work' = next[Anchor]
                           ELSE UNCHANGED <<prev, work>>

Signal(t) ==
    /\ cpc[t] = "signal"
    /\ IF cwork[t] \in attach THEN signal_update /\ WalkFrom ELSE UNCHANGED task
    /\ Return(t)
    /\ UNCHANGED <<list, delayed, due, timer, owed>>

\* schedule_delayed_work up to the unlock; a delay of 0 is due at once.
ScheduleDelayedWork(t, w, zero) ==
    /\ MayCall(t)
    /\ add_work(w)
    /\ delayed' = delayed \cup {w}
    /\ due' = IF zero THEN due \cup {w} ELSE due \ {w}
    /\ cpc' = [cpc EXCEPT ![t] = "check"]
    /\ cwork' = [cwork EXCEPT ![t] = w]
    /\ owed' = owed \cup {w}
    /\ UNCHANGED <<timer, task>>

\* "Start timer if not running."
CheckTimer(t) ==
    /\ cpc[t] = "check"
    /\ \/ max /\ Return(t)
       \/ ~max /\ Goto(t, "start")
    /\ UNCHANGED <<list, delayed, due, timer, task, owed>>

\* ksz_start_timer, without info->lock.
StartTimer(t) ==
    /\ \/ cpc[t] = "start"     /\ ticking' = TRUE /\ Goto(t, "start_max") /\ UNCHANGED <<max, fd>>
       \/ cpc[t] = "start_max" /\ max' = TRUE /\ Goto(t, "start_fd") /\ UNCHANGED <<fd, ticking>>
       \/ cpc[t] = "start_fd"  /\ fd' = TRUE /\ Return(t) /\ UNCHANGED <<max, ticking>>
    /\ UNCHANGED <<list, delayed, due, task, owed>>

-----------------------------------------------------------------------------
(***************************************************************************)
(* ScheduleTask.                                                           *)
(***************************************************************************)
\* Mutant: a wait without a timeout.
WaitTimeout_never ==
    /\ FALSE
    /\ UNCHANGED vars

\* pthread_cond_timedwait returns after two seconds.
WaitTimeout ==
    /\ pc = "wait"
    /\ signal_update /\ WalkFrom
    /\ UNCHANGED <<list, delayed, due, timer, call, owed>>

EndOfList ==
    /\ pc = "walk" /\ work = NULL
    /\ pc' = "wait"
    /\ UNCHANGED <<list, delayed, due, timer, prev, work, call, owed>>

Skip ==
    /\ pc = "walk" /\ work # NULL
    /\ work \in delayed \ due
    /\ prev' = work
    /\ work' = next[work]
    /\ UNCHANGED <<list, delayed, due, timer, pc, call, owed>>

Pop ==
    /\ pc = "walk" /\ work # NULL
    /\ work \notin delayed \ due
    /\ next' = [next EXCEPT ![prev] = next[work], ![work] = NULL]
    /\ attach' = attach \ {work}
    /\ owed' = owed \ {work}
    /\ last' = IF last = work THEN prev ELSE last
    /\ pc' = IF last = work /\ prev = Anchor /\ work \in delayed THEN "stop" ELSE "run"
    /\ delayed' = delayed \ {work}
    /\ due' = due \ {work}
    /\ UNCHANGED <<timer, prev, work, call>>

\* ksz_stop_timer, under info->lock.
StopTimer ==
    /\ \/ pc = "stop" /\ max /\ ticking' = FALSE /\ pc' = "stop_max" /\ UNCHANGED <<max, fd>>
       \/ pc = "stop" /\ ~max /\ pc' = "run" /\ UNCHANGED timer
       \/ pc = "stop_max" /\ max' = FALSE /\ pc' = "stop_fd" /\ UNCHANGED <<fd, ticking>>
       \/ pc = "stop_fd" /\ fd' = FALSE /\ pc' = "run" /\ UNCHANGED <<max, ticking>>
    /\ UNCHANGED <<list, delayed, due, prev, work, call, owed>>

\* Mutant: attach is cleared when the function returns.
Finish_detaches ==
    /\ pc = "run"
    /\ cpc[Task] = "idle"
    /\ work' = next[prev]
    /\ pc' = "walk"
    /\ attach' = attach \ {work}
    /\ UNCHANGED <<next, last, delayed, due, timer, prev, call, owed>>

\* The function of the work returns; what it schedules are calls of Task.
Finish ==
    /\ pc = "run"
    /\ cpc[Task] = "idle"
    /\ work' = next[prev]
    /\ pc' = "walk"
    /\ UNCHANGED <<list, delayed, due, timer, prev, call, owed>>

-----------------------------------------------------------------------------
\* TimerTask polls the timer and runs delayed_timer_func.
Tick ==
    /\ ticking /\ fd
    /\ signal_update /\ WalkFrom
    /\ UNCHANGED <<list, delayed, due, timer, call, owed>>

\* Time passes.
BecomeDue(w) ==
    /\ w \in attach \cap delayed
    /\ due' = due \cup {w}
    /\ UNCHANGED <<list, delayed, timer, task, call, owed>>

\* init_work on a work that may be in the list (init_ptp_port_profile).
InitWork(w) ==
    /\ next' = [next EXCEPT ![w] = NULL]
    /\ attach' = attach \ {w}
    /\ UNCHANGED <<last, delayed, due, timer, task, call, owed>>

Steps(t) == Signal(t) \/ CheckTimer(t) \/ StartTimer(t)
Calls(t) ==
    \E w \in Work :
        ScheduleWork(t, w) \/ \E zero \in BOOLEAN : ScheduleDelayedWork(t, w, zero)
ScheduleTask == WaitTimeout \/ EndOfList \/ Skip \/ Pop \/ StopTimer \/ Finish

Next ==
    \/ \E t \in Thread : Calls(t) \/ Steps(t)
    \/ ScheduleTask
    \/ Tick
    \/ \E w \in Work : BecomeDue(w)

Spec == Init /\ [][Next]_vars

-----------------------------------------------------------------------------
(* Types of the variables. *)
CallStep == {"idle", "signal", "check", "start", "start_max", "start_fd"}
TypeOK ==
    /\ next \in [Node -> Work \cup {NULL}]
    /\ last \in Node
    /\ attach \in SUBSET Work /\ owed \in SUBSET Work
    /\ delayed \in SUBSET Work /\ due \in SUBSET Work
    /\ max \in BOOLEAN /\ fd \in BOOLEAN /\ ticking \in BOOLEAN
    /\ pc \in {"wait", "walk", "stop", "stop_max", "stop_fd", "run"}
    /\ prev \in Node /\ work \in Work \cup {NULL}
    /\ cpc \in [Thread -> CallStep]
    /\ cwork \in [Thread -> Work \cup {NULL}]

(***************************************************************************)
(* No request is lost and none is served twice: a work is in the list from *)
(* the first request until its function starts, also when it is requested  *)
(* while the function runs (ScheduleTask clears attach before it calls the *)
(* function).                                                              *)
(***************************************************************************)
RequestIsQueued == owed = attach

(***************************************************************************)
(* attach tells the truth about the list, and info->last is its end: what  *)
(* add_work appends behind last is reached from the anchor, and a work     *)
(* that is not attached is not in the list ("Not already scheduled").      *)
(***************************************************************************)
Linked == attach \cup {Anchor}
NextIsLinked == \A n \in Linked : next[n] # NULL => next[n] \in attach
OnePredecessor == \A n, m \in Linked : next[n] # NULL /\ next[n] = next[m] => n = m
LastIsEnd == last \in Linked /\ \A n \in Linked : next[n] = NULL <=> n = last
FreeHasNoNext == \A w \in Work \ attach : next[w] = NULL
ListIsSound == NextIsLinked /\ OnePredecessor /\ LastIsEnd /\ FreeHasNoNext

(***************************************************************************)
(* The place where ScheduleTask is stays valid while callers append and    *)
(* while the function of a work schedules works: prev is in the list, and  *)
(* the work that is removed next is its successor.                         *)
(***************************************************************************)
PlaceIsSound ==
    pc # "wait" =>
        /\ prev \in Linked
        /\ pc = "walk" /\ work # NULL => next[prev] = work

(***************************************************************************)
(* The list has no cycle and nothing hangs beside it: the works reachable  *)
(* from the anchor are the attached ones.                                  *)
(***************************************************************************)
Closed(S) == \A n \in S : next[n] # NULL => next[n] \in S
AllReachable == \A S \in SUBSET Node : Anchor \in S /\ Closed(S) => attach \subseteq S

(***************************************************************************)
(* While a delayed work waits and nobody is about to start or stop it, the *)
(* 1 ms timer runs and is polled (schedule_delayed_work: "Start timer if   *)
(* not running").                                                          *)
(***************************************************************************)
TimerServes ==
    /\ attach \cap delayed # {}
    /\ LockFree
    /\ \A t \in Thread : cpc[t] \in {"idle", "signal"}
    => ticking /\ fd

-----------------------------------------------------------------------------
(***************************************************************************)
(* Liveness.  Threads make progress, the timed wait times out, time        *)
(* passes.  The wake-ups themselves are not assumed: they may be lost.     *)
(***************************************************************************)
Fairness ==
    /\ WF_vars(ScheduleTask)
    /\ \A t \in Thread : WF_vars(Steps(t))
    /\ \A w \in Work : WF_vars(BecomeDue(w))

(***************************************************************************)
(* Every request is served once the callers leave the works alone, even    *)
(* when every wake-up is lost: the two second timeout of signal_long_wait  *)
(* finds what a lost signal or an unpolled timer left in the list.         *)
(***************************************************************************)
NoCall == \A t \in Thread : cpc[t] = "idle" => cpc'[t] = "idle"
Drains == <>[][NoCall]_vars => <>[](owed = {})

(***************************************************************************)
(* The schedule system implements its abstract specification: ScheduleTask *)
(* runs one function at a time, and only functions that were requested.    *)
(***************************************************************************)
Running == IF pc \in {"stop", "stop_max", "stop_fd", "run"} THEN work ELSE NULL
Requests == INSTANCE WorkRequests WITH pending <- owed, running <- Running
ImplementsRequests == Requests!Spec
=============================================================================
