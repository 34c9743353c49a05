---------------------------- MODULE WorkRequests ----------------------------
(***************************************************************************)
(* What the schedule system promises its callers: one function runs at a   *)
(* time, it runs only when it has been requested, and one run serves all   *)
(* the requests made before it starts.                                     *)
(***************************************************************************)
CONSTANTS Work, NULL

VARIABLES
    pending,    \* works requested since they last started
    running     \* the work whose function runs, or NULL

vars == <<pending, running>>

Init == pending = {} /\ running = NULL

Request(w) ==
    /\ pending' = pending \cup {w}
    /\ UNCHANGED running

Start(w) ==
    /\ running = NULL
    /\ w \in pending
    /\ running' = w
    /\ pending' = pending \ {w}

Done ==
    /\ running # NULL
    /\ running' = NULL
    /\ UNCHANGED pending

Next == Done \/ \E w \in Work : Request(w) \/ Start(w)

Spec == Init /\ [][Next]_vars
=============================================================================
