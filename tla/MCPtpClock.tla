----------------------------- MODULE MCPtpClock -----------------------------
(***************************************************************************)
(* Instances of PtpClock for TLC: two ports, and Announces chosen so that  *)
(* masters better and worse than the clock itself, two paths to the same   *)
(* grandmaster, a grandmaster whose attributes change and a second sender  *)
(* on one port all occur.                                                  *)
(***************************************************************************)
EXTENDS PtpClock, TLC

ASSUME MCHeardAssumption == HeardIsGenuine

KeyOf(prio, class) == <<prio, class, 1, 1, 128>>
Good == KeyOf(100, 248)
Poor == KeyOf(200, 248)

Own248 == KeyOf(128, 248)

Ann(key, id, steps, clock, port) ==
    [key |-> key, id |-> id, steps |-> steps,
     tx |-> [clock |-> clock, port |-> port], looped |-> FALSE]

\* The same grandmaster 1 over two paths, and its attributes may get poor.
HeardTwoPaths == (1 :> {Ann(Good, 1, 0, 1, 1), Ann(Poor, 1, 0, 1, 1)})
              @@ (2 :> {Ann(Good, 1, 1, 2, 1)})

\* Port 2 is connected to port 1, which a neighbour also reaches.
HeardLoopAndMaster ==
    (1 :> {}) @@ (2 :> {Ann(Own248, 5, 0, 5, 1), Ann(Good, 1, 0, 1, 1)})

\* A grandmaster on each port, the better one on port 1.
HeardEach == (1 :> {Ann(Good, 1, 0, 1, 1)}) @@ (2 :> {Ann(Good, 3, 0, 3, 1)})

\* A single port with two senders, of which a timeout forgets one.
HeardTwoSenders == (1 :> {Ann(Good, 1, 0, 1, 1), Ann(Good, 2, 0, 2, 1)})

\* More senders on port 1 than its table has entries, and port 2 is connected to it.
HeardManySenders ==
    (1 :> {Ann(Good, 1, 0, 1, 1), Ann(Good, 2, 0, 2, 1), Ann(Poor, 3, 0, 3, 1)})
    @@ (2 :> {Ann(Own248, 5, 0, 5, 1)})

\* Only port 1, which has the shorter path, loses its link again.
SpecPath      == Init /\ [][\/ Announces \/ ClockStart \/ LinkDown(1)
                            \/ \E p \in Port : LinkUp(p)]_vars
SpecNoFault   == Init /\ [][Announces \/ Links \/ ClockStart]_vars
SpecNoRestart == Init /\ [][Announces \/ Links \/ Faults \/ ClockStart]_vars
SpecRestart   == Init /\ [][Announces \/ Links \/ Servos \/ ClockStop \/ ClockStart]_vars
SpecLive      == SpecNoRestart /\ WF_vars(ClockStart) /\ Fairness
=============================================================================
