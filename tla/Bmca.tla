-------------------------------- MODULE Bmca --------------------------------
(***************************************************************************)
(* The best master clock algorithm of the PTP stack (ptp_bmca.c) as pure   *)
(* operators: the comparison of two data sets, the choice of the best      *)
(* entry of a port's foreign master table, the slot an Announce goes to    *)
(* and the state recommended for a port.                                   *)
(*                                                                         *)
(* A data set (struct bmc_dataset) is a record.  Its field key holds the   *)
(* attributes compared before the clock identity, in the order in which    *)
(* bmca_better compares them: <<prio_1, clockClass, clockAccuracy,         *)
(* offsetScaledLogVariance, prio_2>>.  Identities are numbers, compared as *)
(* memcmp compares the bytes.                                              *)
(***************************************************************************)
EXTENDS Integers, Sequences

CONSTANT NULL   \* the null pointer to a data set

Clock == Nat
PortId == [clock : Nat, port : Nat]
KeyLen == 5
Key == [1..KeyLen -> Nat]

Dataset == [key : Key, id : Clock, steps : Nat, tx : PortId, rx : PortId]

ASSUME NullAssumption == NULL \notin Dataset

A_BETTER_PATH == 2
A_BETTER      == 1
SAME          == 0
B_BETTER      == -1
B_BETTER_PATH == -2

(***************************************************************************)
(* memcmp of two port identities, and of the attributes of two data sets.  *)
(***************************************************************************)
PortIdLess(x, y) ==
    \/ x.clock < y.clock
    \/ x.clock = y.clock /\ x.port < y.port

KeyLess(k, l) ==
    \E i \in 1..KeyLen : k[i] < l[i] /\ \A j \in 1..(i - 1) : k[j] = l[j]

(***************************************************************************)
(* Two data sets of the same grandmaster: the shorter path, and among      *)
(* paths that differ by at most one step the identities of the ports.      *)
(***************************************************************************)
bmca_better_path(a, b) ==
    CASE a.steps + 1 < b.steps -> A_BETTER
      [] b.steps + 1 < a.steps -> B_BETTER
      [] a.steps + 1 = b.steps ->
            CASE PortIdLess(b.rx, b.tx) -> A_BETTER
              [] PortIdLess(b.tx, b.rx) -> A_BETTER_PATH
              [] OTHER -> SAME
      [] b.steps + 1 = a.steps ->
            CASE PortIdLess(a.rx, a.tx) -> B_BETTER
              [] PortIdLess(a.tx, a.rx) -> B_BETTER_PATH
              [] OTHER -> SAME
      [] OTHER ->
            CASE PortIdLess(a.tx, b.tx) -> A_BETTER_PATH
              [] PortIdLess(b.tx, a.tx) -> B_BETTER_PATH
              [] a.tx = b.tx /\ a.rx.port < b.rx.port -> A_BETTER_PATH
              [] a.tx = b.tx /\ b.rx.port < a.rx.port -> B_BETTER_PATH
              [] OTHER -> SAME

(***************************************************************************)
(* The code compares pointers first; two pointers to equal contents        *)
(* compare as SAME as well, so equality of the records is enough here.     *)
(***************************************************************************)
bmca_better(a, b) ==
    CASE a = b -> SAME
      [] a # b /\ b = NULL -> A_BETTER
      [] a # b /\ a = NULL -> B_BETTER
      [] OTHER ->
            IF a.id = b.id THEN bmca_better_path(a, b)
            ELSE IF \/ KeyLess(a.key, b.key)
                    \/ a.key = b.key /\ a.id < b.id
                 THEN A_BETTER
                 ELSE B_BETTER

Better(a, b) == bmca_better(a, b) > 0

(***************************************************************************)
(* The foreign master table of a port.  An entry with cnt = 0 is free; a   *)
(* valid one has been announced often enough to be considered.  Pointers   *)
(* into the table are indices, 0 is the null pointer.                      *)
(***************************************************************************)
MAX_FOREIGN_MASTERS == 2
Slot == 1..MAX_FOREIGN_MASTERS
NoSlot == 0

find_best_master(masters) ==
    IF masters[2].valid
       /\ (masters[1].valid => Better(masters[2].dataset, masters[1].dataset))
    THEN 2
    ELSE IF masters[1].valid THEN 1 ELSE NoSlot

Known(masters, ds, i) == masters[i].cnt > 0 /\ masters[i].dataset.tx = ds.tx

\* Mutant: a free first entry is taken before the second one is looked at.
find_foreign_master_first_free(masters, ds) ==
    IF masters[1].cnt = 0 \/ Known(masters, ds, 1) THEN 1
    ELSE IF masters[2].cnt = 0 \/ Known(masters, ds, 2) THEN 2
    ELSE NoSlot

\* The entry of the sender of ds, else the first free one, else none.
find_foreign_master(masters, ds) ==
    IF Known(masters, ds, 1) THEN 1
    ELSE IF Known(masters, ds, 2) THEN 2
    ELSE IF masters[1].cnt = 0 THEN 1
    ELSE IF masters[2].cnt = 0 THEN 2
    ELSE NoSlot

(***************************************************************************)
(* Port states, and the one recommended for port p: class is the clock's   *)
(* own clockClass, own its data set with tx.port = p, clock_best the best  *)
(* data set of all ports when it beats own and NULL otherwise, best_port   *)
(* the port it came from (0 for none), port_best the best data set of p.   *)
(***************************************************************************)
State == {"INIT", "INITIALIZING", "FAULTY", "DISABLED", "LISTENING",
          "PRE_MASTER", "MASTER", "PASSIVE", "UNCALIBRATED", "SLAVE"}

port_can_accept_announce(class, own, port_best) ==
    class > 127 /\ (port_best # NULL => own.id # port_best.id)

\* Mutant: every port that can follows, not only the one of the best master.
bmca_decision_any_port(class, own, clock_best, best_port, p, port_best, state) ==
    IF port_best = NULL /\ state \in {"LISTENING", "FAULTY"} THEN state
    ELSE IF ~port_can_accept_announce(class, own, port_best)
         THEN IF Better(own, port_best) THEN "MASTER" ELSE "PASSIVE"
    ELSE IF class # 255 /\ Better(own, clock_best) THEN "MASTER"
    ELSE IF best_port # 0 THEN "SLAVE"
    ELSE IF state = "FAULTY" THEN "FAULTY" ELSE "LISTENING"

bmca_decision(class, own, clock_best, best_port, p, port_best, state) ==
    IF port_best = NULL /\ state \in {"LISTENING", "FAULTY"} THEN state
    ELSE IF ~port_can_accept_announce(class, own, port_best)
         THEN IF Better(own, port_best) THEN "MASTER" ELSE "PASSIVE"
    ELSE IF class # 255 /\ Better(own, clock_best) THEN "MASTER"
    ELSE IF best_port = p THEN "SLAVE"
    ELSE IF best_port = 0
         THEN IF state = "FAULTY" THEN "FAULTY" ELSE "LISTENING"
    ELSE IF bmca_better(clock_best, port_best) = A_BETTER_PATH
         THEN "PASSIVE"
         ELSE "PRE_MASTER"
=============================================================================
