----------------------------- MODULE BmcaProofs -----------------------------
(***************************************************************************)
(* Facts about the operators of Bmca, for all data sets and tables.        *)
(***************************************************************************)
EXTENDS Bmca, TLAPS

\* A foreign master table, with what Bmca needs of its entries.
Table == [Slot -> [valid : BOOLEAN, cnt : Nat, dataset : Dataset]]

-----------------------------------------------------------------------------
LEMMA SlotIs == Slot = {1, 2}
BY DEF Slot, MAX_FOREIGN_MASTERS

\* The lexicographic order of the attributes, spelled out.
LEMMA KeyLessIs ==
    ASSUME NEW k \in Key, NEW l \in Key
    PROVE  KeyLess(k, l) <=>
              \/ k[1] < l[1]
              \/ k[1] = l[1] /\ k[2] < l[2]
              \/ k[1] = l[1] /\ k[2] = l[2] /\ k[3] < l[3]
              \/ k[1] = l[1] /\ k[2] = l[2] /\ k[3] = l[3] /\ k[4] < l[4]
              \/ k[1] = l[1] /\ k[2] = l[2] /\ k[3] = l[3] /\ k[4] = l[4] /\ k[5] < l[5]
<1>1. 1..KeyLen = {1, 2, 3, 4, 5}
  BY DEF KeyLen
<1>2. /\ 1..(1 - 1) = {} /\ 1..(2 - 1) = {1} /\ 1..(3 - 1) = {1, 2}
      /\ 1..(4 - 1) = {1, 2, 3} /\ 1..(5 - 1) = {1, 2, 3, 4}
  OBVIOUS
<1>. QED  BY <1>1, <1>2 DEF KeyLess

LEMMA KeyOrder ==
    ASSUME NEW k \in Key, NEW l \in Key
    PROVE  /\ KeyLess(k, l) \/ KeyLess(l, k) \/ k = l
           /\ ~(KeyLess(k, l) /\ KeyLess(l, k))
           /\ k = l => ~KeyLess(k, l)
<1>1. \A i \in {1, 2, 3, 4, 5} : k[i] \in Nat /\ l[i] \in Nat
  BY DEF Key, KeyLen
<1>2. (\A i \in {1, 2, 3, 4, 5} : k[i] = l[i]) => k = l
  <2>1. 1..KeyLen = {1, 2, 3, 4, 5}
    BY DEF KeyLen
  <2>2. k = [i \in 1..KeyLen |-> k[i]] /\ l = [i \in 1..KeyLen |-> l[i]]
    BY DEF Key
  <2>. QED  BY <2>1, <2>2
<1>. QED  BY <1>1, <1>2, KeyLessIs

LEMMA PortIdOrder ==
    ASSUME NEW x \in PortId, NEW y \in PortId
    PROVE  /\ PortIdLess(x, y) \/ PortIdLess(y, x) \/ x = y
           /\ ~(PortIdLess(x, y) /\ PortIdLess(y, x))
           /\ x = y => ~PortIdLess(x, y)
BY DEF PortId, PortIdLess

-----------------------------------------------------------------------------
(***************************************************************************)
(* The comparison is antisymmetric: which of two data sets bmca_better     *)
(* prefers, and whether by the path, does not depend on which is A and     *)
(* which is B.  So it does not matter in which order the entries of a      *)
(* table or the ports of the clock are compared.                           *)
(***************************************************************************)
LEMMA PathAntisymmetric ==
    ASSUME NEW a \in Dataset, NEW b \in Dataset
    PROVE  bmca_better_path(a, b) = -bmca_better_path(b, a)
<1>. USE DEF A_BETTER, A_BETTER_PATH, B_BETTER, B_BETTER_PATH, SAME
<1>1. /\ a.steps \in Nat /\ b.steps \in Nat
      /\ a.tx \in PortId /\ a.rx \in PortId /\ b.tx \in PortId /\ b.rx \in PortId
      /\ a.rx.port \in Nat /\ b.rx.port \in Nat
  BY DEF Dataset, PortId
<1>2. CASE a.steps + 1 < b.steps \/ b.steps + 1 < a.steps
  BY <1>1, <1>2 DEF bmca_better_path
<1>3. CASE a.steps + 1 = b.steps
  BY <1>1, <1>3, PortIdOrder DEF bmca_better_path
<1>4. CASE b.steps + 1 = a.steps
  BY <1>1, <1>4, PortIdOrder DEF bmca_better_path
<1>5. CASE a.steps = b.steps
  BY <1>1, <1>5, PortIdOrder DEF bmca_better_path
<1>. QED  BY <1>1, <1>2, <1>3, <1>4, <1>5

THEOREM Antisymmetric ==
    ASSUME NEW a \in Dataset \cup {NULL}, NEW b \in Dataset \cup {NULL}
    PROVE  bmca_better(a, b) = -bmca_better(b, a)
<1>. USE NullAssumption DEF A_BETTER, B_BETTER, SAME
<1>1. CASE a = b \/ a = NULL \/ b = NULL
  BY <1>1 DEF bmca_better
<1>2. CASE a # b /\ a # NULL /\ b # NULL /\ a.id = b.id
  BY <1>2, PathAntisymmetric DEF bmca_better
<1>3. CASE a # b /\ a # NULL /\ b # NULL /\ a.id # b.id
  <2>1. a.key \in Key /\ b.key \in Key /\ a.id \in Nat /\ b.id \in Nat
    BY <1>3 DEF Dataset, Clock
  <2>. QED  BY <1>3, <2>1, KeyOrder DEF bmca_better
<1>. QED  BY <1>1, <1>2, <1>3

LEMMA BetterType ==
    ASSUME NEW a \in Dataset \cup {NULL}, NEW b \in Dataset \cup {NULL}
    PROVE  bmca_better(a, b) \in -2..2
BY DEF bmca_better, bmca_better_path, A_BETTER, A_BETTER_PATH, B_BETTER, B_BETTER_PATH, SAME

\* Nothing is worse than NULL.
LEMMA BetterIsData ==
    ASSUME NEW a, NEW b \in Dataset \cup {NULL}, Better(a, b)
    PROVE  a # NULL
BY NullAssumption DEF Better, bmca_better, B_BETTER, SAME

LEMMA BetterThanNull ==
    ASSUME NEW a \in Dataset
    PROVE  Better(a, NULL)
BY NullAssumption DEF Better, bmca_better, A_BETTER

-----------------------------------------------------------------------------
LEMMA FindBestType ==
    ASSUME NEW masters
    PROVE  find_best_master(masters) \in Slot \cup {NoSlot}
BY SlotIs DEF find_best_master

LEMMA FindBestValid ==
    ASSUME NEW masters, NEW i \in Slot, i = find_best_master(masters)
    PROVE  masters[i].valid
<1>1. NoSlot \notin Slot
  BY SlotIs DEF NoSlot
<1>. QED  BY Zenon, <1>1 DEF find_best_master

LEMMA FindBestSome ==
    ASSUME NEW masters, NEW i \in Slot, masters[i].valid
    PROVE  find_best_master(masters) # NoSlot
<1>1. NoSlot # 1 /\ NoSlot # 2
  BY DEF NoSlot
<1>2. masters[1].valid \/ masters[2].valid
  BY Zenon, SlotIs
<1>. QED  BY Zenon, <1>1, <1>2 DEF find_best_master

(***************************************************************************)
(* find_best_master finds a valid entry whenever there is one, and no      *)
(* valid entry of the table is better than the one it finds.               *)
(***************************************************************************)
THEOREM FindsBest ==
    ASSUME NEW masters \in Table
    PROVE  LET i == find_best_master(masters)
           IN  /\ i = NoSlot <=> \A j \in Slot : ~masters[j].valid
               /\ i # NoSlot =>
                     /\ masters[i].valid
                     /\ \A j \in Slot : masters[j].valid =>
                           ~Better(masters[j].dataset, masters[i].dataset)
<1>1. /\ masters[1].valid \in BOOLEAN /\ masters[2].valid \in BOOLEAN
      /\ masters[1].dataset \in Dataset /\ masters[2].dataset \in Dataset
  BY SlotIs DEF Table
<1>2. \A j \in Slot : ~Better(masters[j].dataset, masters[j].dataset)
  BY DEF Better, bmca_better, SAME
<1>3. Better(masters[2].dataset, masters[1].dataset) =>
        ~Better(masters[1].dataset, masters[2].dataset)
  BY <1>1, Antisymmetric, BetterType DEF Better
<1>. QED  BY <1>1, <1>2, <1>3, SlotIs DEF find_best_master, NoSlot
=============================================================================
