---------------------------- MODULE MCInventory ----------------------------
(***************************************************************************)
(* Inventory for TLC: two orders compete for two items.  The last unit of  *)
(* item 2 goes to one of them, so a reservation may fail after it took     *)
(* item 1; a second attempt for o1 fails at item 1 and one for o2 at the   *)
(* unique index.                                                           *)
(***************************************************************************)
EXTENDS Inventory, TLC

CONSTANTS o1, o2

TwoOrders == {o1, o2}
TwoItems == 1 .. 2
ScarceStock == [i \in TwoItems |-> IF i = 1 THEN 3 ELSE 1]
TwoNeeds ==
  [o \in TwoOrders |-> [i \in TwoItems |-> IF o = o1 THEN (IF i = 1 THEN 2 ELSE 1)
                                           ELSE 1]]

OneOrder == {o1}
OneNeed == [o \in OneOrder |-> TwoNeeds[o]]

CallSymmetry == Permutations(Calls)

\* Liveness rules symmetry out: a choice of kinds is taken in one order only.
ThreeCalls == 1 .. 3

Sorted(c) == \A d \in Calls : c < d => call[c].kind = "RESERVE" \/ call[d].kind = "RELEASE"

SortedInit == Init /\ \A c \in Calls : Sorted(c)

SortedSpec == SortedInit /\ [][Next]_vars /\ Fairness
=============================================================================
