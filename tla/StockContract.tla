--------------------------- MODULE StockContract ---------------------------
(***************************************************************************)
(* What inventory promises the order saga: a reservation takes everything  *)
(* an order needs or nothing, at most once until it is released, and a     *)
(* release gives exactly that back.  Locks, rows and transactions are the  *)
(* business of Inventory, which implements this.                           *)
(***************************************************************************)
EXTENDS Integers

CONSTANTS
  Items,
  Orders,
  Stock,  \* units on hand, per item
  Need    \* units an order asks for, per item

VARIABLES
  available,  \* units not reserved, per item
  held        \* orders whose stock is reserved

vars == <<available, held>>

Init ==
  /\ available = Stock
  /\ held = {}

Reserve(o) ==
  /\ o \notin held
  /\ \A i \in Items : available[i] >= Need[o][i]
  /\ available' = [i \in Items |-> available[i] - Need[o][i]]
  /\ held' = held \cup {o}

Release(o) ==
  /\ o \in held
  /\ available' = [i \in Items |-> available[i] + Need[o][i]]
  /\ held' = held \ {o}

Next == \E o \in Orders : Reserve(o) \/ Release(o)

Spec == Init /\ [][Next]_vars
=============================================================================
