-------------------------- MODULE ReadModelContract --------------------------
(***************************************************************************)
(* What catalog promises those who read a restaurant: they see its         *)
(* versions in the order they were written, perhaps with some left out,    *)
(* and nothing of it once they saw that it is gone.                        *)
(***************************************************************************)
EXTENDS Integers

VARIABLES
  written,  \* the version last written
  deleted,  \* has it been deleted?
  told,     \* have readers been told of the deletion?
  shown     \* the version they see, 0 if none

vars == <<written, deleted, told, shown>>

Init ==
  /\ written = 1
  /\ deleted = FALSE
  /\ told = FALSE
  /\ shown = 0

Write ==
  /\ ~deleted
  /\ written' = written + 1
  /\ UNCHANGED <<deleted, told, shown>>

Delete ==
  /\ deleted' = TRUE
  /\ UNCHANGED <<written, told, shown>>

Show ==
  /\ ~told
  /\ shown' \in shown + 1 .. written
  /\ UNCHANGED <<written, deleted, told>>

\* A deletion that could not be projected leaves the restaurant in view.
Tell ==
  /\ deleted
  /\ told' = TRUE
  /\ shown' \in {0, shown}
  /\ UNCHANGED <<written, deleted>>

Next == Write \/ Delete \/ Show \/ Tell

Spec == Init /\ [][Next]_vars
=============================================================================
