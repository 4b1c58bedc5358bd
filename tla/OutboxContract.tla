--------------------------- MODULE OutboxContract ---------------------------
(***************************************************************************)
(* What a transactional outbox promises the consumers of its topic: only   *)
(* committed rows are produced, and a row not before all rows of its key   *)
(* that are older.  A row may be produced again at any time.  The order is *)
(* promised until something breaks the mutual exclusion of the relays.     *)
(***************************************************************************)
EXTENDS Integers, Sequences

VARIABLES
  rows,    \* rows committed to the outbox for one key, numbered by age
  log,     \* row numbers in the partition of that key
  ordered  \* is the order still promised?

vars == <<rows, log, ordered>>

Produced(i) == \E k \in DOMAIN log : log[k] = i

Init ==
  /\ rows = 0 /\ log = <<>>
  /\ ordered = TRUE

Commit ==
  /\ rows' = rows + 1
  /\ UNCHANGED <<log, ordered>>

Produce(i) ==
  /\ ordered => \A j \in 1 .. i - 1 : Produced(j)
  /\ log' = Append(log, i)
  /\ UNCHANGED <<rows, ordered>>

LoseExclusion ==
  /\ ordered' = FALSE
  /\ UNCHANGED <<rows, log>>

Next == Commit \/ LoseExclusion \/ \E i \in 1 .. rows : Produce(i)

Spec == Init /\ [][Next]_vars
=============================================================================
