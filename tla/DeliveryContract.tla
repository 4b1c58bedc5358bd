-------------------------- MODULE DeliveryContract --------------------------
(***************************************************************************)
(* What the shared consumer promises a handler of one partition: messages  *)
(* take effect in the order of the log, a repeated event not again, and    *)
(* none is passed over: what has no effect is buried, with a dead letter   *)
(* if one can be written.  Messages from before the group began are not    *)
(* promised; until it has committed an offset, a group may begin later.    *)
(***************************************************************************)
EXTENDS Integers, Sequences

CONSTANT Events

VARIABLES
  log,      \* event ids of the partition's messages
  applied,  \* event ids whose effect is committed, in that order
  buried,   \* places in the log that were given up
  origin,   \* messages below the place where the group began
  kept      \* has an offset been committed?

vars == <<log, applied, buried, origin, kept>>

Applied(e) == \E i \in DOMAIN applied : applied[i] = e
Settled(k) == Applied(log[k]) \/ k \in buried
UpTo(k) == \A j \in origin + 1 .. k : Settled(j)

Init ==
  /\ log = <<>>
  /\ applied = <<>>
  /\ buried = {}
  /\ origin = 0
  /\ kept = FALSE

Publish ==
  /\ \E e \in Events : log' = Append(log, e)
  /\ UNCHANGED <<applied, buried, origin, kept>>

Apply(k) ==
  /\ UpTo(k - 1) /\ ~Applied(log[k])
  /\ applied' = Append(applied, log[k])
  /\ UNCHANGED <<log, buried, origin, kept>>

Bury(k) ==
  /\ UpTo(k - 1)
  /\ buried' = buried \cup {k}
  /\ UNCHANGED <<log, applied, origin, kept>>

Begin ==
  /\ ~kept
  /\ origin' \in origin .. Len(log)
  /\ UNCHANGED <<log, applied, buried, kept>>

Commit ==
  /\ kept' = TRUE
  /\ UNCHANGED <<log, applied, buried, origin>>

Next == Publish \/ Begin \/ Commit \/ \E k \in DOMAIN log : Apply(k) \/ Bury(k)

Spec == Init /\ [][Next]_vars
=============================================================================
