--------------------------- MODULE ChargeContract ---------------------------
(***************************************************************************)
(* What payment promises the saga of one order: the charge is decided at   *)
(* most once, only when asked for, and every reply, first or repeated,     *)
(* tells that one verdict.                                                 *)
(***************************************************************************)
EXTENDS Sequences

VARIABLES
  asked,    \* has payment been told to charge?
  verdict,  \* what became of the charge
  told      \* the replies, in the order of their outbox rows

vars == <<asked, verdict, told>>

Verdict == {"SUCCEEDED", "DECLINED"}

Init ==
  /\ asked = FALSE
  /\ verdict = "OPEN"
  /\ told = <<>>

Ask ==
  /\ asked' = TRUE
  /\ UNCHANGED <<verdict, told>>

Decide ==
  /\ asked /\ verdict = "OPEN"
  /\ verdict' \in Verdict
  /\ UNCHANGED <<asked, told>>

Reply ==
  /\ verdict # "OPEN"
  /\ told' = Append(told, verdict)
  /\ UNCHANGED <<asked, verdict>>

Next == Ask \/ Decide \/ Reply

Spec == Init /\ [][Next]_vars
=============================================================================
