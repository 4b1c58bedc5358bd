--------------------------- MODULE OrderContract ---------------------------
(***************************************************************************)
(* What checkout promises a customer, without saga, messages or stock: an  *)
(* order is charged at most once, only after it is reserved; it is         *)
(* confirmed only if the charge succeeded and cancelled only if nothing    *)
(* was charged.  A customer or restaurant who decides an order by hand     *)
(* decides for good, whatever comes of a charge already asked for.         *)
(***************************************************************************)
CONSTANT Orders

VARIABLES
  status,  \* what GET /orders/:id shows
  payment, \* "OPEN" until the charge is decided
  byHand   \* orders decided by hand

vars == <<status, payment, byHand>>

Init ==
  /\ status = [o \in Orders |-> "NONE"]
  /\ payment = [o \in Orders |-> "OPEN"]
  /\ byHand = {}

Place(o) ==
  /\ status[o] = "NONE"
  /\ status' = [status EXCEPT ![o] = "PENDING"]
  /\ UNCHANGED <<payment, byHand>>

Reserve(o) ==
  /\ status[o] = "PENDING"
  /\ status' = [status EXCEPT ![o] = "RESERVED"]
  /\ UNCHANGED <<payment, byHand>>

Charge(o) ==
  /\ payment[o] = "OPEN" /\ (status[o] = "RESERVED" \/ o \in byHand)
  /\ \E outcome \in {"SUCCEEDED", "DECLINED"} :
       payment' = [payment EXCEPT ![o] = outcome]
  /\ UNCHANGED <<status, byHand>>

Confirm(o) ==
  /\ status[o] = "RESERVED" /\ payment[o] = "SUCCEEDED"
  /\ status' = [status EXCEPT ![o] = "CONFIRMED"]
  /\ UNCHANGED <<payment, byHand>>

Cancel(o) ==
  /\ \/ status[o] = "PENDING" /\ payment[o] = "OPEN"
     \/ status[o] = "RESERVED" /\ payment[o] = "DECLINED"
  /\ status' = [status EXCEPT ![o] = "CANCELLED"]
  /\ UNCHANGED <<payment, byHand>>

DecideByHand(o) ==
  /\ \/ status[o] = "PENDING" /\ status' = [status EXCEPT ![o] = "CANCELLED"]
     \/ /\ status[o] = "RESERVED"
        /\ \E verdict \in {"CONFIRMED", "CANCELLED"} :
             status' = [status EXCEPT ![o] = verdict]
  /\ byHand' = byHand \cup {o}
  /\ UNCHANGED payment

Next ==
  \E o \in Orders :
    Place(o) \/ Reserve(o) \/ Charge(o) \/ Confirm(o) \/ Cancel(o) \/ DecideByHand(o)

Spec == Init /\ [][Next]_vars
=============================================================================
