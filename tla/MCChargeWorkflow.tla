-------------------------- MODULE MCChargeWorkflow --------------------------
(***************************************************************************)
(* ChargeWorkflow for TLC.  The charge activity of today decides at once;  *)
(* the workflow is written, and tested, for one that may also be pending.  *)
(***************************************************************************)
EXTENDS ChargeWorkflow

AnyDecision == [outcome : Outcome, pending : BOOLEAN]
=============================================================================
