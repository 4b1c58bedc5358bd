---------------------------- MODULE MCOrderSaga ----------------------------
(***************************************************************************)
(* OrderSaga for TLC.  The orders of one run share nothing but the reaper  *)
(* and the budget of disturbances, so one order reaches every behaviour of *)
(* a saga.                                                                 *)
(***************************************************************************)
EXTENDS OrderSaga, TLC
=============================================================================
