----------------------------- MODULE MCDispatch -----------------------------
(* Instances of Dispatch for TLC; all constants are given by the .cfg.     *)
EXTENDS Dispatch
=============================================================================
