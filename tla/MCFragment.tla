----------------------------- MODULE MCFragment -----------------------------
(* Instances of Fragment for TLC; all constants are given by the .cfg.     *)
EXTENDS Fragment
=============================================================================
