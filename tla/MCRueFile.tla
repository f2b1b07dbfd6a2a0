----------------------------- MODULE MCRueFile -----------------------------
(* Instances of RueFile for TLC; the bounds are in the configurations.     *)
EXTENDS RueFile
=============================================================================
