--------------------------- MODULE MCNodeThreads ---------------------------
(* Instances of NodeThreads for TLC; bounds are in the configurations.     *)
EXTENDS NodeThreads
=============================================================================
