------------------------------- MODULE MCAcks -------------------------------
(* Instances of Acks for TLC; the bounds are given in the configurations.  *)
EXTENDS Acks
=============================================================================
