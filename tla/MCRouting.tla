----------------------------- MODULE MCRouting -----------------------------
(* A small instance of Routing: three addresses, the hop bytes at both     *)
(* ends of the uint8_t range and the one an ARABA node sends.              *)
EXTENDS Routing
=============================================================================
