---------------------------- MODULE MCCidExchange ----------------------------
(* CidExchange for TLC. *)
EXTENDS CidExchange, TLC
=============================================================================
