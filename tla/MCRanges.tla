------------------------------ MODULE MCRanges ------------------------------
(* Ranges for TLC. *)
EXTENDS Ranges
=============================================================================
