---------------------------- MODULE MCRecvState ----------------------------
(* RecvState for TLC. *)
EXTENDS RecvState
============================================================================
