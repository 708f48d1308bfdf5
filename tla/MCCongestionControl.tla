------------------------ MODULE MCCongestionControl ------------------------
(* CongestionControl for TLC, with the switch that leaves reno's undo        *)
(* information to pico.                                                      *)
EXTENDS CongestionControl

RenoToPico == {<<"reno", "pico">>}
=============================================================================
