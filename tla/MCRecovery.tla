----------------------------- MODULE MCRecovery -----------------------------
(* LossRecovery and CongestionControl for TLC, one at a time: loss recovery  *)
(* as it is by default, the same with speculative probes, and the congestion *)
(* controllers.                                                              *)
EXTENDS LossRecovery

VARIABLES
  part,   \* what takes steps: "default", "speculative" or "congestion"
  c_cc, c_net

DefaultRtts == {[rtt |-> 1, pto |-> 2]}

Speculative == INSTANCE LossRecovery WITH NumSpeculativePtos <- 1, MaxPn <- 3

Controllers == {"reno", "pico", "cubic", "cuback", "legacy"}

\* From any controller to any other, but for the two switches that do not leave
\* behind what the new controller needs: reno to pico (IntervalInitialised) and
\* reno to cuback (a bandwidth for Rapid Start's recovery).
SafeSwitches == (Controllers \X Controllers) \ {<<"reno", "pico">>, <<"reno", "cuback">>}

\* Four packets are enough for a loss, an undo and another loss; the windows are
\* those of a connection near its minimum.
Congestion == INSTANCE CongestionControl WITH
  Types <- Controllers, Switches <- SafeSwitches,
  MaxPn <- 4, MaxMarks <- 1, MaxCwnd <- 10, InitCwnd <- 4, MinCwnd <- 2, JumpCwnds <- {9},
  RapidStart <- BOOLEAN, Abba <- TRUE, L4s <- TRUE, cc <- c_cc, net <- c_net

ASSUME Congestion!CongestionAssumption

AllVars == <<part, vars, c_cc, c_net>>
AllInit ==
  /\ part \in {"default", "speculative", "congestion"}
  /\ Init /\ (part = "congestion" => conn.cwnd = 1 /\ ~conn.send_probe)
  /\ IF part = "congestion" THEN Congestion!Init ELSE c_cc = 0 /\ c_net = 0
AllNext ==
  \/ part = "default" /\ Next /\ UNCHANGED <<part, c_cc, c_net>>
  \/ part = "speculative" /\ Speculative!Next /\ UNCHANGED <<part, c_cc, c_net>>
  \/ part = "congestion" /\ Congestion!Next /\ UNCHANGED <<part, vars>>
AllSpec == AllInit /\ [][AllNext]_AllVars

-----------------------------------------------------------------------------
(* Properties: BooksBalance, NoDataForgotten and LostOnlyBehindAck of        *)
(* LossRecovery, and these.                                                  *)

\* Unless probes are sent speculatively, the assertions of quicly_loss_detect_loss
\* and of SET_ALARM hold: what is not declared lost is not yet due, and after
\* sending the alarm is in the future.
AlarmsAhead == part = "default" => AlarmsInFuture

\* The controllers keep their books through losses, CE marks, undo and every
\* switch but reno to pico and reno to cuback (pico_on_lost, pico_on_late_ack,
\* switch_to, quicly_cc__update_ecn_episodes).
ControllersSound == part = "congestion" => Congestion!ControllersSound
=============================================================================
