-------------------------- MODULE MCStreamTransfer --------------------------
(* StreamTransfer for TLC: with windows that hold the whole stream, so that  *)
(* its bytes overtake one another; with windows of one byte, so that every   *)
(* byte waits for credit; and with a receiver that keeps one range of a      *)
(* stream, so that a byte that comes before a lost one exhausts it.          *)
EXTENDS StreamTransfer, TLC

VARIABLE kind   \* which of the three

Tight == INSTANCE StreamTransfer WITH
           StreamWindow <- 1, ConnWindow <- 1
Wide == INSTANCE StreamTransfer WITH
          MaxFrames <- 2, MinMaxRanges <- 2, MaxRanges <- 2

AllInit ==
  /\ kind \in {"wide", "tight", "one_range"}
  /\ CASE kind = "wide" -> Wide!Init [] kind = "tight" -> Tight!Init
       [] kind = "one_range" -> Init
AllNext ==
  /\ CASE kind = "wide" -> Wide!Next [] kind = "tight" -> Tight!Next
       [] kind = "one_range" -> Next
  /\ UNCHANGED kind
AllSpec == AllInit /\ [][AllNext]_<<kind, vars>>

\* the error codes are interchangeable
CodeSymmetry == Permutations(Codes)

\* the history variables of SendState, and what its application has released,
\* which no guard reads and no property of the composition mentions, do not
\* tell states apart
WithoutHistory ==
  <<kind, acked, pending, size_inflight, final_size, app_error_code, reliable_size,
    eos_state, max_stream_data, written, frames, cache,
    recv_complete, alive, permitted, ended, net, arrived, receiver>>
=============================================================================
