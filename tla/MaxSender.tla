----------------------------- MODULE MaxSender -----------------------------
(***************************************************************************)
(* quicly_maxsender_t (maxsender.h): what an endpoint keeps of a value that *)
(* only grows and that the peer has to learn of, be it a limit (MAX_DATA,   *)
(* MAX_STREAM_DATA, MAX_STREAMS) or the limit it is blocked at              *)
(* (STREAMS_BLOCKED).                                                       *)
(***************************************************************************)
EXTENDS Integers

MaxSenderInit(value) ==
  [committed |-> value, acked |-> value, lost |-> FALSE,
   remote_blocked |-> FALSE]

MaxSenders(values) ==
  [committed : values, acked : values, lost : BOOLEAN,
   remote_blocked : BOOLEAN]

\* the peer says it is blocked at `at`
MaxSenderBlocked(m, at) ==
  IF at # m.committed THEN m
  ELSE [m EXCEPT !.acked = m.committed, !.lost = FALSE,
                 !.remote_blocked = TRUE]

\* `ratio` is in 1/1024; a window that the peer has nearly used up is
\* announced at once, in steps that double
MaxSenderShouldSendMax(m, from, consumed, window, ratio) ==
  \/ m.lost
  \/ /\ from + window > m.committed
     /\ m.remote_blocked \/ from + window - m.committed >= m.committed - consumed
  \/ m.committed <= from + (window * ratio) \div 1024

MaxSenderShouldSendBlocked(m, local_max) == m.lost \/ m.committed < local_max

\* the caller has value >= m.committed, which the code asserts
MaxSenderRecord(m, value) ==
  [m EXCEPT !.committed = value, !.lost = FALSE,
            !.remote_blocked = @ /\ value <= m.committed]

\* the frame that carried `value` is acknowledged, or deemed lost
MaxSenderAcked(m, value) ==
  LET acked == IF m.acked < value THEN value ELSE m.acked
  IN  [m EXCEPT !.acked = acked, !.lost = @ /\ acked # m.committed]

MaxSenderNeedsResend(m, value) == value = m.committed /\ m.acked # m.committed

MaxSenderLost(m, value) ==
  IF MaxSenderNeedsResend(m, value) THEN [m EXCEPT !.lost = TRUE] ELSE m
=============================================================================
