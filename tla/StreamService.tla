---------------------------- MODULE StreamService ----------------------------
(***************************************************************************)
(* What a QUIC stream promises the two applications, without packets: the  *)
(* reader gets a growing prefix of what was written; it sees a clean end   *)
(* only after the whole of it, and a reset only if the stream was reset    *)
(* and after the bytes that a reliable reset commits to.                   *)
(***************************************************************************)
EXTENDS Naturals

CONSTANTS MaxWritten, None     \* None: no reset has been issued

VARIABLES
  written,      \* bytes the writer has written
  ended,        \* the writer has shut the stream down
  promise,      \* bytes a reset commits to deliver, None without a reset
  delivered,    \* bytes available to the reader, in order
  seen          \* the end that the reader was told of

vars == <<written, ended, promise, delivered, seen>>

Init == /\ written = 0 /\ ended = FALSE /\ promise = None
        /\ delivered = 0 /\ seen = "none"

Write == /\ ~ended /\ promise = None
         /\ written' \in written + 1 .. MaxWritten
         /\ UNCHANGED <<ended, promise, delivered, seen>>

End == /\ ~ended /\ promise = None
       /\ ended' = TRUE
       /\ UNCHANGED <<written, promise, delivered, seen>>

\* by the writer, reliably or not, or by the reader asking it to stop
Reset == /\ promise' \in IF promise = None THEN 0 .. written ELSE {0}
         /\ promise' # promise
         /\ UNCHANGED <<written, ended, delivered, seen>>

Deliver == /\ seen = "none"
           /\ delivered' \in delivered + 1 .. written
           /\ UNCHANGED <<written, ended, promise, seen>>

SeeEnd == /\ seen = "none" /\ ended
          /\ delivered' = written /\ seen' = "end"
          /\ UNCHANGED <<written, ended, promise>>

SeeReset == /\ seen = "none" /\ promise # None
            /\ delivered' \in delivered .. written /\ delivered' >= promise
            /\ seen' = "reset"
            /\ UNCHANGED <<written, ended, promise>>

Next == Write \/ End \/ Reset \/ Deliver \/ SeeEnd \/ SeeReset

Spec == Init /\ [][Next]_vars
=============================================================================
