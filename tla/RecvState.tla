------------------------------ MODULE RecvState ------------------------------
(***************************************************************************)
(* The receive side of one stream: quicly_recvstate_t (lib/recvstate.c),   *)
(* the frame handlers of lib/quicly.c that feed it, and the credit of the  *)
(* connection that the stream holds (ingress.max_data).  The peer sends    *)
(* any STREAM, RESET_STREAM and RESET_STREAM_AT frame, legal or not.       *)
(*                                                                         *)
(* received is the set of the bytes of quicly_bplus_ranges_t, which always *)
(* contains the empty range at zero.  The other streams of the connection  *)
(* are the credit they hold, as a number.                                  *)
(***************************************************************************)
EXTENDS Integers, FiniteSets

CONSTANTS
  Inf,            \* UINT64_MAX
  MaxOffset,      \* bound: offsets that frames of the stream carry
  Codes, NoCode,  \* application error codes, UINT64_MAX as one
  StreamWindow,   \* _recv_aux.window, the window of the stream
  ConnWindow,     \* transport_params.max_data, the window of the connection
  MinMaxRanges, MaxRanges, BytesPerRange,   \* as in bplus_ranges.c
  MaxConsumed     \* bound: credit of the connection ever consumed

ASSUME OffsetAssumption == /\ Inf \in Nat /\ MaxOffset \in Nat
                           /\ MaxOffset < Inf
ASSUME RecvCodeAssumption == NoCode \notin Codes
ASSUME WindowAssumption == /\ StreamWindow \in Nat /\ ConnWindow \in Nat
                           /\ MaxConsumed \in Nat
ASSUME RangesAssumption == /\ MinMaxRanges \in Nat /\ MaxRanges \in Nat
                           /\ BytesPerRange \in Nat \ {0}

VARIABLES
  received, data_off, eos, app_error_code,   \* quicly_recvstate_t
  max_stream_data,   \* max_stream_data_sender.committed
  bytes_consumed,    \* ingress.max_data
  bytes_shifted,
  max_data,          \* ingress.max_data.sender.committed
  other,             \* credit held by the other streams
  send_complete,     \* the send side is done, its marker delivered
  alive,             \* the stream has not been destroyed
  told,              \* how often the application saw the end of the stream
  error              \* the error that closes the connection

recvstate == <<received, data_off, eos, app_error_code>>
credit == <<bytes_consumed, bytes_shifted, max_data, other>>
vars == <<recvstate, max_stream_data, credit, send_complete, alive, told,
          error>>

Errors == {"none", "FINAL_SIZE", "FLOW_CONTROL", "STREAM_STATE",
           "STATE_EXHAUSTION"}

-----------------------------------------------------------------------------
Bytes(start, end) == {b \in 0 .. Inf : start <= b /\ b < end}

Larger(a, b) == IF a < b THEN b ELSE a
Smaller(a, b) == IF a < b THEN a ELSE b

\* received.first.ranges[0].end
PrefixEnd(set) ==
  CHOOSE n \in 0 .. Inf : n \notin set /\ \A b \in 0 .. n - 1 : b \in set

\* received.last->end
LastEnd(set) ==
  CHOOSE n \in 0 .. Inf : /\ \A b \in set : b < n
                          /\ n = 0 \/ n - 1 \in set

\* faulty: takes the end of the last range for that of the first
CompleteOf_PastGap(rcvd, end) == LastEnd(rcvd) >= end

\* quicly_recvstate_transfer_complete
CompleteOf(rcvd, end) == PrefixEnd(rcvd) >= end
TransferComplete == CompleteOf(received, eos)

\* faulty: hands out bytes beyond a gap
AvailableEnd_PastGap(rcvd, end) ==
  IF CompleteOf(rcvd, end) THEN end ELSE LastEnd(rcvd)

\* data_off plus quicly_recvstate_bytes_available
AvailableEnd(rcvd, end) ==
  IF CompleteOf(rcvd, end) THEN end ELSE PrefixEnd(rcvd)

\* quicly_recvstate_bytes_allocated
AllocatedOf(rcvd, end) ==
  IF end # Inf /\ end > LastEnd(rcvd) THEN end ELSE LastEnd(rcvd)
Allocated == AllocatedOf(received, eos)

\* received.num_ranges: the one at zero, and one after every gap
NumRanges(rcvd) == 1 + Cardinality({b \in rcvd : b > 0 /\ b - 1 \notin rcvd})

\* calc_max_ranges
MaxRangesOf(rcvd, committed) ==
  Smaller(MaxRanges,
          Larger(MinMaxRanges,
                 (committed - PrefixEnd(rcvd)) \div BytesPerRange + 1))

\* no further range may be added
RangesFull == NumRanges(received) >= MaxRangesOf(received, max_stream_data)

Init ==
  /\ received = {} /\ data_off = 0 /\ eos = Inf /\ app_error_code = NoCode
  /\ max_stream_data = StreamWindow
  /\ bytes_consumed = 0 /\ bytes_shifted = 0 /\ max_data = ConnWindow
  /\ other = 0
  /\ send_complete \in BOOLEAN     \* TRUE: a unidirectional stream
  /\ alive = TRUE /\ told = 0 /\ error = "none"

Running == error = "none"

Fail(err) ==
  /\ error' = err
  /\ UNCHANGED <<recvstate, max_stream_data, bytes_shifted, max_data, other,
                 send_complete, alive, told>>

-----------------------------------------------------------------------------
(* What the handlers do last *)

\* on_receive or on_receive_reset runs if called, the application shifts its
\* buffer by shift bytes in it (quicly_stream_sync_recvbuf), and the stream is
\* destroyed if it is done on both sides, which returns the credit of the
\* bytes the application has left.  released is what was returned before.
Settle(rcvd, end, called, shift, released) ==
  LET complete == CompleteOf(rcvd, end)
      destroyed == complete /\ send_complete
      allocated == AllocatedOf(rcvd, end)
  IN
  /\ shift <= AvailableEnd(rcvd, end) - data_off
  /\ shift > 0 => called
  /\ received' = rcvd /\ eos' = end
  /\ data_off' = data_off + shift
  /\ told' = IF complete /\ called THEN told + 1 ELSE told
  /\ alive' = ~destroyed
  /\ bytes_shifted' = bytes_shifted + released
       + (IF destroyed THEN allocated - data_off
          ELSE Smaller(shift, allocated - data_off))
  /\ UNCHANGED <<max_stream_data, max_data, other, send_complete, error>>

-----------------------------------------------------------------------------
(* STREAM frames: apply_stream_frame and quicly_recvstate_update *)

\* faulty: charges up to what has been received, not what is known to come
NewlyReceived_PastEos(end) ==
  IF app_error_code = NoCode /\ LastEnd(received) < end
  THEN end - LastEnd(received) ELSE 0

\* credit that the frame ending at end uses for the first time
NewlyReceived(end) ==
  IF app_error_code = NoCode /\ Allocated < end THEN end - Allocated ELSE 0

StreamFinalSizeError(end, fin) ==
  \/ eos = Inf /\ fin /\ end < LastEnd(received)
  \/ eos # Inf /\ end > eos /\ app_error_code = NoCode

\* the bytes of [off, end) that a stream ending at newEos takes in: those above
\* eos (of a stream that was reset) and below data_off are cut off
Taken(off, end, newEos) ==
  Bytes(Larger(off, data_off), Smaller(end, newEos))

\* the bytes neither overlap nor touch any range, so that they need one of
\* their own, and there is none (quicly_bplus_ranges_add)
StateExhausted(taken) ==
  /\ taken # {} /\ 0 \notin taken
  /\ \A b \in taken : {b - 1, b, b + 1} \cap received = {}
  /\ RangesFull

\* faulty: a FIN that brings no byte goes unnoticed
OnReceiveCalled_Data(taken, rcvd, newEos) == taken # {}

\* on_receive is called
OnReceiveCalled(taken, rcvd, newEos) == taken # {} \/ CompleteOf(rcvd, newEos)

ReceiveStream(off, len, fin, shift) ==
  LET end == off + len
      newEos == IF eos = Inf /\ fin THEN end ELSE eos
      taken == Taken(off, end, newEos)
      rcvd == received \cup taken
  IN
  /\ Running /\ alive /\ ~TransferComplete
  /\ end <= max_stream_data
  /\ bytes_consumed + NewlyReceived(end) <= max_data
  /\ ~StreamFinalSizeError(end, fin) /\ ~StateExhausted(taken)
  /\ bytes_consumed' = bytes_consumed + NewlyReceived(end)
  /\ UNCHANGED app_error_code
  /\ Settle(rcvd, newEos, OnReceiveCalled(taken, rcvd, newEos), shift, 0)

\* the frame is rejected; credit has been charged when its size is wrong or its
\* bytes find no range (the FIN that came with them has set eos then, which
\* nobody looks at any more: quicly_receive has the caller close the connection
\* or free it)
RejectStream(off, len, fin) ==
  LET end == off + len
      taken == Taken(off, end, IF eos = Inf /\ fin THEN end ELSE eos)
      newly == NewlyReceived(end)
      flowError == end > max_stream_data \/ bytes_consumed + newly > max_data
  IN
  /\ Running /\ alive /\ ~TransferComplete
  /\ \/ /\ flowError
        /\ Fail("FLOW_CONTROL") /\ UNCHANGED bytes_consumed
     \/ /\ ~flowError /\ StreamFinalSizeError(end, fin)
        /\ Fail("FINAL_SIZE") /\ bytes_consumed' = bytes_consumed + newly
     \/ /\ ~flowError /\ ~StreamFinalSizeError(end, fin)
        /\ StateExhausted(taken)
        /\ Fail("STATE_EXHAUSTION") /\ bytes_consumed' = bytes_consumed + newly

-----------------------------------------------------------------------------
(* RESET_STREAM(_AT): handle_reset_stream_frame, quicly_recvstate_reset *)

FirstReset == app_error_code = NoCode

\* *bytes_missing
BytesMissing(final) == IF FirstReset THEN final - Allocated ELSE 0

ResetError(final, code) ==
  IF final < LastEnd(received) THEN "FINAL_SIZE"
  ELSE IF FirstReset /\ eos # Inf /\ eos # final THEN "FINAL_SIZE"
  ELSE IF ~FirstReset /\ app_error_code # code THEN "STREAM_STATE"
  ELSE "none"

\* faulty: takes back bytes that the application may have read
ResetEos_Lowers(reliable) ==
  IF ~FirstReset /\ reliable >= eos THEN eos ELSE reliable

\* eos after the reset: the Reliable Size, but never less than what has arrived
\* contiguously; a reset that does not reduce it is ignored
ResetEos(reliable) ==
  IF ~FirstReset /\ reliable >= eos THEN eos
  ELSE Larger(reliable, PrefixEnd(received))

\* faulty: credit for bytes that were charged now and will never come is kept
AllocatedBefore_Known(final) == Allocated

\* up to where the stream has been charged when the reset arrives
AllocatedBefore(final) == IF FirstReset THEN final ELSE Allocated

ReceiveReset(final, reliable, code, shift) ==
  LET newEos == ResetEos(reliable)
      complete == CompleteOf(received, newEos)
  IN
  /\ Running /\ alive /\ ~TransferComplete
  /\ final <= max_stream_data
  /\ ResetError(final, code) = "none"
  /\ bytes_consumed + BytesMissing(final) <= max_data
  /\ bytes_consumed' = bytes_consumed + BytesMissing(final)
  /\ app_error_code' = code
  /\ Settle(received, newEos, complete, shift,
            AllocatedBefore(final) - AllocatedOf(received, newEos))

\* rejected; in the last case quicly_recvstate_reset has changed eos already,
\* which nobody looks at any more since the connection closes
RejectReset(final, reliable, code) ==
  /\ Running /\ alive
  /\ UNCHANGED bytes_consumed
  /\ \/ /\ final > max_stream_data
        /\ Fail("FLOW_CONTROL")
     \/ /\ final <= max_stream_data /\ ~TransferComplete
        /\ ResetError(final, code) # "none"
        /\ Fail(ResetError(final, code))
     \/ /\ final <= max_stream_data /\ ~TransferComplete
        /\ ResetError(final, code) = "none"
        /\ bytes_consumed + BytesMissing(final) > max_data
        /\ Fail("FLOW_CONTROL")

-----------------------------------------------------------------------------
(* The application, the sender of credit, the rest of the connection *)

\* quicly_stream_sync_recvbuf outside of a callback
Shift(amount) ==
  /\ Running /\ alive
  /\ amount \in 1 .. AvailableEnd(received, eos) - data_off
  /\ data_off' = data_off + amount
  /\ bytes_shifted' = bytes_shifted + Smaller(amount, Allocated - data_off)
  /\ UNCHANGED <<received, eos, app_error_code, max_stream_data, max_data,
                 bytes_consumed, other, send_complete, alive, told, error>>

\* send_control_frames_of_stream sending MAX_STREAM_DATA; when it does is the
\* business of quicly_maxsender_t
SendMaxStreamData ==
  /\ Running /\ alive /\ eos = Inf
  /\ data_off + StreamWindow > max_stream_data
  /\ max_stream_data' = data_off + StreamWindow
  /\ UNCHANGED <<recvstate, credit, send_complete, alive, told, error>>

\* faulty: credit for what has arrived is handed out anew before it is read
MaxDataValue_Early == bytes_consumed + ConnWindow

\* the value that send_other_control_frames advertises
MaxDataValue == bytes_shifted + ConnWindow

\* send_other_control_frames sending MAX_DATA
SendMaxData ==
  /\ Running
  /\ MaxDataValue > max_data
  /\ max_data' = MaxDataValue
  /\ UNCHANGED <<recvstate, max_stream_data, bytes_consumed, bytes_shifted,
                 other, send_complete, alive, told, error>>

\* another stream of the connection receives a byte
OtherReceives ==
  /\ Running
  /\ bytes_consumed + 1 <= max_data /\ bytes_consumed < MaxConsumed
  /\ bytes_consumed' = bytes_consumed + 1 /\ other' = other + 1
  /\ UNCHANGED <<recvstate, max_stream_data, bytes_shifted, max_data,
                 send_complete, alive, told, error>>

\* another stream's application reads a byte
OtherReleases ==
  /\ Running /\ other > 0
  /\ other' = other - 1 /\ bytes_shifted' = bytes_shifted + 1
  /\ UNCHANGED <<recvstate, max_stream_data, bytes_consumed, max_data,
                 send_complete, alive, told, error>>

\* the send side is acknowledged to its end (on_ack_stream_ack_one)
SendSideCompletes ==
  /\ Running /\ alive /\ ~send_complete
  /\ send_complete' = TRUE
  /\ alive' = ~TransferComplete
  /\ bytes_shifted' = bytes_shifted
       + (IF TransferComplete THEN Allocated - data_off ELSE 0)
  /\ UNCHANGED <<recvstate, max_stream_data, bytes_consumed, max_data, other,
                 told, error>>

\* the connection is closing, or the stream is no more
Closed == (error # "none" \/ ~alive) /\ UNCHANGED vars

-----------------------------------------------------------------------------
Offsets == 0 .. MaxOffset

\* all frames end within the bound; a STREAM frame that carries neither a byte
\* nor FIN stays within what is known of the stream
PeerStep ==
  \E off \in Offsets, end \in Offsets :
    /\ off <= end
    /\ \/ \E fin \in BOOLEAN :
            /\ off < end \/ fin \/ off <= Allocated
            /\ \/ \E shift \in Offsets :
                    ReceiveStream(off, end - off, fin, shift)
               \/ RejectStream(off, end - off, fin)
       \/ \E code \in Codes :        \* end is the final size, off reliable
            \/ \E shift \in Offsets : ReceiveReset(end, off, code, shift)
            \/ RejectReset(end, off, code)

LocalStep ==
  \/ \E amount \in Offsets : Shift(amount)
  \/ SendMaxStreamData \/ SendMaxData
  \/ OtherReceives \/ OtherReleases
  \/ SendSideCompletes

Next == PeerStep \/ LocalStep \/ Closed

Spec == Init /\ [][Next]_vars

\* a STREAM frame without a byte and without FIN, at an offset beyond all that
\* has arrived: legal, the bytes before it may be in a packet that is late
EmptyStreamAhead ==
  \E off \in Allocated + 1 .. MaxOffset :
    ReceiveStream(off, 0, FALSE, 0) \/ RejectStream(off, 0, FALSE)

AnyFrameSpec == Init /\ [][Next \/ EmptyStreamAhead]_vars

-----------------------------------------------------------------------------
(* Properties *)

\* Types, and the assertion of quicly_recvstate_bytes_available that the
\* application has not read past what is there.
TypeOK ==
  /\ received \subseteq 0 .. MaxOffset
  /\ data_off \in 0 .. PrefixEnd(received) /\ eos \in Offsets \cup {Inf}
  /\ app_error_code \in Codes \cup {NoCode}
  /\ max_stream_data \in Nat /\ max_data \in Nat
  /\ bytes_consumed \in Nat /\ bytes_shifted \in Nat /\ other \in Nat
  /\ send_complete \in BOOLEAN /\ alive \in BOOLEAN
  /\ told \in Nat /\ error \in Errors

\* Credit is neither lost nor invented (apply_stream_frame,
\* handle_reset_stream_frame, quicly_stream_sync_recvbuf, destroy_stream):
\* through any sequence of data, FIN, first and further resets, reads and
\* destruction, the credit consumed and not yet returned is exactly
\* the bytes that this stream holds beyond what was read, plus what the other
\* streams hold; a destroyed stream holds none.
CreditBalance ==
  Running =>
    bytes_consumed - bytes_shifted =
      other + (IF alive THEN Allocated - data_off ELSE 0)

\* The memory that the peer can make the connection hold is bounded by the
\* window (the comment in destroy_stream: "keeps the credit tied to the
\* memory"): what is buffered never exceeds the connection's window, nor
\* the bytes of the stream the window of the stream.
MemoryBounded ==
  Running /\ alive =>
    /\ LastEnd(received) - data_off <= StreamWindow
    /\ (LastEnd(received) - data_off) + other <= ConnWindow

\* recvstate.h: "bytes already available to the application are never taken
\* back", by any reset, whatever its Reliable Size and in whatever order
\* several of them arrive.
NeverTakenBack ==
  [][alive' => AvailableEnd(received, eos)'
                 >= AvailableEnd(received, eos)]_vars

\* The application sees the end of the stream when all bytes below it are
\* there, and once only (apply_stream_frame, handle_reset_stream_frame).
EndToldOnce ==
  Running => /\ told <= 1
             /\ told = 1 => Bytes(0, eos) \subseteq received
             /\ alive /\ TransferComplete => told = 1
             /\ ~alive => told = 1

\* The books of a stream that receives: the readable bytes are the contiguous
\* ones, the credit taken and not returned is what is held, and that is within
\* the windows (apply_stream_frame, handle_reset_stream_frame, destroy_stream).
CreditKept == TypeOK /\ CreditBalance /\ MemoryBounded
=============================================================================
