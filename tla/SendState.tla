------------------------------ MODULE SendState ------------------------------
(***************************************************************************)
(* The send side of one stream: quicly_sendstate_t (lib/sendstate.c), the  *)
(* application's send buffer as far as it matters to it (lib/streambuf.c), *)
(* the functions of lib/quicly.c that emit its frames and the sentmap      *)
(* entries through which those frames come back acknowledged or lost.      *)
(*                                                                         *)
(* A quicly_ranges_t is the set of the bytes it holds (module Ranges       *)
(* checks that representation).  UINT64_MAX is the constant Inf; the       *)
(* stream never carries a byte at or above MaxWritten.  Left out is the    *)
(* error of check_amount_of_state (QUICLY_ERROR_STATE_EXHAUSTION, with     *)
(* which the connection ends when a set comes in too many pieces).         *)
(***************************************************************************)
EXTENDS Naturals, FiniteSets

CONSTANTS
  Inf,           \* UINT64_MAX, "not closed" as a size, "forever" as an end
  MaxWritten,    \* bound: bytes the application ever writes
  Codes,         \* application error codes
  NoCode,        \* UINT64_MAX as an application error code
  MaxFrames      \* bound: sentmap entries of the stream at any one time

ASSUME SizeAssumption == /\ Inf \in Nat
                         /\ MaxWritten \in Nat
                         /\ MaxWritten < Inf
ASSUME CodeAssumption == NoCode \notin Codes
ASSUME FrameBoundAssumption == MaxFrames \in Nat

\* QUICLY_SENDSTATE_EOS_TYPE_*: ordered, a later marker supersedes an earlier
NONE == 0
FIN == 1
RESET_AT == 2
RESET == 3
EosType == NONE .. RESET

EosState == {"UNSENT", "INFLIGHT", "DELIVERED"}

VARIABLES
  acked, pending,      \* quicly_sendstate_t: sets of bytes
  size_inflight, final_size, app_error_code, reliable_size, eos_state,
  max_stream_data,     \* _send_aux.max_stream_data, granted by the peer
  written,             \* sendbuf.bytes_written
  shifted,             \* bytes that on_send_shift told the application to drop
  frames,              \* sentmap entries whose callback is on_ack_stream
  cache,               \* stash.on_ack_stream.active_acked_cache, if ours
  recv_complete,       \* quicly_recvstate_transfer_complete of the stream
  alive,               \* the stream has not been destroyed
  got, got_eos,        \* history: bytes and markers the peer has acknowledged
  said                 \* history: every end-of-stream statement sent

sendstate == <<acked, pending, size_inflight, final_size, app_error_code,
               reliable_size, eos_state>>
history == <<got, got_eos, said>>
vars == <<sendstate, max_stream_data, written, shifted, frames, cache,
          recv_complete, alive, history>>

-----------------------------------------------------------------------------
(* Sets of bytes *)

\* the bytes of [start, end)
Bytes(start, end) == {b \in 0 .. Inf : start <= b /\ b < end}

\* n is ranges[0].end of a list that begins at offset zero
IsPrefixEnd(set, n) == n \notin set /\ Bytes(0, n) \subseteq set

PrefixEnd(set) == CHOOSE n \in 0 .. Inf : IsPrefixEnd(set, n)

-----------------------------------------------------------------------------
(* Predicates of sendstate.h *)

IsOpen == final_size = Inf

\* quicly_sendstate_eos_type of given fields
EosTypeOf(final, code, reliable) ==
  IF final = Inf THEN NONE
  ELSE IF code = NoCode THEN FIN
  ELSE IF reliable # 0 THEN RESET_AT ELSE RESET

eos_type == EosTypeOf(final_size, app_error_code, reliable_size)

\* faulty: does not wait for the marker
CompleteOf_IgnoresMarker(ackedSet, final, code, reliable, eos) ==
  final # Inf /\ IsPrefixEnd(ackedSet, final)

\* quicly_sendstate_transfer_complete
CompleteOf(ackedSet, final, code, reliable, eos) ==
  /\ final # Inf
  /\ IsPrefixEnd(ackedSet, final)
  /\ eos = "DELIVERED" \/ (code # NoCode /\ reliable = 0)

TransferComplete ==
  CompleteOf(acked, final_size, app_error_code, reliable_size, eos_state)

\* what of a sentmap entry the callbacks are handed
Args == [start : 0 .. MaxWritten, end : 0 .. MaxWritten, eos_type : EosType]
Frame == [start : 0 .. MaxWritten, end : 0 .. MaxWritten, eos_type : EosType,
          live : BOOLEAN]
ArgsOf(f) == [start |-> f.start, end |-> f.end, eos_type |-> f.eos_type]

\* an end-of-stream statement made to the peer
Saying(type) == [eos_type |-> type, final_size |-> final_size,
                 code |-> app_error_code]

Init ==
  /\ acked = {} /\ pending = {}
  /\ size_inflight = 0 /\ final_size = Inf
  /\ app_error_code = NoCode /\ reliable_size = 0
  /\ eos_state = "UNSENT"
  /\ max_stream_data \in 0 .. MaxWritten
  /\ written = 0 /\ shifted = 0
  /\ frames = {} /\ cache = {}
  /\ recv_complete \in BOOLEAN      \* TRUE: a unidirectional stream
  /\ alive = TRUE
  /\ got = {} /\ got_eos = {} /\ said = {}

\* no ACK frame is being processed, so that anyone else may run
Idle == alive /\ cache = {}

-----------------------------------------------------------------------------
(* The application *)

\* quicly_sendstate_activate on the given state
Activated(pend, inflight, final) ==
  IF final > 0 /\ final - 1 \in pend THEN pend
  ELSE pend \cup Bytes(inflight, final)

\* quicly_sendbuf_write, then quicly_stream_sync_sendbuf(stream, 1)
Write(len) ==
  /\ Idle /\ IsOpen
  /\ len > 0 /\ written + len <= MaxWritten
  /\ written' = written + len
  /\ pending' = Activated(pending, size_inflight, final_size)
  /\ UNCHANGED <<acked, size_inflight, final_size, app_error_code,
                 reliable_size, eos_state, max_stream_data, shifted, frames,
                 cache, recv_complete, alive, history>>

\* quicly_streambuf_egress_shutdown: quicly_sendstate_shutdown, then sync
Shutdown ==
  /\ Idle /\ IsOpen
  /\ final_size' = written
  /\ pending' =
       Activated((pending \cup Bytes(size_inflight, written))
                   \ Bytes(written, Inf), size_inflight, written)
  /\ UNCHANGED <<acked, size_inflight, app_error_code, reliable_size,
                 eos_state, max_stream_data, written, shifted, frames, cache,
                 recv_complete, alive, history>>

\* the final size that quicly_sendstate_reset settles on
ResetFinalSize(reliable) ==
  IF size_inflight < final_size
  THEN IF reliable < size_inflight THEN size_inflight ELSE reliable
  ELSE final_size

\* quicly_sendstate_reset
Reset(code, reliable) ==
  /\ final_size' = ResetFinalSize(reliable)
  /\ app_error_code' = code
  /\ reliable_size' = reliable
  /\ eos_state' = "UNSENT"
  /\ acked' = acked \cup Bytes(reliable, ResetFinalSize(reliable))
  /\ UNCHANGED size_inflight

\* quicly_reset_stream; on_send_emit may also call it, the frame being built
\* is then dropped
ResetStream(code) ==
  /\ Idle /\ eos_type # RESET /\ ~TransferComplete
  /\ app_error_code \in {NoCode, code}
  /\ Reset(code, 0)
  /\ pending' = pending \ Bytes(0, Inf)
  /\ UNCHANGED <<max_stream_data, written, shifted, frames, cache,
                 recv_complete, alive, history>>

\* quicly_streambuf_egress_reset with a Reliable Size
SetResetStreamAt(code, reliable) ==
  /\ Idle /\ app_error_code = NoCode /\ ~TransferComplete
  /\ reliable \in 1 .. written
  /\ Reset(code, reliable)
  /\ pending' = Activated(pending \ Bytes(reliable, Inf), size_inflight,
                          ResetFinalSize(reliable))
  /\ UNCHANGED <<max_stream_data, written, shifted, frames, cache,
                 recv_complete, alive, history>>

-----------------------------------------------------------------------------
(* Frames from the peer *)

\* faulty: the peer's code replaces that of a RESET_STREAM_AT already sent
StopCode_Overwrites(code) == code

\* the error code that handle_stop_sending_frame resets the stream with
StopCode(code) == IF eos_type = RESET_AT THEN app_error_code ELSE code

\* faulty: counts up to the final size of a stream that has none
StopShift_Open == final_size - PrefixEnd(acked)

\* the bytes that handle_stop_sending_frame has the application release
StopShift == IF IsOpen THEN 0 ELSE final_size - PrefixEnd(acked)

\* handle_stop_sending_frame
ReceiveStopSending(code) ==
  /\ Idle /\ eos_type # RESET /\ ~TransferComplete
  /\ Reset(StopCode(code), 0)
  /\ pending' = pending \ Bytes(0, Inf)
  /\ shifted' = shifted + StopShift
  /\ UNCHANGED <<max_stream_data, written, frames, cache, recv_complete,
                 alive, history>>

\* handle_max_stream_data_frame
ReceiveMaxStreamData(limit) ==
  /\ Idle
  /\ limit \in max_stream_data + 1 .. MaxWritten
  /\ max_stream_data' = limit
  /\ UNCHANGED <<sendstate, written, shifted, frames, cache, recv_complete,
                 alive, history>>

\* stream_is_destroyable, of a sendstate that is complete or not
Destroyable(complete, eos, recv) == recv /\ complete /\ eos = "DELIVERED"

\* the receive side reaches its end (apply_stream_frame, its last lines)
ReceiveSideCompletes ==
  /\ Idle /\ ~recv_complete
  /\ recv_complete' = TRUE
  /\ alive' = ~Destroyable(TransferComplete, eos_state, TRUE)
  /\ UNCHANGED <<sendstate, max_stream_data, written, shifted, frames, cache,
                 history>>

-----------------------------------------------------------------------------
(* Sending *)

CanAllocate == Cardinality(frames) < MaxFrames

Sent(start, end, type) ==
  frames' = frames \cup {[start |-> start, end |-> end, eos_type |-> type,
                          live |-> TRUE]}

\* faulty: only the first byte of the frame is held against the limit
WithinStreamLimit_FirstByte(off, end) == off < max_stream_data

\* the frame [off, end) respects MAX_STREAM_DATA
WithinStreamLimit(off, end) == end <= max_stream_data

\* quicly_stream_can_send and quicly_send_stream, when bytes are pending.  The
\* packet's room and the connection's credit may cut the frame at any length
\* len; on_send_emit (quicly_sendbuf_emit) cuts it at what has been written
\* and says wrote_all when it gets there.
SendStream(off, len) ==
  LET end == off + len
      inflight == IF size_inflight < end THEN end ELSE size_inflight
      is_fin == end = final_size /\ app_error_code = NoCode
      wrote_all == end = written
  IN
  /\ Idle /\ CanAllocate
  /\ off \in pending /\ (\A b \in pending : off <= b)
  /\ len > 0 /\ WithinStreamLimit(off, end) /\ end <= written
  /\ Bytes(off, end) \subseteq pending
  /\ size_inflight' = inflight
  /\ pending' = (pending \ Bytes(off, end))
                  \ (IF wrote_all THEN Bytes(inflight, Inf) ELSE {})
  /\ eos_state' = IF is_fin THEN "INFLIGHT" ELSE eos_state
  /\ Sent(off, end, IF is_fin THEN FIN ELSE NONE)
  /\ said' = IF is_fin THEN said \cup {Saying(FIN)} ELSE said
  /\ UNCHANGED <<acked, final_size, app_error_code, reliable_size,
                 max_stream_data, written, shifted, cache, recv_complete,
                 alive, got, got_eos>>

\* what a frame that carries the marker alone does to the state
SendMarker(type) ==
  /\ eos_state' = "INFLIGHT"
  /\ Sent(final_size, final_size, type)
  /\ said' = said \cup {Saying(type)}
  /\ UNCHANGED <<acked, pending, size_inflight, final_size, app_error_code,
                 reliable_size, max_stream_data, written, shifted, cache,
                 recv_complete, alive, got, got_eos>>

\* quicly_send_stream, the special case of emitting FIN only
SendFinOnly ==
  /\ Idle /\ CanAllocate
  /\ pending = {} /\ ~IsOpen /\ eos_state = "UNSENT"
  /\ app_error_code = NoCode
  /\ SendMarker(FIN)

\* quicly_send_stream dispatching to send_reset_stream
SendResetStreamAt ==
  /\ Idle /\ CanAllocate
  /\ pending = {} /\ eos_state = "UNSENT" /\ eos_type = RESET_AT
  /\ SendMarker(RESET_AT)

\* send_control_frames_of_stream calling send_reset_stream
SendResetStream ==
  /\ Idle /\ CanAllocate
  /\ eos_type = RESET /\ eos_state = "UNSENT"
  /\ SendMarker(RESET)

-----------------------------------------------------------------------------
(* Acknowledgement and loss *)

\* faulty: leaves the acknowledged bytes pending
AckedPending_Keeps(range) == pending

\* pending after quicly_sendstate_acked
AckedPending(range) == pending \ range

\* faulty: has the application release every byte acknowledged, in order or not
BytesToShift_All(range) == Cardinality(range \ acked)

\* *bytes_to_shift of quicly_sendstate_acked
BytesToShift(range) == PrefixEnd(acked \cup range) - PrefixEnd(acked)

\* faulty: a marker that has been acknowledged is sent again
AckedEosState_Resends(args) ==
  IF args.eos_type # NONE /\ args.eos_type = eos_type
  THEN "UNSENT" ELSE eos_state

\* eos_state after quicly_sendstate_acked
AckedEosState(args) ==
  IF args.eos_type # NONE /\ args.eos_type = eos_type
  THEN "DELIVERED" ELSE eos_state

\* quicly_sendstate_acked and on_ack_stream_ack_one
AckOne(args) ==
  LET range == Bytes(args.start, args.end)
      eos == AckedEosState(args)
      complete == CompleteOf(acked \cup range, final_size, app_error_code,
                             reliable_size, eos)
  IN
  /\ acked' = acked \cup range
  /\ pending' = AckedPending(range)
  /\ eos_state' = eos
  /\ shifted' = shifted + BytesToShift(range)
  /\ alive' = ~Destroyable(complete, eos, recv_complete)
  /\ got' = got \cup range
  /\ got_eos' = IF args.eos_type = NONE THEN got_eos
                ELSE got_eos \cup {args.eos_type}
  /\ UNCHANGED <<size_inflight, final_size, app_error_code, reliable_size,
                 max_stream_data, written, recv_complete, said>>

\* on_ack_stream_ack_cached: at the end of handle_ack_frame, or when the next
\* entry acked is not adjacent, is late, or is of another stream
AckCached ==
  /\ alive
  /\ \E args \in cache : AckOne(args)
  /\ cache' = {}
  /\ UNCHANGED frames

Larger(a, b) == IF a < b THEN b ELSE a

\* faulty: the marker of an entry that is appended is dropped
Merged_DropsMarker(args, f) == [start |-> args.start, end |-> f.end,
                                eos_type |-> args.eos_type]

\* the cache after an entry that is adjacent to what it holds
Merged(args, f) == [start |-> args.start, end |-> f.end,
                    eos_type |-> Larger(args.eos_type, f.eos_type)]

\* on_ack_stream, acked, of a packet whose frames are deemed in flight: append
\* to the cached range, or cache the range after the cache has been submitted
AckInFlight(f) ==
  /\ alive /\ f \in frames /\ f.live
  /\ \/ /\ cache = {}
        /\ cache' = {ArgsOf(f)}
     \/ \E args \in cache : /\ args.end = f.start
                            /\ cache' = {Merged(args, f)}
  /\ frames' = frames \ {f}
  /\ UNCHANGED <<sendstate, max_stream_data, written, shifted, recv_complete,
                 alive, history>>

\* on_ack_stream, acked, of a packet already deemed lost
AckLate(f) ==
  /\ Idle /\ f \in frames /\ ~f.live
  /\ AckOne(ArgsOf(f))
  /\ frames' = frames \ {f}
  /\ UNCHANGED cache

\* faulty: stops at the first range that has been acknowledged
LostPending_FirstHole(f) ==
  pending \cup {b \in Bytes(f.start, f.end) :
                  Bytes(f.start, b + 1) \cap acked = {}}

\* pending after quicly_sendstate_lost
LostPending(f) == pending \cup (Bytes(f.start, f.end) \ acked)

\* faulty: also sends the marker again when a superseded one is lost
LostEosState_AnyMarker(f) ==
  IF f.eos_type # NONE /\ eos_state = "INFLIGHT" THEN "UNSENT" ELSE eos_state

\* eos_state after quicly_sendstate_lost
LostEosState(f) ==
  IF f.eos_type # NONE /\ f.eos_type = eos_type /\ eos_state = "INFLIGHT"
  THEN "UNSENT" ELSE eos_state

\* on_ack_stream, lost: quicly_sendstate_lost.  The packet has been declared
\* lost, or its frames are to be sent again upon PTO; the entry stays in the
\* sentmap for a late ACK (keep) or goes with the packet that has expired
Lost(f, keep) ==
  /\ Idle /\ f \in frames /\ f.live
  /\ pending' = LostPending(f)
  /\ eos_state' = LostEosState(f)
  /\ frames' = (frames \ {f}) \cup (IF keep THEN {[f EXCEPT !.live = FALSE]}
                                    ELSE {})
  /\ UNCHANGED <<acked, size_inflight, final_size, app_error_code,
                 reliable_size, max_stream_data, written, shifted, cache,
                 recv_complete, alive, history>>

\* quicly_sentmap_update, EXPIRED, of a packet already deemed lost
Expire(f) ==
  /\ Idle /\ f \in frames /\ ~f.live
  /\ frames' = frames \ {f}
  /\ UNCHANGED <<sendstate, max_stream_data, written, shifted, cache,
                 recv_complete, alive, history>>

\* entries and cached range of a stream that is no more: quicly_get_stream
\* fails and the callbacks return
Orphan ==
  /\ ~alive /\ (frames # {} \/ cache # {})
  /\ frames' = {} /\ cache' = {}
  /\ UNCHANGED <<sendstate, max_stream_data, written, shifted, recv_complete,
                 alive, history>>

Terminated == ~alive /\ frames = {} /\ cache = {} /\ UNCHANGED vars

-----------------------------------------------------------------------------
AppStep ==
  \/ \E len \in 1 .. MaxWritten : Write(len)
  \/ Shutdown
  \/ \E code \in Codes : ResetStream(code)
  \/ \E code \in Codes, reliable \in 1 .. MaxWritten :
       SetResetStreamAt(code, reliable)

PeerStep ==
  \/ \E code \in Codes : ReceiveStopSending(code)
  \/ \E limit \in 1 .. MaxWritten : ReceiveMaxStreamData(limit)
  \/ ReceiveSideCompletes

SendStep ==
  \/ \E off \in pending, len \in 1 .. MaxWritten : SendStream(off, len)
  \/ SendFinOnly
  \/ SendResetStreamAt
  \/ SendResetStream

AckStep ==
  \/ AckCached
  \/ \E f \in frames : AckInFlight(f) \/ AckLate(f)

LossStep ==
  \E f \in frames : Expire(f) \/ (\E keep \in BOOLEAN : Lost(f, keep))

Next == AppStep \/ PeerStep \/ SendStep \/ AckStep \/ LossStep \/ Orphan
          \/ Terminated

Spec == Init /\ [][Next]_vars

-----------------------------------------------------------------------------
(* Properties *)

\* Types and bounds of the stream's state.
TypeOK ==
  /\ acked \subseteq 0 .. Inf /\ pending \subseteq 0 .. Inf
  /\ size_inflight \in 0 .. MaxWritten
  /\ final_size \in 0 .. MaxWritten \cup {Inf}
  /\ app_error_code \in Codes \cup {NoCode}
  /\ reliable_size \in 0 .. MaxWritten
  /\ eos_state \in EosState
  /\ max_stream_data \in 0 .. MaxWritten
  /\ written \in 0 .. MaxWritten
  /\ shifted \in 0 .. MaxWritten
  /\ frames \subseteq Frame
  /\ cache \subseteq Args /\ \A x, y \in cache : x = y
  /\ recv_complete \in BOOLEAN /\ alive \in BOOLEAN
  /\ got \subseteq 0 .. Inf /\ got_eos \subseteq EosType
  /\ said \subseteq [eos_type : EosType, final_size : 0 .. MaxWritten,
                     code : Codes \cup {NoCode}]

\* the bytes some packet still carries, or whose acknowledgement is cached
InFlight == (UNION {Bytes(f.start, f.end) : f \in {g \in frames : g.live}})
              \cup (UNION {Bytes(a.start, a.end) : a \in cache})

\* the bytes the stream is to deliver: all that were written, but no more than
\* it ends with
Promised == Bytes(0, IF IsOpen THEN written ELSE final_size)

\* No byte is forgotten (sendstate.c, quicly_send_stream): at every moment each
\* byte that the stream is to deliver is acknowledged, or is pending, or is in
\* a packet whose fate is still open; no order of loss, PTO, late ACK, partial
\* frames and resets leaves a byte that nothing will ever send.
NoByteForgotten ==
  alive => Promised \subseteq acked \cup pending \cup InFlight

\* No end of stream is forgotten (sendstate.c, on_ack_stream): while the marker
\* is deemed in flight, a packet whose fate is open carries a marker of the
\* type that the stream now ends with, however often FIN, RESET_STREAM_AT and
\* RESET_STREAM superseded one another and whatever the ACK cache merged.
NoMarkerForgotten ==
  alive /\ eos_state = "INFLIGHT" =>
    \/ \E f \in frames : f.live /\ f.eos_type = eos_type
    \/ \E a \in cache : a.eos_type = eos_type

\* The assertions of quicly_sendstate_acked and quicly_sendstate_lost: what is
\* to be sent lies above the acknowledged prefix, so that the offset handed
\* to on_send_emit is not negative.
AckedBelowPending ==
  alive => \A b \in pending : PrefixEnd(acked) <= b

\* The assertion of quicly_stream_can_send: once nothing but FIN or
\* RESET_STREAM_AT is left to send, all bytes below the final size have been
\* sent and flow control cannot hold the marker back.
MarkerNeverBlocked ==
  alive /\ pending = {} /\ eos_state = "UNSENT" /\ eos_type \in {FIN, RESET_AT}
    => size_inflight = final_size /\ final_size <= max_stream_data

\* A transfer that is complete did deliver (quicly_sendstate_transfer_complete,
\* stream_is_destroyable): the peer acknowledged frames with every byte up to
\* the final size, or up to the Reliable Size of a reliable reset, and with the
\* marker the stream ended with; so was the marker of a destroyed stream.
CompleteMeansDelivered ==
  /\ TransferComplete /\ eos_type # RESET =>
       /\ Bytes(0, IF eos_type = FIN THEN final_size ELSE reliable_size)
            \subseteq got
       /\ eos_type \in got_eos
  /\ ~alive => eos_type \in got_eos

\* What the peer was told about the end of the stream never changes (RFC 9000
\* section 4.5, the comment in quicly_sendstate_shutdown): all frames sent that
\* tell a final size agree on it, no byte beyond it is ever sent, and all
\* resets carry one error code.
FinalSizeNeverChanges ==
  /\ \A x, y \in said : x.final_size = y.final_size
  /\ \A x \in said : size_inflight <= x.final_size
  /\ \A x, y \in said : x.eos_type # FIN /\ y.eos_type # FIN => x.code = y.code

\* The application's buffer and sendstate agree (on_ack_stream_ack_one,
\* handle_stop_sending_frame, quicly_send_stream): while there is a byte to
\* emit, the buffer begins at acked.ranges[0].end, which the offset handed to
\* on_send_emit is relative to; and the application is never told to release
\* bytes that it has not written.
BufferInStep ==
  /\ alive /\ pending # {} => shifted = PrefixEnd(acked)
  /\ shifted <= written

\* A marker only gives way to one that tells more (sendstate.h), and the marker
\* is scheduled to be sent again only when it gave way, or when the packet that
\* carried it was lost (quicly_sendstate_lost, quicly_sendstate_reset).
MarkerSuperseded ==
  [][/\ eos_type' >= eos_type
     /\ eos_state # "UNSENT" /\ eos_state' = "UNSENT" /\ eos_type' = eos_type
          => \E f \in frames \ frames' : f.live /\ f.eos_type = eos_type]_vars
=============================================================================
