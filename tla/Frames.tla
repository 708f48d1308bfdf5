------------------------------- MODULE Frames -------------------------------
(* The frames of frame.h and frame.c.  What is on the wire is a sequence of  *)
(* items, each with its size in bytes and the number it carries; the bytes   *)
(* of a token, a CID or a payload are an item that carries none.  A decoder  *)
(* sees the first `end' bytes.                                               *)
EXTENDS Naturals, SequencesExt

CONSTANTS
    MaxStreamCount,     \* 2^60
    QUICLY_ACK_MAX_GAPS,
    Additional8,        \* elements of sent->data.ack.ranges8.additional
    Additional64        \* elements of sent->data.ack.ranges64.additional

QUICLY_PATH_CHALLENGE_DATA_LEN == 8
QUICLY_STATELESS_RESET_TOKEN_LEN == 16
QUICLY_MAX_CID_LEN_V1 == 20
UINT8_MAX == 255

----------------------------------------------------------------------------
(* Integers of variable length.                                              *)
encodev_capacity(v) == IF v > 63 THEN IF v > 16383 THEN IF v > 1073741823 THEN 8 ELSE 4 ELSE 2 ELSE 1

encodev(v) == <<[n |-> encodev_capacity(v), v |-> v]>>
OneByte(v) == <<[n |-> 1, v |-> v]>>
Raw(len) == <<[n |-> len, v |-> 0]>>
SizeOf(wire) == FoldLeft(LAMBDA n, item : n + item.n, 0, wire)

(* A cursor: next item, bytes read, numbers read, and if all went well.      *)
Start == [at |-> 1, used |-> 0, vals |-> <<>>, ok |-> TRUE]
Has(wire, end, c) == c.ok /\ c.at <= Len(wire) /\ c.used + wire[c.at].n <= end
Skip(wire, c) == [c EXCEPT !.at = @ + 1, !.used = @ + wire[c.at].n]
Take(wire, c) == [Skip(wire, c) EXCEPT !.vals = Append(@, wire[c.at].v)]

decodev(wire, end, c) == IF Has(wire, end, c) THEN Take(wire, c) ELSE [c EXCEPT !.ok = FALSE]

(* `len' bytes without a number of their own.                                *)
TakeRaw(wire, end, c, len) ==
    IF c.ok /\ end - c.used >= len THEN [c EXCEPT !.at = @ + 1, !.used = @ + len] ELSE [c EXCEPT !.ok = FALSE]

(* faulty: the length is not compared with what is left *)
TakeCounted_Unchecked(wire, end, c) ==
    IF c.ok THEN [c EXCEPT !.at = @ + 1, !.used = @ + Last(c.vals)] ELSE c

(* A payload preceded by its length.                                         *)
TakeCounted(wire, end, c) == IF c.ok THEN TakeRaw(wire, end, c, Last(c.vals)) ELSE c

----------------------------------------------------------------------------
(* Frames made of fields.  `space' is what a sender reserves for the frame   *)
(* before it calls the encoder, 0 if that depends on the frame.              *)
ResetStreamFrame == [type |-> "reset_stream", size |-> 1, fields |-> <<"varint", "varint", "varint">>, space |-> 1 + 8 + 8 + 8 + 8]
(* faulty: space for RESET_STREAM only *)
ResetStreamAtFrame_NoReliableSize ==
    [type |-> "reset_stream_at", size |-> 1, fields |-> <<"varint", "varint", "varint", "varint">>, space |-> 1 + 8 + 8 + 8]
ResetStreamAtFrame ==
    [type |-> "reset_stream_at", size |-> 1, fields |-> <<"varint", "varint", "varint", "varint">>, space |-> 1 + 8 + 8 + 8 + 8]
TransportCloseFrame == [type |-> "transport_close", size |-> 1, fields |-> <<"varint", "varint", "bytes">>, space |-> 0]
ApplicationCloseFrame == [type |-> "application_close", size |-> 1, fields |-> <<"varint", "bytes">>, space |-> 0]
MaxDataFrame == [type |-> "max_data", size |-> 1, fields |-> <<"varint">>, space |-> 1 + 8]
MaxStreamDataFrame == [type |-> "max_stream_data", size |-> 1, fields |-> <<"varint", "varint">>, space |-> 1 + 8 + 8]
MaxStreamsFrame == [type |-> "max_streams", size |-> 1, fields |-> <<"varint">>, space |-> 1 + 8]
PathChallengeFrame == [type |-> "path_challenge", size |-> 1, fields |-> <<"data">>, space |-> 1 + 8]
DataBlockedFrame == [type |-> "data_blocked", size |-> 1, fields |-> <<"varint">>, space |-> 1 + 8]
StreamDataBlockedFrame == [type |-> "stream_data_blocked", size |-> 1, fields |-> <<"varint", "varint">>, space |-> 1 + 8 + 8]
StreamsBlockedFrame == [type |-> "streams_blocked", size |-> 1, fields |-> <<"varint">>, space |-> 1 + 8]
NewConnectionIdFrame ==
    [type |-> "new_connection_id", size |-> 1, fields |-> <<"varint", "varint", "cid", "token">>, space |-> 0]
RetireConnectionIdFrame == [type |-> "retire_connection_id", size |-> 1, fields |-> <<"varint">>, space |-> 0]
StopSendingFrame == [type |-> "stop_sending", size |-> 1, fields |-> <<"varint", "varint">>, space |-> 1 + 8 + 8]
NewTokenFrame == [type |-> "new_token", size |-> 1, fields |-> <<"bytes">>, space |-> 0]
DatagramFrame == [type |-> "datagram", size |-> 1, fields |-> <<"bytes">>, space |-> 0]
AckFrequencyFrame ==
    [type |-> "ack_frequency", size |-> 2, fields |-> <<"varint", "varint", "varint", "varint">>, space |-> 2 + 8 + 8 + 8 + 8]

Formats ==
    {ResetStreamFrame, ResetStreamAtFrame, TransportCloseFrame, ApplicationCloseFrame, MaxDataFrame,
     MaxStreamDataFrame, MaxStreamsFrame, PathChallengeFrame, DataBlockedFrame, StreamDataBlockedFrame,
     StreamsBlockedFrame, NewConnectionIdFrame, RetireConnectionIdFrame, StopSendingFrame, NewTokenFrame,
     DatagramFrame, AckFrequencyFrame}
FormatOf(type) == CHOOSE f \in Formats : f.type = type

(* The arguments of an encoder: numbers, and the lengths of payloads.        *)
WriteField(field, v) ==
    CASE field = "varint" -> encodev(v)
      [] field = "bytes"  -> encodev(v) \o Raw(v)
      [] field = "cid"    -> OneByte(v) \o Raw(v)
      [] field = "token"  -> Raw(QUICLY_STATELESS_RESET_TOKEN_LEN)
      [] field = "data"   -> Raw(QUICLY_PATH_CHALLENGE_DATA_LEN)

Encode(type, args) ==
    FoldLeft(LAMBDA wire, i : wire \o WriteField(FormatOf(type).fields[i], args[i]),
             <<[n |-> FormatOf(type).size, v |-> 0]>>, [i \in DOMAIN args |-> i])

ReadField(wire, end, c, field) ==
    CASE field = "varint" -> decodev(wire, end, c)
      [] field \in {"bytes", "cid"} -> TakeCounted(wire, end, decodev(wire, end, c))
      [] field = "token"  -> [TakeRaw(wire, end, c, QUICLY_STATELESS_RESET_TOKEN_LEN) EXCEPT !.vals = Append(@, 0)]
      [] field = "data"   -> [TakeRaw(wire, end, c, QUICLY_PATH_CHALLENGE_DATA_LEN) EXCEPT !.vals = Append(@, 0)]

(* What a decoder requires beyond the fields being there.                    *)
Acceptable(type, vals) ==
    CASE type = "reset_stream_at"   -> vals[4] <= vals[3]
      [] type = "new_connection_id" -> vals[2] <= vals[1] /\ vals[3] \in 1 .. QUICLY_MAX_CID_LEN_V1
      [] type \in {"max_streams", "streams_blocked"} -> vals[1] <= MaxStreamCount
      [] type = "new_token"         -> vals[1] # 0
      [] OTHER -> TRUE

Decode(type, wire, end) ==
    LET c == FoldLeft(LAMBDA x, field : ReadField(wire, end, x, field), Skip(wire, Start), FormatOf(type).fields)
    IN  [c EXCEPT !.ok = @ /\ Acceptable(type, c.vals)]

(* What the sender of a frame reserves for it; the frames with a payload     *)
(* have functions that compute it.                                           *)
Reserved(type, args) ==
    CASE type = "new_connection_id" -> 1 + encodev_capacity(args[1]) + encodev_capacity(args[2]) + 1 + args[3]
                                         + QUICLY_STATELESS_RESET_TOKEN_LEN
      [] type = "retire_connection_id" -> 1 + encodev_capacity(args[1])
      [] type \in {"new_token", "datagram"} -> 1 + encodev_capacity(args[1]) + args[1]
      [] type = "transport_close" -> 1 + encodev_capacity(args[1]) + encodev_capacity(args[2])
                                       + encodev_capacity(args[3]) + args[3]
      [] type = "application_close" -> 1 + encodev_capacity(args[1]) + encodev_capacity(args[2]) + args[2]
      [] OTHER -> FormatOf(type).space

(* quicly_encode_reset_stream_frame chooses the type by the Reliable Size,   *)
(* and the decoder makes up for the missing field.                           *)
EncodeReset(args) ==
    IF args[4] = 0 THEN [type |-> "reset_stream", wire |-> Encode("reset_stream", SubSeq(args, 1, 3))]
                   ELSE [type |-> "reset_stream_at", wire |-> Encode("reset_stream_at", args)]
DecodeReset(type, wire, end) ==
    LET c == Decode(type, wire, end) IN IF type = "reset_stream" THEN [c EXCEPT !.vals = Append(@, 0)] ELSE c

----------------------------------------------------------------------------
(* ACK frames.  Ranges are an ascending sequence of [start, end) that do not *)
(* touch, as quicly_ranges_t keeps them.                                     *)
QUICLY_ACK_FRAME_CAPACITY == 1 + 8 + 8 + 1
Length(r) == r.end - r.start
Null == <<>>

(* WRITE_BLOCK: nothing is written with less than eight bytes left.          *)
WriteBlock(wire, v, space) ==
    IF wire = Null \/ space - SizeOf(wire) < 8 THEN Null ELSE wire \o encodev(v - 1)

encode_ack_frame(ranges, ack_delay, ecn_counts, space) ==
    LET last == Len(ranges)
        head == OneByte(0) \o encodev(ranges[last].end - 1) \o encodev(ack_delay) \o OneByte(last - 1)
        blocks == FoldLeft(LAMBDA wire, k :
                              LET i == last - k
                              IN  WriteBlock(WriteBlock(wire, ranges[i + 1].start - ranges[i].end, space),
                                             Length(ranges[i]), space),
                           WriteBlock(head, Length(ranges[last]), space), [k \in 1 .. last - 1 |-> k])
        ecn == FlattenSeq([i \in 1 .. 3 |-> encodev(ecn_counts[i])])
    IN  IF blocks = Null \/ ecn_counts = <<0, 0, 0>> THEN blocks
        ELSE IF space - SizeOf(blocks) < SizeOf(ecn) THEN Null ELSE blocks \o ecn

(* quicly_decode_ack_frame: the blocks, the highest first.  Gaps beyond      *)
(* QUICLY_ACK_MAX_GAPS are read and dropped.                                 *)
AckGap(wire, end, x) ==
    LET g == decodev(wire, end, x.c)
        r == decodev(wire, end, g)
        gap == r.vals[Len(r.vals) - 1]
        size == Last(r.vals)
        top == Last(x.blocks).start - gap - 1
    IN  IF ~r.ok THEN [x EXCEPT !.c = r]
        ELSE IF Len(x.blocks) > QUICLY_ACK_MAX_GAPS THEN [x EXCEPT !.c = r]
        ELSE IF Last(x.blocks).start < gap + size + 2 THEN [x EXCEPT !.c = [r EXCEPT !.ok = FALSE]]
        ELSE [c |-> r, blocks |-> Append(x.blocks, [start |-> top - size - 1, end |-> top])]

decode_ack_frame(wire, end, is_ack_ecn) ==
    LET head == FoldLeft(LAMBDA c, i : decodev(wire, end, c), Skip(wire, Start), <<1, 2, 3, 4>>)
        largest == head.vals[1]
        first == [start |-> largest - head.vals[4], end |-> largest + 1]
        gaps == FoldLeft(LAMBDA x, i : IF x.c.ok THEN AckGap(wire, end, x) ELSE x,
                         [c |-> head, blocks |-> <<first>>], [i \in 1 .. head.vals[3] |-> i])
        ecn == FoldLeft(LAMBDA c, i : IF is_ack_ecn THEN decodev(wire, end, c) ELSE c, gaps.c, <<1, 2, 3>>)
    IN  IF ~head.ok \/ largest < head.vals[4] THEN [ok |-> FALSE, blocks |-> <<>>]
        ELSE [ok |-> ecn.ok, blocks |-> gaps.blocks]

(* faulty: the limit is off by one *)
NewAckEntry_OneMore(r) ==
    IF Length(r) <= UINT8_MAX + 1
    THEN [start |-> r.start, length |-> Length(r) % (UINT8_MAX + 1), slots |-> Additional8, additional |-> <<>>]
    ELSE [start |-> r.start, length |-> Length(r), slots |-> Additional64, additional |-> <<>>]

(* send_ack: how the ranges are kept in the sentmap until the packet is      *)
(* acknowledged.  An entry holds its first range in full and the following   *)
(* ones as pairs of bytes; a gap of zero ends the list.                      *)
NewAckEntry(r) ==
    IF Length(r) <= UINT8_MAX
    THEN [start |-> r.start, length |-> Length(r) % (UINT8_MAX + 1), slots |-> Additional8, additional |-> <<>>]
    ELSE [start |-> r.start, length |-> Length(r), slots |-> Additional64, additional |-> <<>>]

sent_ack_entries(ranges) ==
    FoldLeft(LAMBDA entries, i :
                LET r == ranges[i]
                    gap == r.start - ranges[i - 1].end
                IN  IF /\ i > 1 /\ Len(Last(entries).additional) < Last(entries).slots
                       /\ gap <= UINT8_MAX /\ Length(r) <= UINT8_MAX
                    THEN [entries EXCEPT ![Len(entries)].additional =
                                            Append(@, [gap |-> gap, length |-> Length(r)])]
                    ELSE Append(entries, NewAckEntry(r)),
             <<>>, [i \in DOMAIN ranges |-> i])

(* do_on_ack_ack: the ranges it subtracts from the queue for one entry.      *)
acked_ranges(entry) ==
    FoldLeft(LAMBDA found, more :
                LET from == Last(found).end + more.gap
                IN  Append(found, [start |-> from, end |-> from + more.length]),
             <<[start |-> entry.start, end |-> entry.start + entry.length]>>, entry.additional)

----------------------------------------------------------------------------
(* faulty: room is made for the length field of the original length only *)
LayoutCrypto_OneByte(space, len) ==
    LET fits == space - len >= encodev_capacity(len)
    IN  [padding |-> 0, has_len |-> TRUE, len |-> IF fits THEN len ELSE space - 1, wrote_all |-> fits]

(* adjust_stream_frame_layout: a payload of `len' bytes stands behind a      *)
(* header, with `space' bytes from its start to the end of the packet.       *)
LayoutCrypto(space, len) ==
    LET fits == space - len >= encodev_capacity(len)
        cut == IF fits THEN len ELSE space - encodev_capacity(space - 1)
    IN  [padding |-> 0, has_len |-> TRUE, len |-> cut, wrote_all |-> fits]

LayoutStream(space, len) ==
    IF space - len <= encodev_capacity(len)
    THEN [padding |-> space - len, has_len |-> FALSE, len |-> len, wrote_all |-> TRUE]
    ELSE [padding |-> 0, has_len |-> TRUE, len |-> len, wrote_all |-> TRUE]

(* What is on the wire behind the offset field, padding in front included.   *)
LaidOut(layout) ==
    (IF layout.has_len THEN encodev(layout.len) ELSE <<>>) \o Raw(layout.len)

(* quicly_decode_stream_frame and quicly_decode_crypto_frame, from the       *)
(* length field on: the length of the data, `end' being that of the packet.  *)
decode_stream_data(wire, end, has_len) ==
    IF has_len THEN LET c == TakeCounted(wire, end, decodev(wire, end, Start)) IN [ok |-> c.ok, len |-> Last(c.vals)]
               ELSE [ok |-> TRUE, len |-> end]

(* faulty: a packet of the previous window is not considered *)
determine_packet_number_NeverBack(truncated, num_bits, expected) ==
    LET win == 2 ^ num_bits
        candidate == expected - (expected % win) + truncated
    IN  IF candidate + win \div 2 <= expected THEN candidate + win ELSE candidate

(* quicly_determine_packet_number                                            *)
determine_packet_number(truncated, num_bits, expected) ==
    LET win == 2 ^ num_bits
        candidate == expected - (expected % win) + truncated
    IN  IF candidate + win \div 2 <= expected THEN candidate + win
        ELSE IF candidate > expected + win \div 2 /\ candidate >= win THEN candidate - win
        ELSE candidate
=============================================================================
