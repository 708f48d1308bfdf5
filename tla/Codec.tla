------------------------------- MODULE Codec -------------------------------
(* What the codecs of Frames and TransportParams promise together: what one *)
(* endpoint writes, the other reads.  A step chooses one thing to be        *)
(* encoded (or a packet number to be told).                                 *)
EXTENDS Frames, TransportParams

CONSTANTS
    Values,         \* numbers to put into fields
    Lengths,        \* lengths of payloads
    Sizes,          \* lengths of ranges and of the gaps between them
    MaxRanges,
    Spaces,         \* space that is left in a packet
    AckSpaces,      \* the same for ACK frames, at least QUICLY_ACK_FRAME_CAPACITY
    MaxExpected,    \* largest packet number to be expected
    ParamSets       \* transport parameters

VARIABLE x

ArgsOf(field) == CASE field = "varint" -> Values
                   [] field = "bytes" -> Lengths
                   [] field = "cid" -> Lengths
                   [] OTHER -> {0}

FrameCase == \E f \in Formats :
    \E a \in ArgsOf(f.fields[1]) :
    \E b \in IF Len(f.fields) > 1 THEN ArgsOf(f.fields[2]) ELSE {0} :
    \E c \in IF Len(f.fields) > 2 THEN ArgsOf(f.fields[3]) ELSE {0} :
    \E d \in IF Len(f.fields) > 3 THEN ArgsOf(f.fields[4]) ELSE {0} :
        x' = [case |-> "frame", type |-> f.type, args |-> SubSeq(<<a, b, c, d>>, 1, Len(f.fields))]

(* Ranges of an ACK queue, built from gaps and lengths.                     *)
RangesOf(steps) ==
    FoldLeft(LAMBDA rs, st :
                LET from == (IF rs = <<>> THEN 0 ELSE Last(rs).end) + st[1]
                IN  Append(rs, [start |-> from, end |-> from + st[2]]), <<>>, steps)

AckCase == \E k \in 1 .. MaxRanges : \E steps \in [1 .. k -> Sizes \X Sizes] :
    \E space \in AckSpaces : \E ecn \in {0, 64} :
        x' = [case |-> "ack", ranges |-> RangesOf(steps), space |-> space, ecn |-> <<ecn, 0, ecn>>]

LayoutCase == \E space \in Spaces : \E short \in 0 .. 5 :
    /\ short < space
    /\ \E fin \in BOOLEAN :
          x' = [case |-> "layout", space |-> space, len |-> space - short, fin |-> fin]

NumberCase == \E num_bits \in 1 .. 3 : \E expected \in 0 .. MaxExpected : \E pn \in 0 .. MaxExpected :
    x' = [case |-> "number", num_bits |-> num_bits, expected |-> expected, pn |-> pn]

ParamsCase == \E params \in ParamSets : \E auth \in BOOLEAN : \E retry \in BOOLEAN : \E token \in {Unset, "token"} :
    \E expand_by \in BOOLEAN :
        x' = [case |-> "params", params |-> params, auth |-> auth, retry |-> retry, token |-> token,
              expand_by |-> expand_by]

Init == x = [case |-> "none"]
Next == x.case = "none" /\ (FrameCase \/ AckCase \/ LayoutCase \/ NumberCase \/ ParamsCase)
Spec == Init /\ [][Next]_x

----------------------------------------------------------------------------
(* Every frame is read back as it was written, to its last byte; a frame    *)
(* that is cut short is refused wherever it is cut, and so is one that no   *)
(* encoder may be asked for (a Reliable Size above the final size, ...).    *)
(* Encoder and decoder share one table of fields (Formats), so that this is *)
(* about lengths, ends and limits, not about the order of fields.           *)
FramesRead ==
    x.case = "frame" =>
        LET wire == Encode(x.type, x.args)
            read == Decode(x.type, wire, SizeOf(wire))
        IN  /\ read.ok <=> Acceptable(x.type, x.args)
            /\ read.used = SizeOf(wire) /\ read.vals = x.args
            /\ \A end \in {0, 1, 2, SizeOf(wire) \div 2, SizeOf(wire) - 1} \cap 1 .. SizeOf(wire) - 1 :
                  ~Decode(x.type, wire, end).ok
            /\ x.type = "reset_stream_at" =>
                  LET reset == EncodeReset(x.args)
                      back == DecodeReset(reset.type, reset.wire, SizeOf(reset.wire))
                  IN  back.ok => back.vals = x.args

(* The space a sender reserves (the *_CAPACITY constants and functions of   *)
(* frame.h) is enough for every value of the fields: the encoders do not    *)
(* look at the end of the packet.                                           *)
FramesFit == x.case = "frame" => SizeOf(Encode(x.type, x.args)) <= Reserved(x.type, x.args)

(* An ACK frame never grows beyond the packet.  The peer reads from it      *)
(* exactly the packet numbers of the queue, the highest ranges if there are *)
(* more than it keeps; and when it is acknowledged, exactly these ranges    *)
(* are subtracted again (send_ack, do_on_ack_ack): one packet more would    *)
(* never be reported, one less would be reported for ever.                  *)
AckExact ==
    x.case = "ack" =>
        LET wire == encode_ack_frame(x.ranges, 0, x.ecn, x.space)
            read == decode_ack_frame(wire, SizeOf(wire), x.ecn # <<0, 0, 0>>)
            kept == Len(x.ranges) - (IF Len(x.ranges) > QUICLY_ACK_MAX_GAPS + 1
                                     THEN Len(x.ranges) - QUICLY_ACK_MAX_GAPS - 1 ELSE 0)
            entries == sent_ack_entries(x.ranges)
        IN  /\ wire # Null => /\ SizeOf(wire) <= x.space
                              /\ read.ok
                              /\ Reverse(read.blocks) = SubSeq(x.ranges, Len(x.ranges) - kept + 1, Len(x.ranges))
            /\ FlattenSeq([i \in DOMAIN entries |-> acked_ranges(entries[i])]) = x.ranges

(* Wherever a packet ends, the STREAM or CRYPTO frame put at its end is     *)
(* read back with the data it was given: with the length left out it ends   *)
(* with the packet, with the length it stays within it; and a CRYPTO frame  *)
(* is cut to no less than what fits (in packets of up to 16 KB).            *)
LayoutSound ==
    x.case = "layout" =>
        LET stream == LayoutStream(x.space, x.len)
            crypto == LayoutCrypto(x.space, x.len)
            Reads(layout) ==
                LET wire == LaidOut(layout)
                    read == decode_stream_data(wire, IF layout.has_len THEN SizeOf(wire) ELSE x.space - layout.padding,
                                               layout.has_len)
                IN  /\ read.ok /\ read.len = layout.len
                    /\ layout.padding + SizeOf(wire) <= x.space
        IN  /\ Reads(stream) /\ stream.len = x.len
            /\ x.space > 1 =>
                  /\ Reads(crypto) /\ crypto.len <= x.len
                  /\ crypto.wrote_all <=> crypto.len = x.len
                  /\ x.space <= 16384 =>
                        ~\E more \in crypto.len + 1 .. x.len : more + encodev_capacity(more) <= x.space

(* A packet number that is less than half a window away from the one that   *)
(* is expected is recovered from its low bits.                              *)
NumbersRecovered ==
    x.case = "number" =>
        LET half == 2 ^ (x.num_bits - 1)
        IN  (x.pn <= x.expected + half /\ x.pn + half > x.expected) =>
                determine_packet_number(x.pn % (2 * half), x.num_bits, x.expected) = x.pn

(* The parameters an endpoint sends are accepted by the other in every      *)
(* version, with and without Retry, and tell it what was configured and the *)
(* CIDs to authenticate; their order does not matter, what is unknown is    *)
(* skipped, a repeated one is an error, and so is a CID left out.  A client *)
(* whose early data was accepted goes on when a limit is higher than the    *)
(* one it remembers, and refuses a server that has lowered one.             *)
Cids == [original_dcid |-> "odcid", initial_scid |-> "scid", retry_scid |-> "rscid"]
Configured(params) ==
    [params EXCEPT !.min_ack_delay_usec = IF @ = Unset THEN Unset ELSE QUICLY_LOCAL_MAX_ACK_DELAY * 1000,
                   !.active_connection_id_limit = QUICLY_LOCAL_ACTIVE_CONNECTION_ID_LIMIT]
Lowered(params, id) == [params EXCEPT ![id] = IF id = "reset_stream_at" THEN FALSE ELSE 0]
ParamsUnderstood ==
    x.case = "params" =>
        LET server == encode_transport_parameter_list(x.params, ServerCids(Cids, x.auth, x.retry), x.token, FALSE)
            client == encode_transport_parameter_list(x.params, ClientCids(Cids), Unset, x.expand_by)
            wants == ClientWants(x.auth, x.retry)
            atClient == decode_transport_parameter_list(server, wants)
            atServer == decode_transport_parameter_list(client, ServerWants(x.auth))
        IN  /\ atClient.ok /\ atServer.ok
            /\ atClient.params = Configured(x.params) /\ atServer.params = Configured(x.params)
            /\ \A id \in DOMAIN Cids : wants[id] = "want" => atClient.cids[id] = Cids[id]
            /\ decode_transport_parameter_list(Reverse(server), wants) = atClient
            /\ \A i \in DOMAIN server :
                  /\ ~decode_transport_parameter_list(Append(server, server[i]), wants).ok
                  /\ (server[i].id \in DOMAIN Cids /\ wants[server[i].id] = "want") =>
                        ~decode_transport_parameter_list(RemoveAt(server, i), wants).ok
            /\ \A id \in {"max_data", "bidi_local", "uni", "max_streams_bidi", "reset_stream_at"} :
                  LET less == Lowered(x.params, id)
                      told == decode_transport_parameter_list(
                                encode_transport_parameter_list(less, ServerCids(Cids, x.auth, x.retry), x.token, FALSE),
                                wants).params
                  IN  /\ ZeroRttKept(atClient.params, told)
                      /\ ZeroRttKept(told, atClient.params) <=> less = x.params

(* What one endpoint writes the other reads, at every boundary of a length: *)
(* frames, the ranges of ACKs and the record of them, frames that fill a    *)
(* packet, packet numbers and transport parameters (frame.c, frame.h,       *)
(* send_ack, quicly_send_stream).                                           *)
FormatsAgree ==
    FramesRead /\ FramesFit /\ AckExact /\ LayoutSound /\ NumbersRecovered /\ ParamsUnderstood
=============================================================================
