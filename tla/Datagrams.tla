----------------------------- MODULE Datagrams -----------------------------
(* How quicly_send lays packets out in datagrams (do_allocate_frame,        *)
(* commit_send_packet and the end of do_send in quicly.c), and how the      *)
(* receiver takes a datagram apart (quicly_decode_packet).  Sizes are in    *)
(* bytes and positions count from the start of the datagram being built; of *)
(* a packet only its lengths are kept.  When the congestion window, the     *)
(* amplification limit or the output buffer is used up is left open.        *)
EXTENDS Naturals, FiniteSets, SequencesExt

CONSTANTS
    max_udp_payload_size,
    tag_size,           \* of the AEAD
    MaxDatagrams,       \* datagrams that one call of quicly_send may return
    MaxFrames,          \* bound on the frames of one call
    Setups,             \* [dcid, scid, token: lengths, client, ack_only: BOOLEAN]
    FrameSpaces,        \* the spaces that senders of frames ask for
    Leftovers,          \* what frames that can be cut may leave of the space
    AckSizes,           \* sizes of ACK frames
    DatagramSizes       \* sizes of DATAGRAM frames

QUICLY_SEND_PN_SIZE == 2
QUICLY_MAX_PN_SIZE == 4
QUICLY_ACK_FRAME_CAPACITY == 1 + 8 + 8 + 1
QUICLY_MAX_CID_LEN_V1 == 20

VARIABLES
    setup,
    s,          \* quicly_send_context_t
    packets,    \* packets of the datagram being built that are complete
    datagrams,  \* complete datagrams
    frames,     \* frames sent so far
    granted     \* the last successful allocation: [asked, left]; if the assertions held, and
                \* if a packet was padded with another coalesced behind it

vars == <<setup, s, packets, datagrams, frames, granted>>

Types == {"initial", "0rtt", "handshake", "1rtt"}
IsLong(type) == type # "1rtt"

(* do_send serves Initial, then Handshake, then 1-RTT or else 0-RTT.       *)
Rank == [initial |-> 0, handshake |-> 1]
Follows(type, other) ==
    \/ type = other
    \/ type \in DOMAIN Rank /\ other \in DOMAIN Rank /\ Rank[type] < Rank[other]
    \/ type \in DOMAIN Rank /\ other \notin DOMAIN Rank

Packets == [type : Types, header : Nat, payload : Nat, rest : Nat]

Init ==
    /\ setup \in Setups
    /\ s = [current |-> "initial", target |-> "none", first |-> 0, dst |-> 0, dst_end |-> 0,
            payload_from |-> 0, full_size |-> FALSE, acked |-> FALSE, done |-> FALSE]
    /\ packets = <<>> /\ datagrams = <<>> /\ frames = 0
    /\ granted = [asked |-> 0, left |-> 0, ok |-> TRUE, padded |-> FALSE]

----------------------------------------------------------------------------
(* The packet header up to the payload, packet number included.            *)
VarintLen(v) == IF v > 63 THEN 2 ELSE 1
HeaderSize(type) ==
    IF IsLong(type)
    THEN 1 + 4 + 1 + setup.dcid + 1 + setup.scid
         + (IF type = "initial" THEN VarintLen(setup.token) + setup.token ELSE 0)
         + 2 + QUICLY_SEND_PN_SIZE
    ELSE 1 + setup.dcid + QUICLY_SEND_PN_SIZE

(* faulty: the tag is forgotten *)
Overhead_NoTag(type) ==
    1 + setup.dcid + QUICLY_SEND_PN_SIZE + (IF IsLong(type) THEN 7 + setup.dcid + setup.scid ELSE 0)

(* What do_allocate_frame takes the header and the tag of a coalesced      *)
(* packet to need.                                                         *)
Overhead(type) ==
    1 + setup.dcid + QUICLY_SEND_PN_SIZE + tag_size
    + (IF IsLong(type)
       THEN 4 + 1 + setup.dcid + setup.scid + (IF type = "initial" THEN 1 ELSE 0) + 2
       ELSE 0)

----------------------------------------------------------------------------
(* commit_send_packet.  The context is c = [s, packets, datagrams, ok,     *)
(* padded].                                                                *)
Padded(sc) ==
    LET least == sc.payload_from + QUICLY_MAX_PN_SIZE - QUICLY_SEND_PN_SIZE
    IN  IF sc.dst < least THEN least ELSE sc.dst

(* The position at which the payload ends.                                 *)
PayloadEnd(sc, coalesced) ==
    IF ~coalesced /\ sc.full_size THEN max_udp_payload_size - tag_size ELSE Padded(sc)
(* faulty: the length field leaves the tag out *)
Completed_NoTag(sc, end) ==
    [type |-> sc.target, header |-> sc.payload_from - sc.first, payload |-> end - sc.payload_from,
     rest |-> end - sc.payload_from + QUICLY_SEND_PN_SIZE]


Completed(sc, end) ==
    [type |-> sc.target, header |-> sc.payload_from - sc.first, payload |-> end - sc.payload_from,
     rest |-> end - sc.payload_from + tag_size + QUICLY_SEND_PN_SIZE]

PacketSize(p) == p.header + p.payload + tag_size
DatagramSize(d) == FoldLeft(LAMBDA n, p : n + PacketSize(p), 0, d)

Commit(c, coalesced) ==
    LET end == PayloadEnd(c.s, coalesced)
        built == Append(c.packets, Completed(c.s, end))
    IN  [s |-> IF coalesced THEN [c.s EXCEPT !.dst = end + tag_size]
                            ELSE [c.s EXCEPT !.dst = end + tag_size, !.target = "none"],
         packets |-> IF coalesced THEN built ELSE <<>>,
         datagrams |-> IF coalesced THEN c.datagrams ELSE Append(c.datagrams, built),
         padded |-> c.padded \/ (coalesced /\ Padded(c.s) # c.s.dst),
         ok |-> /\ c.ok
                /\ c.s.dst # c.s.payload_from
                /\ Padded(c.s) <= end
                /\ end + tag_size <= max_udp_payload_size
                /\ (~coalesced /\ c.s.full_size) =>
                      \/ c.datagrams = <<>>
                      \/ DatagramSize(Last(c.datagrams)) = max_udp_payload_size]

----------------------------------------------------------------------------
(* do_allocate_frame.  A new datagram may be refused for want of window or *)
(* of buffer (`may'): the call ends with QUICLY_ERROR_SENDBUF_FULL.        *)
FitsTarget(sc, min_space) ==
    sc.target # "none" /\ sc.dst_end - sc.dst >= min_space /\ sc.target = sc.current

Coalescible(sc, min_space) ==
    /\ sc.target # "none" /\ sc.dst + min_space <= sc.dst_end
    /\ IsLong(sc.target)
    /\ LET least == QUICLY_MAX_PN_SIZE - QUICLY_SEND_PN_SIZE
       IN  Overhead(sc.current) + (IF least < min_space THEN min_space ELSE least) <= sc.dst_end - sc.dst

(* The packet under construction is closed; unless another follows in the  *)
(* same datagram, the datagram is padded to full size for GSO.             *)
Closed(c, coalesced) ==
    IF c.s.target = "none" THEN c
    ELSE Commit(IF coalesced THEN c ELSE [c EXCEPT !.s.full_size = TRUE], coalesced)

(* A new packet, behind the previous one or in a datagram of its own.      *)
NewPacket(c, coalesced) ==
    LET at == IF coalesced THEN c.s.dst ELSE 0
        from == at + HeaderSize(c.s.current)
        end == (IF coalesced THEN c.s.dst_end + tag_size ELSE max_udp_payload_size) - tag_size
    IN  [c EXCEPT !.s = [@ EXCEPT !.target = c.s.current, !.first = at, !.payload_from = from,
                                  !.dst = from, !.dst_end = end,
                                  !.full_size = IF coalesced THEN @ ELSE FALSE],
                  !.ok = @ /\ from + QUICLY_MAX_PN_SIZE - QUICLY_SEND_PN_SIZE <= end]

(* The outcomes of do_allocate_frame: the context, and if space was got.   *)
Allocations(c, min_space) ==
    IF FitsTarget(c.s, min_space) THEN {[c |-> c, got |-> TRUE]}
    ELSE LET coalesced == Coalescible(c.s, min_space)
             closed == Closed(c, coalesced)
         IN  IF coalesced THEN {[c |-> NewPacket(closed, TRUE), got |-> TRUE]}
             ELSE {[c |-> closed, got |-> FALSE]} \cup
                  (IF Len(closed.datagrams) < MaxDatagrams
                   THEN {[c |-> NewPacket(closed, FALSE), got |-> TRUE]} ELSE {})

----------------------------------------------------------------------------
Context == [s |-> s, packets |-> packets, datagrams |-> datagrams,
            ok |-> granted.ok, padded |-> granted.padded]

(* The frame of n bytes is in place, or the call has to end.               *)
Becomes(c, n, asked, got) ==
    /\ s' = [c.s EXCEPT !.dst = @ + n, !.done = ~got]
    /\ packets' = c.packets /\ datagrams' = c.datagrams
    /\ granted' = [asked |-> IF got THEN asked ELSE 0,
                   left |-> IF got THEN c.s.dst_end - c.s.dst ELSE 0,
                   ok |-> c.ok, padded |-> c.padded]
    /\ frames' = frames + 1
    /\ UNCHANGED setup

CanSend == ~s.done /\ frames < MaxFrames

(* setup_send_space: the next epoch for which there are keys.              *)
NextEpoch(type) ==
    /\ CanSend /\ type # s.current /\ Follows(s.current, type)
    /\ type = "0rtt" => setup.client
    /\ s' = [s EXCEPT !.current = type, !.acked = FALSE]
    /\ UNCHANGED <<setup, packets, datagrams, frames, granted>>

(* Senders of ack-eliciting frames: the frame needs what was asked for;    *)
(* STREAM and CRYPTO frames take what there is.                            *)
SendFrame(min_space) ==
    /\ CanSend /\ ~setup.ack_only
    /\ \E a \in Allocations(Context, min_space) :
          IF ~a.got THEN Becomes(a.c, 0, min_space, FALSE)
          ELSE \E n \in {min_space} \cup {(a.c.s.dst_end - a.c.s.dst) - left :
                              left \in {l \in Leftovers : l + min_space < a.c.s.dst_end - a.c.s.dst}} :
                  Becomes(a.c, n, min_space, TRUE)

(* The loop of do_send over DATAGRAM frames: one that does not fit becomes *)
(* a byte of padding.                                                      *)
SendDatagram(size) ==
    /\ CanSend /\ ~(s.current \in DOMAIN Rank)
    /\ \E a \in Allocations(Context, size) :
          Becomes(a.c, IF ~a.got THEN 0
                       ELSE IF a.c.s.dst_end - a.c.s.dst >= size THEN size ELSE 1, 0, a.got)

(* send_ack.  quicly_encode_ack_frame fails for certain when there is no   *)
(* room, and may when there are less than eight bytes left for a block;    *)
(* then the packet is padded if empty, and a new datagram is used.  There  *)
(* is one ACK per epoch.                                                   *)
AckFails(sc, size) == IF sc.dst + size > sc.dst_end THEN {TRUE}
                      ELSE IF sc.dst + size + 7 > sc.dst_end THEN {TRUE, FALSE} ELSE {FALSE}

Abandoned(c) ==
    LET empty == c.s.dst = c.s.payload_from
    IN  Commit([c EXCEPT !.s.dst = IF empty THEN @ + 1 ELSE @, !.s.full_size = TRUE,
                         !.ok = @ /\ (empty => c.s.first # 0)], FALSE)

SendAck(size) ==
    /\ CanSend /\ ~s.acked /\ s.current # "0rtt"
    /\ \E a \in Allocations([Context EXCEPT !.s.acked = TRUE], QUICLY_ACK_FRAME_CAPACITY) :
          IF ~a.got THEN Becomes(a.c, 0, 0, FALSE)
          ELSE \E fails \in AckFails(a.c.s, size) :
                  IF ~fails THEN Becomes(a.c, size, QUICLY_ACK_FRAME_CAPACITY, TRUE)
                  ELSE \E b \in Allocations(Abandoned(a.c), QUICLY_ACK_FRAME_CAPACITY) :
                          Becomes(b.c, IF b.got THEN size ELSE 0, QUICLY_ACK_FRAME_CAPACITY, b.got)

(* The end of do_send: the last datagram may be small, but not one with an *)
(* Initial packet, sent by a client or ack-eliciting.                      *)
FirstType == IF packets = <<>> THEN s.target ELSE packets[1].type

(* faulty: only the packet being completed is looked at *)
MustFill_LastType == s.target = "initial" /\ (setup.client \/ ~setup.ack_only)

MustFill == FirstType = "initial" /\ (setup.client \/ ~setup.ack_only)

Finish ==
    /\ s.target # "none"
    /\ \E c \in {Commit([Context EXCEPT !.s.full_size = @ \/ MustFill], FALSE)} :
          /\ s' = [c.s EXCEPT !.done = TRUE]
          /\ packets' = c.packets /\ datagrams' = c.datagrams
          /\ granted' = [asked |-> 0, left |-> 0, ok |-> c.ok, padded |-> c.padded]
    /\ UNCHANGED <<setup, frames>>

Next ==
    \/ \E type \in Types : NextEpoch(type)
    \/ \E min_space \in FrameSpaces : SendFrame(min_space)
    \/ \E size \in DatagramSizes : SendDatagram(size)
    \/ \E size \in AckSizes : SendAck(size)
    \/ Finish

Spec == Init /\ [][Next]_vars

----------------------------------------------------------------------------
(* quicly_decode_packet at offset off of the first `size' bytes of         *)
(* datagram d: the packet and the offset behind it, or an error.  The      *)
(* header at off is the one the sender put there; at an offset where it    *)
(* put none, whatever is read is nothing the sender meant.                 *)
StartOf(d, i) == DatagramSize(SubSeq(d, 1, i - 1))
StartsAt(d, off) == {i \in DOMAIN d : StartOf(d, i) = off}

decode_packet(d, size, off) ==
    LET at == StartsAt(d, off)
        p == d[CHOOSE i \in at : TRUE]
        encrypted_off == p.header - QUICLY_SEND_PN_SIZE
    IN  IF size - off < 2 \/ at = {} THEN [ok |-> FALSE, next |-> size]
        ELSE IF IsLong(p.type)
        THEN [ok |-> size - off >= encrypted_off + p.rest /\ p.rest >= 1,
              next |-> off + encrypted_off + p.rest]
        ELSE [ok |-> size - off - 1 >= QUICLY_MAX_CID_LEN_V1, next |-> size]

(* The loop of the application over a datagram: the offsets of the packets *)
(* it hands to the connection, and the end of each.                        *)
Decoded(d, size) ==
    FoldLeft(LAMBDA x, i :
                IF x.stop \/ x.off >= size THEN [x EXCEPT !.stop = TRUE]
                ELSE LET r == decode_packet(d, size, x.off)
                     IN  IF r.ok THEN [x EXCEPT !.off = r.next, !.found = Append(@, <<x.off, r.next>>)]
                                 ELSE [x EXCEPT !.stop = TRUE],
             [off |-> 0, stop |-> FALSE, found |-> <<>>], d)

Extents(d) == [i \in DOMAIN d |-> <<StartOf(d, i), StartOf(d, i) + PacketSize(d[i])>>]

----------------------------------------------------------------------------
(* None of the assertions of do_allocate_frame, commit_send_packet and      *)
(* send_ack fails: a packet has room for its shortest payload, a datagram   *)
(* its proper size.  It takes a CID that is not empty, and no packet of one *)
(* byte with another coalesced behind it.                                   *)
AssertionsHold == granted.ok

(* do_allocate_frame gives what it was asked for: the senders of frames     *)
(* write up to that many bytes without looking.  What is coalesced behind a *)
(* packet of one byte may lack the byte that commit_send_packet pads that   *)
(* packet with (quicly.c:3989, which the estimate at 4134 leaves out), but  *)
(* no more than that byte.                                                  *)
SpaceGranted ==
    IF granted.padded THEN granted.left + 1 >= granted.asked
    ELSE AssertionsHold /\ granted.left >= granted.asked

(* While the assertions hold, all datagrams of a call but the last have    *)
(* the full size (they are sent with GSO), none is larger, and one that    *)
(* starts with an Initial packet and comes from a client or carries data   *)
(* is padded.                                                              *)
SegmentsUniform ==
    AssertionsHold => \A i \in DOMAIN datagrams :
        /\ DatagramSize(datagrams[i]) <= max_udp_payload_size
        /\ (\/ i < Len(datagrams) \/ s.target # "none"
            \/ datagrams[i][1].type = "initial" /\ (setup.client \/ ~setup.ack_only))
           => DatagramSize(datagrams[i]) = max_udp_payload_size

(* Lengths at which to cut a datagram: around every border of a packet.     *)
Cuts(d) == {n \in UNION {{StartOf(d, i) + 1, StartOf(d, i) + d[i].header, StartOf(d, i) + PacketSize(d[i]) - 1} :
                         i \in DOMAIN d} : n < DatagramSize(d)}

(* quicly_decode_packet finds the packets the sender coalesced, each with  *)
(* its own extent; of a datagram that was cut short it finds a prefix, the *)
(* last one cut only if it has a short header.                             *)
SplitsBack ==
    (datagrams # <<>> /\ s.done) =>
        \A d \in ToSet(datagrams) :
            LET all == Extents(d)
            IN  /\ Decoded(d, DatagramSize(d)).found = all
                /\ \A size \in Cuts(d) :
                      LET found == Decoded(d, size).found
                      IN  /\ Len(found) <= Len(all)
                          /\ \A j \in DOMAIN found :
                                found[j] = all[j] \/ (~IsLong(d[j].type) /\ found[j] = <<all[j][1], size>>)

(* Coalescing neither overruns nor wastes a datagram: the space asked for   *)
(* is granted, but for one byte behind a packet of one byte; segments have  *)
(* the size GSO needs, and the receiver finds the packets again             *)
(* (do_allocate_frame, commit_send_packet, quicly_decode_packet).           *)
DatagramsSound == SpaceGranted /\ SegmentsUniform /\ SplitsBack
=============================================================================
