---------------------------- MODULE MCSendState ----------------------------
(* SendState for TLC, and what becomes of what it sends, one at a time: the  *)
(* frames and transport parameters (Codec), the packets and datagrams        *)
(* (Datagrams), until the connection that carries them is closed             *)
(* (ConnClose).                                                              *)
EXTENDS SendState, TLC

CONSTANT Unset

VARIABLES
  part,   \* what takes steps: "stream", "format", "packing" or "closing"
  c_x,
  g_setup, g_s, g_packets, g_datagrams, g_frames, g_granted,
  e_now, e_conn, e_net

\* the error codes are interchangeable
CodeSymmetry == Permutations(Codes)

\* Values on both sides of every length of an integer; parameters at their default
\* and elsewhere.
Params == INSTANCE TransportParams
ParamSets ==
  {[Params!default_transport_params EXCEPT
      !.max_udp_payload_size = udp, !.bidi_local = n, !.uni = n, !.max_data = m,
      !.max_streams_bidi = m, !.max_idle_timeout = n, !.min_ack_delay_usec = d,
      !.disable_active_migration = f, !.reset_stream_at = g, !.max_datagram_frame_size = m] :
     udp \in {1200, 65535}, n \in {0, 1}, m \in {0, 1200}, d \in {Unset, 0}, f \in BOOLEAN, g \in BOOLEAN}
Format == INSTANCE Codec WITH
  MaxStreamCount <- 16384, QUICLY_ACK_MAX_GAPS <- 2, Additional8 <- 2, Additional64 <- 1,
  Values <- {0, 63, 64, 16383, 16384, 1073741824}, Lengths <- {0, 1, 20, 64},
  Sizes <- {1, 255, 256}, MaxRanges <- 4,
  Spaces <- {1, 2, 3, 18, 26, 40} \cup 63 .. 68 \cup 16383 .. 16390, AckSpaces <- {18, 64},
  MaxExpected <- 20, x <- c_x

\* Clients and servers with short CIDs, so that headers and leftovers stay small
\* against the size of a datagram.  What frames leave is around the space that the
\* next packet is estimated to need: 22 and 24 for a 1-RTT packet with a CID of 1
\* and of 3, 51 and 57 with a Handshake packet of one byte before it.
DatagramSetups ==
  [dcid : {1}, scid : {0}, token : {0}, client : {FALSE}, ack_only : BOOLEAN] \cup
  [dcid : {3}, scid : {2}, token : {4}, client : {TRUE}, ack_only : {FALSE}]
Packing == INSTANCE Datagrams WITH
  max_udp_payload_size <- 110, tag_size <- 16, MaxDatagrams <- 2, MaxFrames <- 4,
  Setups <- DatagramSetups, FrameSpaces <- {1, 2, 4},
  Leftovers <- {0, 1, 17, 38, 39, 46, 47, 51, 57} \cup 22 .. 24 \cup 30 .. 33,
  AckSizes <- {5, 40}, DatagramSizes <- {75},
  setup <- g_setup, s <- g_s, packets <- g_packets, datagrams <- g_datagrams,
  frames <- g_frames, granted <- g_granted

\* The client closes at the application's wish, the server when it would have to
\* retain too much state or, before all but the 1-RTT keys are gone, with an alert.
ClosingErrors(e, known) ==
  IF e = "client" THEN {"application"}
  ELSE IF known = {"1rtt"} THEN {"exhaustion"} ELSE {"exhaustion", "alert"}
\* Of a client and a server.  Only the client has an idle limit, which the server
\* learns of with the handshake; keys while the client waits for the server's
\* first flight, and afterwards.
Each(c, s) == [e \in {"client", "server"} |-> IF e = "client" THEN c ELSE s]
Closing == INSTANCE ConnClose WITH
  MaxIdle <- Each(2, 0), ThreePto <- 1, FourPto <- 2, MaxNow <- 3,
  KeySets <- {Each({"initial"}, {"initial", "handshake", "1rtt"}), Each({"1rtt"}, {"1rtt"})},
  Errors <- ClosingErrors,
  MaxStreams <- Each(1, 0), MaxReceived <- Each(3, 1),
  now <- e_now, conn <- e_conn, net <- e_net

ASSUME Closing!ClosingAssumption

-----------------------------------------------------------------------------
packing == <<g_setup, g_s, g_packets, g_datagrams, g_frames, g_granted>>
closing == <<e_now, e_conn, e_net>>
AllVars == <<part, vars, c_x, packing, closing>>

AllInit ==
  /\ part \in {"stream", "format", "packing", "closing"}
  /\ Init /\ (part # "stream" => max_stream_data = 0 /\ recv_complete)
  /\ Format!Init
  /\ IF part = "packing" THEN Packing!Init
     ELSE g_setup = 0 /\ g_s = 0 /\ g_packets = 0 /\ g_datagrams = 0 /\ g_frames = 0 /\ g_granted = 0
  /\ IF part = "closing" THEN Closing!Init ELSE e_now = 0 /\ e_conn = 0 /\ e_net = 0

\* A stream can always go on; the others end with what was to be written or sent,
\* or with the time.
AllNext ==
  \/ part = "stream" /\ Next /\ UNCHANGED <<part, c_x, packing, closing>>
  \/ part = "format" /\ Format!Next /\ UNCHANGED <<part, vars, packing, closing>>
  \/ part = "packing" /\ Packing!Next /\ UNCHANGED <<part, vars, c_x, closing>>
  \/ part = "closing" /\ Closing!Next /\ UNCHANGED <<part, vars, c_x, packing>>
  \/ part # "stream" /\ UNCHANGED AllVars

AllSpec == AllInit /\ [][AllNext]_AllVars

-----------------------------------------------------------------------------
(* Properties: those of SendState, and these.                                *)

\* What one endpoint writes the other reads, at every boundary of a length
\* (frame.c, frame.h, send_ack, quicly_send_stream, transport parameters).
FormatsAgree == part = "format" => Format!FormatsAgree

\* Coalescing neither overruns nor wastes a datagram, but that a packet behind one
\* of a single byte may lack one byte, and the receiver finds the packets again
\* (do_allocate_frame, commit_send_packet, quicly_decode_packet).
DatagramsSound == part = "packing" => Packing!DatagramsSound
\* Both ends may close at once and repeatedly: the application is told once and
\* truly, timers neither fire early nor never, two closing ends fall silent
\* (initiate_close, enter_close, do_send_closed, update_idle_timeout).
ClosesInOrder == part = "closing" => Closing!ClosesInOrder
=============================================================================
