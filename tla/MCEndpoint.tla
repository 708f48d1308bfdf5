---------------------------- MODULE MCEndpoint ------------------------------
(* The life of a connection, its connection IDs and its packet numbers for   *)
(* TLC, one component at a time: CidExchange; Handshake and KeyUpdate;       *)
(* PnSpace, Ranges and BPlusRanges.                                          *)
EXTENDS CidExchange

VARIABLES
  part,   \* the component that takes steps
  h_c, h_s, h_net,
  k_conn, k_net, k_damaged,
  ack_queue, next_expected_packet_number, unacked_count, prior_ce,
  packet_tolerance, reordering_threshold,
  largest_acked_unacked, smallest_unreported_missing,
  next_sequence, send_ack_at, acks, processed, eliciting, reported, ackacked,
  given_up,
  r_ranges, r_capacity, r_seeded, r_held,
  b_tree, b_received, b_ops

-----------------------------------------------------------------------------
\* Plain, with early data that is accepted or not, an asynchronous signature,
\* Retry, both ends of a version apart.
HandshakeSetups ==
  {[early |-> "none", async |-> FALSE, retry |-> FALSE, vn |-> FALSE],
   [early |-> "rejected", async |-> FALSE, retry |-> FALSE, vn |-> FALSE],
   [early |-> "accepted", async |-> TRUE, retry |-> FALSE, vn |-> FALSE],
   [early |-> "none", async |-> FALSE, retry |-> TRUE, vn |-> TRUE]}
Shake == INSTANCE Handshake WITH
  QUICLY_MAX_DELAYED_PACKETS <- 2, AmplificationLimit <- 2, MaxBudget <- 2, MaxNet <- 2,
  Setups <- HandshakeSetups, c <- h_c, s <- h_s, net <- h_net

Keys == INSTANCE KeyUpdate WITH
  max_packets_per_key <- 1, UINT64_MAX <- 1000, MaxPn <- 4, MaxDamaged <- 1,
  conn <- k_conn, net <- k_net, damaged <- k_damaged

\* Three ranges of packets exceed what an ACK may report.
Space == INSTANCE PnSpace WITH
  MaxPn <- 5, Wrap <- 16, MaxAckBlocks <- 2, ReportSlots <- 1, MaxTolerance <- 3,
  DefaultTolerance <- 2, Tolerances <- {0, 4}, Thresholds <- {0, 2}, MaxSequence <- 1, MaxAcks <- 1

List == INSTANCE Ranges WITH
  Limit <- 10, ranges <- r_ranges, capacity <- r_capacity, seeded <- r_seeded, held <- r_held

\* With a fan-out of 4, 6 ranges make a tree of height 2 and 11 one of height 3,
\* of various shapes.
Seed(order, n) == [order |-> order, ops |-> n]
TreeSeeds ==
  {Seed([i \in 1 .. 6 |-> i - 1], 2), Seed(<<5, 1, 3, 0, 2, 4>>, 2),
   Seed([i \in 1 .. 11 |-> i - 1], 1), Seed([i \in 1 .. 11 |-> 11 - i], 1),
   Seed(<<1, 3, 5, 7, 9, 11, 0, 2, 4, 6, 8>>, 1),
   Seed(<<5, 6, 4, 7, 3, 8, 2, 9, 1, 10, 0>>, 1)}
Tree == INSTANCE BPlusRanges WITH
  Fanout <- 4, MinMaxRanges <- 12, BytesPerRange <- 10, Seeds <- TreeSeeds, Stride <- 4,
  Limit <- 50, tree <- b_tree, received <- b_received, ops <- b_ops

ASSUME /\ Keys!PacketsPerKeyAssumption
       /\ List!LimitAssumption /\ Tree!BPlusAssumption

-----------------------------------------------------------------------------
shake == <<h_c, h_s, h_net>>
keys == <<k_conn, k_net, k_damaged>>
space == <<ack_queue, next_expected_packet_number, unacked_count, prior_ce,
           packet_tolerance, reordering_threshold,
           largest_acked_unacked, smallest_unreported_missing,
           next_sequence, send_ack_at, acks, processed, eliciting, reported, ackacked,
           given_up>>
list == <<r_ranges, r_capacity, r_seeded, r_held>>
tree == <<b_tree, b_received, b_ops>>

AllVars == <<part, vars, shake, keys, space, list, tree>>

AllInit ==
  /\ part \in {"cids", "shake", "keys", "space", "ranges", "tree"}
  /\ Init
  /\ IF part = "shake" THEN Shake!Init ELSE h_c = 0 /\ h_s = 0 /\ h_net = 0
  /\ IF part = "keys" THEN Keys!Init ELSE k_conn = 0 /\ k_net = 0 /\ k_damaged = 0
  /\ Space!Init
  /\ List!Init /\ (part # "ranges" => r_seeded)
  /\ IF part = "tree" THEN Tree!Init ELSE b_tree = 0 /\ b_received = 0 /\ b_ops = 0

\* Of the components only the exchange of connection IDs can always go on; the
\* others may stop.
AllNext ==
  \/ /\ part = "cids" /\ Next
     /\ UNCHANGED <<part, shake, keys, space, list, tree>>
  \/ /\ part = "shake" /\ Shake!Next
     /\ UNCHANGED <<part, vars, keys, space, list, tree>>
  \/ /\ part = "keys" /\ Keys!Next
     /\ UNCHANGED <<part, vars, shake, space, list, tree>>
  \/ /\ part = "space" /\ Space!Next
     /\ UNCHANGED <<part, vars, shake, keys, list, tree>>
  \/ /\ part = "ranges" /\ List!Next
     /\ UNCHANGED <<part, vars, shake, keys, space, tree>>
  \/ /\ part = "tree" /\ Tree!Next
     /\ UNCHANGED <<part, vars, shake, keys, space, list>>
  \/ part # "cids" /\ UNCHANGED AllVars

AllSpec == AllInit /\ [][AllNext]_AllVars

-----------------------------------------------------------------------------
(* Properties: TypeOK, NoFalseAccusation, NothingForgotten and PathsAndCids  *)
(* of CidExchange, and those of the other components.                        *)

\* The handshake is sound in whatever order packets arrive and keys become
\* available: no accusation, no failed assertion, no space discarded early, no
\* delayed packet left behind (quicly_receive, discard_handshake_context).
HandshakeSound == part = "shake" => Shake!HandshakeSound

\* Whatever is lost, one of the two ends can send or has an alarm set until all is
\* done, the amplification limit notwithstanding (address_validation.send_probe,
\* quicly_get_first_timeout).
NeverStuck == part = "shake" => Shake!NeverStuck

\* Whatever arrives late or damaged, the keys that are needed are kept, the newest
\* can be read, and both ends go through the same phases (aead_decrypt_1rtt,
\* received_key_update).
KeysInStep == part = "keys" => Keys!KeysInStep

\* Packets are processed once and acknowledged in time, whatever ACK-ACKs, the
\* limit on ranges and ACK_FREQUENCY do (is_duplicate_pn, record_receipt,
\* send_ack, do_on_ack_ack).
AcksInOrder == part = "space" => Space!AcksInOrder

\* Whatever is added to a list of ranges and subtracted from it, it holds the set
\* that is left, and its search finds what is missing from a bound that is not below
\* the first range (quicly_ranges_add, quicly_ranges_subtract,
\* quicly_ranges_next_missing).
RangesExact == part = "ranges" => List!RangesExact

\* However ranges bridge, split and merge nodes, the tree holds what was added and
\* its separators and pointers are valid (insert_range, delete_range).
TreeExact == part = "tree" => Tree!TreeExact
=============================================================================
