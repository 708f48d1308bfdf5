------------------------------- MODULE PnSpace -------------------------------
(***************************************************************************)
(* The receiving half of the 1-RTT packet number space                     *)
(* (st_quicly_pn_space_t, lib/quicly.c): which packets are processed,      *)
(* which are owed an ACK, when the ACK is sent, and how the ACKs of our    *)
(* own ACKs prune the queue.  The ACK_FREQUENCY extension changes the      *)
(* tolerance and the reordering threshold on the way.                      *)
(*                                                                         *)
(* ack_queue, a quicly_ranges_t, is the set of its packet numbers (see     *)
(* Ranges).  Time is what the ACK timer can tell: never, later, due.       *)
(***************************************************************************)
EXTENDS Integers, FiniteSetsExt, SequencesExt

CONSTANTS
  MaxPn,             \* bound: the peer uses packet numbers 0 .. MaxPn - 1
  Wrap,              \* 2^64, where uint64_t wraps around
  MaxAckBlocks,      \* QUICLY_MAX_ACK_BLOCKS
  ReportSlots,       \* QUICLY_MAX_ACK_BLOCKS / 4
  MaxTolerance,      \* QUICLY_MAX_PACKET_TOLERANCE
  DefaultTolerance,  \* QUICLY_DEFAULT_PACKET_TOLERANCE
  Tolerances,        \* what the peer's ACK_FREQUENCY frames may ask for
  Thresholds,        \* likewise, the reordering thresholds as uint32_t
  MaxSequence,       \* bound: ACK_FREQUENCY frames that the peer sends
  MaxAcks            \* bound: our ACKs in flight

ASSUME PnAssumption ==
  MaxPn \in Nat /\ Wrap \in Nat /\ MaxPn < Wrap /\ 1 < Wrap
ASSUME BlockAssumption ==
  MaxAckBlocks \in Nat \ {0} /\ ReportSlots \in Nat
ASSUME FrequencyAssumption ==
  /\ MaxTolerance \in Nat
  /\ DefaultTolerance \in Nat \ {0}
  /\ Tolerances \subseteq Nat
  /\ Thresholds \subseteq 0 .. Wrap - 1
  /\ MaxSequence \in Nat
  /\ MaxAcks \in Nat

VARIABLES
  ack_queue, next_expected_packet_number, unacked_count, prior_ce,
  packet_tolerance, reordering_threshold,
  largest_acked_unacked, smallest_unreported_missing,
  next_sequence,     \* ingress.ack_frequency.next_sequence
  send_ack_at,       \* egress.send_ack_at against the current time
  acks,              \* the ACKs sent that the sentmap still holds, oldest
                     \* first: each as its sequence of entries, and each
                     \* entry as the packets it covers
  processed,         \* history: packets whose payload has been handled
  eliciting,         \* history: those of them that elicit an ACK
  reported,          \* history: packets that some ACK we sent covers
  ackacked,          \* history: packets that some acknowledged ACK covers
  given_up           \* history: packets that do_on_ack_ack dropped to stay
                     \* within the limit

space == <<ack_queue, next_expected_packet_number, unacked_count, prior_ce,
           packet_tolerance, reordering_threshold, largest_acked_unacked,
           smallest_unreported_missing>>
history == <<processed, eliciting, reported, ackacked, given_up>>
vars == <<space, next_sequence, send_ack_at, acks, history>>

Pn == 0 .. MaxPn - 1

Timer == {"never", "later", "due"}     \* INT64_MAX, > now, <= now

-----------------------------------------------------------------------------
(* The queue *)

\* where the ranges of the queue begin
Starts(queue) == {n \in queue : n - 1 \notin queue}

\* faulty: one range too many is kept
Capped_OneMore(queue) ==
  {n \in queue : Cardinality({s \in Starts(queue) : s > n}) <= MaxAckBlocks}

\* quicly_ranges_drop_by_range_indices(0, num_ranges - QUICLY_MAX_ACK_BLOCKS)
Capped(queue) ==
  {n \in queue : Cardinality({s \in Starts(queue) : s > n}) < MaxAckBlocks}

\* quicly_ranges_next_missing
NextMissing(queue, lower_bound) ==
  LET from == IF queue = {} THEN lower_bound ELSE Max({lower_bound, Min(queue)})
  IN  Min({n \in from .. Max({from, MaxPn}) : n \notin queue})

\* the number of ranges that quicly_ranges_next_missing visits
SlotsTraversed(queue, lower_bound) ==
  Cardinality({s \in Starts(queue) :
                 \E n \in queue : s <= n /\ s .. n \subseteq queue
                                         /\ n + 1 >= lower_bound})

\* is_duplicate_pn
IsDuplicate(queue, pn, next_expected) ==
  /\ pn < next_expected
  /\ queue = {} \/ pn < Min(queue) \/ pn \in queue

\* record_pn: is_out_of_order
OutOfOrder(queue, pn) == queue # {} /\ pn # Max(queue) + 1

\* record_pn: the queue after it; in order, there is no new range to count
Recorded(queue, pn) ==
  IF OutOfOrder(queue, pn) THEN Capped(queue \union {pn}) ELSE queue \union {pn}

-----------------------------------------------------------------------------
(* The reordering window *)

\* change_outside_reorder_window: smallest_unreported_missing once pn has been
\* looked at for being the one that was missing
Found(queue, largest, smallest, pn) ==
  IF pn # smallest THEN smallest
  ELSE IF pn = largest THEN largest + 1
  ELSE NextMissing(queue, pn + 1)

\* faulty: the window moves on and what has been found missing stays behind
Smallest_Kept(queue, largest, smallest, pn, threshold) ==
  IF threshold = 0 THEN largest + 1 ELSE Found(queue, largest, smallest, pn)

\* change_outside_reorder_window: the new smallest_unreported_missing
Smallest(queue, largest, smallest, pn, threshold) ==
  LET found == Found(queue, largest, smallest, pn)
  IN  IF threshold = 0 THEN largest + 1
      ELSE IF largest < threshold \/ found > largest - threshold THEN found
      ELSE NextMissing(queue, largest - threshold + 1)

\* change_outside_reorder_window: slots_traversed_for_next_missing
Traversed(queue, largest, smallest, pn, threshold) ==
  IF Found(queue, largest, smallest, pn) <= largest - threshold
  THEN SlotsTraversed(queue, largest - threshold + 1)
  ELSE IF pn = smallest /\ pn # largest THEN SlotsTraversed(queue, pn + 1)
  ELSE 0

\* change_outside_reorder_window: the result
OutsideWindow(queue, largest, smallest, pn, threshold) ==
  /\ threshold # 0
  /\ largest >= threshold
  /\ \/ smallest <= largest - threshold
     \/ pn <= largest - threshold
     \/ Traversed(queue, largest, smallest, pn, threshold) > ReportSlots

\* update_smallest_unreported_missing_on_send_ack, in uint64_t
SmallestOnSendAck(queue, largest_acked, smallest, threshold) ==
  LET outside == (largest_acked - threshold) % Wrap
  IN  IF threshold <= 1 THEN largest_acked + 1
      ELSE IF outside < smallest THEN smallest
      ELSE NextMissing(queue, (outside + 1) % Wrap)

-----------------------------------------------------------------------------
(* Receiving *)

\* do_on_ack_ack: an entry is subtracted
Subtracted(queue, entry) == Capped(queue \ entry)

\* faulty: the gaps between the ranges of an entry are subtracted as well
Pruned_Gaps(queue, entries) ==
  LET pruned[k \in 0 .. Len(entries)] ==
        IF k = 0 THEN queue
        ELSE Subtracted(pruned[k - 1], Min(entries[k]) .. Max(entries[k]))
  IN  pruned[Len(entries)]

\* do_on_ack_ack, for every entry of an ACK
Pruned(queue, entries) ==
  LET pruned[k \in 0 .. Len(entries)] ==
        IF k = 0 THEN queue ELSE Subtracted(pruned[k - 1], entries[k])
  IN  pruned[Len(entries)]

\* on_ack_ack_ranges8 and 64: the queue once the ACKs in `acked`, a set of
\* positions in `acks`, are acknowledged, the oldest first
PrunedBy(queue, acked) ==
  LET pruned[i \in 0 .. Len(acks)] ==
        IF i = 0 THEN queue
        ELSE IF i \in acked THEN Pruned(pruned[i - 1], acks[i])
        ELSE pruned[i - 1]
  IN  pruned[Len(acks)]

\* the packets that the ACKs in `acked` cover
CoveredBy(acked) == UNION {UNION Range(acks[i]) : i \in acked}

\* the ACKs but those in `acked`
Without(acked) ==
  LET kept == DOMAIN acks \ acked
  IN  [i \in 1 .. Cardinality(kept) |->
         acks[CHOOSE k \in kept : Cardinality({j \in kept : j <= k}) = i]]

\* faulty: the tolerance is one packet more than it says
ToleranceMet_Late(count, tolerance) == count > tolerance

\* record_receipt: the packets received since the last ACK suffice for one
ToleranceMet(count, tolerance) == count >= tolerance

\* faulty: the timer is armed only by the second packet that waits for an ACK
NextTimer_SecondPacket(timer, ack_now, count) ==
  IF ack_now THEN "due"
  ELSE IF timer = "never" /\ count > 1 THEN "later"
  ELSE timer

\* record_receipt: send_ack_at
NextTimer(timer, ack_now, count) ==
  IF ack_now THEN "due"
  ELSE IF timer = "never" /\ count # 0 THEN "later"
  ELSE timer

\* record_receipt, on the state that handle_payload has left
RecordReceipt(queue, count, tolerance, threshold, timer, pn, elicits, ce) ==
  LET recorded == Recorded(queue, pn)
      largest == IF elicits THEN Max({largest_acked_unacked, pn})
                 ELSE largest_acked_unacked
      outside == OutsideWindow(recorded, largest, smallest_unreported_missing,
                               pn, threshold)
      reorder == IF threshold = 1
                 THEN elicits /\ (OutOfOrder(queue, pn) \/ ce)
                 ELSE (elicits /\ outside) \/ (ce /\ ~ prior_ce)
      new_count == IF elicits THEN count + 1 ELSE count
      ack_now == reorder \/ (elicits /\ ToleranceMet(new_count, tolerance))
  IN  /\ ack_queue' = recorded
      /\ largest_acked_unacked' = largest
      /\ smallest_unreported_missing' =
           IF threshold = 1 THEN largest + 1
           ELSE Smallest(recorded, largest, smallest_unreported_missing,
                         pn, threshold)
      /\ unacked_count' = new_count
      /\ send_ack_at' = NextTimer(timer, ack_now, new_count)
      /\ prior_ce' = ce

\* handle_ack_frequency_frame: the frame is newer than any seen before
Supersedes(frequency) == frequency.sequence >= next_sequence

\* quicly_receive: a packet that decrypts and is not a duplicate.  Its payload
\* is handled before the packet number is recorded.
Receive(pn, elicits, ce, acked, frequency, immediate) ==
  LET queue == PrunedBy(ack_queue, acked)
      count == IF acked # {} /\ queue = {} THEN 0 ELSE unacked_count
      timer == IF immediate THEN "due" ELSE send_ack_at
      obeyed == {f \in frequency : Supersedes(f)}
      tolerance == IF obeyed = {} THEN packet_tolerance
                   ELSE Min({Max({f.tolerance : f \in obeyed}), MaxTolerance})
      threshold == IF obeyed = {} THEN reordering_threshold
                   ELSE Max({f.threshold : f \in obeyed})
  IN  /\ ~ IsDuplicate(ack_queue, pn, next_expected_packet_number)
      /\ pn \in processed => (elicits <=> pn \in eliciting)
      /\ next_expected_packet_number' =
           Max({next_expected_packet_number, pn + 1})
      /\ RecordReceipt(queue, count, tolerance, threshold, timer, pn, elicits, ce)
      /\ packet_tolerance' = tolerance
      /\ reordering_threshold' = threshold
      /\ next_sequence' = Max({next_sequence}
                                \union {f.sequence + 1 : f \in obeyed})
      /\ acks' = Without(acked)
      /\ processed' = processed \union {pn}
      /\ eliciting' = IF elicits THEN eliciting \union {pn} ELSE eliciting
      /\ ackacked' = ackacked \union CoveredBy(acked)
      /\ given_up' = given_up \union ((ack_queue \ queue) \ CoveredBy(acked))
      /\ UNCHANGED reported

ReceiveData(pn, ce) == Receive(pn, TRUE, ce, {}, {}, FALSE)

\* PADDING, or an ACK of packets that carry none of our ACKs, and nothing else
ReceiveNonEliciting(pn, ce) == Receive(pn, FALSE, ce, {}, {}, FALSE)

ReceiveAckOfAcks(pn, elicits, acked) ==
  acked # {} /\ Receive(pn, elicits, FALSE, acked, {}, FALSE)

ReceiveAckFrequency(pn, frequency) ==
  Receive(pn, TRUE, FALSE, {}, {frequency}, FALSE)

\* handle_immediate_ack_frame
ReceiveImmediateAck(pn) == Receive(pn, TRUE, FALSE, {}, {}, TRUE)

-----------------------------------------------------------------------------
(* Sending *)

\* faulty: the timer is stopped whether or not the ACK went out
TimerAfterSend_Always(timer, count) == "never"

\* do_send: the timer is stopped when there is nothing left to acknowledge
TimerAfterSend(timer, count) == IF count = 0 THEN "never" ELSE timer

\* send_ack, "save what's inflight": consecutive ranges share an entry as far
\* as its eight-bit fields and their number allow, which is anyone's guess here
Entries(queue) ==
  {[k \in 1 .. Cardinality(cuts) + 1 |->
      {n \in queue : Cardinality({c \in cuts : c <= n}) = k - 1}] :
     cuts \in SUBSET (Starts(queue) \ {Min(queue)})}

\* do_send, when it is time for an ACK: send_ack
SendAck ==
  LET largest_acked == Max(ack_queue)
  IN  /\ send_ack_at = "due"
      /\ unacked_count # 0
      /\ ack_queue # {}
      /\ Len(acks) < MaxAcks
      /\ \E entries \in Entries(ack_queue) : acks' = Append(acks, entries)
      /\ unacked_count' = 0
      /\ largest_acked_unacked' = Max({largest_acked_unacked, largest_acked})
      /\ smallest_unreported_missing' =
           IF largest_acked <= largest_acked_unacked
           THEN smallest_unreported_missing
           ELSE SmallestOnSendAck(ack_queue, largest_acked,
                                  smallest_unreported_missing,
                                  reordering_threshold)
      /\ send_ack_at' = TimerAfterSend(send_ack_at, 0)
      /\ reported' = reported \union ack_queue
      /\ UNCHANGED <<ack_queue, next_expected_packet_number, prior_ce,
                     packet_tolerance, reordering_threshold, next_sequence,
                     processed, eliciting, ackacked, given_up>>

\* do_send for some other reason, or when nothing is to be acknowledged
SendOther ==
  /\ send_ack_at # "due" \/ unacked_count = 0 \/ ack_queue = {}
  /\ send_ack_at' = TimerAfterSend(send_ack_at, unacked_count)
  /\ UNCHANGED <<space, next_sequence, acks, history>>

\* QUICLY_DELAYED_ACK_TIMEOUT has passed
TimerExpires ==
  /\ send_ack_at = "later"
  /\ send_ack_at' = "due"
  /\ UNCHANGED <<space, next_sequence, acks, history>>

\* the sentmap gives up on the packet of one of our ACKs
AckExpires(i) ==
  /\ acks' = Without({i})
  /\ UNCHANGED <<space, next_sequence, send_ack_at, history>>

-----------------------------------------------------------------------------
(* The specification *)

Frequency == [sequence : 0 .. MaxSequence - 1, tolerance : Tolerances,
              threshold : Thresholds]

\* alloc_pn_space
Init ==
  /\ ack_queue = {}
  /\ next_expected_packet_number = 0
  /\ unacked_count = 0
  /\ prior_ce = FALSE
  /\ packet_tolerance = DefaultTolerance
  /\ reordering_threshold = 1
  /\ largest_acked_unacked = 0
  /\ smallest_unreported_missing = 0
  /\ next_sequence = 0
  /\ send_ack_at = "never"
  /\ acks = <<>>
  /\ processed = {}
  /\ eliciting = {}
  /\ reported = {}
  /\ ackacked = {}
  /\ given_up = {}

Next ==
  \/ \E pn \in Pn, ce \in BOOLEAN : ReceiveData(pn, ce)
  \/ \E pn \in Pn, ce \in BOOLEAN : ReceiveNonEliciting(pn, ce)
  \/ \E pn \in Pn, elicits \in BOOLEAN, acked \in SUBSET DOMAIN acks :
       ReceiveAckOfAcks(pn, elicits, acked)
  \/ \E pn \in Pn, frequency \in Frequency : ReceiveAckFrequency(pn, frequency)
  \/ \E pn \in Pn : ReceiveImmediateAck(pn)
  \/ SendAck
  \/ SendOther
  \/ TimerExpires
  \/ \E i \in DOMAIN acks : AckExpires(i)

Spec == Init /\ [][Next]_vars

\* The application calls quicly_send when quicly_get_first_timeout says so.
\* A sent packet does not stay in the sentmap for ever.
FairSpec ==
  /\ Spec
  /\ WF_vars(TimerExpires)
  /\ WF_vars(SendAck)
  /\ \A i \in 1 .. MaxAcks : WF_vars(i \in DOMAIN acks /\ AckExpires(i))

-----------------------------------------------------------------------------
(* Properties *)

\* Types, the limit on the number of ranges of ack_queue, and the order of the
\* histories.
TypeOK ==
  /\ ack_queue \subseteq Pn
  /\ next_expected_packet_number \in 0 .. MaxPn
  /\ unacked_count \in Nat
  /\ prior_ce \in BOOLEAN
  /\ packet_tolerance \in Nat
  /\ reordering_threshold \in 0 .. Wrap - 1
  /\ largest_acked_unacked \in Nat
  /\ smallest_unreported_missing \in 0 .. Wrap - 1
  /\ next_sequence \in 0 .. MaxSequence
  /\ send_ack_at \in Timer
  /\ \A i \in DOMAIN acks : acks[i] \in Seq(SUBSET Pn)
  /\ Cardinality(Starts(ack_queue)) <= MaxAckBlocks
  /\ processed \subseteq Pn /\ eliciting \subseteq processed
  /\ reported \subseteq processed /\ ackacked \subseteq reported
  /\ given_up \subseteq processed

\* A packet that was processed passes for a new one only if an ACK that covers
\* it has been acknowledged, or if subtracting such an ACK split the queue into
\* more ranges than there may be: the limit that record_pn keeps never makes
\* is_duplicate_pn forget a packet.
ProcessedOnce ==
  \A pn \in processed \ (ackacked \union given_up) :
    IsDuplicate(ack_queue, pn, next_expected_packet_number)

\* ACK-eliciting packets that no ACK has covered
Waiting == (ack_queue \cap eliciting) \ reported

\* As long as the queue holds an ACK-eliciting packet that no ACK has covered,
\* there is an ACK to be sent and a timer to send it, whatever ACK-ACKs and
\* transmissions happened since.
AckPromised ==
  Waiting # {} => unacked_count # 0 /\ send_ack_at # "never"

\* No more ACK-eliciting packets wait for the timer than the peer tolerates,
\* even when an ACK_FREQUENCY frame has just lowered the tolerance.
ToleranceKept ==
  Waiting # {} /\ Cardinality(Waiting) >= packet_tolerance
    => send_ack_at = "due"

\* Again and again no ACK-eliciting packet waits: each is reported, unless it
\* is given up because there are too many ranges to report (send_ack,
\* record_receipt).
AckSent == []<>(Waiting = {})

\* A packet that is missing outside the reordering window is the reason of one
\* immediate ACK: smallest_unreported_missing has left it behind once a packet
\* has been received or an ACK sent, whichever way the threshold was changed,
\* so that the packets that follow are acknowledged at the usual pace.
WindowLeftBehind ==
  reordering_threshold # 0 /\ largest_acked_unacked >= reordering_threshold
    => smallest_unreported_missing
         > largest_acked_unacked - reordering_threshold

\* Packets are processed once and acknowledged in time, whatever ACK-ACKs, the
\* limit on ranges and ACK_FREQUENCY do to the queue that serves for both
\* (is_duplicate_pn, record_receipt, send_ack, do_on_ack_ack).
AcksInOrder == TypeOK /\ ProcessedOnce /\ AckPromised /\ ToleranceKept /\ WindowLeftBehind
=============================================================================
