------------------------------- MODULE Ranges -------------------------------
(***************************************************************************)
(* quicly_ranges_t (lib/ranges.c): a set of integers kept as an array of   *)
(* ranges [start, end), searched from the end when adding and from the     *)
(* beginning when subtracting.  It holds the acknowledged and the pending  *)
(* bytes of a stream and the packet numbers to be acknowledged; the other  *)
(* modules represent each by the set of its members, which is what this    *)
(* module justifies.  Slots are counted from 1.                            *)
(***************************************************************************)
EXTENDS Integers, FiniteSetsExt, SequencesExt

CONSTANT Limit     \* bound: the end of the largest range

LimitAssumption == Limit \in Nat \ {0}

VARIABLES
  ranges,          \* the array, as long as num_ranges says
  capacity,        \* the number of slots allocated
  seeded,          \* initialised by quicly_ranges_init_with_range(0, 0)
  held             \* history: the set that was asked for

vars == <<ranges, capacity, seeded, held>>

Interval(start, end) == [start |-> start, end |-> end]

\* the integers of a list
Members(r) == UNION {r[i].start .. r[i].end - 1 : i \in DOMAIN r}

-----------------------------------------------------------------------------
(* Slots *)

\* quicly_ranges_drop_by_range_indices: slots begin .. end - 1 are removed
DropSlots(r, begin, end) == SubSeq(r, 1, begin - 1) \o SubSeq(r, end, Len(r))

\* merge_update: slots slot .. end_slot and [start, end) become one range
MergeUpdate(r, start, end, slot, end_slot) ==
  DropSlots(ReplaceAt(r, slot, Interval(Min({start, r[slot].start}),
                                        Max({end, r[end_slot].end}))),
            slot + 1, end_slot + 1)

\* faulty: a range that begins where the added one ends is not reached
ReachedBy_Strict(r, end) == {i \in DOMAIN r : r[i].start < end}

\* the slots that begin no later than `end`: the last one is to contain `end`
ReachedBy(r, end) == {i \in DOMAIN r : r[i].start <= end}

\* quicly_ranges_add
Add(r, start, end) ==
  LET reached == ReachedBy(r, end)
      end_slot == Max(reached)
      below == {i \in reached : r[i].end <= start}
      slot == Max(below)
  IN  IF start = end THEN r
      ELSE IF reached = {} THEN InsertAt(r, 1, Interval(start, end))
      ELSE IF below = {} THEN MergeUpdate(r, start, end, 1, end_slot)
      ELSE IF r[slot].end = start THEN MergeUpdate(r, start, end, slot, end_slot)
      ELSE IF slot = end_slot THEN InsertAt(r, slot + 1, Interval(start, end))
      ELSE MergeUpdate(r, start, end, slot + 1, end_slot)

-----------------------------------------------------------------------------
(* Subtraction *)

\* the part of quicly_ranges_subtract where one slot is all there is to change
SubtractWithin(r, start, end, slot) ==
  LET old == r[slot]
      left == IF start <= old.start THEN <<>> ELSE <<Interval(old.start, start)>>
      right == IF end = old.end THEN <<>> ELSE <<Interval(end, old.end)>>
  IN  IF end <= old.start THEN r
      ELSE SubSeq(r, 1, slot - 1) \o left \o right
             \o SubSeq(r, slot + 1, Len(r))

\* faulty: what is left of the last slot keeps its old start
SubtractAcross_KeepsStart(r, start, end, slot) ==
  LET kept == IF start <= r[slot].start THEN r
              ELSE ReplaceAt(r, slot, Interval(r[slot].start, start))
      shrink_from == IF start <= r[slot].start THEN slot ELSE slot + 1
      beyond == {i \in slot + 1 .. Len(r) :
                   end <= r[i].start \/ end < r[i].end}
      last == IF beyond = {} THEN Len(r) + 1 ELSE Min(beyond)
  IN  DropSlots(kept, shrink_from, last)

\* the part where the region goes beyond the first slot it touches: what is
\* left of the last slot that it touches keeps its place
SubtractAcross(r, start, end, slot) ==
  LET kept == IF start <= r[slot].start THEN r
              ELSE ReplaceAt(r, slot, Interval(r[slot].start, start))
      shrink_from == IF start <= r[slot].start THEN slot ELSE slot + 1
      beyond == {i \in slot + 1 .. Len(r) :
                   end <= r[i].start \/ end < r[i].end}
      last == IF beyond = {} THEN Len(r) + 1 ELSE Min(beyond)
      cut == IF beyond = {} \/ end <= r[last].start THEN kept
             ELSE ReplaceAt(kept, last, Interval(end, r[last].end))
  IN  DropSlots(cut, shrink_from, last)

\* quicly_ranges_subtract
Subtract(r, start, end) ==
  LET slot == Min({i \in DOMAIN r : start <= r[i].end})
  IN  IF \/ start = end
         \/ Len(r) = 0
         \/ end <= r[1].start
         \/ r[Len(r)].end <= start
      THEN r
      ELSE IF end <= r[slot].end THEN SubtractWithin(r, start, end, slot)
      ELSE SubtractAcross(r, start, end, slot)

-----------------------------------------------------------------------------
(* Search *)

\* faulty: the end of a range counts as part of it
InGapBefore_Late(r, i, lower_bound) ==
  i # 1 /\ r[i].start > lower_bound /\ lower_bound > r[i - 1].end + 1

\* whether the search stops at slot i: lower_bound is in the gap before it
InGapBefore(r, i, lower_bound) ==
  i # 1 /\ r[i].start > lower_bound /\ lower_bound > r[i - 1].end

\* quicly_ranges_next_missing: from the last slot backwards
NextMissing(r, lower_bound) ==
  LET reached == {i \in DOMAIN r : r[i].end >= lower_bound}
  IN  IF reached = {} \/ (\E i \in reached : InGapBefore(r, i, lower_bound))
      THEN lower_bound
      ELSE r[Min(reached)].end

-----------------------------------------------------------------------------
(* Storage *)

\* insert_at: the capacity once a slot has been added
Grown(c, num_ranges) ==
  IF num_ranges < c THEN c ELSE IF c < 4 THEN 4 ELSE c * 2

\* faulty: the array is halved without looking at what it holds
Shrunk_Always(c, num_ranges) ==
  IF c > 4 THEN {c, c \div 2} ELSE {c}

\* quicly_ranges_drop_by_range_indices: the capacities it may end with;
\* realloc may fail, and is asked only when the array is sparse
Shrunk(c, num_ranges) ==
  IF c > 4 /\ num_ranges * 3 <= c THEN {c, c \div 2} ELSE {c}

\* an operation changes the number of slots through one call of insert_at or
\* of quicly_ranges_drop_by_range_indices
Replace(r) ==
  /\ ranges' = r
  /\ capacity' \in IF Len(r) > Len(ranges) THEN {Grown(capacity, Len(ranges))}
                   ELSE IF Len(r) < Len(ranges) THEN Shrunk(capacity, Len(r))
                   ELSE {capacity}

-----------------------------------------------------------------------------
(* The specification *)

\* quicly_ranges_init, or quicly_ranges_init_with_range(0, 0)
Init ==
  /\ seeded \in BOOLEAN
  /\ ranges = IF seeded THEN <<Interval(0, 0)>> ELSE <<>>
  /\ capacity = 1
  /\ held = {}

AddRange(start, end) ==
  /\ Replace(Add(ranges, start, end))
  /\ held' = held \union (start .. end - 1)
  /\ UNCHANGED seeded

\* the lists that are seeded (the acknowledged bytes) are never subtracted from
SubtractRange(start, end) ==
  /\ ~ seeded
  /\ Replace(Subtract(ranges, start, end))
  /\ held' = held \ (start .. end - 1)
  /\ UNCHANGED seeded

\* record_pn and do_on_ack_ack: the oldest ranges are given up
DropOldest(n) ==
  /\ ~ seeded
  /\ n < Len(ranges)
  /\ Replace(DropSlots(ranges, 1, n + 1))
  /\ held' = {m \in held : m >= ranges[n + 1].start}
  /\ UNCHANGED seeded

\* quicly_ranges_clear
Clear ==
  /\ ~ seeded
  /\ ranges' = <<>>
  /\ capacity' = 1
  /\ held' = {}
  /\ UNCHANGED seeded

\* An insert_at that gets no memory leaves everything as it was.
Next ==
  \/ \E start, end \in 0 .. Limit : start <= end /\ AddRange(start, end)
  \/ \E start, end \in 0 .. Limit : start <= end /\ SubtractRange(start, end)
  \/ \E n \in 1 .. Limit : DropOldest(n)
  \/ Clear

Spec == Init /\ [][Next]_vars

-----------------------------------------------------------------------------
(* Properties *)

\* Whatever was added and subtracted, in whatever order, the array holds
\* exactly the integers that the same unions and differences of sets leave:
\* the model of a quicly_ranges_t that the other modules use.
HoldsTheSet == Members(ranges) = held

\* The ranges are in order and separated by at least one missing integer, and
\* none is empty but the one of a seeded list.  quicly_sendstate_transfer_complete
\* and on_ack_stream_ack_one take ranges[0].end for the end of everything that
\* has been acknowledged contiguously; quicly_sendstate_lost and send_ack take
\* what is between two ranges for a gap.
Canonical ==
  /\ \A i \in DOMAIN ranges :
       \/ ranges[i].start < ranges[i].end
       \/ seeded /\ i = 1 /\ ranges[i] = Interval(0, 0)
  /\ \A i \in 1 .. Len(ranges) - 1 : ranges[i].end < ranges[i + 1].start
  /\ seeded => ranges # <<>> /\ ranges[1].start = 0

\* The slots in use were allocated: growing and shrinking keep the memory as
\* large as the array, so that no operation writes behind its end.
FitsCapacity == Len(ranges) <= capacity

\* the smallest integer from lower_bound on that is missing
IsNextMissing(n, lower_bound) == n = Min({m \in lower_bound .. Limit + 1 : m \notin held})

\* From any lower bound that does not lie below the first range, quicly_ranges_next_missing
\* finds the smallest missing integer that is not below the bound.
FindsNextMissing ==
  ~ seeded =>
    \A lower_bound \in 0 .. Limit :
      ranges = <<>> \/ ranges[1].start <= lower_bound
        => IsNextMissing(NextMissing(ranges, lower_bound), lower_bound)

\* ranges.h: quicly_ranges_next_missing "returns the next missing number from ranges
\* greater than or equal to lower_bound", whatever the bound.  What is missing below
\* the first range is skipped (ranges.c:211 looks for a gap behind the first slot only).
NextMissingPromised ==
  ~ seeded =>
    \A lower_bound \in 0 .. Limit : IsNextMissing(NextMissing(ranges, lower_bound), lower_bound)

\* A list of ranges holds exactly the set that was added and subtracted, in its
\* one canonical form and capacity, and the search finds what is missing in it from
\* a bound that is not below the first range
\* (quicly_ranges_add, quicly_ranges_subtract, quicly_ranges_next_missing).
RangesExact == HoldsTheSet /\ Canonical /\ FitsCapacity /\ FindsNextMissing
=============================================================================
