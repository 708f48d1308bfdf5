----------------------------- MODULE BPlusRanges -----------------------------
(***************************************************************************)
(* quicly_bplus_ranges_t (lib/bplus_ranges.c): the ranges of a stream that *)
(* have been received, in a B+ tree.  Ranges are only added; adding one    *)
(* that bridges others deletes those, one delete_range at a time, and the  *)
(* path to the surviving range has to be followed through the rebalancing. *)
(*                                                                         *)
(* Nodes live in a heap indexed by their address, so that a node that is   *)
(* lost or freed twice shows.  Slots are counted from 1; slot 0 of a leaf  *)
(* is the -1 of the code.  keys[1] is unused, as keys[0] is in the code.   *)
(***************************************************************************)
EXTENDS Integers, FiniteSets, TLC, FiniteSetsExt, SequencesExt

CONSTANTS
    Fanout,         \* QUICLY_BPLUS_RANGES_FANOUT
    MinMaxRanges,   \* MIN_MAX_RANGES
    BytesPerRange,  \* BYTES_PER_RANGE
    Seeds,          \* how the first ranges may have arrived: their order, and
                    \* the bound on the ranges added after them
    Stride,         \* the distance between those ranges
    Limit           \* max_committed

MinEntries == Fanout \div 2

BPlusAssumption ==
    /\ Fanout \in Nat /\ Fanout >= 4 /\ Fanout = 2 * MinEntries
    /\ Limit \in Nat /\ MinMaxRanges \in Nat \ {0}
    /\ BytesPerRange \in Nat \ {0}

VARIABLES
    tree,       \* quicly_bplus_ranges_t and the heap its nodes are in
    received,   \* history: the set of bytes that were added
    ops         \* bound: the number of ranges still to be added

vars == <<tree, received, ops>>

First == 0      \* the address of ranges->first, which is never allocated

Interval(start, end) == [start |-> start, end |-> end]
Leaf(ranges) == [leaf |-> TRUE, ranges |-> ranges, keys |-> <<>>, kids |-> <<>>]
Inner(keys, kids) == [leaf |-> FALSE, ranges |-> <<>>, keys |-> keys, kids |-> kids]

(* quicly_bplus_ranges_init *)
EmptyTree == [nodes |-> (First :> Leaf(<<Interval(0, 0)>>)), root |-> First, height |-> 1,
              last |-> [node |-> First, slot |-> 1], num |-> 1]

-----------------------------------------------------------------------------
(* Nodes.                                                                  *)

leaf_count_le(n, x) == Cardinality({i \in DOMAIN n.ranges : n.ranges[i].start <= x})
keys_count_le(n, x) == 1 + Cardinality({i \in 2 .. Len(n.keys) : n.keys[i] <= x})

Entries(n) == IF n.leaf THEN Len(n.ranges) ELSE Len(n.kids)

Alloc(t) == Min((0 .. Cardinality(DOMAIN t.nodes)) \ DOMAIN t.nodes)
Free(t, a) == [t EXCEPT !.nodes = [b \in DOMAIN @ \ {a} |-> @[b]]]
Put(t, a, n) == [t EXCEPT !.nodes = (a :> n) @@ @]

HoldsLast(t, a) == t.last.node = a
ShiftLast(t, a, by) == IF HoldsLast(t, a) THEN [t EXCEPT !.last.slot = @ + by] ELSE t

(* One level of a path: a node and the slot chosen in it. *)
Step(node, slot) == [node |-> node, slot |-> slot]

RECURSIVE Descend(_, _, _, _)
Descend(t, a, x, path) ==
    IF t.nodes[a].leaf THEN Append(path, Step(a, leaf_count_le(t.nodes[a], x)))
    ELSE Descend(t, t.nodes[a].kids[keys_count_le(t.nodes[a], x)], x,
                 Append(path, Step(a, keys_count_le(t.nodes[a], x))))

(* The lowest level above `level` at which the path does not go through    *)
(* the first child; 0 when there is none.                                  *)
Turn(path, level) == Max({0} \cup {l \in 1 .. level - 1 : path[l].slot # 1})

update_separator(t, path, level, new_min) ==
    IF Turn(path, level) = 0 THEN t
    ELSE [t EXCEPT !.nodes[path[Turn(path, level)].node].keys[path[Turn(path, level)].slot] = new_min]

(* The last range of the leaf before the one the path points to. *)
prev_leaf(t, path) ==
    LET turn == Turn(path, Len(path))
        at == Step(path[turn].node, path[turn].slot - 1)
    IN Descend(t, t.nodes[at.node].kids[at.slot], Limit, Append(SubSeq(path, 1, turn - 1), at))

-----------------------------------------------------------------------------
(* insert_range                                                            *)

LowHalf(s) == SubSeq(s, 1, MinEntries)
HighHalf(s) == SubSeq(s, MinEntries + 1, Fanout)

MoveLastOnSplit(t, a, high) ==
    IF HoldsLast(t, a) THEN [t EXCEPT !.last = [node |-> high, slot |-> @.slot - MinEntries]] ELSE t

(* The high half of `a` moves to a new node. *)
split_node(t, a, high) ==
    LET n == t.nodes[a] IN
    IF n.leaf
    THEN MoveLastOnSplit(Put(Put(t, high, Leaf(HighHalf(n.ranges))), a, Leaf(LowHalf(n.ranges))), a, high)
    ELSE Put(Put(t, high, Inner(HighHalf(n.keys), HighHalf(n.kids))), a,
             Inner(LowHalf(n.keys), LowHalf(n.kids)))

SplitKey(t, a) ==
    IF t.nodes[a].leaf THEN t.nodes[a].ranges[MinEntries + 1].start
    ELSE t.nodes[a].keys[MinEntries + 1]

Full(t, a) == Entries(t.nodes[a]) = Fanout

InsertAtLeaf(t, a, pos, r) ==
    ShiftLast([t EXCEPT !.nodes[a].ranges = InsertAt(@, pos, r), !.num = @ + 1], a, 1)

InsertEntryAt(t, a, index, key, child) ==
    [t EXCEPT !.nodes[a] = Inner(InsertAt(@.keys, index, key), InsertAt(@.kids, index, child))]

NewRoot(t, sep, high) ==
    LET a == Alloc(t)
    IN [Put(t, a, Inner(<<0, sep>>, <<t.root, high>>)) EXCEPT !.root = a, !.height = @ + 1]

(* The high half of the split node goes to the parent, which may be full. *)
RECURSIVE InsertUp(_, _, _, _, _)
InsertUp(t, path, level, sep, high) ==
    IF level = 0 THEN NewRoot(t, sep, high)
    ELSE LET p == path[level] IN
         IF ~Full(t, p.node) THEN InsertEntryAt(t, p.node, p.slot + 1, sep, high)
         ELSE LET up == Alloc(t)
                  s == split_node(t, p.node, up)
                  in == IF p.slot > MinEntries
                        THEN InsertEntryAt(s, up, p.slot - MinEntries + 1, sep, high)
                        ELSE InsertEntryAt(s, p.node, p.slot + 1, sep, high)
              IN InsertUp(in, path, level - 1, SplitKey(t, p.node), up)

insert_range(t, path, r) ==
    LET p == Last(path)
        pos == p.slot + 1
        high == Alloc(t)
        s == split_node(t, p.node, high)
        in == IF pos > MinEntries + 1 THEN InsertAtLeaf(s, high, pos - MinEntries, r)
              ELSE InsertAtLeaf(s, p.node, pos, r)
    IN IF ~Full(t, p.node) THEN InsertAtLeaf(t, p.node, pos, r)
       ELSE InsertUp(in, path, Len(path) - 1, SplitKey(t, p.node), high)

-----------------------------------------------------------------------------
(* delete_range                                                            *)

(* What a step of the rebalancing hands on: the tree and the path. *)
Result(t, path) == [t |-> t, path |-> path]

RemoveFromLeaf(t, path) ==
    LET p == Last(path)
        cut == ShiftLast([t EXCEPT !.nodes[p.node].ranges = RemoveAt(@, p.slot), !.num = @ - 1], p.node, -1)
    IN Result(IF p.slot = 1 THEN update_separator(cut, path, Len(path), cut.nodes[p.node].ranges[1].start)
              ELSE cut,
              [path EXCEPT ![Len(path)].slot = @ - 1])

(* An entry moves from the higher sibling `b`, child `sep` of `parent`, to `a`. *)
BorrowFromHigh(t, parent, sep, a, b) ==
    LET na == t.nodes[a] nb == t.nodes[b] np == t.nodes[parent] IN
    IF na.leaf
    THEN ShiftLast(Put(Put(Put(t, a, Leaf(Append(na.ranges, Head(nb.ranges)))),
                           b, Leaf(Tail(nb.ranges))),
                       parent, [np EXCEPT !.keys[sep] = nb.ranges[2].start]), b, -1)
    ELSE Put(Put(Put(t, a, Inner(Append(na.keys, np.keys[sep]), Append(na.kids, Head(nb.kids)))),
                 b, Inner(Tail(nb.keys), Tail(nb.kids))),
             parent, [np EXCEPT !.keys[sep] = nb.keys[2]])

(* An entry moves from the lower sibling `a` to `b`, child `sep` of `parent`. *)
BorrowFromLow(t, parent, sep, a, b) ==
    LET na == t.nodes[a] nb == t.nodes[b] np == t.nodes[parent] IN
    IF na.leaf
    THEN ShiftLast(Put(Put(Put(t, a, Leaf(Front(na.ranges))),
                           b, Leaf(<<Last(na.ranges)>> \o nb.ranges)),
                       parent, [np EXCEPT !.keys[sep] = Last(na.ranges).start]), b, 1)
    ELSE Put(Put(Put(t, a, Inner(Front(na.keys), Front(na.kids))),
                 b, Inner(<<0, np.keys[sep]>> \o Tail(nb.keys), <<Last(na.kids)>> \o nb.kids)),
             parent, [np EXCEPT !.keys[sep] = Last(na.keys)])

MoveLastOnMerge_Kept(t, a, b) == t

MoveLastOnMerge(t, a, b) ==
    IF HoldsLast(t, b)
    THEN [t EXCEPT !.last = [node |-> a, slot |-> Len(t.nodes[a].ranges) + @.slot]] ELSE t

MergeNodes_StaleKey(t, parent, sep, a, b) ==
    LET na == t.nodes[a] nb == t.nodes[b] np == t.nodes[parent]
        m == IF na.leaf THEN Leaf(na.ranges \o nb.ranges)
             ELSE Inner(na.keys \o nb.keys, na.kids \o nb.kids)
    IN Free(Put(Put(MoveLastOnMerge(t, a, b), a, m),
                parent, Inner(RemoveAt(np.keys, sep), RemoveAt(np.kids, sep))), b)

(* `b`, child `sep` of `parent`, is merged into `a` and freed. *)
MergeNodes(t, parent, sep, a, b) ==
    LET na == t.nodes[a] nb == t.nodes[b] np == t.nodes[parent]
        m == IF na.leaf THEN Leaf(na.ranges \o nb.ranges)
             ELSE Inner(na.keys \o <<np.keys[sep]>> \o Tail(nb.keys), na.kids \o nb.kids)
    IN Free(Put(Put(MoveLastOnMerge(t, a, b), a, m),
                parent, Inner(RemoveAt(np.keys, sep), RemoveAt(np.kids, sep))), b)

MovedUp(path, level, node, by, sep) ==
    [path EXCEPT ![level] = Step(node, @.slot + by), ![level - 1].slot = sep]

(* While the node at `level` is one entry short: the higher sibling gives  *)
(* an entry or is merged, the lower one when there is no higher sibling.   *)
RECURSIVE Rebalance(_, _, _)
Rebalance(t, path, level) ==
    IF level = 1 \/ Entries(t.nodes[path[level].node]) >= MinEntries THEN Result(t, path)
    ELSE LET up == path[level - 1]
             kids == t.nodes[up.node].kids
             a == path[level].node
         IN IF up.slot < Len(kids)
            THEN LET b == kids[up.slot + 1] IN
                 IF Entries(t.nodes[b]) > MinEntries
                 THEN Result(BorrowFromHigh(t, up.node, up.slot + 1, a, b), path)
                 ELSE Rebalance(MergeNodes(t, up.node, up.slot + 1, a, b), path, level - 1)
            ELSE LET low == kids[up.slot - 1] IN
                 IF Entries(t.nodes[low]) > MinEntries
                 THEN Result(BorrowFromLow(t, up.node, up.slot, low, a), [path EXCEPT ![level].slot = @ + 1])
                 ELSE Rebalance(MergeNodes(t, up.node, up.slot, low, a),
                                MovedUp(path, level, low, MinEntries, up.slot - 1), level - 1)

ShrinkRoot_Never(r) == r

ShrinkRoot(r) ==
    IF r.t.height > 1 /\ Len(r.t.nodes[r.t.root].kids) = 1
    THEN Result(Free([r.t EXCEPT !.root = r.t.nodes[r.t.root].kids[1], !.height = @ - 1], r.t.root),
                Tail(r.path))
    ELSE r

RebalanceAfter(r) == ShrinkRoot(Rebalance(r.t, r.path, Len(r.path)))

delete_range(t, path) == RebalanceAfter(RemoveFromLeaf(t, path))

-----------------------------------------------------------------------------
(* quicly_bplus_ranges_add                                                 *)

calc_max_ranges(t) == Max({MinMaxRanges, (Limit - t.nodes[First].ranges[1].end) \div BytesPerRange + 1})

(* The range that a path points to. *)
At(t, path) == t.nodes[Last(path).node].ranges[Last(path).slot]

Extend_Overwrites(t, path, end) ==
    [t EXCEPT !.nodes[Last(path).node].ranges[Last(path).slot].end = end]

Extend(t, path, end) ==
    [t EXCEPT !.nodes[Last(path).node].ranges[Last(path).slot].end = IF @ < end THEN end ELSE @]

Lower(t, path, start) ==
    LET low == [t EXCEPT !.nodes[Last(path).node].ranges[Last(path).slot].start = start]
    IN IF Last(path).slot = 1 THEN update_separator(low, path, Len(path), start) ELSE low

IsFirstRange(path) == Last(path).slot = 1 /\ Last(path).node = First

PredPath(t, path) ==
    IF Last(path).slot # 1 THEN [path EXCEPT ![Len(path)].slot = @ - 1] ELSE prev_leaf(t, path)

(* delete_range has tracked the predecessor, in the preceding leaf at times. *)
Followed(r) == IF Last(r.path).slot = 0 THEN Result(r.t, prev_leaf(r.t, r.path)) ELSE r

(* The range at `path` is merged into its predecessor while that touches. *)
RECURSIVE MergeDown(_, _)
MergeDown(r, start) ==
    IF start >= At(r.t, r.path).start THEN r.t
    ELSE IF IsFirstRange(r.path) \/ At(r.t, PredPath(r.t, r.path)).end < start
    THEN Lower(r.t, r.path, start)
    ELSE LET pred == PredPath(r.t, r.path)
             d == delete_range(Extend(r.t, pred, At(r.t, r.path).end), r.path)
         IN IF At(r.t, pred).start <= start THEN d.t ELSE MergeDown(Followed(d), start)

LastRange(t) == t.nodes[t.last.node].ranges[t.last.slot]

Add(t, start, end) ==
    IF start = end THEN t
    ELSE IF LastRange(t).start <= start /\ start <= LastRange(t).end
    THEN [t EXCEPT !.nodes[t.last.node].ranges[t.last.slot].end = IF @ < end THEN end ELSE @]
    ELSE LET path == Descend(t, t.root, end, <<>>) IN
         IF Last(path).slot = 0 \/ At(t, path).end < start
         THEN IF t.num >= calc_max_ranges(t) THEN t ELSE insert_range(t, path, Interval(start, end))
         ELSE MergeDown(Result(Extend(t, path, end), path), start)

-----------------------------------------------------------------------------

(* The stream has already received some ranges, in one order or another. *)
Seeded(seed) == FoldLeft(LAMBDA t, i : Add(t, Stride * i, Stride * i + 1), EmptyTree, seed)

Init ==
    /\ \E seed \in Seeds :
         /\ tree = Seeded(seed.order)
         /\ received = {Stride * i : i \in ToSet(seed.order)}
         /\ ops = seed.ops

(* An exhausted tree is left as it is, and so is the set. *)
AddRange(start, end) ==
    /\ ops > 0 /\ end <= LastRange(tree).end + 2
    /\ \E t \in {Add(tree, start, end)} :
         /\ tree' = t
         /\ received' = IF t = tree THEN received ELSE received \cup (start .. end - 1)
    /\ ops' = ops - 1

Next == \E start, end \in 0 .. Limit : start <= end /\ AddRange(start, end)

Spec == Init /\ [][Next]_vars

-----------------------------------------------------------------------------
(* Properties.                                                             *)

RECURSIVE InOrder(_, _)
InOrder(t, a) ==
    IF t.nodes[a].leaf THEN t.nodes[a].ranges
    ELSE FoldLeft(LAMBDA s, k : s \o InOrder(t, k), <<>>, t.nodes[a].kids)

RECURSIVE Under(_, _)
Under(t, a) == {a} \cup UNION {Under(t, t.nodes[a].kids[i]) : i \in DOMAIN t.nodes[a].kids}

RECURSIVE Depths(_, _)
Depths(t, a) ==
    IF t.nodes[a].leaf THEN {1}
    ELSE UNION {{d + 1 : d \in Depths(t, t.nodes[a].kids[i])} : i \in DOMAIN t.nodes[a].kids}

(* However ranges bridge, split and merge nodes, the leaves hold, in order *)
(* and separated by gaps, exactly the bytes that were added (a range that  *)
(* touches no other is refused as a whole when the tree is exhausted), and *)
(* num_ranges is their number.                                             *)
HoldsWhatArrived ==
    LET r == InOrder(tree, tree.root) IN
    /\ UNION {r[i].start .. r[i].end - 1 : i \in DOMAIN r} = received
    /\ \A i \in 1 .. Len(r) - 1 : r[i].end < r[i + 1].start
    /\ tree.num = Len(r)

(* calc_max_ranges relies on it: every node but the root keeps at least    *)
(* MIN_ENTRIES entries and at most FANOUT, and all the leaves are at       *)
(* `height`, so that MAX_HEIGHT bounds the path kept on the stack.         *)
Balanced ==
    /\ Depths(tree, tree.root) = {tree.height}
    /\ \A a \in Under(tree, tree.root) :
         /\ Entries(tree.nodes[a]) <= Fanout
         /\ a # tree.root => Entries(tree.nodes[a]) >= MinEntries
         /\ a = tree.root /\ tree.height > 1 => Entries(tree.nodes[a]) >= 2

(* bplus_ranges.h: keys[i] is the start of the first range under           *)
(* children[i]; descend relies on it to find the range to touch.           *)
SeparatorsExact ==
    \A a \in Under(tree, tree.root) : ~tree.nodes[a].leaf =>
        \A i \in 2 .. Len(tree.nodes[a].kids) :
            tree.nodes[a].keys[i] = InOrder(tree, tree.nodes[a].kids[i])[1].start

(* The fast path writes through `last`: after every split, loan and merge  *)
(* it still points to the last range of the tree, `first` is still the     *)
(* leftmost leaf, and no node has leaked or been freed while in use.       *)
PointersValid ==
    /\ tree.last.node \in DOMAIN tree.nodes
    /\ tree.last.slot \in DOMAIN tree.nodes[tree.last.node].ranges
    /\ LastRange(tree) = Last(InOrder(tree, tree.root))
    /\ tree.nodes[First].ranges[1] = Head(InOrder(tree, tree.root))
    /\ Under(tree, tree.root) = DOMAIN tree.nodes

(* However ranges bridge, split and merge nodes: the leaves hold exactly   *)
(* what was added, and height, separators and the pointers into the tree   *)
(* are those of the tree there is (insert_range, delete_range).            *)
TreeExact == HoldsWhatArrived /\ Balanced /\ SeparatorsExact /\ PointersValid
=============================================================================
