---------------------------- MODULE PacketProofs ----------------------------
(***************************************************************************)
(* What becomes of 1-RTT packets, for any number of them.                  *)
(*                                                                         *)
(* The receiving half of the packet number space: Inv is the inductive     *)
(* invariant.  Beside the properties it says that unacked_count counts     *)
(* whatever waits for an ACK (Counted) and that our ACKs cover packets     *)
(* that were processed (Recollection).                                     *)
(*                                                                         *)
(* The keys of both endpoints stay in step, whatever packets are lost,     *)
(* repeated and damaged: KeysInv is the inductive invariant.  Beside the   *)
(* properties it says what the packets under way tell of the endpoint that *)
(* sent them (InPhase) and what an endpoint has read when it acknowledges  *)
(* (SeenInPhase).                                                          *)
(***************************************************************************)
EXTENDS PnSpace, FiniteSetTheorems, WellFoundedInduction, TLAPS

CONSTANTS max_packets_per_key, UINT64_MAX,
  MaxSent,           \* the packets that an endpoint sends
  MaxDamaged

VARIABLES k_conn, k_net, k_damaged

Keys == INSTANCE KeyUpdate WITH conn <- k_conn, net <- k_net,
                                damaged <- k_damaged, MaxPn <- MaxSent

-----------------------------------------------------------------------------
(* Numbers and finite sets *)

\* Every set of natural numbers has a least element.
LEMMA LeastExists ==
  ASSUME NEW T, T \subseteq Nat, T # {}
  PROVE  \E m \in T : \A k \in T : m <= k
<1>1. \E m \in T : \A k \in T : ~(k < m)
  <2>1. PICK R : R = OpToRel(<, Nat)
    OBVIOUS
  <2>2. IsWellFoundedOn(R, Nat)
    BY <2>1, NatLessThanWellFounded
  <2>3. PICK m \in T : \A k \in T : ~(<<k, m>> \in R)
    BY <2>2, WFMin
  <2>4. \A k \in T : <<k, m>> \in R <=> k < m
    BY <2>1 DEF OpToRel
  <2> QED  BY <2>3, <2>4
<1> QED  BY <1>1

\* What holds at first and is passed on by every step holds throughout.
LEMMA Throughout ==
  ASSUME NEW n \in Nat, NEW g, NEW D, g[0] \in D,
         \A k \in 1 .. n : g[k - 1] \in D => g[k] \in D
  PROVE  \A k \in 0 .. n : g[k] \in D
<1>1. SUFFICES ASSUME NEW T, T = {k \in 0 .. n : g[k] \notin D}, T # {}
               PROVE  FALSE
  OBVIOUS
<1>2. PICK m \in T : \A k \in T : m <= k
  BY <1>1, LeastExists
<1>3. m \in 1 .. n /\ m - 1 \in 0 .. n /\ m - 1 \notin T
  BY <1>1, <1>2
<1>4. g[m - 1] \in D
  BY <1>1, <1>3
<1> QED  BY <1>1, <1>2, <1>3, <1>4

\* f is what the functions of the list F make of q one after the other
Run(f, n, D, q, F) ==
  /\ f \in [0 .. n -> D]
  /\ f[0] = q /\ \A k \in 1 .. n : f[k] = F[k][f[k - 1]]

\* They can be applied.
LEMMA Iterates ==
  ASSUME NEW n \in Nat, NEW D, NEW q \in D, NEW F \in [1 .. n -> [D -> D]]
  PROVE  \E f : Run(f, n, D, q, F)
<1> DEFINE Upto(m) == {f \in [0 .. m -> D] :
                         f[0] = q /\ \A k \in 1 .. m : f[k] = F[k][f[k - 1]]}
<1>1. SUFFICES Upto(n) # {}
  BY DEF Run
<1> HIDE DEF Upto
<1>2. PICK T : T = {m \in 0 .. n : Upto(m) = {}}
  OBVIOUS
<1>3. SUFFICES ASSUME T # {} PROVE FALSE
  BY <1>2
<1>4. T \subseteq Nat
  BY <1>2
<1>5. PICK m \in T : \A k \in T : m <= k
  BY <1>3, <1>4, LeastExists
<1>6. CASE m = 0
  <2>1. [k \in 0 .. 0 |-> q] \in Upto(0)
    BY DEF Upto
  <2> QED  BY <1>2, <1>6, <2>1
<1>7. CASE m # 0
  <2>1. m \in 1 .. n /\ m - 1 \in 0 .. n /\ m - 1 \notin T
    BY <1>2, <1>5, <1>7
  <2>2. PICK f : f \in Upto(m - 1)
    BY <1>2, <2>1
  <2>3. PICK x : x = F[m][f[m - 1]]
    OBVIOUS
  <2>4. x \in D
    <3>1. f[m - 1] \in D
      BY <2>1, <2>2 DEF Upto
    <3> QED  BY <2>1, <2>3, <3>1
  <2>5. PICK g : g = [k \in 0 .. m |-> IF k = m THEN x ELSE f[k]]
    OBVIOUS
  <2>6. g \in [0 .. m -> D]
    BY <2>1, <2>2, <2>4, <2>5 DEF Upto
  <2>7. g[0] = q
    BY <2>1, <2>2, <2>5 DEF Upto
  <2>8. ASSUME NEW k \in 1 .. m PROVE g[k] = F[k][g[k - 1]]
    <3>1. g[k - 1] = f[k - 1]
      BY <2>1, <2>5
    <3>2. CASE k = m
      BY <2>1, <2>3, <2>5, <3>1, <3>2
    <3>3. CASE k # m
      <4>1. k \in 1 .. m - 1 /\ g[k] = f[k]
        BY <2>1, <2>5, <3>3
      <4> QED  BY <2>2, <3>1, <4>1 DEF Upto
    <3> QED  BY <3>2, <3>3
  <2>9. g \in Upto(m)
    BY <2>6, <2>7, <2>8 DEF Upto
  <2> QED  BY <1>2, <2>9
<1> QED  BY <1>6, <1>7

\* The least of a set of natural numbers.
LEMMA MinIs ==
  ASSUME NEW T, T \subseteq Nat, T # {}
  PROVE  Min(T) \in T /\ \A k \in T : Min(T) <= k
BY LeastExists DEF Min

\* The greatest of a set of packet numbers.
LEMMA MaxIs ==
  ASSUME NEW T, T \subseteq Pn, T # {}
  PROVE  Max(T) \in T /\ \A k \in T : k <= Max(T)
<1>1. PICK D : D = {MaxPn - k : k \in T}
  OBVIOUS
<1>2. D \subseteq Nat /\ D # {}
  <2>1. \A k \in T : MaxPn - k \in Nat
    BY PnAssumption DEF Pn
  <2> QED  BY <1>1, <2>1
<1>3. PICK d \in D : \A k \in D : d <= k
  BY <1>2, LeastExists
<1>4. PICK m \in T : d = MaxPn - m
  BY <1>1
<1>5. ASSUME NEW k \in T PROVE m >= k
  <2>1. MaxPn - k \in D
    BY <1>1
  <2>2. MaxPn - m <= MaxPn - k
    BY <1>3, <1>4, <2>1
  <2> QED  BY <2>2, PnAssumption DEF Pn
<1>6. Max(T) \in T /\ \A k \in T : Max(T) >= k
  BY <1>5 DEF Max
<1> QED  BY <1>6, PnAssumption DEF Pn

\* The lesser and the greater of two, and of one.
LEMMA OfTwo ==
  ASSUME NEW a \in Int, NEW b \in Int
  PROVE  /\ Min({a, b}) = IF a <= b THEN a ELSE b
         /\ Max({a, b}) = IF a >= b THEN a ELSE b
<1>1. Min({a, b}) \in {a, b} /\ Min({a, b}) <= a /\ Min({a, b}) <= b
  <2>1. \E x \in {a, b} : \A y \in {a, b} : x <= y
    OBVIOUS
  <2> QED  BY <2>1 DEF Min
<1>2. Max({a, b}) \in {a, b} /\ Max({a, b}) >= a /\ Max({a, b}) >= b
  <2>1. \E x \in {a, b} : \A y \in {a, b} : x >= y
    OBVIOUS
  <2> QED  BY <2>1 DEF Max
<1> QED  BY <1>1, <1>2

\* Packet numbers are finite in number.
LEMMA NumbersFinite ==
  ASSUME NEW S, S \subseteq Pn
  PROVE  IsFiniteSet(S) /\ Cardinality(S) \in Nat
<1>1. IsFiniteSet(0 .. MaxPn - 1)
  BY PnAssumption, FS_Interval
<1>2. IsFiniteSet(S)
  BY <1>1, FS_Subset DEF Pn
<1> QED  BY <1>2, FS_CardinalityType

\* the rank of k in K
Rank(K, k) == Cardinality({j \in K : j <= k})

\* The elements of a finite set of numbers have ranks.
LEMMA Ranked ==
  ASSUME NEW n \in Nat, NEW K, K \subseteq 1 .. n, NEW i \in 1 .. Cardinality(K)
  PROVE  \E k \in K : Rank(K, k) = i
<1> DEFINE Upto(k) == {j \in K : j <= k}
<1>1. IsFiniteSet(K) /\ Cardinality(K) \in Nat
  <2>1. IsFiniteSet(1 .. n)
    BY FS_Interval
  <2>2. IsFiniteSet(K)
    BY <2>1, FS_Subset
  <2> QED  BY <2>2, FS_CardinalityType
<1>2. ASSUME NEW k PROVE IsFiniteSet(Upto(k)) /\ Cardinality(Upto(k)) \in Nat
  BY <1>1, FS_Subset, FS_CardinalityType
<1>3. Upto(n) = K /\ Upto(0) = {}
  <2>1. \A j \in K : j <= n /\ ~(j <= 0)
    OBVIOUS
  <2> QED  BY <2>1
<1>4. ASSUME NEW m \in 1 .. n
      PROVE  /\ m \notin K => Upto(m) = Upto(m - 1)
             /\ m \in K => Upto(m) = Upto(m - 1) \union {m} /\ m \notin Upto(m - 1)
  <2>1. \A j \in K : j <= m <=> j <= m - 1 \/ j = m
    OBVIOUS
  <2>2. ~(m <= m - 1)
    OBVIOUS
  <2> QED  BY <2>1, <2>2
<1> HIDE DEF Upto
<1>5. PICK T : T = {k \in 0 .. n : Cardinality(Upto(k)) >= i}
  OBVIOUS
<1>6. T \subseteq Nat /\ n \in T /\ 0 \notin T
  BY <1>1, <1>3, <1>5, FS_EmptySet
<1>7. PICK m \in T : \A k \in T : m <= k
  BY <1>6, LeastExists
<1>8. m \in 1 .. n /\ m - 1 \in 0 .. n /\ m - 1 \notin T
  BY <1>5, <1>6, <1>7
<1>9. PICK c \in Nat : c = Cardinality(Upto(m - 1))
  BY <1>2
<1>10. c < i /\ Cardinality(Upto(m)) >= i
  BY <1>1, <1>5, <1>7, <1>8, <1>9
<1>11. m \in K
  <2>1. SUFFICES ASSUME m \notin K PROVE FALSE
    OBVIOUS
  <2>2. c >= i
    BY <1>4, <1>8, <1>9, <1>10, <2>1
  <2> QED  BY <1>1, <1>10, <2>2
<1>12. Cardinality(Upto(m)) = c + 1
  BY <1>2, <1>4, <1>8, <1>9, <1>11, FS_AddElement
<1>13. Cardinality(Upto(m)) = i
  BY <1>1, <1>10, <1>12
<1> QED  BY <1>11, <1>13 DEF Upto, Rank

-----------------------------------------------------------------------------
(* The queue *)

\* What the limit on the number of ranges drops is the lowest.
LEMMA CappedIs ==
  ASSUME NEW queue, queue \subseteq Pn
  PROVE  /\ Capped(queue) \subseteq queue
         /\ \A n \in queue \ Capped(queue), m \in Capped(queue) : n < m
         /\ Cardinality(Starts(Capped(queue))) <= MaxAckBlocks
<1> DEFINE Above(n) == {s \in Starts(queue) : s > n}
<1>1. \A n \in queue : n \in Nat
  BY PnAssumption DEF Pn
<1>2. \A n : IsFiniteSet(Above(n)) /\ Cardinality(Above(n)) \in Nat
  <2>1. \A n : Above(n) \subseteq Pn
    BY DEF Starts
  <2> QED  BY <2>1, NumbersFinite
<1>3. Capped(queue) = {n \in queue : Cardinality(Above(n)) < MaxAckBlocks}
  BY DEF Capped
<1> HIDE DEF Above
<1>4. ASSUME NEW n \in queue \ Capped(queue), NEW m \in Capped(queue)
      PROVE  n < m
  <2>1. SUFFICES ASSUME m <= n PROVE FALSE
    BY <1>1, <1>3
  <2>2. Above(n) \in SUBSET Above(m)
    BY <1>1, <1>3, <2>1 DEF Above, Starts
  <2>3. Cardinality(Above(n)) <= Cardinality(Above(m))
    BY <1>2, <2>2, FS_Subset
  <2> QED  BY <1>2, <1>3, <2>3, BlockAssumption
<1>5. Cardinality(Starts(Capped(queue))) <= MaxAckBlocks
  <2> DEFINE S == Starts(Capped(queue))
  <2>1. S \subseteq Starts(queue)
    <3>1. SUFFICES ASSUME NEW n \in S, n - 1 \in queue PROVE FALSE
      BY <1>3 DEF Starts
    <3>2. n \in queue /\ n \in Nat /\ Cardinality(Above(n)) < MaxAckBlocks
          /\ n - 1 \notin Capped(queue) /\ n - 1 \in Nat
      BY <1>1, <1>3, <3>1 DEF Starts
    <3>3. \A s \in Starts(queue) : s > n - 1 <=> s > n
      BY <1>1, <3>1, <3>2 DEF Starts
    <3>4. Above(n - 1) = Above(n)
      BY <3>3 DEF Above
    <3> QED  BY <1>3, <3>1, <3>2, <3>4
  <2>2. CASE S = {}
    BY <2>2, FS_EmptySet, BlockAssumption
  <2>3. CASE S # {}
    <3>1. S \subseteq Nat
      BY <1>1, <2>1 DEF Starts
    <3>2. PICK m \in S : \A k \in S : m <= k
      BY <2>3, <3>1, LeastExists
    <3>3. S \in SUBSET (Above(m) \union {m})
      BY <2>1, <3>1, <3>2 DEF Above
    <3>4. Cardinality(Above(m)) < MaxAckBlocks
      BY <1>3, <3>2 DEF Starts
    <3>5. /\ IsFiniteSet(Above(m) \union {m})
          /\ Cardinality(Above(m) \union {m}) <= Cardinality(Above(m)) + 1
      <4>1. PICK c \in Nat : c = Cardinality(Above(m))
        BY <1>2
      <4>2. /\ IsFiniteSet(Above(m) \union {m})
            /\ Cardinality(Above(m) \union {m})
                 = IF m \in Above(m) THEN c ELSE c + 1
        BY <1>2, <4>1, FS_AddElement
      <4> QED  BY <4>1, <4>2
    <3>6. Cardinality(S) <= Cardinality(Above(m) \union {m})
      BY <3>3, <3>5, FS_Subset
    <3>7. Cardinality(Above(m) \union {m}) \in Nat /\ Cardinality(S) \in Nat
      <4>1. IsFiniteSet(S)
        BY <3>3, <3>5, FS_Subset
      <4> QED  BY <3>5, <4>1, FS_CardinalityType
    <3> QED  BY <1>2, <3>4, <3>5, <3>6, <3>7, BlockAssumption
  <2> QED  BY <2>2, <2>3
<1> QED  BY <1>3, <1>4, <1>5

\* What may be left of a queue, the number of its ranges within the limit.
Left(queue) == {x \in SUBSET queue : Cardinality(Starts(x)) <= MaxAckBlocks}

\* Subtracting an entry leaves a part of the queue.
LEMMA SubtractedIs ==
  ASSUME NEW queue, queue \subseteq Pn, NEW x \in Left(queue), NEW entry
  PROVE  Subtracted(x, entry) \in Left(queue)
BY CappedIs DEF Subtracted, Left

\* Pruning leaves a part of the queue (do_on_ack_ack).
LEMMA PrunedIs ==
  ASSUME NEW queue, queue \subseteq Pn, NEW x \in Left(queue),
         NEW entries \in Seq(SUBSET Pn)
  PROVE  Pruned(x, entries) \in Left(queue)
<1>1. PICK n \in Nat : n = Len(entries)
  OBVIOUS
<1>2. PICK D : D = Left(queue)
  OBVIOUS
<1>3. x \in D /\ \A y \in D : \A entry : Subtracted(y, entry) \in D
  BY <1>2, SubtractedIs
<1>4. PICK F : F = [k \in 1 .. n |-> [y \in D |-> Subtracted(y, entries[k])]]
  OBVIOUS
<1>5. F \in [1 .. n -> [D -> D]]
  BY <1>3, <1>4
<1>6. PICK f : Run(f, n, D, x, F)
  BY <1>3, <1>5, Iterates
<1>7. f = [k \in 0 .. n |-> IF k = 0 THEN x
                            ELSE Subtracted(f[k - 1], entries[k])]
  <2>1. ASSUME NEW k \in 1 .. n
        PROVE  f[k] = Subtracted(f[k - 1], entries[k])
    BY <1>4, <1>6 DEF Run
  <2> QED  BY <1>6, <2>1 DEF Run
<1> DEFINE Is(g) == g = [k \in 0 .. n |-> IF k = 0 THEN x
                                         ELSE Subtracted(g[k - 1], entries[k])]
<1>8. PICK g : g = CHOOSE h : Is(h)
  OBVIOUS
<1>9. Is(g)
  BY <1>7, <1>8
<1>10. Pruned(x, entries) = g[n]
  BY <1>1, <1>8 DEF Pruned
<1>11. g[0] = x /\ \A k \in 1 .. n : g[k] = Subtracted(g[k - 1], entries[k])
  BY <1>9
<1>12. \A k \in 0 .. n : g[k] \in D
  <2>1. g[0] \in D /\ \A k \in 1 .. n : g[k - 1] \in D => g[k] \in D
    BY <1>3, <1>11
  <2> QED  BY <2>1, Throughout
<1> QED  BY <1>2, <1>10, <1>12

\* So does the acknowledgement of any of our ACKs (on_ack_ack_ranges8 and 64).
LEMMA PrunedByIs ==
  ASSUME ack_queue \in Left(Pn), acks \in Seq(Seq(SUBSET Pn)), NEW acked
  PROVE  PrunedBy(ack_queue, acked) \in Left(ack_queue)
<1>1. PICK n \in Nat : n = Len(acks)
  OBVIOUS
<1>2. PICK D : D = Left(ack_queue)
  OBVIOUS
<1>3. \A k \in 1 .. n : acks[k] \in Seq(SUBSET Pn)
  BY <1>1
<1>4. /\ ack_queue \in D
      /\ \A y \in D, k \in 1 .. n : Pruned(y, acks[k]) \in D
  <2>1. ack_queue \subseteq Pn /\ ack_queue \in Left(ack_queue)
    BY DEF Left
  <2> QED  BY <1>2, <1>3, <2>1, PrunedIs
<1>5. PICK F : F = [k \in 1 .. n |->
                     [y \in D |-> IF k \in acked THEN Pruned(y, acks[k]) ELSE y]]
  OBVIOUS
<1>6. F \in [1 .. n -> [D -> D]]
  BY <1>4, <1>5
<1>7. PICK f : Run(f, n, D, ack_queue, F)
  BY <1>4, <1>6, Iterates
<1>8. f = [k \in 0 .. n |-> IF k = 0 THEN ack_queue
                            ELSE IF k \in acked THEN Pruned(f[k - 1], acks[k])
                            ELSE f[k - 1]]
  <2>1. ASSUME NEW k \in 1 .. n
        PROVE  f[k] = IF k \in acked THEN Pruned(f[k - 1], acks[k]) ELSE f[k - 1]
    <3>1. f[k - 1] \in D /\ f[k] = F[k][f[k - 1]]
      BY <1>7 DEF Run
    <3>2. F[k] = [y \in D |-> IF k \in acked THEN Pruned(y, acks[k]) ELSE y]
      BY <1>5
    <3> QED  BY <3>1, <3>2
  <2> QED  BY <1>7, <2>1 DEF Run
<1> DEFINE Is(g) ==
             g = [k \in 0 .. n |-> IF k = 0 THEN ack_queue
                                   ELSE IF k \in acked THEN Pruned(g[k - 1], acks[k])
                                   ELSE g[k - 1]]
<1>9. PICK g : g = CHOOSE h : Is(h)
  OBVIOUS
<1>10. Is(g)
  BY <1>8, <1>9
<1>11. PrunedBy(ack_queue, acked) = g[n]
  BY <1>1, <1>9 DEF PrunedBy
<1>12. \A k \in 0 .. n : g[k] \in D
  <2>1. g[0] \in D /\ \A k \in 1 .. n : g[k - 1] \in D => g[k] \in D
    BY <1>4, <1>10
  <2> QED  BY <2>1, Throughout
<1> QED  BY <1>2, <1>11, <1>12

\* What has arrived is in the queue or below it (record_pn).
LEMMA RecordedIs ==
  ASSUME NEW queue \in Left(Pn), NEW pn \in Pn
  PROVE  /\ Recorded(queue, pn) \in Left(Pn)
         /\ Recorded(queue, pn) \subseteq queue \union {pn}
         /\ \A n \in (queue \union {pn}) \ Recorded(queue, pn) :
              \A m \in Recorded(queue, pn) : n < m
<1>1. PICK q : q = queue \union {pn}
  OBVIOUS
<1>2. q \subseteq Pn
  BY <1>1 DEF Left
<1>3. CASE OutOfOrder(queue, pn)
  BY <1>1, <1>2, <1>3, CappedIs DEF Recorded, Left
<1>4. CASE ~OutOfOrder(queue, pn)
  <2>1. Recorded(queue, pn) = q
    BY <1>1, <1>4 DEF Recorded
  <2>2. Cardinality(Starts(q)) <= MaxAckBlocks
    <3>1. CASE queue = {}
      <4>1. Starts(q) \subseteq {pn}
        BY <1>1, <3>1 DEF Starts
      <4>2. Cardinality({pn}) = 1 /\ IsFiniteSet({pn})
        BY FS_Singleton
      <4>3. Cardinality(Starts(q)) <= 1 /\ Cardinality(Starts(q)) \in Nat
        BY <4>1, <4>2, FS_Subset, FS_CardinalityType
      <4> QED  BY <4>3, BlockAssumption
    <3>2. CASE queue # {}
      <4>1. pn = Max(queue) + 1 /\ queue \subseteq Pn
        BY <1>4, <3>2 DEF OutOfOrder, Left
      <4>2. Max(queue) \in queue /\ \A k \in queue : k <= Max(queue)
        BY <3>2, <4>1, MaxIs
      <4>3. pn - 1 \in queue
        <5>1. PICK top : top = Max(queue)
          OBVIOUS
        <5>2. top \in queue
          BY <4>2, <5>1, Zenon
        <5>3. top \in Int
          BY <4>1, <5>2, PnAssumption DEF Pn
        <5>4. pn = top + 1
          BY <4>1, <5>1, Zenon
        <5> QED  BY <5>2, <5>3, <5>4
      <4>4. Starts(q) \subseteq Starts(queue)
        BY <1>1, <4>3 DEF Starts
      <4>5. IsFiniteSet(Starts(queue)) /\ Cardinality(Starts(queue)) \in Nat
        BY <4>1, NumbersFinite DEF Starts
      <4>6. /\ Cardinality(Starts(q)) <= Cardinality(Starts(queue))
            /\ Cardinality(Starts(q)) \in Nat
        BY <4>4, <4>5, FS_Subset, FS_CardinalityType
      <4> QED  BY <4>5, <4>6, BlockAssumption DEF Left
    <3> QED  BY <3>1, <3>2
  <2> QED  BY <1>1, <1>2, <2>1, <2>2 DEF Left
<1> QED  BY <1>3, <1>4

\* The ACKs that stay are ACKs that were.
LEMMA WithoutIs ==
  ASSUME acks \in Seq(Seq(SUBSET Pn)), NEW acked
  PROVE  /\ Without(acked) \in Seq(Seq(SUBSET Pn))
         /\ \A i \in DOMAIN Without(acked) :
              \E k \in DOMAIN acks : Without(acked)[i] = acks[k]
<1>1. PICK n \in Nat : n = Len(acks)
  OBVIOUS
<1>2. PICK kept : kept = DOMAIN acks \ acked
  OBVIOUS
<1>3. kept \subseteq 1 .. n /\ DOMAIN acks = 1 .. n
  BY <1>1, <1>2
<1>4. PICK c \in Nat : c = Cardinality(kept)
  <2>1. IsFiniteSet(kept)
    <3>1. IsFiniteSet(1 .. n)
      BY FS_Interval
    <3> QED  BY <1>3, <3>1, FS_Subset
  <2> QED  BY <2>1, FS_CardinalityType
<1> DEFINE Nth(i) == CHOOSE k \in kept : Rank(kept, k) = i
<1>5. ASSUME NEW i \in 1 .. c PROVE Nth(i) \in kept
  <2>1. i \in 1 .. Cardinality(kept)
    BY <1>4
  <2>2. \E k \in kept : Rank(kept, k) = i
    BY <1>3, <2>1, Ranked, Zenon
  <2> QED  BY <2>2
<1>6. Without(acked) = [i \in 1 .. c |-> acks[Nth(i)]]
  BY <1>2, <1>4 DEF Without, Rank
<1> HIDE DEF Nth
<1>7. \A i \in 1 .. c : acks[Nth(i)] \in Seq(SUBSET Pn)
  <2>1. \A k \in 1 .. n : acks[k] \in Seq(SUBSET Pn)
    BY <1>1
  <2> QED  BY <1>3, <1>5, <2>1
<1>8. Without(acked) \in Seq(Seq(SUBSET Pn))
  BY <1>6, <1>7
<1> QED  BY <1>3, <1>5, <1>6, <1>8

-----------------------------------------------------------------------------
(* The reordering window *)

\* The next number missing is one from the lower bound on that fits uint64_t
\* (quicly_ranges_next_missing).
LEMMA NextMissingIs ==
  ASSUME NEW queue, queue \subseteq Pn, NEW low \in 0 .. Wrap - 1
  PROVE  NextMissing(queue, low) \in low .. Wrap - 1
<1>1. PICK from : from = IF queue = {} THEN low ELSE Max({low, Min(queue)})
  OBVIOUS
<1>2. from \in low .. Wrap - 1
  <2>1. CASE queue = {}
    BY <1>1, <2>1, PnAssumption
  <2>2. CASE queue # {}
    <3>1. PICK first : first = Min(queue)
      OBVIOUS
    <3>2. first \in Int /\ first < Wrap
      <4>1. queue \subseteq Nat
        BY PnAssumption DEF Pn
      <4>2. first \in queue
        BY <2>2, <3>1, <4>1, MinIs
      <4> QED  BY <4>2, PnAssumption DEF Pn
    <3>3. from = IF low >= first THEN low ELSE first
      <4>1. low \in Int /\ from = Max({low, first})
        BY <1>1, <2>2, <3>1, PnAssumption
      <4> QED  BY <3>2, <4>1, OfTwo
    <3> QED  BY <3>2, <3>3, PnAssumption
  <2> QED  BY <2>1, <2>2
<1>3. PICK end \in Int : /\ end = Max({from, MaxPn})
                         /\ from <= end /\ MaxPn <= end /\ end < Wrap
  <2>1. Max({from, MaxPn}) = IF from >= MaxPn THEN from ELSE MaxPn
    <3>1. from \in Int /\ MaxPn \in Int
      BY <1>2, PnAssumption
    <3> QED  BY <3>1, OfTwo
  <2> QED  BY <1>2, <2>1, PnAssumption
<1>4. PICK T : T = {n \in from .. end : n \notin queue}
  OBVIOUS
<1>5. T \subseteq Nat /\ T # {}
  <2>1. end \in T
    BY <1>2, <1>3, <1>4, PnAssumption DEF Pn
  <2> QED  BY <1>2, <1>4, <2>1
<1>6. Min(T) \in T
  BY <1>5, MinIs
<1>7. NextMissing(queue, low) = Min(T)
  BY <1>1, <1>3, <1>4 DEF NextMissing
<1> QED  BY <1>2, <1>3, <1>4, <1>6, <1>7, PnAssumption

\* WindowLeftBehind, of given numbers
Window(largest, smallest, threshold) ==
  threshold # 0 /\ largest >= threshold => smallest > largest - threshold

\* packet numbers that have a successor in uint64_t
Largest == 0 .. Wrap - 2

\* After a packet, what is missing outside the window has been left behind
\* (change_outside_reorder_window).
LEMMA SmallestIs ==
  ASSUME NEW queue, queue \subseteq Pn, NEW largest \in Largest,
         NEW smallest \in 0 .. Wrap - 1, NEW pn \in Pn, NEW threshold \in 0 .. Wrap - 1
  PROVE  LET s == Smallest(queue, largest, smallest, pn, threshold)
         IN  s \in 0 .. Wrap - 1 /\ Window(largest, s, threshold)
<1>1. PICK found \in 0 .. Wrap - 1 : found = Found(queue, largest, smallest, pn)
  <2>1. pn + 1 \in 0 .. Wrap - 1 /\ largest + 1 \in 0 .. Wrap - 1
    BY PnAssumption DEF Pn, Largest
  <2>2. NextMissing(queue, pn + 1) \in 0 .. Wrap - 1
    BY <2>1, NextMissingIs
  <2> QED  BY <2>1, <2>2 DEF Found
<1>2. largest \in Int /\ largest >= 0 /\ largest + 1 < Wrap /\ Wrap \in Nat
  BY PnAssumption DEF Largest
<1>3. CASE threshold = 0
  BY <1>2, <1>3 DEF Smallest, Window
<1>4. CASE threshold # 0 /\ (largest < threshold \/ found > largest - threshold)
  BY <1>1, <1>2, <1>4 DEF Smallest, Window
<1>5. CASE threshold # 0 /\ ~(largest < threshold \/ found > largest - threshold)
  <2>1. PICK low \in 0 .. Wrap - 1 : low = largest - threshold + 1
    BY <1>2, <1>5
  <2>2. NextMissing(queue, low) \in low .. Wrap - 1
    BY NextMissingIs
  <2>3. Smallest(queue, largest, smallest, pn, threshold) = NextMissing(queue, low)
    BY <1>1, <1>5, <2>1 DEF Smallest
  <2> QED  BY <1>2, <2>1, <2>2, <2>3 DEF Window
<1> QED  BY <1>3, <1>4, <1>5

\* The same after an ACK, in uint64_t
\* (update_smallest_unreported_missing_on_send_ack).
LEMMA SmallestOnSendAckIs ==
  ASSUME NEW queue, queue \subseteq Pn, NEW largest \in Largest,
         NEW smallest \in 0 .. Wrap - 1, NEW threshold \in 0 .. Wrap - 1
  PROVE  LET s == SmallestOnSendAck(queue, largest, smallest, threshold)
         IN  s \in 0 .. Wrap - 1 /\ Window(largest, s, threshold)
<1>1. largest \in Int /\ largest >= 0 /\ largest + 1 < Wrap /\ Wrap \in Nat \ {0}
  BY PnAssumption DEF Largest
<1>2. PICK outside \in 0 .. Wrap - 1 :
        /\ outside = (largest - threshold) % Wrap
        /\ largest >= threshold => outside = largest - threshold
  <2>1. \A a \in Int : a % Wrap \in 0 .. Wrap - 1
    BY <1>1
  <2>2. \A a \in 0 .. Wrap - 1 : a % Wrap = a
    BY <1>1
  <2> QED  BY <1>1, <2>1, <2>2
<1>3. PICK low \in 0 .. Wrap - 1 :
        /\ low = (outside + 1) % Wrap
        /\ largest >= threshold => low = outside + 1
  <2>1. \A a \in Int : a % Wrap \in 0 .. Wrap - 1
    BY <1>1
  <2>2. \A a \in 0 .. Wrap - 1 : a % Wrap = a
    BY <1>1
  <2> QED  BY <1>1, <1>2, <2>1, <2>2
<1>4. NextMissing(queue, low) \in low .. Wrap - 1
  BY NextMissingIs
<1>5. CASE threshold <= 1
  BY <1>1, <1>5 DEF SmallestOnSendAck, Window
<1>6. CASE threshold > 1 /\ outside < smallest
  BY <1>1, <1>2, <1>6 DEF SmallestOnSendAck, Window
<1>7. CASE threshold > 1 /\ ~(outside < smallest)
  <2>1. SmallestOnSendAck(queue, largest, smallest, threshold) = NextMissing(queue, low)
    BY <1>2, <1>3, <1>7 DEF SmallestOnSendAck
  <2> QED  BY <1>1, <1>2, <1>3, <1>4, <2>1 DEF Window
<1> QED  BY <1>5, <1>6, <1>7
-----------------------------------------------------------------------------
(* The invariant *)

\* The queue holds packets that were processed, and the ACKs in flight cover
\* packets that were reported.
Recollection ==
  /\ ack_queue \subseteq processed
  /\ acks \in Seq(Seq(SUBSET Pn))
  /\ \A i \in DOMAIN acks : \A k \in DOMAIN acks[i] : acks[i][k] \subseteq reported

\* unacked_count counts every packet that waits, and more.
Counted == Cardinality(Waiting) <= unacked_count

Inv ==
  /\ TypeOK
  /\ largest_acked_unacked \in Largest
  /\ Recollection
  /\ Counted
  /\ ProcessedOnce
  /\ AckPromised
  /\ ToleranceKept
  /\ WindowLeftBehind

\* alloc_pn_space
LEMMA InitInv == Init => Inv
<1> SUFFICES ASSUME Init PROVE Inv
  OBVIOUS
<1>1. Waiting = {} /\ Cardinality(Waiting) = 0
  BY FS_EmptySet DEF Init, Waiting
<1>2. Starts(ack_queue) = {} /\ Cardinality({}) = 0
  BY FS_EmptySet DEF Init, Starts
<1>3. TypeOK
  <2>1. \A i \in DOMAIN acks : acks[i] \in Seq(SUBSET Pn)
    BY DEF Init
  <2>2. Cardinality(Starts(ack_queue)) <= MaxAckBlocks
    BY <1>2, BlockAssumption
  <2>3. /\ next_expected_packet_number \in 0 .. MaxPn
        /\ reordering_threshold \in 0 .. Wrap - 1
        /\ smallest_unreported_missing \in 0 .. Wrap - 1
        /\ next_sequence \in 0 .. MaxSequence
        /\ packet_tolerance \in Nat
    BY PnAssumption, FrequencyAssumption DEF Init
  <2> QED  BY <2>1, <2>2, <2>3 DEF Init, TypeOK, Timer
<1>4. largest_acked_unacked \in Largest
  BY PnAssumption DEF Init, Largest
<1>5. Recollection
  BY DEF Init, Recollection
<1>6. Counted
  BY <1>1 DEF Init, Counted
<1>7. ProcessedOnce
  BY DEF Init, ProcessedOnce
<1>8. AckPromised /\ ToleranceKept
  BY <1>1 DEF AckPromised, ToleranceKept
<1>9. WindowLeftBehind
  BY DEF Init, WindowLeftBehind
<1> QED  BY <1>3, <1>4, <1>5, <1>6, <1>7, <1>8, <1>9 DEF Inv

\* What waits is finite.
LEMMA WaitingFinite ==
  ASSUME TypeOK
  PROVE  IsFiniteSet(Waiting) /\ Cardinality(Waiting) \in Nat
BY NumbersFinite DEF TypeOK, Waiting

\* The entries of an ACK cover packets of the queue (send_ack).
LEMMA EntriesAre ==
  ASSUME NEW queue, queue \subseteq Pn, NEW entries \in Entries(queue)
  PROVE  /\ entries \in Seq(SUBSET Pn)
         /\ \A k \in DOMAIN entries : entries[k] \subseteq queue
<1>1. PICK cuts \in SUBSET (Starts(queue) \ {Min(queue)}) :
        entries = [k \in 1 .. Cardinality(cuts) + 1 |->
                     {n \in queue : Cardinality({c \in cuts : c <= n}) = k - 1}]
  BY DEF Entries
<1>2. Cardinality(cuts) \in Nat
  BY NumbersFinite DEF Starts
<1>3. PICK c \in Nat : c = Cardinality(cuts) + 1
  BY <1>2
<1> DEFINE Entry(k) == {n \in queue : Cardinality({d \in cuts : d <= n}) = k - 1}
<1>4. entries = [k \in 1 .. c |-> Entry(k)]
  BY <1>1, <1>3
<1>5. \A k : Entry(k) \subseteq queue /\ Entry(k) \in SUBSET Pn
  OBVIOUS
<1> HIDE DEF Entry
<1> QED  BY <1>4, <1>5

\* What the acknowledged ACKs cover was reported.
LEMMA CoveredReported ==
  ASSUME Recollection, NEW acked, acked \subseteq DOMAIN acks
  PROVE  CoveredBy(acked) \subseteq reported
<1> SUFFICES ASSUME NEW n \in CoveredBy(acked) PROVE n \in reported
  OBVIOUS
<1>1. PICK i \in acked : n \in UNION Range(acks[i])
  BY DEF CoveredBy
<1>2. PICK k \in DOMAIN acks[i] : n \in acks[i][k]
  BY <1>1 DEF Range
<1> QED  BY <1>2 DEF Recollection

-----------------------------------------------------------------------------
(* Receiving a packet *)

\* What a packet may do to the tolerance, the threshold and the sequence number
\* (handle_ack_frequency_frame).
LEMMA ObeyedIs ==
  ASSUME TypeOK, NEW frequency,
         frequency = {} \/ \E f \in Frequency : frequency = {f}
  PROVE  LET obeyed == {f \in frequency : Supersedes(f)}
         IN  /\ obeyed # {} =>
                  /\ Min({Max({f.tolerance : f \in obeyed}), MaxTolerance}) \in Nat
                  /\ Max({f.threshold : f \in obeyed}) \in 0 .. Wrap - 1
             /\ Max({next_sequence} \union {f.sequence + 1 : f \in obeyed})
                  \in 0 .. MaxSequence
<1>1. PICK obeyed : obeyed = {f \in frequency : Supersedes(f)}
  OBVIOUS
<1>2. next_sequence \in 0 .. MaxSequence /\ MaxSequence \in Nat
  BY FrequencyAssumption DEF TypeOK
<1>3. CASE obeyed = {}
  <2>1. {next_sequence} \union {f.sequence + 1 : f \in obeyed}
          = {next_sequence, next_sequence}
    BY <1>3
  <2>2. Max({next_sequence, next_sequence}) = next_sequence
    <3>1. next_sequence \in Int
      BY <1>2
    <3> QED  BY <3>1, OfTwo
  <2>3. Max({next_sequence} \union {f.sequence + 1 : f \in obeyed}) = next_sequence
    BY <2>1, <2>2, Zenon
  <2> QED  BY <1>1, <1>2, <1>3, <2>3
<1>4. CASE obeyed # {}
  <2>1. PICK f \in Frequency : obeyed = {f}
    BY <1>1, <1>4
  <2>2. /\ f.sequence \in 0 .. MaxSequence - 1
        /\ f.tolerance \in Nat /\ f.threshold \in 0 .. Wrap - 1
    BY <1>2, FrequencyAssumption DEF Frequency
  <2>3. /\ {g.tolerance : g \in obeyed} = {f.tolerance, f.tolerance}
        /\ {g.threshold : g \in obeyed} = {f.threshold, f.threshold}
        /\ {next_sequence} \union {g.sequence + 1 : g \in obeyed}
             = {next_sequence, f.sequence + 1}
    BY <2>1
  <2>4. Max({f.tolerance, f.tolerance}) = f.tolerance
    <3>1. f.tolerance \in Int
      BY <2>2
    <3> QED  BY <3>1, OfTwo
  <2>5. Max({f.threshold, f.threshold}) = f.threshold
    <3>1. f.threshold \in Int
      BY <2>2, PnAssumption
    <3> QED  BY <3>1, OfTwo
  <2>6. Max({next_sequence, f.sequence + 1}) \in 0 .. MaxSequence
    <3>1. next_sequence \in Int /\ f.sequence + 1 \in Int
      BY <1>2, <2>2
    <3>2. Max({next_sequence, f.sequence + 1})
            = IF next_sequence >= f.sequence + 1 THEN next_sequence
              ELSE f.sequence + 1
      BY <3>1, OfTwo
    <3> QED  BY <1>2, <2>2, <3>2
  <2>7. Min({f.tolerance, MaxTolerance}) \in Nat
    <3>1. f.tolerance \in Int /\ MaxTolerance \in Int
      BY <2>2, FrequencyAssumption
    <3>2. Min({f.tolerance, MaxTolerance})
            = IF f.tolerance <= MaxTolerance THEN f.tolerance ELSE MaxTolerance
      BY <3>1, OfTwo
    <3> QED  BY <2>2, <3>2, FrequencyAssumption
  <2>8. Max({g.tolerance : g \in obeyed}) = f.tolerance
    BY <2>3, <2>4, Zenon
  <2>9. Min({Max({g.tolerance : g \in obeyed}), MaxTolerance}) \in Nat
    BY <2>7, <2>8, Zenon
  <2>10. Max({g.threshold : g \in obeyed}) \in 0 .. Wrap - 1
    BY <2>2, <2>3, <2>5, Zenon
  <2>11. Max({next_sequence} \union {g.sequence + 1 : g \in obeyed})
           \in 0 .. MaxSequence
    BY <2>3, <2>6, Zenon
  <2> QED  BY <1>1, <2>9, <2>10, <2>11, Zenon
<1> QED  BY <1>3, <1>4
\* What a packet makes of what waits, before it is recorded itself: no more
\* than unacked_count counts, even when that is reset (do_on_ack_ack).
LEMMA StillCounted ==
  ASSUME TypeOK, Counted, NEW queue, queue \subseteq ack_queue, NEW acked,
         NEW count, count = IF acked # {} /\ queue = {} THEN 0 ELSE unacked_count
  PROVE  /\ IsFiniteSet((queue \cap eliciting) \ reported)
         /\ Cardinality((queue \cap eliciting) \ reported) \in Nat
         /\ Cardinality((queue \cap eliciting) \ reported) <= count
         /\ count \in Nat
<1>1. PICK left : left = (queue \cap eliciting) \ reported
  OBVIOUS
<1>2. left \in SUBSET Waiting /\ IsFiniteSet(Waiting) /\ Cardinality(Waiting) \in Nat
  BY <1>1, WaitingFinite DEF Waiting
<1>3. IsFiniteSet(left) /\ Cardinality(left) <= Cardinality(Waiting)
  BY <1>2, FS_Subset
<1>4. Cardinality(left) \in Nat
  BY <1>3, FS_CardinalityType
<1>5. unacked_count \in Nat /\ Cardinality(Waiting) <= unacked_count
  BY DEF TypeOK, Counted
<1>6. CASE acked # {} /\ queue = {}
  <2>1. Cardinality(left) = 0
    BY <1>1, <1>6, FS_EmptySet
  <2> QED  BY <1>1, <1>3, <1>4, <1>6, <2>1
<1>7. CASE ~(acked # {} /\ queue = {})
  <2>1. Cardinality(left) <= unacked_count /\ count = unacked_count
    BY <1>2, <1>3, <1>4, <1>5, <1>7
  <2> QED  BY <1>1, <1>3, <1>4, <1>5, <2>1
<1> QED  BY <1>6, <1>7

\* At most one ACK_FREQUENCY frame, which is ACK-eliciting.
Carries(elicits, frequency) ==
  frequency = {} \/ (elicits /\ \E f \in Frequency : frequency = {f})

\* A packet, whatever it carries: the invariant is kept.
LEMMA ReceiveKeeps ==
  ASSUME Inv, NEW pn \in Pn, NEW elicits \in BOOLEAN, NEW ce \in BOOLEAN,
         NEW immediate \in BOOLEAN, NEW acked, acked \subseteq DOMAIN acks,
         NEW frequency, Carries(elicits, frequency),
         Receive(pn, elicits, ce, acked, frequency, immediate)
  PROVE  Inv'
<1>1. PICK queue : queue = PrunedBy(ack_queue, acked)
  OBVIOUS
<1>2. PICK count : count = IF acked # {} /\ queue = {} THEN 0 ELSE unacked_count
  OBVIOUS
<1>3. PICK timer : timer = IF immediate THEN "due" ELSE send_ack_at
  OBVIOUS
<1>4. PICK obeyed : obeyed = {f \in frequency : Supersedes(f)}
  OBVIOUS
<1>5. PICK tolerance :
        tolerance = IF obeyed = {} THEN packet_tolerance
                    ELSE Min({Max({f.tolerance : f \in obeyed}), MaxTolerance})
  OBVIOUS
<1>6. PICK threshold :
        threshold = IF obeyed = {} THEN reordering_threshold
                    ELSE Max({f.threshold : f \in obeyed})
  OBVIOUS
<1>7. PICK recorded : recorded = Recorded(queue, pn)
  OBVIOUS
<1>8. PICK largest : largest = IF elicits THEN Max({largest_acked_unacked, pn})
                              ELSE largest_acked_unacked
  OBVIOUS
<1>9. PICK new_count : new_count = IF elicits THEN count + 1 ELSE count
  OBVIOUS
<1>10. PICK ack_now \in BOOLEAN :
         /\ elicits /\ ToleranceMet(new_count, tolerance) => ack_now
         /\ send_ack_at' = NextTimer(timer, ack_now, new_count)
  <2>1. RecordReceipt(queue, count, tolerance, threshold, timer, pn, elicits, ce)
    BY <1>1, <1>2, <1>3, <1>4, <1>5, <1>6 DEF Receive
  <2> QED  BY <1>9, <2>1 DEF RecordReceipt
<1>11. /\ ~ IsDuplicate(ack_queue, pn, next_expected_packet_number)
       /\ pn \in processed => (elicits <=> pn \in eliciting)
       /\ next_expected_packet_number' = Max({next_expected_packet_number, pn + 1})
       /\ packet_tolerance' = tolerance
       /\ reordering_threshold' = threshold
       /\ next_sequence' = Max({next_sequence} \union {f.sequence + 1 : f \in obeyed})
       /\ acks' = Without(acked)
       /\ processed' = processed \union {pn}
       /\ eliciting' = IF elicits THEN eliciting \union {pn} ELSE eliciting
       /\ ackacked' = ackacked \union CoveredBy(acked)
       /\ given_up' = given_up \union ((ack_queue \ queue) \ CoveredBy(acked))
       /\ reported' = reported
  BY <1>1, <1>4, <1>5, <1>6 DEF Receive
<1>12. /\ ack_queue' = recorded
       /\ largest_acked_unacked' = largest
       /\ smallest_unreported_missing' =
            IF threshold = 1 THEN largest + 1
            ELSE Smallest(recorded, largest, smallest_unreported_missing, pn, threshold)
       /\ unacked_count' = new_count
       /\ prior_ce' = ce
  <2>1. RecordReceipt(queue, count, tolerance, threshold, timer, pn, elicits, ce)
    BY <1>1, <1>2, <1>3, <1>4, <1>5, <1>6 DEF Receive
  <2> QED  BY <1>7, <1>8, <1>9, <2>1 DEF RecordReceipt
<1>13. TypeOK /\ Recollection /\ Counted
  BY DEF Inv
<1>14. queue \subseteq ack_queue /\ queue \in Left(Pn)
  <2>1. ack_queue \in Left(Pn) /\ acks \in Seq(Seq(SUBSET Pn))
    BY <1>13 DEF TypeOK, Recollection, Left
  <2> QED  BY <1>1, <2>1, PrunedByIs DEF Left
<1>15. /\ recorded \in Left(Pn)
       /\ recorded \subseteq queue \union {pn}
       /\ \A n \in (queue \union {pn}) \ recorded : \A m \in recorded : n < m
  BY <1>7, <1>14, RecordedIs
<1>16. CoveredBy(acked) \subseteq reported
  BY <1>13, CoveredReported
<1>17. /\ tolerance \in Nat
       /\ threshold \in 0 .. Wrap - 1
       /\ next_sequence' \in 0 .. MaxSequence
  <2>1. frequency = {} \/ \E f \in Frequency : frequency = {f}
    BY DEF Carries
  <2>2. packet_tolerance \in Nat /\ reordering_threshold \in 0 .. Wrap - 1
    BY <1>13 DEF TypeOK
  <2> QED  BY <1>4, <1>5, <1>6, <1>11, <1>13, <2>1, <2>2, ObeyedIs
<1>18. /\ next_expected_packet_number' \in 0 .. MaxPn
       /\ next_expected_packet_number' >= next_expected_packet_number
       /\ next_expected_packet_number' > pn
  <2>1. /\ next_expected_packet_number \in 0 .. MaxPn /\ pn + 1 \in 0 .. MaxPn
        /\ next_expected_packet_number \in Int /\ pn + 1 \in Int /\ MaxPn \in Nat
    BY <1>13, PnAssumption DEF TypeOK, Pn
  <2>2. next_expected_packet_number'
          = IF next_expected_packet_number >= pn + 1 THEN next_expected_packet_number
            ELSE pn + 1
    BY <1>11, <2>1, OfTwo
  <2> QED  BY <2>1, <2>2, PnAssumption DEF Pn
<1>19. largest \in Largest
  <2>1. largest_acked_unacked \in Largest /\ pn \in Largest
    BY PnAssumption DEF Inv, Largest, Pn
  <2>2. largest_acked_unacked \in Int /\ pn \in Int
    BY <2>1, PnAssumption DEF Largest
  <2>3. Max({largest_acked_unacked, pn})
          = IF largest_acked_unacked >= pn THEN largest_acked_unacked ELSE pn
    BY <2>2, OfTwo
  <2> QED  BY <1>8, <2>1, <2>3
<1>20. /\ smallest_unreported_missing' \in 0 .. Wrap - 1
       /\ Window(largest, smallest_unreported_missing', threshold)
  <2>1. /\ recorded \subseteq Pn
        /\ smallest_unreported_missing \in 0 .. Wrap - 1
    BY <1>13, <1>15 DEF TypeOK, Left
  <2>2. CASE threshold = 1
    BY <1>12, <1>19, <2>2, PnAssumption DEF Window, Largest
  <2>3. CASE threshold # 1
    BY <1>12, <1>17, <1>19, <2>1, <2>3, SmallestIs
  <2> QED  BY <2>2, <2>3
<1>21. WindowLeftBehind'
  BY <1>11, <1>12, <1>20 DEF WindowLeftBehind, Window
<1>22. PICK left : left = (queue \cap eliciting) \ reported
  OBVIOUS
<1>23. /\ IsFiniteSet(left) /\ Cardinality(left) \in Nat
       /\ Cardinality(left) <= count /\ count \in Nat
  BY <1>2, <1>13, <1>14, <1>22, StillCounted
<1>24. IF elicits THEN Waiting' \subseteq left \union {pn} ELSE Waiting' \subseteq left
  <2>1. pn \in eliciting => elicits
    BY <1>11, <1>13 DEF TypeOK
  <2> QED  BY <1>11, <1>12, <1>15, <1>22, <2>1 DEF Waiting
<1>25. new_count \in Nat
  BY <1>9, <1>23
<1>26. IsFiniteSet(Waiting') /\ Cardinality(Waiting') \in Nat
       /\ Cardinality(Waiting') <= new_count
  <2>1. CASE ~elicits
    <3>1. IsFiniteSet(Waiting') /\ Cardinality(Waiting') <= Cardinality(left)
      BY <1>23, <1>24, <2>1, FS_Subset
    <3>2. Cardinality(Waiting') \in Nat
      BY <3>1, FS_CardinalityType
    <3> QED  BY <1>9, <1>23, <2>1, <3>1, <3>2
  <2>2. CASE elicits
    <3>1. PICK c \in Nat : c = Cardinality(left)
      BY <1>23
    <3>2. /\ IsFiniteSet(left \union {pn})
          /\ Cardinality(left \union {pn}) = IF pn \in left THEN c ELSE c + 1
      BY <1>23, <3>1, FS_AddElement
    <3>3. /\ IsFiniteSet(Waiting')
          /\ Cardinality(Waiting') <= Cardinality(left \union {pn})
      BY <1>24, <2>2, <3>2, FS_Subset
    <3>4. Cardinality(Waiting') \in Nat
      BY <3>3, FS_CardinalityType
    <3> QED  BY <1>9, <1>23, <2>2, <3>1, <3>2, <3>3, <3>4
  <2> QED  BY <2>1, <2>2
<1>27. Counted'
  BY <1>12, <1>26 DEF Counted
<1>28. Waiting' # {} => new_count # 0
  <2>1. SUFFICES ASSUME Waiting' # {} PROVE Cardinality(Waiting') # 0
    BY <1>25, <1>26
  <2> QED  BY <1>26, <2>1, FS_EmptySet
<1>29. send_ack_at \in Timer
  BY <1>13 DEF TypeOK
<1>30. send_ack_at' \in Timer
  BY <1>3, <1>10, <1>29 DEF NextTimer, Timer
<1>31. AckPromised'
  <2>1. SUFFICES ASSUME Waiting' # {}
                 PROVE  unacked_count' # 0 /\ send_ack_at' # "never"
    BY DEF AckPromised
  <2> QED  BY <1>10, <1>12, <1>28, <2>1 DEF NextTimer
<1>32. ToleranceKept'
  <2>1. SUFFICES ASSUME Waiting' # {}, Cardinality(Waiting') >= tolerance
                 PROVE  send_ack_at' = "due"
    BY <1>11 DEF ToleranceKept
  <2>2. CASE elicits
    <3>1. new_count >= tolerance
      BY <1>17, <1>25, <1>26, <2>1
    <3> QED  BY <1>10, <2>2, <3>1 DEF ToleranceMet, NextTimer
  <2>3. CASE ~elicits
    <3>1. obeyed = {} /\ tolerance = packet_tolerance
      BY <1>4, <1>5, <2>3 DEF Carries
    <3>2. Waiting' \in SUBSET Waiting
      BY <1>14, <1>22, <1>24, <2>3 DEF Waiting
    <3>3. IsFiniteSet(Waiting) /\ Cardinality(Waiting) \in Nat
      BY <1>13, WaitingFinite
    <3>4. Cardinality(Waiting') <= Cardinality(Waiting)
      BY <3>2, <3>3, FS_Subset
    <3>5. Waiting # {} /\ Cardinality(Waiting) >= packet_tolerance
      BY <1>17, <1>26, <2>1, <3>1, <3>2, <3>3, <3>4
    <3>6. send_ack_at = "due"
      BY <3>5 DEF Inv, ToleranceKept
    <3> QED  BY <1>3, <1>10, <3>6 DEF NextTimer
  <2> QED  BY <2>2, <2>3
<1>33. Recollection'
  <2>1. ack_queue' \subseteq processed'
    BY <1>11, <1>12, <1>13, <1>14, <1>15 DEF Recollection
  <2>2. /\ acks' \in Seq(Seq(SUBSET Pn))
        /\ \A i \in DOMAIN acks' : \E k \in DOMAIN acks : acks'[i] = acks[k]
    BY <1>11, <1>13, WithoutIs DEF Recollection
  <2>3. \A i \in DOMAIN acks' : \A k \in DOMAIN acks'[i] : acks'[i][k] \subseteq reported
    BY <1>13, <2>2 DEF Recollection
  <2> QED  BY <1>11, <2>1, <2>2, <2>3 DEF Recollection
<1>34. TypeOK'
  <2>1. \A i \in DOMAIN acks' : acks'[i] \in Seq(SUBSET Pn)
    BY <1>33 DEF Recollection
  <2>2. ack_queue' \subseteq Pn /\ Cardinality(Starts(ack_queue')) <= MaxAckBlocks
    BY <1>12, <1>15 DEF Left
  <2>3. /\ processed' \subseteq Pn /\ eliciting' \subseteq processed'
        /\ reported' \subseteq processed' /\ ackacked' \subseteq reported'
        /\ given_up' \subseteq processed'
    BY <1>11, <1>13, <1>16 DEF TypeOK, Recollection
  <2>4. largest \in Nat
    BY <1>19, PnAssumption DEF Largest
  <2>5. Cardinality(Starts(ack_queue))' <= MaxAckBlocks
    BY <2>2 DEF Starts
  <2> QED  BY <1>11, <1>12, <1>17, <1>18, <1>20, <1>25, <1>30, <2>1, <2>2, <2>3,
              <2>4, <2>5 DEF TypeOK
<1>35. ProcessedOnce'
  <2>1. SUFFICES ASSUME NEW n \in processed', n \notin ackacked', n \notin given_up'
                 PROVE  IsDuplicate(recorded, n, next_expected_packet_number')
    BY <1>12 DEF ProcessedOnce
  <2>2. n # pn => /\ n \in processed
                  /\ IsDuplicate(ack_queue, n, next_expected_packet_number)
    BY <1>11, <2>1 DEF Inv, ProcessedOnce
  <2>3. /\ n \in Int /\ pn \in Int /\ next_expected_packet_number \in Int
        /\ next_expected_packet_number' \in Int
        /\ ack_queue \subseteq Nat /\ recorded \subseteq Nat
    <3>1. n \in Pn
      BY <1>34, <2>1 DEF TypeOK
    <3> QED  BY <1>13, <1>15, <1>18, <3>1, PnAssumption DEF TypeOK, Pn, Left
  <2>4. n < next_expected_packet_number'
    BY <1>18, <2>2, <2>3 DEF IsDuplicate
  <2>5. SUFFICES ASSUME recorded # {}, n \notin recorded
                 PROVE  n < Min(recorded)
    BY <2>4 DEF IsDuplicate
  <2>6. PICK m \in recorded : m = Min(recorded)
    BY <2>3, <2>5, MinIs
  <2>7. SUFFICES n < m
    BY <2>6
  <2>8. CASE n \in queue \union {pn}
    BY <1>15, <2>5, <2>8
  <2>9. CASE n \notin queue \union {pn}
    <3>1. n \notin ack_queue
      BY <1>11, <2>1, <2>9
    <3>2. /\ n < next_expected_packet_number
          /\ ack_queue = {} \/ n < Min(ack_queue)
      BY <2>2, <2>9, <3>1 DEF IsDuplicate
    <3>3. \A k \in ack_queue : n < k
      <4>1. SUFFICES ASSUME NEW k \in ack_queue PROVE n < k
        OBVIOUS
      <4>2. PICK low \in ack_queue : low = Min(ack_queue) /\ low <= k
        BY <2>3, <4>1, MinIs
      <4>3. n < low
        BY <3>2, <4>1, <4>2, Zenon
      <4>4. low \in Int /\ k \in Int
        BY <2>3
      <4> QED  BY <2>3, <4>2, <4>3, <4>4
    <3>4. CASE m \in queue
      BY <1>14, <3>3, <3>4
    <3>5. CASE m = pn
      <4>1. \/ ~(pn < next_expected_packet_number)
            \/ ack_queue # {} /\ ~(pn < Min(ack_queue))
        BY <1>11 DEF IsDuplicate
      <4>2. CASE ~(pn < next_expected_packet_number)
        BY <2>3, <3>2, <3>5, <4>2
      <4>3. CASE ack_queue # {} /\ ~(pn < Min(ack_queue))
        <5>1. PICK low \in ack_queue : low = Min(ack_queue)
          BY <2>3, <4>3, MinIs
        <5>2. ~(pn < low)
          BY <4>3, <5>1, Zenon
        <5>3. n < low /\ low \in Int
          BY <2>3, <3>3
        <5> QED  BY <2>3, <3>5, <5>2, <5>3
      <4> QED  BY <4>1, <4>2, <4>3
    <3> QED  BY <1>15, <3>4, <3>5
  <2> QED  BY <2>8, <2>9
<1> QED  BY <1>12, <1>19, <1>21, <1>27, <1>31, <1>32, <1>33, <1>34, <1>35 DEF Inv
-----------------------------------------------------------------------------
(* The other steps *)

\* send_ack reports whatever waits
LEMMA SendAckKeeps ==
  ASSUME Inv, SendAck
  PROVE  Inv'
<1>1. PICK top : top = Max(ack_queue)
  OBVIOUS
<1>2. TypeOK /\ Recollection /\ largest_acked_unacked \in Largest
  BY DEF Inv
<1>3. /\ ack_queue # {} /\ ack_queue \subseteq Pn
      /\ unacked_count' = 0
      /\ largest_acked_unacked' = Max({largest_acked_unacked, top})
      /\ smallest_unreported_missing' =
           IF top <= largest_acked_unacked THEN smallest_unreported_missing
           ELSE SmallestOnSendAck(ack_queue, top, smallest_unreported_missing,
                                  reordering_threshold)
      /\ send_ack_at' = "never"
      /\ reported' = reported \union ack_queue
      /\ UNCHANGED <<ack_queue, next_expected_packet_number, prior_ce,
                     packet_tolerance, reordering_threshold, next_sequence,
                     processed, eliciting, ackacked, given_up>>
  BY <1>1, <1>2 DEF SendAck, TimerAfterSend, TypeOK
<1>4. PICK entries \in Entries(ack_queue) : acks' = Append(acks, entries)
  BY DEF SendAck
<1>5. top \in Pn
  BY <1>1, <1>3, MaxIs
<1>6. top \in Largest /\ top \in Int /\ largest_acked_unacked \in Int
  BY <1>2, <1>5, PnAssumption DEF Largest, Pn
<1>7. largest_acked_unacked'
        = IF largest_acked_unacked >= top THEN largest_acked_unacked ELSE top
  BY <1>3, <1>6, OfTwo
<1>8. largest_acked_unacked' \in Largest
  BY <1>2, <1>6, <1>7
<1>9. /\ reordering_threshold \in 0 .. Wrap - 1
      /\ smallest_unreported_missing \in 0 .. Wrap - 1
  BY <1>2 DEF TypeOK
<1>10. smallest_unreported_missing' \in 0 .. Wrap - 1 /\ WindowLeftBehind'
  <2>1. CASE top <= largest_acked_unacked
    <3>1. /\ smallest_unreported_missing' = smallest_unreported_missing
          /\ largest_acked_unacked' = largest_acked_unacked
          /\ reordering_threshold' = reordering_threshold
      BY <1>3, <1>6, <1>7, <2>1
    <3> QED  BY <1>9, <3>1 DEF Inv, WindowLeftBehind
  <2>2. CASE ~(top <= largest_acked_unacked)
    <3>1. largest_acked_unacked' = top
      BY <1>6, <1>7, <2>2
    <3>2. /\ smallest_unreported_missing' \in 0 .. Wrap - 1
          /\ Window(top, smallest_unreported_missing', reordering_threshold)
      BY <1>3, <1>6, <1>9, <2>2, SmallestOnSendAckIs
    <3> QED  BY <1>3, <3>1, <3>2 DEF WindowLeftBehind, Window
  <2> QED  BY <2>1, <2>2
<1>11. Waiting' = {} /\ Cardinality(Waiting') = 0
  BY <1>3, FS_EmptySet DEF Waiting
<1>12. Counted' /\ AckPromised' /\ ToleranceKept'
  BY <1>3, <1>11 DEF Counted, AckPromised, ToleranceKept
<1>13. Recollection'
  <2>1. /\ entries \in Seq(SUBSET Pn)
        /\ \A k \in DOMAIN entries : entries[k] \subseteq ack_queue
    BY <1>3, EntriesAre
  <2>2. PICK n \in Nat : n = Len(acks) /\ DOMAIN acks = 1 .. n
    BY <1>2 DEF Recollection
  <2>3. /\ acks' \in Seq(Seq(SUBSET Pn)) /\ DOMAIN acks' = 1 .. n + 1
        /\ acks'[n + 1] = entries /\ \A i \in 1 .. n : acks'[i] = acks[i]
    BY <1>2, <1>4, <2>1, <2>2 DEF Recollection
  <2>4. ASSUME NEW i \in DOMAIN acks', NEW k \in DOMAIN acks'[i]
        PROVE  acks'[i][k] \subseteq reported'
    <3>1. CASE i = n + 1
      BY <1>3, <2>1, <2>3, <2>4, <3>1
    <3>2. CASE i # n + 1
      <4>1. i \in DOMAIN acks /\ acks'[i] = acks[i]
        BY <2>2, <2>3, <2>4, <3>2
      <4> QED  BY <1>2, <1>3, <2>4, <4>1 DEF Recollection
    <3> QED  BY <3>1, <3>2
  <2> QED  BY <1>2, <1>3, <2>3, <2>4 DEF Recollection
<1>14. ProcessedOnce'
  BY <1>3 DEF Inv, ProcessedOnce, IsDuplicate
<1>15. TypeOK'
  <2>1. \A i \in DOMAIN acks' : acks'[i] \in Seq(SUBSET Pn)
    BY <1>13 DEF Recollection
  <2>2. largest_acked_unacked' \in Nat
    BY <1>8, PnAssumption DEF Largest
  <2>3. Cardinality(Starts(ack_queue))' <= MaxAckBlocks
    BY <1>2, <1>3 DEF TypeOK, Starts
  <2>4. reported' \subseteq processed' /\ ackacked' \subseteq reported'
    BY <1>2, <1>3 DEF TypeOK, Recollection
  <2> QED  BY <1>2, <1>3, <1>10, <2>1, <2>2, <2>3, <2>4 DEF TypeOK, Timer
<1> QED  BY <1>8, <1>10, <1>12, <1>13, <1>14, <1>15 DEF Inv

\* A step that changes nothing but the timer, to one that serves as well.
LEMMA TimerKeeps ==
  ASSUME Inv, UNCHANGED <<space, next_sequence, acks, history>>,
         send_ack_at' \in Timer,
         Waiting # {} => /\ send_ack_at' # "never"
                         /\ send_ack_at = "due" => send_ack_at' = "due"
  PROVE  Inv'
<1> USE DEF space, history
<1>1. Waiting' = Waiting
  BY DEF Waiting
<1>2. TypeOK'
  BY DEF Inv, TypeOK, Starts
<1>3. AckPromised' /\ ToleranceKept' /\ Counted'
  BY <1>1 DEF Inv, AckPromised, ToleranceKept, Counted
<1>4. ProcessedOnce' /\ WindowLeftBehind' /\ Recollection'
  BY DEF Inv, ProcessedOnce, IsDuplicate, WindowLeftBehind, Recollection
<1> QED  BY <1>2, <1>3, <1>4 DEF Inv

\* do_send without an ACK stops the timer only when nothing waits
LEMMA SendOtherKeeps ==
  ASSUME Inv, SendOther
  PROVE  Inv'
<1>1. send_ack_at \in Timer
  BY DEF Inv, TypeOK
<1>2. Waiting # {} => unacked_count # 0 /\ send_ack_at # "never"
  BY DEF Inv, AckPromised
<1> QED  BY <1>1, <1>2, TimerKeeps DEF SendOther, TimerAfterSend, Timer

\* the delayed ACK timeout
LEMMA TimerExpiresKeeps ==
  ASSUME Inv, TimerExpires
  PROVE  Inv'
BY TimerKeeps DEF TimerExpires, Timer

\* the sentmap forgets an ACK
LEMMA AckExpiresKeeps ==
  ASSUME Inv, NEW i, AckExpires(i)
  PROVE  Inv'
<1> USE DEF space, history
<1>1. /\ acks' \in Seq(Seq(SUBSET Pn))
      /\ \A j \in DOMAIN acks' : \E k \in DOMAIN acks : acks'[j] = acks[k]
  BY WithoutIs DEF Inv, Recollection, AckExpires
<1>2. UNCHANGED <<space, next_sequence, send_ack_at, history>>
  BY DEF AckExpires
<1>3. Waiting' = Waiting
  BY <1>2 DEF Waiting
<1>4. \A j \in DOMAIN acks' : \A k \in DOMAIN acks'[j] : acks'[j][k] \subseteq reported
  BY <1>1 DEF Inv, Recollection
<1>5. Recollection'
  BY <1>1, <1>2, <1>4 DEF Inv, Recollection
<1>6. TypeOK'
  <2>1. \A j \in DOMAIN acks' : acks'[j] \in Seq(SUBSET Pn)
    BY <1>1
  <2> QED  BY <1>2, <2>1 DEF Inv, TypeOK, Starts
<1>7. AckPromised' /\ ToleranceKept' /\ Counted'
  BY <1>2, <1>3 DEF Inv, AckPromised, ToleranceKept, Counted
<1>8. ProcessedOnce' /\ WindowLeftBehind'
  BY <1>2 DEF Inv, ProcessedOnce, IsDuplicate, WindowLeftBehind
<1> QED  BY <1>2, <1>5, <1>6, <1>7, <1>8 DEF Inv

\* every step
LEMMA NextInv == Inv /\ [Next]_vars => Inv'
<1> SUFFICES ASSUME Inv, [Next]_vars PROVE Inv'
  OBVIOUS
<1>1. TRUE \in BOOLEAN /\ FALSE \in BOOLEAN /\ {} \subseteq DOMAIN acks
      /\ \A elicits \in BOOLEAN : Carries(elicits, {})
  BY DEF Carries
<1>2. CASE \E pn \in Pn, ce \in BOOLEAN : ReceiveData(pn, ce)
  <2>1. PICK pn \in Pn, ce \in BOOLEAN : Receive(pn, TRUE, ce, {}, {}, FALSE)
    BY <1>2, Zenon DEF ReceiveData
  <2> QED  BY <1>1, <2>1, ReceiveKeeps, Zenon
<1>3. CASE \E pn \in Pn, ce \in BOOLEAN : ReceiveNonEliciting(pn, ce)
  <2>1. PICK pn \in Pn, ce \in BOOLEAN : Receive(pn, FALSE, ce, {}, {}, FALSE)
    BY <1>3, Zenon DEF ReceiveNonEliciting
  <2> QED  BY <1>1, <2>1, ReceiveKeeps, Zenon
<1>4. CASE \E pn \in Pn, elicits \in BOOLEAN, acked \in SUBSET DOMAIN acks :
             ReceiveAckOfAcks(pn, elicits, acked)
  <2>1. PICK pn \in Pn, elicits \in BOOLEAN, acked \in SUBSET DOMAIN acks :
          Receive(pn, elicits, FALSE, acked, {}, FALSE)
    BY <1>4, Zenon DEF ReceiveAckOfAcks
  <2>2. acked \subseteq DOMAIN acks
    OBVIOUS
  <2> QED  BY <1>1, <2>1, <2>2, ReceiveKeeps, Zenon
<1>5. CASE \E pn \in Pn, frequency \in Frequency : ReceiveAckFrequency(pn, frequency)
  <2>1. PICK pn \in Pn, frequency \in Frequency :
          Receive(pn, TRUE, FALSE, {}, {frequency}, FALSE)
    BY <1>5, Zenon DEF ReceiveAckFrequency
  <2>2. Carries(TRUE, {frequency})
    BY DEF Carries
  <2> QED  BY <1>1, <2>1, <2>2, ReceiveKeeps, Zenon
<1>6. CASE \E pn \in Pn : ReceiveImmediateAck(pn)
  <2>1. PICK pn \in Pn : Receive(pn, TRUE, FALSE, {}, {}, TRUE)
    BY <1>6, Zenon DEF ReceiveImmediateAck
  <2> QED  BY <1>1, <2>1, ReceiveKeeps, Zenon
<1>7. CASE SendAck
  BY <1>7, SendAckKeeps
<1>8. CASE SendOther
  BY <1>8, SendOtherKeeps
<1>9. CASE TimerExpires
  BY <1>9, TimerExpiresKeeps
<1>10. CASE \E i \in DOMAIN acks : AckExpires(i)
  BY <1>10, AckExpiresKeeps
<1>11. CASE UNCHANGED vars
  <2>1. UNCHANGED <<space, next_sequence, acks, history>> /\ send_ack_at' = send_ack_at
    BY <1>11 DEF vars
  <2>2. send_ack_at \in Timer /\ (Waiting # {} => send_ack_at # "never")
    BY DEF Inv, TypeOK, AckPromised
  <2> QED  BY <2>1, <2>2, TimerKeeps
<1> QED  BY <1>2, <1>3, <1>4, <1>5, <1>6, <1>7, <1>8, <1>9, <1>10, <1>11 DEF Next

\* The queue that decides which packets are new and which are owed an ACK
\* serves for both, whatever ACKs of ACKs, the limit on its ranges, the timer
\* and ACK_FREQUENCY frames do to it: no packet is processed twice unless an
\* acknowledged ACK covers it or do_on_ack_ack gave it up, what waits for an
\* ACK has a timer, an ACK is due as soon as the tolerance is met, and the
\* reordering window is left behind (is_duplicate_pn, record_receipt, send_ack,
\* do_on_ack_ack).
THEOREM AcksStayInOrder == Spec => []AcksInOrder
<1>1. Inv => AcksInOrder
  BY DEF Inv, AcksInOrder
<1> QED  BY <1>1, InitInv, NextInv, PTL DEF Spec

-----------------------------------------------------------------------------
(* The keys *)

Conns ==
  [key_phase : Nat, last : Nat, next : Nat, aead : [{0, 1} -> Int],
   prepared : Nat, decrypted : Nat, zero_rtt : BOOLEAN,
   packet_number : Nat, seen : Int]

Packets == [from : Keys!Endpoints, pn : Nat, key : Int, bit : {0, 1}, ack : Int]

\* the ingress keys of an endpoint
Ingress(c) ==
  /\ c.prepared \in {c.decrypted, c.decrypted + 1}
  /\ c.aead[c.decrypted % 2] = c.decrypted
  /\ c.prepared > c.decrypted => c.aead[c.prepared % 2] = c.prepared
  /\ c.zero_rtt <=> c.aead[1] = Keys!ZeroRttKey
  /\ \A i \in {0, 1} : c.aead[i] <= c.prepared

\* its egress key: an update is due only once the last one was acknowledged, and
\* every phase but the current has been used
Egress(c) ==
  /\ c.packet_number <= MaxSent
  /\ c.decrypted <= c.key_phase /\ c.key_phase <= c.decrypted + 1
  /\ c.next # UINT64_MAX => /\ c.last = UINT64_MAX
                            /\ c.next <= MaxSent + max_packets_per_key
  /\ IF c.last = UINT64_MAX
     THEN c.key_phase = c.decrypted /\ c.key_phase < c.packet_number
     ELSE c.key_phase <= c.last /\ c.last <= c.packet_number

\* an endpoint c against its peer d
InStep(c, d) ==
  /\ d.decrypted <= c.key_phase /\ c.key_phase <= d.decrypted + 1
  /\ c.last = UINT64_MAX => d.decrypted = c.key_phase
  /\ \/ d.key_phase < c.key_phase
     \/ c.last = UINT64_MAX /\ d.key_phase = c.key_phase
     => d.key_phase < d.packet_number

\* what d has seen of c
SeenInPhase(c, d) ==
  /\ Keys!NothingSeen <= d.seen /\ d.seen < c.packet_number
  /\ d.seen >= c.last => d.decrypted >= c.key_phase

\* a packet p that c has sent to d: packets from the last update on are protected
\* by the current key, and one that acknowledges d's update by that key or a later
InPhase(p, c, d) ==
  /\ p.pn < c.packet_number /\ Keys!NothingSeen <= p.ack /\ p.ack <= c.seen
  /\ IF p.key = Keys!ZeroRttKey THEN p.pn >= c.last => c.key_phase = 0
     ELSE /\ p.key \in 0 .. c.key_phase /\ p.key <= p.pn /\ p.bit = p.key % 2
          /\ p.pn >= c.last => p.key = c.key_phase
          /\ p.ack >= d.last => p.key >= d.key_phase

Joint(c, d) ==
  /\ c \in Conns /\ Ingress(c) /\ Egress(c)
  /\ d \in Conns /\ Ingress(d) /\ Egress(d)
  /\ InStep(c, d) /\ InStep(d, c) /\ SeenInPhase(c, d) /\ SeenInPhase(d, c)

KeysInv ==
  /\ k_conn \in [Keys!Endpoints -> Conns] /\ k_net \subseteq Packets
  /\ k_damaged \in 0 .. MaxDamaged
  /\ \A e \in Keys!Endpoints : Joint(k_conn[e], k_conn[Keys!Peer(e)])
  /\ \A p \in k_net : InPhase(p, k_conn[p.from], k_conn[Keys!Peer(p.from)])

-----------------------------------------------------------------------------
(* What the operations on an endpoint do *)

\* Key phases alternate.
LEMMA Alternate ==
  /\ \A n \in Nat : n % 2 \in {0, 1} /\ (n + 1) % 2 \in {0, 1} /\ (n + 1) % 2 # n % 2
  /\ \A n \in Nat, i \in {0, 1} : i # n % 2 => i = (n + 1) % 2
OBVIOUS

\* What trying a key leaves alone.
Same(c, t) ==
  /\ t.key_phase = c.key_phase /\ t.last = c.last /\ t.next = c.next
  /\ t.decrypted = c.decrypted /\ t.packet_number = c.packet_number
  /\ t.seen = c.seen

\* Another key is prepared only in the slot that is not in use, and when it may be
\* it is unless the slot's key fits (aead_decrypt_1rtt).
LEMMA TriedIs ==
  ASSUME NEW c \in Conns, Ingress(c), NEW key, NEW i \in {0, 1}
  PROVE  /\ \/ Keys!Tried(c, key, i) = c
            \/ Keys!MayPrepare(c, i) /\ Keys!Tried(c, key, i) = Keys!Prepare(c, i)
         /\ Keys!MayPrepare(c, i) /\ c.aead[i] # key => Keys!Tried(c, key, i) = Keys!Prepare(c, i)
<1>1. c.aead[i] = Keys!NoKey => Keys!MayPrepare(c, i)
  BY Alternate DEF Ingress, Keys!MayPrepare, Keys!NoKey, Conns
<1>2. Keys!MayPrepare(c, i) => ~Keys!MayPrepare(Keys!Prepare(c, i), i)
  BY DEF Keys!MayPrepare, Keys!Prepare, Conns
<1>3. QED
  BY <1>1, <1>2 DEF Keys!Tried

\* The keys are as they should be after one has been tried.
LEMMA TriedKeeps ==
  ASSUME NEW c \in Conns, Ingress(c), NEW key, NEW i \in {0, 1}
  PROVE  /\ Keys!Tried(c, key, i) \in Conns /\ Ingress(Keys!Tried(c, key, i))
         /\ Same(c, Keys!Tried(c, key, i))
<1>1. CASE Keys!MayPrepare(c, i)
  <2> DEFINE t == Keys!Prepare(c, i)
  <2>1. /\ t \in Conns /\ Same(c, t) /\ t.prepared = c.prepared + 1
        /\ t.zero_rtt = FALSE /\ t.aead[i] = c.prepared + 1
        /\ \A j \in {0, 1} : j # i => t.aead[j] = c.aead[j]
    <3> DEFINE slots == [c.aead EXCEPT ![i] = c.prepared + 1]
    <3>1. /\ slots \in [{0, 1} -> Int] /\ slots[i] = c.prepared + 1
          /\ \A j \in {0, 1} : j # i => slots[j] = c.aead[j]
      BY DEF Conns
    <3>2. t = [c EXCEPT !.aead = slots, !.prepared = c.prepared + 1, !.zero_rtt = FALSE]
      BY DEF Keys!Prepare
    <3>3. c.prepared + 1 \in Nat
      BY DEF Conns
    <3> HIDE DEF slots, t
    <3>4. t \in Conns
      BY <3>1, <3>2, <3>3 DEF Conns
    <3>5. t.aead = slots /\ t.prepared = c.prepared + 1 /\ Same(c, t)
      BY <3>2 DEF Conns, Same
    <3>6. t.zero_rtt = FALSE
      BY <3>2 DEF Conns
    <3>7. QED
      BY <3>1, <3>4, <3>5, <3>6
  <2>2. c.prepared = c.decrypted /\ i = (c.decrypted + 1) % 2 /\ i # c.decrypted % 2
    BY <1>1, Alternate DEF Keys!MayPrepare, Conns
  <2> HIDE DEF t
  <2>3. t.aead[1] # Keys!ZeroRttKey
    <3>1. CASE i = 1
      BY <3>1, <2>1 DEF Keys!ZeroRttKey, Conns
    <3>2. CASE i = 0
      <4>1. 1 = c.decrypted % 2
        BY <3>2, <2>2, Alternate DEF Conns
      <4>2. QED
        BY <4>1, <3>2, <2>1 DEF Ingress, Keys!ZeroRttKey, Conns
    <3>3. QED
      BY <3>1, <3>2
  <2>4. Ingress(t)
    BY <2>1, <2>2, <2>3, Alternate DEF Ingress, Conns, Same
  <2>5. QED
    BY <2>1, <2>4, TriedIs DEF t, Same
<1>2. QED
  BY <1>1, TriedIs DEF Same

\* A key that decrypts is one that has been in use, or the next one, prepared for
\* the update that the packet announces.
LEMMA IngressReads ==
  ASSUME NEW c \in Conns, Ingress(c), NEW key \in Nat, c.aead[key % 2] = key
  PROVE  \/ key <= c.decrypted /\ (c.prepared # c.decrypted => c.prepared % 2 # key % 2)
         \/ key = c.prepared /\ c.prepared = c.decrypted + 1
BY Alternate DEF Ingress, Conns

\* Joint and the packets in flight speak of the fields that Same lists, and of the
\* ingress keys.
LEMMA SameKeeps ==
  ASSUME NEW c, NEW d, NEW t, Joint(c, d), t \in Conns, Ingress(t), Same(c, t)
  PROVE  /\ Joint(t, d) /\ Joint(d, t)
         /\ \A p : InPhase(p, c, d) => InPhase(p, t, d)
         /\ \A p : InPhase(p, d, c) => InPhase(p, d, t)
BY DEF Joint, Egress, InStep, SeenInPhase, InPhase, Same

\* An update of the egress key, when every earlier phase has been used and read
\* (update_1rtt_egress_key).
LEMMA UpdateKeeps ==
  ASSUME Keys!PacketsPerKeyAssumption,
         NEW c, NEW d, Joint(c, d), NEW decrypted \in Nat,
         decrypted = c.key_phase \/ decrypted = c.key_phase + 1,
         decrypted = c.decrypted \/ decrypted = c.prepared,
         decrypted <= d.key_phase,
         d.decrypted = c.key_phase, c.key_phase < c.packet_number,
         d.key_phase <= c.key_phase => c.last = UINT64_MAX
  PROVE  LET u == Keys!UpdateEgressKey([c EXCEPT !.decrypted = decrypted])
         IN  /\ Joint(u, d) /\ Joint(d, u)
             /\ \A p \in Packets : InPhase(p, c, d) => InPhase(p, u, d)
             /\ \A p \in Packets : InPhase(p, d, c) => InPhase(p, d, u)
<1> DEFINE u == Keys!UpdateEgressKey([c EXCEPT !.decrypted = decrypted])
<1>1. c \in Conns /\ d \in Conns
  BY DEF Joint
<1>2. u = [c EXCEPT !.decrypted = decrypted, !.key_phase = c.key_phase + 1,
                    !.last = c.packet_number, !.next = UINT64_MAX]
  BY <1>1 DEF Keys!UpdateEgressKey, Conns
<1>3. /\ u.key_phase = c.key_phase + 1 /\ u.last = c.packet_number
      /\ u.next = UINT64_MAX /\ u.aead = c.aead /\ u.prepared = c.prepared
      /\ u.decrypted = decrypted
      /\ u.packet_number = c.packet_number /\ u.seen = c.seen
  BY <1>1, <1>2 DEF Conns
<1>4. u.zero_rtt = c.zero_rtt
  BY <1>1, <1>2 DEF Conns
<1>5. u \in Conns
  <2>1. UINT64_MAX \in Nat /\ c.key_phase + 1 \in Nat /\ c.packet_number \in Nat
    BY <1>1 DEF Conns, Keys!PacketsPerKeyAssumption
  <2>2. [c EXCEPT !.decrypted = decrypted, !.key_phase = c.key_phase + 1] \in Conns
    BY <1>1, <2>1 DEF Conns
  <2>3. QED
    BY <1>2, <2>1, <2>2 DEF Conns
<1> HIDE DEF u
<1>6. Ingress(u)
  BY <1>1, <1>5, <1>3, <1>4 DEF Ingress, Joint, Conns
<1>7. Egress(u)
  BY <1>1, <1>3 DEF Egress, Joint, Conns, Keys!PacketsPerKeyAssumption
<1>8. InStep(u, d) /\ InStep(d, u)
  BY <1>1, <1>5, <1>3 DEF InStep, Joint, Egress, Conns, Keys!PacketsPerKeyAssumption
<1>9. SeenInPhase(u, d) /\ SeenInPhase(d, u)
  BY <1>1, <1>5, <1>3 DEF SeenInPhase, Joint, Egress, InStep, Conns, Keys!PacketsPerKeyAssumption
<1>10. ASSUME NEW p \in Packets, InPhase(p, c, d)
      PROVE  InPhase(p, u, d)
  BY <1>1, <1>5, <1>3, <1>10 DEF InPhase, Conns, Packets, Joint
<1>11. ASSUME NEW p \in Packets, InPhase(p, d, c)
       PROVE  InPhase(p, d, u)
  BY <1>1, <1>5, <1>3, <1>11 DEF InPhase, Conns, Packets, Joint, SeenInPhase
<1>12. QED
  BY <1>5, <1>6, <1>7, <1>8, <1>9, <1>10, <1>11 DEF Joint, u

\* What an operation on an endpoint c with the peer d has to keep when it turns c
\* into n.
Keeps(c, n, d) ==
  /\ Joint(n, d) /\ Joint(d, n)
  /\ \A p \in Packets : InPhase(p, c, d) => InPhase(p, n, d)
  /\ \A p \in Packets : InPhase(p, d, c) => InPhase(p, d, n)

\* Joint speaks of both alike.
LEMMA JointSymmetric == ASSUME NEW c, NEW d, Joint(c, d) PROVE Joint(d, c)
BY DEF Joint

\* A packet that was decrypted: the endpoint is in the phase of the packet then, and
\* has followed the update if it is one (received_key_update, whose assertions are
\* those of Ingress).
LEMMA DecryptedKeeps ==
  ASSUME Keys!PacketsPerKeyAssumption,
         NEW c, NEW d, Joint(c, d), NEW key \in Nat, c.aead[key % 2] = key,
         key <= d.key_phase
  PROVE  LET m == Keys!Decrypted(c, key % 2)
         IN  /\ Keeps(c, m, d) /\ m.decrypted >= key
             /\ \/ m.last = c.last /\ m.key_phase = c.key_phase
                \/ m.last = c.packet_number
<1> USE DEF Keys!PacketsPerKeyAssumption
<1> DEFINE m == Keys!Decrypted(c, key % 2)
<1>1. /\ c \in Conns /\ d \in Conns /\ Ingress(c) /\ Egress(c) /\ Egress(d)
      /\ InStep(c, d) /\ InStep(d, c)
  BY DEF Joint
<1>2. CASE ~(c.prepared # c.decrypted /\ c.prepared % 2 = key % 2)
  <2>1. m = c
    BY <1>2 DEF Keys!Decrypted
  <2>2. key <= c.decrypted
    BY <1>1, <1>2, IngressReads DEF Conns
  <2>3. QED
    BY <1>1, <2>1, <2>2, JointSymmetric DEF Keeps, Conns
<1>3. CASE c.prepared # c.decrypted /\ c.prepared % 2 = key % 2
  <2>1. key = c.prepared /\ c.prepared = c.decrypted + 1
    BY <1>1, <1>3, IngressReads DEF Conns
  <2>2. m = Keys!ReceivedKeyUpdate(c)
    BY <1>3 DEF Keys!Decrypted
  <2>3. CASE c.key_phase < c.prepared
    <3>1. m = Keys!UpdateEgressKey([c EXCEPT !.decrypted = c.prepared])
      BY <2>2, <2>3 DEF Keys!ReceivedKeyUpdate
    <3>2. /\ c.prepared = c.key_phase + 1 /\ c.prepared \in Nat
          /\ d.decrypted = c.key_phase /\ c.key_phase < c.packet_number
          /\ ~(d.key_phase <= c.key_phase)
      BY <1>1, <2>1, <2>3 DEF Egress, InStep, Conns
    <3>3. Keeps(c, m, d)
      BY <1>1, <2>1, <3>1, <3>2, UpdateKeeps DEF Keeps
    <3>4. m.last = c.packet_number /\ m.decrypted = c.prepared
      BY <1>1, <3>1 DEF Keys!UpdateEgressKey, Conns
    <3>5. QED
      BY <1>1, <2>1, <3>3, <3>4 DEF Conns
  <2>4. CASE ~(c.key_phase < c.prepared)
    <3>1. m = [c EXCEPT !.decrypted = c.prepared]
      BY <2>2, <2>4 DEF Keys!ReceivedKeyUpdate
    <3>2. /\ m \in Conns /\ m.key_phase = c.key_phase /\ m.last = c.last
          /\ m.next = c.next /\ m.aead = c.aead /\ m.prepared = c.prepared
          /\ m.decrypted = c.prepared /\ m.packet_number = c.packet_number
          /\ m.seen = c.seen
      BY <1>1, <3>1 DEF Conns
    <3>3. m.zero_rtt = c.zero_rtt
      BY <1>1, <3>1 DEF Conns
    <3> HIDE DEF m
    <3>4. Ingress(m)
      BY <1>1, <2>1, <3>2, <3>3 DEF Ingress, Conns
    <3>5. Egress(m) /\ InStep(m, d) /\ InStep(d, m)
      BY <1>1, <2>1, <2>4, <3>2 DEF Egress, InStep, Conns
    <3>6. SeenInPhase(m, d) /\ SeenInPhase(d, m)
      BY <1>1, <2>1, <3>2 DEF SeenInPhase, Joint, Conns
    <3>7. Keeps(c, m, d)
      BY <3>2, <3>4, <3>5, <3>6 DEF Joint, Keeps, InPhase
    <3>8. QED
      BY <1>1, <2>1, <3>2, <3>7 DEF m, Conns
  <2>5. QED
    BY <2>3, <2>4
<1>4. QED
  BY <1>2, <1>3

\* The largest packet number received, once the phase of the packet is reached.
LEMMA SeenKeeps ==
  ASSUME Keys!PacketsPerKeyAssumption,
         NEW c, NEW d, Joint(c, d), NEW p \in Packets, InPhase(p, d, c),
         p.key # Keys!ZeroRttKey => c.decrypted >= p.key
  PROVE  /\ Keeps(c, Keys!Seen(c, p.pn), d)
         /\ Keys!Seen(c, p.pn).last = c.last /\ Keys!Seen(c, p.pn).key_phase = c.key_phase
         /\ Keys!Seen(c, p.pn).decrypted = c.decrypted
<1> DEFINE m == Keys!Seen(c, p.pn)
<1>1. c \in Conns /\ d \in Conns
  BY DEF Joint
<1>2. CASE ~(p.pn > c.seen)
  <2>1. m = c
    BY <1>2 DEF Keys!Seen
  <2>2. QED
    BY <2>1, JointSymmetric DEF Keeps
<1>3. CASE p.pn > c.seen
  <2>1. m = [c EXCEPT !.seen = p.pn] /\ p.pn \in Nat
    BY <1>3 DEF Keys!Seen, Packets
  <2>2. /\ m \in Conns /\ m.key_phase = c.key_phase /\ m.last = c.last
        /\ m.next = c.next /\ m.aead = c.aead /\ m.prepared = c.prepared
        /\ m.decrypted = c.decrypted /\ m.packet_number = c.packet_number
        /\ m.seen = p.pn
    BY <1>1, <2>1 DEF Conns
  <2>3. m.zero_rtt = c.zero_rtt
    BY <1>1, <2>1 DEF Conns
  <2> HIDE DEF m
  <2>4. Ingress(m) /\ Egress(m) /\ InStep(m, d) /\ InStep(d, m)
    BY <2>2, <2>3 DEF Joint, Ingress, Egress, InStep
  <2>5. SeenInPhase(m, d) /\ SeenInPhase(d, m)
    BY <1>1, <2>1, <2>2 DEF SeenInPhase, Joint, InPhase, Conns, Keys!NothingSeen
  <2>6. Joint(m, d) /\ Joint(d, m)
    BY <2>2, <2>4, <2>5 DEF Joint
  <2>7. ASSUME NEW q \in Packets
        PROVE  /\ InPhase(q, c, d) => InPhase(q, m, d)
               /\ InPhase(q, d, c) => InPhase(q, d, m)
    BY <1>1, <1>3, <2>2 DEF InPhase, Conns, Packets
  <2>8. QED
    BY <2>2, <2>6, <2>7 DEF Keeps, m
<1>4. QED
  BY <1>2, <1>3

\* An ACK of the update: it allows for the next one (handle_ack_frame).
LEMMA AckedKeeps ==
  ASSUME Keys!PacketsPerKeyAssumption,
         NEW c, NEW d, Joint(c, d), NEW ack \in Int, ack <= d.seen,
         ack >= c.last => /\ c.decrypted >= c.key_phase
                          /\ d.key_phase = c.key_phase => d.key_phase < d.packet_number
  PROVE  Keeps(c, Keys!Acked(c, ack), d)
<1> USE DEF Keys!PacketsPerKeyAssumption
<1> DEFINE n == Keys!Acked(c, ack)
<1>1. c \in Conns /\ d \in Conns
  BY DEF Joint
<1>2. CASE ~(c.last <= ack)
  <2>1. n = c
    BY <1>2 DEF Keys!Acked
  <2>2. QED
    BY <2>1, JointSymmetric DEF Keeps
<1>3. CASE c.last <= ack
  <2>1. n = [c EXCEPT !.last = UINT64_MAX, !.next = c.packet_number + max_packets_per_key]
    BY <1>3 DEF Keys!Acked
  <2>2. UINT64_MAX \in Nat /\ c.packet_number + max_packets_per_key \in Nat
    BY <1>1 DEF Conns
  <2>3. n \in Conns
    BY <1>1, <2>1, <2>2 DEF Conns
  <2>4. /\ n.key_phase = c.key_phase /\ n.last = UINT64_MAX
        /\ n.next = c.packet_number + max_packets_per_key
        /\ n.aead = c.aead /\ n.prepared = c.prepared
        /\ n.decrypted = c.decrypted /\ n.packet_number = c.packet_number
        /\ n.seen = c.seen
    BY <1>1, <2>1 DEF Conns
  <2>5. n.zero_rtt = c.zero_rtt
    BY <1>1, <2>1 DEF Conns
  <2>6. d.seen >= c.last /\ d.decrypted >= c.key_phase /\ c.last # UINT64_MAX
    BY <1>1, <1>3 DEF Joint, SeenInPhase, Egress, Conns
  <2> HIDE DEF n
  <2>7. Ingress(n)
    BY <2>4, <2>5 DEF Joint, Ingress
  <2>8. Egress(n)
    BY <1>1, <1>3, <2>4, <2>3, <2>6 DEF Joint, Egress, SeenInPhase, Conns
  <2>9. InStep(n, d) /\ InStep(d, n)
    BY <1>1, <1>3, <2>4, <2>3, <2>6 DEF Joint, InStep, Conns
  <2>10. SeenInPhase(n, d) /\ SeenInPhase(d, n)
    BY <1>1, <2>4, <2>3 DEF Joint, SeenInPhase, Egress, Conns
  <2>11. ASSUME NEW q \in Packets
        PROVE  /\ InPhase(q, c, d) => InPhase(q, n, d)
               /\ InPhase(q, d, c) => InPhase(q, d, n)
    BY <1>1, <2>4, <2>3 DEF InPhase, Joint, SeenInPhase, Egress, Conns, Packets
  <2>12. QED
    BY <2>3, <2>7, <2>8, <2>9, <2>10, <2>11, <1>1 DEF Keeps, Joint, n
<1>4. QED
  BY <1>2, <1>3

\* A packet that arrives, whatever it is protected by (quicly_receive).
LEMMA DatagramKeeps ==
  ASSUME Keys!PacketsPerKeyAssumption,
         NEW c, NEW d, Joint(c, d), NEW p \in Packets, InPhase(p, d, c), p.key # Keys!ZeroRttKey
  PROVE  LET t == Keys!Tried(c, p.key, p.bit)
         IN  Keeps(c, IF t.aead[p.bit] = p.key
                      THEN Keys!Acked(Keys!Seen(Keys!Decrypted(t, p.bit), p.pn), p.ack) ELSE t, d)
<1> DEFINE t == Keys!Tried(c, p.key, p.bit)
           m == Keys!Decrypted(t, p.bit)
           s == Keys!Seen(m, p.pn)
           n == Keys!Acked(s, p.ack)
<1>1. /\ p.bit \in {0, 1} /\ p.key \in Nat /\ p.bit = p.key % 2 /\ p.ack \in Int /\ p.pn \in Nat
      /\ c \in Conns /\ d \in Conns /\ Ingress(c)
  BY DEF Packets, InPhase, Joint
<1>2. Keeps(c, t, d)
  BY <1>1, TriedKeeps, SameKeeps DEF Keeps
<1> HIDE DEF t
<1>3. CASE t.aead[p.bit] = p.key
  <2>1. Joint(t, d) /\ InPhase(p, d, t) /\ p.key <= d.key_phase
    BY <1>1, <1>2 DEF Keeps, InPhase
  <2>2. /\ Keeps(t, m, d) /\ m.decrypted >= p.key
        /\ \/ m.last = t.last /\ m.key_phase = t.key_phase
           \/ m.last = t.packet_number
    BY <1>1, <1>3, <2>1, DecryptedKeeps
  <2> HIDE DEF m
  <2>3. Joint(m, d) /\ InPhase(p, d, m)
    BY <2>1, <2>2 DEF Keeps
  <2>4. /\ Keeps(m, s, d) /\ s.last = m.last /\ s.key_phase = m.key_phase
        /\ s.decrypted = m.decrypted
    BY <2>2, <2>3, SeenKeeps
  <2> HIDE DEF s
  <2>5. Joint(s, d) /\ InPhase(p, d, s) /\ p.ack <= d.seen
    BY <2>3, <2>4 DEF Keeps, InPhase
  <2>6. p.ack >= s.last => /\ s.decrypted >= s.key_phase
                           /\ d.key_phase = s.key_phase => d.key_phase < d.packet_number
    <3>1. SUFFICES ASSUME p.ack >= s.last
                   PROVE  /\ s.decrypted >= s.key_phase
                          /\ d.key_phase = s.key_phase => d.key_phase < d.packet_number
      OBVIOUS
    <3>2. s \in Conns /\ s.key_phase <= p.key /\ p.pn < d.packet_number
      BY <3>1, <2>5 DEF InPhase, Joint
    <3>3. p.key <= p.pn
      BY <2>5 DEF InPhase
    <3>4. QED
      BY <1>1, <2>2, <2>4, <3>2, <3>3 DEF Conns
  <2>7. Keeps(s, n, d)
    BY <1>1, <2>5, <2>6, AckedKeeps
  <2>8. QED
    BY <1>2, <1>3, <2>2, <2>4, <2>7 DEF Keeps, m, s, t
<1>4. QED
  BY <1>2, <1>3 DEF t

-----------------------------------------------------------------------------
(* The invariant is inductive *)

\* The handshake is complete, with or without 0-RTT data.
LEMMA KeysInitInv == Keys!PacketsPerKeyAssumption /\ Keys!Init => KeysInv
<1> SUFFICES ASSUME Keys!PacketsPerKeyAssumption, Keys!Init PROVE KeysInv
  OBVIOUS
<1> USE DEF Keys!Endpoints, Keys!Client, Keys!Server, Keys!Peer, Keys!PacketsPerKeyAssumption
<1>1. PICK resumed \in BOOLEAN :
        /\ k_conn = [e \in Keys!Endpoints |->
                     IF e = Keys!Server THEN Keys!NewConn(resumed)
                     ELSE [Keys!NewConn(FALSE) EXCEPT
                             !.packet_number = IF resumed THEN 1 ELSE 0]]
        /\ k_net = IF resumed THEN {Keys!ZeroRttPacket} ELSE {}
  BY DEF Keys!Init
<1> DEFINE Fresh(c) ==
      /\ c \in Conns /\ c.key_phase = 0 /\ c.last = 0 /\ c.next = UINT64_MAX
      /\ c.prepared = 0 /\ c.decrypted = 0 /\ c.packet_number \in {0, 1}
      /\ c.seen = Keys!NothingSeen /\ c.aead[0] = 0 /\ c.aead[1] \in {Keys!NoKey, Keys!ZeroRttKey}
      /\ c.zero_rtt <=> c.aead[1] = Keys!ZeroRttKey
<1>2. \A z \in BOOLEAN : Fresh(Keys!NewConn(z))
  BY DEF Keys!NewConn, Conns, Keys!NoKey, Keys!ZeroRttKey, Keys!NothingSeen
<1>3. /\ DOMAIN k_conn = Keys!Endpoints /\ Fresh(k_conn[Keys!Client]) /\ Fresh(k_conn[Keys!Server])
      /\ k_conn[Keys!Client].packet_number = IF resumed THEN 1 ELSE 0
  <2>1. k_conn[Keys!Server] = Keys!NewConn(resumed)
    BY <1>1
  <2>2. k_conn[Keys!Client] = [Keys!NewConn(FALSE) EXCEPT !.packet_number = IF resumed THEN 1 ELSE 0]
    BY <1>1
  <2> DEFINE c == Keys!NewConn(FALSE)
  <2>3. Fresh(c)
    BY <1>2
  <2>4. QED
    BY <1>1, <1>2, <2>1, <2>2, <2>3 DEF Conns
<1> HIDE DEF Fresh
<1>4. \A c, d : Fresh(c) /\ Fresh(d) => Joint(c, d)
  <2> SUFFICES ASSUME NEW c, NEW d, Fresh(c), Fresh(d) PROVE Joint(c, d)
    OBVIOUS
  <2>1. 0 % 2 = 0
    OBVIOUS
  <2>2. Ingress(c) /\ Ingress(d)
    BY <2>1 DEF Fresh, Ingress, Keys!NoKey, Keys!ZeroRttKey
  <2>3. Egress(c) /\ Egress(d)
    BY DEF Fresh, Egress
  <2>4. InStep(c, d) /\ InStep(d, c) /\ SeenInPhase(c, d) /\ SeenInPhase(d, c)
    BY DEF Fresh, InStep, SeenInPhase, Keys!NothingSeen
  <2>5. QED
    BY <2>2, <2>3, <2>4 DEF Fresh, Joint
<1>5. k_conn \in [Keys!Endpoints -> Conns]
  BY <1>1, <1>3 DEF Fresh
<1>6. \A e \in Keys!Endpoints : Joint(k_conn[e], k_conn[Keys!Peer(e)])
  BY <1>3, <1>4
<1>7. k_net \subseteq Packets /\ \A p \in k_net : InPhase(p, k_conn[p.from], k_conn[Keys!Peer(p.from)])
  <2>1. CASE ~resumed
    BY <1>1, <2>1
  <2>2. CASE resumed
    <3>1. k_net = {Keys!ZeroRttPacket} /\ k_conn[Keys!Client].packet_number = 1
      BY <1>1, <1>3, <2>2
    <3>2. Keys!ZeroRttPacket \in Packets /\ Keys!ZeroRttPacket.from = Keys!Client
      BY DEF Keys!ZeroRttPacket, Packets, Keys!ZeroRttKey, Keys!NothingSeen
    <3>3. InPhase(Keys!ZeroRttPacket, k_conn[Keys!Client], k_conn[Keys!Server])
      BY <1>3, <3>1 DEF Fresh, InPhase, Keys!ZeroRttPacket, Keys!NothingSeen
    <3>4. QED
      BY <3>1, <3>2, <3>3
  <2>3. QED
    BY <2>1, <2>2
<1>8. k_damaged \in 0 .. MaxDamaged
  BY DEF Keys!Init
<1>9. QED
  BY <1>5, <1>6, <1>7, <1>8 DEF KeysInv

\* A step that replaces one endpoint by one for which all is kept.
LEMMA StepKeeps ==
  ASSUME KeysInv, NEW e \in Keys!Endpoints, NEW n,
         k_conn' = [k_conn EXCEPT ![e] = n], Keeps(k_conn[e], n, k_conn[Keys!Peer(e)]),
         k_net' = k_net, k_damaged' \in 0 .. MaxDamaged
  PROVE  KeysInv'
<1>1. /\ \A f \in Keys!Endpoints : Keys!Peer(f) \in Keys!Endpoints /\ Keys!Peer(f) # f /\ Keys!Peer(Keys!Peer(f)) = f
      /\ \A f \in Keys!Endpoints : f = e \/ f = Keys!Peer(e)
  BY DEF Keys!Endpoints, Keys!Peer, Keys!Client, Keys!Server
<1>2. n \in Conns /\ k_conn \in [Keys!Endpoints -> Conns]
  BY DEF KeysInv, Keeps, Joint
<1>3. k_conn' \in [Keys!Endpoints -> Conns] /\ k_conn'[e] = n /\ k_conn'[Keys!Peer(e)] = k_conn[Keys!Peer(e)]
  BY <1>1, <1>2
<1>4. \A f \in Keys!Endpoints : Joint(k_conn'[f], k_conn'[Keys!Peer(f)])
  BY <1>1, <1>3 DEF Keeps
<1>5. ASSUME NEW p \in k_net PROVE InPhase(p, k_conn'[p.from], k_conn'[Keys!Peer(p.from)])
  <2>1. p \in Packets /\ p.from \in Keys!Endpoints /\ InPhase(p, k_conn[p.from], k_conn[Keys!Peer(p.from)])
    BY DEF KeysInv, Packets
  <2>2. CASE p.from = e
    BY <1>3, <2>1, <2>2 DEF Keeps
  <2>3. CASE p.from = Keys!Peer(e)
    BY <1>1, <1>3, <2>1, <2>3 DEF Keeps
  <2>4. QED
    BY <1>1, <2>1, <2>2, <2>3
<1>6. QED
  BY <1>3, <1>4, <1>5 DEF KeysInv

\* A packet is sent, with an update of the key if one is due (commit_send_packet).
LEMMA KeysSendInv ==
  ASSUME Keys!PacketsPerKeyAssumption, KeysInv, NEW e \in Keys!Endpoints, Keys!Send(e)
  PROVE  KeysInv'
<1> USE DEF Keys!PacketsPerKeyAssumption
<1> DEFINE c == k_conn[e]
           d == k_conn[Keys!Peer(e)]
           u == IF c.packet_number >= c.next THEN Keys!UpdateEgressKey(c) ELSE c
           n == [u EXCEPT !.packet_number = @ + 1]
           r == Keys!Packet(e, u)
<1>1. /\ \A f \in Keys!Endpoints : Keys!Peer(f) \in Keys!Endpoints /\ Keys!Peer(f) # f /\ Keys!Peer(Keys!Peer(f)) = f
      /\ \A f \in Keys!Endpoints : f = e \/ f = Keys!Peer(e)
  BY DEF Keys!Endpoints, Keys!Peer, Keys!Client, Keys!Server
<1>2. /\ Joint(c, d) /\ c \in Conns /\ d \in Conns /\ c.packet_number < MaxSent
      /\ k_conn \in [Keys!Endpoints -> Conns]
      /\ k_net' = k_net \cup {r} /\ k_conn' = [k_conn EXCEPT ![e] = n] /\ k_damaged' = k_damaged
  BY DEF KeysInv, Joint, Keys!Send
<1>3. Keeps(c, u, d) /\ u.packet_number = c.packet_number /\ u.seen = c.seen
  <2>1. CASE c.packet_number >= c.next
    <3>1. /\ c.last = UINT64_MAX /\ c.decrypted = c.key_phase
          /\ d.decrypted = c.key_phase /\ c.key_phase < c.packet_number
          /\ c.decrypted <= d.key_phase
      BY <1>2, <2>1 DEF Joint, Egress, InStep, Conns
    <3>2. c = [c EXCEPT !.decrypted = c.decrypted]
      BY <1>2 DEF Conns
    <3>3. u = Keys!UpdateEgressKey([c EXCEPT !.decrypted = c.decrypted])
      BY <2>1, <3>2
    <3>4. c.decrypted \in Nat /\ c.decrypted = c.decrypted
      BY <1>2 DEF Conns
    <3> HIDE DEF u
    <3>5. Keeps(c, u, d)
      BY <1>2, <3>1, <3>3, <3>4, UpdateKeeps DEF Keeps
    <3> USE DEF u
    <3>6. QED
      BY <1>2, <2>1, <3>5 DEF Keys!UpdateEgressKey, Conns
  <2>2. CASE ~(c.packet_number >= c.next)
    BY <1>2, <2>2, JointSymmetric DEF Keeps
  <2>3. QED
    BY <2>1, <2>2
<1>4. Joint(u, d) /\ u \in Conns
  BY <1>3 DEF Keeps, Joint
<1> HIDE DEF u
<1>5. n \in Conns /\ Same([u EXCEPT !.packet_number = @ + 1], n)
  BY <1>4 DEF Conns, Same
<1>6. /\ n.key_phase = u.key_phase /\ n.last = u.last /\ n.next = u.next
      /\ n.aead = u.aead /\ n.prepared = u.prepared /\ n.decrypted = u.decrypted
      /\ n.packet_number = u.packet_number + 1 /\ n.seen = u.seen
  BY <1>4 DEF Conns
<1>7. n.zero_rtt = u.zero_rtt
  BY <1>4 DEF Conns
<1> HIDE DEF n
<1>8. Keeps(u, n, d)
  <2>1. Ingress(n) /\ Egress(n)
    BY <1>2, <1>3, <1>4, <1>5, <1>6, <1>7 DEF Joint, Ingress, Egress, Conns
  <2>2. InStep(n, d) /\ InStep(d, n) /\ SeenInPhase(n, d) /\ SeenInPhase(d, n)
    BY <1>2, <1>4, <1>5, <1>6 DEF Joint, InStep, SeenInPhase, Conns
  <2>3. ASSUME NEW q \in Packets
        PROVE  /\ InPhase(q, u, d) => InPhase(q, n, d)
               /\ InPhase(q, d, u) => InPhase(q, d, n)
    BY <1>4, <1>5, <1>6 DEF InPhase, Conns, Packets
  <2>4. QED
    BY <1>2, <1>4, <1>5, <2>1, <2>2, <2>3 DEF Keeps, Joint
<1>9. r \in Packets /\ r.from = e /\ InPhase(r, n, d)
  <2>1. /\ r.from = e /\ r.pn = u.packet_number /\ r.key = u.key_phase
        /\ r.bit = u.key_phase % 2 /\ r.ack = u.seen
    BY DEF Keys!Packet
  <2>2. u.key_phase % 2 \in {0, 1} /\ u.seen \in Int /\ u.packet_number \in Nat /\ u.key_phase \in Nat
    BY <1>4, Alternate DEF Conns
  <2>3. r \in Packets
    BY <2>2 DEF Keys!Packet, Packets
  <2> HIDE DEF r
  <2>4. r.key # Keys!ZeroRttKey
    BY <2>1, <2>2 DEF Keys!ZeroRttKey
  <2>5. u.key_phase <= u.packet_number
    BY <1>4, <2>2 DEF Joint, Egress, Conns
  <2>6. r.ack >= d.last => r.key >= d.key_phase
    BY <1>2, <1>4, <2>1 DEF Joint, SeenInPhase, Egress, InStep, Conns
  <2>7. QED
    BY <1>4, <1>6, <2>1, <2>2, <2>3, <2>4, <2>5, <2>6
       DEF InPhase, Joint, SeenInPhase, Conns
<1> HIDE DEF r
<1>10. Keeps(c, n, d)
  BY <1>3, <1>8 DEF Keeps
<1>11. k_conn' \in [Keys!Endpoints -> Conns] /\ k_conn'[e] = n /\ k_conn'[Keys!Peer(e)] = d
  BY <1>1, <1>2, <1>5
<1>12. \A f \in Keys!Endpoints : Joint(k_conn'[f], k_conn'[Keys!Peer(f)])
  BY <1>1, <1>10, <1>11 DEF Keeps
<1>13. ASSUME NEW p \in k_net' PROVE p \in Packets /\ InPhase(p, k_conn'[p.from], k_conn'[Keys!Peer(p.from)])
  <2>1. CASE p = r
    BY <2>1, <1>9, <1>11
  <2>2. CASE p \in k_net
    <3>1. p \in Packets /\ p.from \in Keys!Endpoints /\ InPhase(p, k_conn[p.from], k_conn[Keys!Peer(p.from)])
      BY <2>2 DEF KeysInv, Packets
    <3>2. CASE p.from = e
      BY <1>10, <1>11, <3>1, <3>2 DEF Keeps
    <3>3. CASE p.from = Keys!Peer(e)
      BY <1>1, <1>10, <1>11, <3>1, <3>3 DEF Keeps
    <3>4. QED
      BY <1>1, <3>1, <3>2, <3>3
  <2>3. QED
    BY <1>2, <2>1, <2>2
<1>14. QED
  BY <1>2, <1>11, <1>12, <1>13 DEF KeysInv

\* One step of either endpoint or of the network.
LEMMA KeysNextInv == Keys!PacketsPerKeyAssumption /\ KeysInv /\ [Keys!Next]_(Keys!vars) => KeysInv'
<1> SUFFICES ASSUME Keys!PacketsPerKeyAssumption, KeysInv, [Keys!Next]_(Keys!vars) PROVE KeysInv'
  OBVIOUS
<1>1. ASSUME NEW e \in Keys!Endpoints, Keys!Send(e) PROVE KeysInv'
  BY <1>1, KeysSendInv
<1>2. ASSUME NEW e \in Keys!Endpoints, NEW p \in k_net, Keys!Receive(e, p) PROVE KeysInv'
  <2>1. /\ p \in Packets /\ p.from = Keys!Peer(e) /\ p.key # Keys!ZeroRttKey
        /\ Joint(k_conn[e], k_conn[Keys!Peer(e)]) /\ InPhase(p, k_conn[Keys!Peer(e)], k_conn[e])
    BY <1>2 DEF KeysInv, Keys!Receive, Keys!Endpoints, Keys!Peer, Keys!Client, Keys!Server
  <2> DEFINE t == Keys!Tried(k_conn[e], p.key, p.bit)
             n == IF t.aead[p.bit] = p.key
                  THEN Keys!Acked(Keys!Seen(Keys!Decrypted(t, p.bit), p.pn), p.ack) ELSE t
  <2>2. Keeps(k_conn[e], n, k_conn[Keys!Peer(e)])
    BY <2>1, DatagramKeeps
  <2>3. k_conn' = [k_conn EXCEPT ![e] = n] /\ k_net' = k_net /\ k_damaged' = k_damaged
    BY <1>2 DEF Keys!Receive
  <2> HIDE DEF n
  <2>4. QED
    BY <2>2, <2>3, StepKeeps DEF KeysInv
<1>3. ASSUME NEW e \in Keys!Endpoints, NEW p \in k_net, Keys!Receive0Rtt(e, p) PROVE KeysInv'
  <2>1. /\ p \in Packets /\ p.from = Keys!Peer(e) /\ p.key = Keys!ZeroRttKey
        /\ Joint(k_conn[e], k_conn[Keys!Peer(e)]) /\ InPhase(p, k_conn[Keys!Peer(e)], k_conn[e])
    BY <1>3 DEF KeysInv, Keys!Receive0Rtt, Keys!Endpoints, Keys!Peer, Keys!Client, Keys!Server
  <2>2. Keeps(k_conn[e], Keys!Seen(k_conn[e], p.pn), k_conn[Keys!Peer(e)])
    BY <2>1, SeenKeeps
  <2>3. Keeps(k_conn[e], k_conn[e], k_conn[Keys!Peer(e)])
    BY <2>1, JointSymmetric DEF Keeps
  <2>4. QED
    BY <1>3, <2>2, <2>3, StepKeeps DEF Keys!Receive0Rtt, KeysInv
<1>4. ASSUME NEW e \in Keys!Endpoints, NEW i \in {0, 1}, Keys!ReceiveDamaged(e, i) PROVE KeysInv'
  <2>1. Joint(k_conn[e], k_conn[Keys!Peer(e)]) /\ k_conn[e] \in Conns /\ Ingress(k_conn[e])
    BY DEF KeysInv, Joint
  <2>2. Keeps(k_conn[e], Keys!Tried(k_conn[e], UINT64_MAX, i), k_conn[Keys!Peer(e)])
    BY <2>1, TriedKeeps, SameKeeps DEF Keeps
  <2>3. k_damaged' \in 0 .. MaxDamaged
    BY <1>4 DEF Keys!ReceiveDamaged, KeysInv, Keys!PacketsPerKeyAssumption
  <2>4. QED
    BY <1>4, <2>2, <2>3, StepKeeps DEF Keys!ReceiveDamaged
<1>5. CASE UNCHANGED Keys!vars
  BY <1>5 DEF KeysInv, Keys!vars
<1>6. QED
  BY <1>1, <1>2, <1>3, <1>4, <1>5 DEF Keys!Next

\* What the invariant says of the keys.
LEMMA KeysInvImplies == Keys!PacketsPerKeyAssumption /\ KeysInv => Keys!KeysInStep
<1> SUFFICES ASSUME Keys!PacketsPerKeyAssumption, KeysInv PROVE Keys!KeysInStep
  OBVIOUS
<1>1. \A e \in Keys!Endpoints : /\ k_conn[e] \in Conns /\ Ingress(k_conn[e]) /\ Egress(k_conn[e])
                                /\ Keys!Peer(e) \in Keys!Endpoints /\ Keys!Peer(Keys!Peer(e)) = e
                                /\ InStep(k_conn[e], k_conn[Keys!Peer(e)])
                                /\ SeenInPhase(k_conn[Keys!Peer(e)], k_conn[e])
  BY DEF KeysInv, Joint, Keys!Endpoints, Keys!Peer, Keys!Client, Keys!Server
<1>2. Keys!TypeOK
  <2>1. ASSUME NEW e \in Keys!Endpoints
        PROVE  /\ k_conn[e].key_phase \in 0 .. MaxSent
               /\ k_conn[e].last \in 0 .. MaxSent \cup {UINT64_MAX}
               /\ k_conn[e].next \in 0 .. MaxSent + max_packets_per_key \cup {UINT64_MAX}
               /\ k_conn[e].prepared \in 0 .. MaxSent + 1
               /\ k_conn[e].decrypted \in 0 .. MaxSent
               /\ k_conn[e].packet_number \in 0 .. MaxSent
               /\ k_conn[e].seen \in Keys!NothingSeen .. MaxSent
    <3> DEFINE c == k_conn[e]
               d == k_conn[Keys!Peer(e)]
    <3>1. c \in Conns /\ d \in Conns /\ Egress(d)
      BY <1>1
    <3> HIDE DEF c, d
    <3>2. Ingress(c) /\ Egress(c) /\ SeenInPhase(d, c)
      BY <1>1 DEF c, d
    <3>3. QED
      BY <3>1, <3>2 DEF c, Ingress, Egress, SeenInPhase, Conns, Keys!NothingSeen, Keys!PacketsPerKeyAssumption
  <2>2. QED
    BY <2>1 DEF Keys!TypeOK, KeysInv
<1>3. Keys!NewestReadable
  <2> SUFFICES ASSUME NEW e \in Keys!Endpoints, NEW p \in k_net, p.from = e,
                      p.key = k_conn[e].key_phase
               PROVE  Keys!Readable(k_conn[Keys!Peer(e)], p)
    BY DEF Keys!NewestReadable
  <2> DEFINE d == k_conn[Keys!Peer(e)]
  <2>1. /\ p \in Packets /\ InPhase(p, k_conn[e], d) /\ p.key \in Nat /\ p.key # Keys!ZeroRttKey
        /\ d \in Conns /\ Ingress(d) /\ p.key \in {d.decrypted, d.decrypted + 1}
    <3>1. p \in Packets /\ InPhase(p, k_conn[e], d)
      BY DEF KeysInv
    <3>2. k_conn[e] \in Conns /\ d \in Conns /\ Ingress(d) /\ InStep(k_conn[e], d)
      BY <1>1
    <3>3. QED
      BY <3>1, <3>2 DEF Conns, Keys!ZeroRttKey, InStep
  <2>2. p.bit = p.key % 2 /\ p.bit \in {0, 1}
    BY <2>1 DEF InPhase, Packets
  <2> HIDE DEF d
  <2>3. CASE d.aead[p.bit] = p.key
    <3>1. Keys!Tried(d, p.key, p.bit) = d
      BY <2>1, <2>3 DEF Keys!Tried, Keys!NoKey
    <3>2. QED
      BY <2>3, <3>1 DEF Keys!Readable, d
  <2>4. CASE d.aead[p.bit] # p.key
    <3>1. p.key = d.decrypted + 1 /\ d.prepared = d.decrypted /\ p.bit # d.decrypted % 2
      BY <2>1, <2>2, <2>4, Alternate DEF Ingress, Conns
    <3>2. Keys!Tried(d, p.key, p.bit) = Keys!Prepare(d, p.bit)
      BY <2>1, <2>2, <2>4, <3>1, TriedIs DEF Keys!MayPrepare
    <3>3. Keys!Prepare(d, p.bit).aead[p.bit] = d.prepared + 1
      <4>1. Keys!Prepare(d, p.bit).aead = [d.aead EXCEPT ![p.bit] = d.prepared + 1]
        BY <2>1 DEF Keys!Prepare, Conns
      <4>2. QED
        BY <2>1, <2>2, <4>1 DEF Conns
    <3>4. QED
      BY <3>1, <3>2, <3>3 DEF Keys!Readable, d
  <2>5. QED
    BY <2>3, <2>4
<1>4. Keys!KeysKept
  BY <1>1 DEF Keys!KeysKept, Ingress
<1>5. Keys!PhasesInStep
  BY <1>1 DEF Keys!PhasesInStep, Egress, InStep
<1>6. QED
  BY <1>2, <1>3, <1>4, <1>5 DEF Keys!KeysInStep

\* Whatever is lost, repeated, late or damaged, and whichever endpoint updates its
\* keys and when: the keys that are needed are kept, the newest can be read, and
\* both endpoints go through the same phases (aead_decrypt_1rtt,
\* received_key_update, update_1rtt_egress_key).
THEOREM KeysStayInStep ==
  ASSUME Keys!PacketsPerKeyAssumption
  PROVE  Keys!Spec => []Keys!KeysInStep
<1>1. Keys!Init => KeysInv
  BY KeysInitInv
<1>2. KeysInv /\ [Keys!Next]_(Keys!vars) => KeysInv'
  BY KeysNextInv
<1>3. KeysInv => Keys!KeysInStep
  BY KeysInvImplies
<1>4. QED
  BY <1>1, <1>2, <1>3, PTL DEF Keys!Spec
=============================================================================
