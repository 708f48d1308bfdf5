------------------------- MODULE LossRecoveryProofs -------------------------
(***************************************************************************)
(* The books of loss recovery balance, nothing handed over is forgotten,   *)
(* no packet is given up but behind an acknowledged one and, unless probes *)
(* are sent speculatively, no alarm is set for the past: for any number of *)
(* packets and items, any estimates of the RTT, windows and thresholds.    *)
(* A sentmap only ever changes in two ways: packets are acknowledged,      *)
(* lost, marked or retired (Follows), or a flight is added to it; the      *)
(* lemmas go by these, and the actions are combinations of them.           *)
(***************************************************************************)
EXTENDS LossRecovery, FiniteSetTheorems, FunctionTheorems, SequenceTheorems,
        TLAPS

-----------------------------------------------------------------------------
(* The inductive invariant *)

Epochs == {"handshake", "1rtt"}

Packets ==
  [sent_at : Nat, epoch : Epochs, item : Items \union {NoItem, Skipped},
   eliciting : BOOLEAN, frames_in_flight : BOOLEAN, cc : {0, 1}]

Sentmaps == UNION {[D -> Packets] : D \in SUBSET Nat}
Ptos == {r.pto : r \in Rtts}
Percentiles == 0 .. 1024
Counts == {n \in Int : n >= - NumSpeculativePtos}

Losses ==
  [sentmap : Sentmaps, bytes_in_flight : Int,
   largest_acked_plus1 : [Epochs -> Nat], loss_time : Int, alarm_at : Int,
   pto_count : Counts, total_bytes_sent : Nat, use_packet_based : BOOLEAN,
   time_based_percentile : Percentiles, min_pn_to_relax : Nat,
   rtt : Nat, pto : Ptos, sane : BOOLEAN]

Conns ==
  [packet_number : 0 .. MaxPn, last_sent : 0 .. MaxTime, cwnd : Nat,
   recovery_end : Nat, pn_path_start : Nat, handshaking : BOOLEAN,
   send_probe : BOOLEAN]

Queues ==
  [idle : SUBSET AppItems, pending : SUBSET Items, sent : SUBSET AppItems,
   withdrawn : SUBSET AppItems, delivered : SUBSET Items]

\* an item that is in flight counts as such; only 1-RTT packets carry data of
\* the application
Honest(p) ==
  /\ p.item \in Items /\ p.frames_in_flight => p.cc # 0
  /\ p.item \in AppItems => p.epoch = "1rtt"

InFlight(m) == {pn \in DOMAIN m : m[pn].cc # 0}

\* the sentmap of l has the packets below n, in the order of time, and
\* bytes_in_flight agrees with it
Ledger(l, n) ==
  /\ l \in Losses
  /\ DOMAIN l.sentmap \subseteq 0 .. n - 1
  /\ \A pn \in DOMAIN l.sentmap :
       Honest(l.sentmap[pn]) /\ l.sentmap[pn].sent_at <= now
  /\ \A p, q \in DOMAIN l.sentmap :
       p < q => l.sentmap[p].sent_at <= l.sentmap[q].sent_at
  /\ l.bytes_in_flight = Cardinality(InFlight(l.sentmap))

\* items move on: what waits for the application has never been sent
Apart ==
  /\ items.pending \cap items.delivered = {}
  /\ items.idle \cap (items.pending \union items.delivered) = {}
  /\ \A pn \in DOMAIN loss.sentmap : loss.sentmap[pn].item \notin items.idle

Inv ==
  /\ now \in 0 .. MaxTime
  /\ conn \in Conns
  /\ items \in Queues
  /\ Ledger(loss, conn.packet_number)
  /\ loss.pto_count <= conn.packet_number
  /\ Apart
  /\ TimersArmed
  /\ NoDataForgotten

-----------------------------------------------------------------------------
(* Numbers and finite sets *)

\* Every set of natural numbers has a least element.
LEMMA LeastExists ==
  ASSUME NEW T, T \subseteq Nat, T # {}
  PROVE  \E m \in T : \A k \in T : m <= k
<1>1. \E m \in T : \A k \in T : ~(k < m)
  <2>1. PICK R : R = OpToRel(<, Nat)
    OBVIOUS
  <2>2. IsWellFoundedOn(R, Nat)
    BY <2>1, NatLessThanWellFounded
  <2>3. PICK m \in T : \A k \in T : ~(<<k, m>> \in R)
    BY <2>2, WFMin
  <2>4. \A k \in T : <<k, m>> \in R <=> k < m
    BY <2>1 DEF OpToRel
  <2> QED  BY <2>3, <2>4
<1> QED  BY <1>1

LEMMA MinIs ==
  ASSUME NEW T, T \subseteq Nat, T # {}
  PROVE  Min(T) \in T /\ \A k \in T : Min(T) <= k
BY LeastExists DEF Min

\* A set of natural numbers that is bounded has a greatest element.
LEMMA MaxIs ==
  ASSUME NEW n \in Nat, NEW T, T \subseteq 0 .. n, T # {}
  PROVE  Max(T) \in T /\ \A k \in T : k <= Max(T)
<1>1. PICK D : D = {n - k : k \in T}
  OBVIOUS
<1>2. D \subseteq Nat /\ D # {}
  <2>1. \A k \in T : n - k \in Nat
    OBVIOUS
  <2> QED  BY <1>1, <2>1
<1>3. PICK d \in D : \A k \in D : d <= k
  BY <1>2, LeastExists
<1>4. PICK m \in T : d = n - m
  BY <1>1
<1>5. ASSUME NEW k \in T PROVE m >= k
  <2>1. n - m <= n - k
    BY <1>1, <1>3, <1>4
  <2> QED  BY <2>1
<1>6. \E x \in T : \A y \in T : x >= y
  BY <1>5
<1> QED  BY <1>6 DEF Max

\* The lesser and the greater of two.
LEMMA OfTwo ==
  ASSUME NEW a \in Int, NEW b \in Int
  PROVE  /\ Min({a, b}) = IF a <= b THEN a ELSE b
         /\ Max({a, b}) = IF a >= b THEN a ELSE b
<1>1. Min({a, b}) \in {a, b} /\ Min({a, b}) <= a /\ Min({a, b}) <= b
  <2>1. \E x \in {a, b} : \A y \in {a, b} : x <= y
    OBVIOUS
  <2> QED  BY <2>1 DEF Min
<1>2. Max({a, b}) \in {a, b} /\ Max({a, b}) >= a /\ Max({a, b}) >= b
  <2>1. \E x \in {a, b} : \A y \in {a, b} : x >= y
    OBVIOUS
  <2> QED  BY <2>1 DEF Max
<1> QED  BY <1>1, <1>2

\* A set of packet numbers is finite.
LEMMA NumbersFinite ==
  ASSUME NEW n \in Nat, NEW S, S \subseteq 0 .. n - 1
  PROVE  IsFiniteSet(S) /\ Cardinality(S) \in Nat
<1>1. IsFiniteSet(0 .. n - 1)
  BY FS_Interval
<1>2. IsFiniteSet(S)
  BY <1>1, FS_Subset
<1> QED  BY <1>2, FS_CardinalityType

\* What Some chooses is a part of the set.
LEMMA SomeIs ==
  ASSUME NEW S, IsFiniteSet(S), NEW n \in Int
  PROVE  /\ Some(S, n) \subseteq S
         /\ n > 0 /\ S # {} => Some(S, n) # {}
<1>1. CASE n <= 0
  BY <1>1 DEF Some
<1>2. CASE n > 0
  <2>1. Cardinality(S) \in Nat
    BY FS_CardinalityType
  <2>2. PICK k \in Nat : k = Min({n, Cardinality(S)}) /\ k <= Cardinality(S)
    BY <1>2, <2>1, OfTwo
  <2>3. PICK f \in Bijection(1 .. Cardinality(S), S) : TRUE
    BY FS_CardinalityType DEF ExistsBijection
  <2>4. PICK T : T = {f[j] : j \in 1 .. k}
    OBVIOUS
  <2>5. f \in [1 .. Cardinality(S) -> S] /\ IsInjective(f)
    BY <2>3, <2>1, Fun_BijectionProperties DEF IsInjective
  <2>6. T \subseteq S
    BY <2>1, <2>2, <2>4, <2>5
  <2>7. PICK g : g = [j \in 1 .. k |-> f[j]]
    OBVIOUS
  <2>8. g \in Bijection(1 .. k, T)
    <3>1. g \in [1 .. k -> T]
      BY <2>4, <2>7
    <3>2. \A a, b \in 1 .. k : g[a] = g[b] => a = b
      BY <2>1, <2>2, <2>5, <2>7 DEF IsInjective
    <3>3. \A t \in T : \E j \in 1 .. k : g[j] = t
      BY <2>4, <2>7
    <3> QED  BY <3>1, <3>2, <3>3, Fun_IsBij
  <2>9. Cardinality(T) = k
    BY <2>2, <2>8, FS_CountingElements DEF ExistsBijection
  <2>10. Some(S, n) \in SUBSET S /\ Cardinality(Some(S, n)) = k
    <3>1. \E U \in SUBSET S : Cardinality(U) = Min({n, Cardinality(S)})
      BY <2>2, <2>6, <2>9
    <3>2. PICK c : c = Min({n, Cardinality(S)})
      OBVIOUS
    <3>3. Some(S, n) = CHOOSE U \in SUBSET S : Cardinality(U) = c
      <4>1. ~(n <= 0)
        BY <1>2
      <4> QED  BY <3>2, <4>1, Zenon DEF Some
    <3> QED  BY <2>2, <3>1, <3>2, <3>3
  <2>11. S # {} => Some(S, n) # {}
    <3>1. S # {} => Cardinality(S) # 0
      BY FS_EmptySet
    <3>2. S # {} => k # 0
      BY <1>2, <2>1, <2>2, <3>1, OfTwo
    <3> QED  BY <2>10, <3>2, FS_EmptySet
  <2> QED  BY <2>10, <2>11
<1> QED  BY <1>1, <1>2

\* SetToSeq lists the elements of a finite set.
LEMMA SetToSeqIs ==
  ASSUME NEW S, IsFiniteSet(S)
  PROVE  /\ SetToSeq(S) \in Seq(S)
         /\ S # {} => Len(SetToSeq(S)) > 0
<1>1. Cardinality(S) \in Nat
  BY FS_CardinalityType
<1>2. PICK f \in Bijection(1 .. Cardinality(S), S) : TRUE
  BY FS_CardinalityType DEF ExistsBijection
<1>3. f \in [1 .. Cardinality(S) -> S] /\ IsInjective(f)
  <2>1. /\ f \in [1 .. Cardinality(S) -> S]
        /\ \A a, b \in 1 .. Cardinality(S) : f[a] = f[b] => a = b
    BY <1>2, Fun_BijectionProperties
  <2> QED  BY <2>1 DEF IsInjective
<1>4. SetToSeq(S) \in [1 .. Cardinality(S) -> S]
  BY <1>3 DEF SetToSeq
<1>5. SetToSeq(S) \in Seq(S) /\ Len(SetToSeq(S)) = Cardinality(S)
  BY <1>1, <1>4
<1> QED  BY <1>1, <1>5, FS_EmptySet

-----------------------------------------------------------------------------
(* How a sentmap ages *)

\* k is l after packets were acknowledged, lost, marked or retired, and
\* perhaps a larger one acknowledged
Follows(l, k) ==
  /\ DOMAIN k.sentmap \subseteq DOMAIN l.sentmap
  /\ \A pn \in DOMAIN k.sentmap :
       /\ k.sentmap[pn].item = l.sentmap[pn].item
       /\ k.sentmap[pn].epoch = l.sentmap[pn].epoch
       /\ k.sentmap[pn].frames_in_flight => l.sentmap[pn].frames_in_flight
       /\ l.sentmap[pn].cc # 0 /\ k.sentmap[pn].cc = 0
            => pn + 1 < k.largest_acked_plus1[l.sentmap[pn].epoch]
  /\ \A e \in Epochs :
       l.largest_acked_plus1[e] <= k.largest_acked_plus1[e]

\* k follows l, is in order and counts no more PTOs
Becomes(l, k, n) ==
  Ledger(k, n) /\ Follows(l, k) /\ k.pto_count <= l.pto_count

\* packets behind one that was acknowledged
Behind(l, pns) ==
  \A pn \in pns \cap DOMAIN l.sentmap :
    pn + 1 < l.largest_acked_plus1[l.sentmap[pn].epoch]

Events == {"acked", "expired", "lost", "pto"}

LEMMA FollowsSelf ==
  ASSUME NEW l, NEW n, Ledger(l, n)
  PROVE  Becomes(l, l, n)
BY DEF Ledger, Becomes, Follows, Losses, Counts

LEMMA FollowsThen ==
  ASSUME NEW l \in Losses, NEW k \in Losses, NEW j \in Losses,
         Follows(l, k), Follows(k, j)
  PROVE  Follows(l, j)
<1>1. \A e \in Epochs : /\ l.largest_acked_plus1[e] \in Nat
                        /\ k.largest_acked_plus1[e] \in Nat
                        /\ j.largest_acked_plus1[e] \in Nat
  BY DEF Losses
<1>2. \A e \in Epochs :
        l.largest_acked_plus1[e] <= j.largest_acked_plus1[e]
  BY <1>1 DEF Follows
<1>3. DOMAIN j.sentmap \subseteq DOMAIN k.sentmap
        /\ DOMAIN k.sentmap \subseteq DOMAIN l.sentmap
  BY DEF Follows
<1>4. ASSUME NEW pn \in DOMAIN j.sentmap
      PROVE  /\ j.sentmap[pn].item = l.sentmap[pn].item
             /\ j.sentmap[pn].epoch = l.sentmap[pn].epoch
             /\ j.sentmap[pn].frames_in_flight => l.sentmap[pn].frames_in_flight
             /\ l.sentmap[pn].cc # 0 /\ j.sentmap[pn].cc = 0
                  => pn + 1 < j.largest_acked_plus1[l.sentmap[pn].epoch]
  <2>1. pn \in DOMAIN k.sentmap /\ pn \in DOMAIN l.sentmap
    BY <1>3
  <2>2. /\ k.sentmap[pn].item = l.sentmap[pn].item
        /\ k.sentmap[pn].epoch = l.sentmap[pn].epoch
        /\ k.sentmap[pn].frames_in_flight => l.sentmap[pn].frames_in_flight
        /\ l.sentmap[pn].cc # 0 /\ k.sentmap[pn].cc = 0
             => pn + 1 < k.largest_acked_plus1[l.sentmap[pn].epoch]
    BY <2>1 DEF Follows
  <2>3. /\ j.sentmap[pn].item = k.sentmap[pn].item
        /\ j.sentmap[pn].epoch = k.sentmap[pn].epoch
        /\ j.sentmap[pn].frames_in_flight => k.sentmap[pn].frames_in_flight
        /\ k.sentmap[pn].cc # 0 /\ j.sentmap[pn].cc = 0
             => pn + 1 < j.largest_acked_plus1[k.sentmap[pn].epoch]
    BY DEF Follows
  <2>4. l.sentmap[pn].epoch \in Epochs /\ pn \in Nat
    <3>1. PICK D \in SUBSET Nat : l.sentmap \in [D -> Packets]
      BY DEF Losses, Sentmaps
    <3> QED  BY <2>1, <3>1 DEF Packets
  <2>5. PICK e \in Epochs : e = l.sentmap[pn].epoch
    BY <2>4
  <2>6. k.largest_acked_plus1[e] <= j.largest_acked_plus1[e]
    BY DEF Follows
  <2>7. pn + 1 < k.largest_acked_plus1[e] => pn + 1 < j.largest_acked_plus1[e]
    BY <1>1, <2>4, <2>6
  <2> QED  BY <2>2, <2>3, <2>5, <2>7
<1> QED  BY <1>2, <1>3, <1>4 DEF Follows

LEMMA BecomesThen ==
  ASSUME NEW l, NEW k, NEW j, NEW n \in Nat, Ledger(l, n),
         Becomes(l, k, n), Becomes(k, j, n)
  PROVE  Becomes(l, j, n)
<1>1. l \in Losses /\ k \in Losses /\ j \in Losses
  BY DEF Becomes, Ledger
<1>2. /\ l.pto_count \in Int /\ k.pto_count \in Int /\ j.pto_count \in Int
      /\ j.pto_count <= k.pto_count /\ k.pto_count <= l.pto_count
  BY <1>1 DEF Becomes, Losses, Counts
<1>3. Follows(l, j)
  BY <1>1, FollowsThen DEF Becomes
<1> QED  BY <1>2, <1>3 DEF Becomes

-----------------------------------------------------------------------------
(* quicly_sentmap_update *)

\* the sentmap m without the packets pns, and with them marked
Without(m, pns) == [pn \in DOMAIN m \ pns |-> m[pn]]
With(m, pns, event) ==
  [pn \in DOMAIN m |-> IF pn \notin pns THEN m[pn] ELSE Marked(m[pn], event)]

\* l with other packets and bytes
Booked(l, b, m) == [l EXCEPT !.bytes_in_flight = b, !.sentmap = m]

LEMMA UpdateFields ==
  ASSUME NEW l \in Losses, NEW pns, NEW event \in Events
  PROVE  Update(l, pns, event) =
           Booked(l, IF event = "pto" THEN l.bytes_in_flight
                     ELSE l.bytes_in_flight - Bytes(l.sentmap, pns),
                  IF event \in {"acked", "expired"} THEN Without(l.sentmap, pns)
                  ELSE With(l.sentmap, pns, event))
<1>1. Restrict(l.sentmap, DOMAIN l.sentmap \ pns) = Without(l.sentmap, pns)
  BY DEF Restrict, Without
<1> QED  BY <1>1, Zenon DEF Update, With, Booked

LEMMA BookedIs ==
  ASSUME NEW l \in Losses, NEW b \in Int, NEW m \in Sentmaps
  PROVE  /\ Booked(l, b, m) \in Losses
         /\ Booked(l, b, m).sentmap = m
         /\ Booked(l, b, m).bytes_in_flight = b
         /\ Booked(l, b, m).largest_acked_plus1 = l.largest_acked_plus1
         /\ Booked(l, b, m).pto_count = l.pto_count
<1> DEFINE j == [l EXCEPT !.bytes_in_flight = b, !.sentmap = m]
<1>1. j \in Losses
  BY DEF Losses
<1>2. j.sentmap = m /\ j.bytes_in_flight = b
  BY DEF Losses
<1>3. j.largest_acked_plus1 = l.largest_acked_plus1 /\ j.pto_count = l.pto_count
  BY DEF Losses
<1> QED  BY <1>1, <1>2, <1>3, Zenon DEF Booked

\* What quicly_sentmap_update leaves follows what was there, and its books
\* balance, as long as only packets behind an acknowledged one are lost.
LEMMA UpdateAges ==
  ASSUME NEW l, NEW n \in Nat, Ledger(l, n), NEW pns, NEW event \in Events,
         event = "lost" => Behind(l, pns)
  PROVE  Becomes(l, Update(l, pns, event), n)
<1> DEFINE m == l.sentmap
           m2 == IF event \in {"acked", "expired"} THEN Without(m, pns)
                 ELSE With(m, pns, event)
           b2 == IF event = "pto" THEN l.bytes_in_flight
                 ELSE l.bytes_in_flight - Bytes(m, pns)
<1>1. /\ l \in Losses /\ DOMAIN m \subseteq 0 .. n - 1
      /\ \A pn \in DOMAIN m : Honest(m[pn]) /\ m[pn].sent_at <= now
      /\ \A p, q \in DOMAIN m : p < q => m[p].sent_at <= m[q].sent_at
      /\ l.bytes_in_flight = Cardinality(InFlight(m))
  BY DEF Ledger
<1>2. PICK k : k = Update(l, pns, event)
  OBVIOUS
<1>3. k = Booked(l, b2, m2)
  BY <1>1, <1>2, UpdateFields
<1>4. \A pn \in DOMAIN m : m[pn] \in Packets
  BY <1>1 DEF Losses, Sentmaps
<1>5. \A pn \in DOMAIN m : /\ Marked(m[pn], event) \in Packets
                           /\ Marked(m[pn], event).sent_at = m[pn].sent_at
                           /\ Marked(m[pn], event).item = m[pn].item
                           /\ Marked(m[pn], event).epoch = m[pn].epoch
                           /\ ~Marked(m[pn], event).frames_in_flight
                           /\ Marked(m[pn], event).cc =
                                IF event = "pto" THEN m[pn].cc ELSE 0
  BY <1>4 DEF Marked, Packets
<1>6. DOMAIN m2 \subseteq DOMAIN m
  BY DEF Without, With
<1>7. \A pn \in DOMAIN m2 :
        \/ m2[pn] = m[pn] /\ (pn \notin pns)
        \/ /\ pn \in pns /\ event \in {"lost", "pto"}
           /\ m2[pn] = Marked(m[pn], event)
  BY DEF Without, With, Events
<1>8. m2 \in Sentmaps
  <2>1. \A pn \in DOMAIN m2 : m2[pn] \in Packets
    BY <1>4, <1>5, <1>6, <1>7
  <2>2. m2 = [pn \in DOMAIN m2 |-> m2[pn]]
    BY DEF Without, With
  <2>3. DOMAIN m2 \subseteq Nat
    BY <1>1, <1>6
  <2>4. m2 \in [DOMAIN m2 -> Packets]
    BY <2>1, <2>2
  <2> HIDE DEF m2
  <2> QED  BY <2>3, <2>4 DEF Sentmaps
<1>9. b2 \in Int /\ b2 = Cardinality(InFlight(m2))
  <2>1. PICK F : F = InFlight(m)
    OBVIOUS
  <2>2. IsFiniteSet(F) /\ Cardinality(F) \in Nat
    BY <1>1, <2>1, NumbersFinite DEF InFlight
  <2>3. CASE event = "pto"
    <3>1. InFlight(m2) = F
      BY <1>4, <1>5, <2>1, <2>3 DEF InFlight, With
    <3> QED  BY <1>1, <2>1, <2>2, <2>3, <3>1
  <2>4. CASE event # "pto"
    <3>1. InFlight(m2) = F \ pns
      BY <1>4, <1>5, <1>6, <1>7, <2>1, <2>4 DEF InFlight, With, Without
    <3>2. {pn \in pns \cap DOMAIN m : m[pn].cc # 0} = F \cap pns
      BY <2>1 DEF InFlight
    <3>3. Bytes(m, pns) = Cardinality(F \cap pns)
      BY <3>2 DEF Bytes
    <3>4. Cardinality(F \ pns) = Cardinality(F) - Cardinality(F \cap pns)
      BY <2>2, FS_Difference
    <3>5. F \cap pns \subseteq 0 .. n - 1
      BY <1>1, <2>1 DEF InFlight
    <3>6. Cardinality(F \cap pns) \in Nat
      BY <3>5, NumbersFinite
    <3> HIDE DEF m2
    <3> QED  BY <1>1, <2>1, <2>2, <2>4, <3>1, <3>3, <3>4, <3>6
  <2> QED  BY <2>3, <2>4
<1>10. /\ k.sentmap = m2 /\ k.bytes_in_flight = b2
       /\ k.largest_acked_plus1 = l.largest_acked_plus1
       /\ k.pto_count = l.pto_count
       /\ k \in Losses
  <2> HIDE DEF m2, b2
  <2> QED  BY <1>1, <1>3, <1>8, <1>9, BookedIs
<1>11. Ledger(k, n)
  <2> HIDE DEF m2, b2
  <2>1. \A pn \in DOMAIN m2 : /\ Honest(m2[pn]) /\ m2[pn].sent_at <= now
                              /\ m2[pn].sent_at = m[pn].sent_at
    BY <1>1, <1>5, <1>6, <1>7 DEF Honest
  <2>2. \A p, q \in DOMAIN m2 : p < q => m2[p].sent_at <= m2[q].sent_at
    BY <1>1, <1>6, <2>1
  <2> QED  BY <1>1, <1>6, <1>9, <1>10, <2>1, <2>2 DEF Ledger
<1>12. Follows(l, k)
  <2> HIDE DEF m2, b2
  <2>1. ASSUME NEW pn \in DOMAIN m2
        PROVE  /\ m2[pn].item = m[pn].item
               /\ m2[pn].epoch = m[pn].epoch
               /\ m2[pn].frames_in_flight => m[pn].frames_in_flight
               /\ m[pn].cc # 0 /\ m2[pn].cc = 0
                    => pn + 1 < l.largest_acked_plus1[m[pn].epoch]
    <3>1. pn \in DOMAIN m
      BY <1>6
    <3>2. CASE m2[pn] = m[pn]
      BY <3>2
    <3>3. CASE /\ pn \in pns /\ event \in {"lost", "pto"}
               /\ m2[pn] = Marked(m[pn], event)
      BY <1>5, <3>1, <3>3 DEF Behind
    <3> QED  BY <1>7, <3>2, <3>3
  <2>2. \A e \in Epochs :
          l.largest_acked_plus1[e] <= k.largest_acked_plus1[e]
    BY <1>1, <1>10 DEF Losses
  <2> QED  BY <1>6, <1>10, <2>1, <2>2 DEF Follows
<1> QED  BY <1>1, <1>2, <1>10, <1>11, <1>12 DEF Becomes, Losses, Counts

\* k differs from l in timers and estimates only
Tuned(l, k) ==
  /\ k \in Losses
  /\ k.sentmap = l.sentmap /\ k.bytes_in_flight = l.bytes_in_flight
  /\ k.largest_acked_plus1 = l.largest_acked_plus1

LEMMA TunedFollows ==
  ASSUME NEW l, NEW k, NEW n, Ledger(l, n), Tuned(l, k)
  PROVE  Ledger(k, n) /\ Follows(l, k)
<1>1. Ledger(k, n)
  BY DEF Ledger, Tuned
<1>2. \A e \in Epochs : l.largest_acked_plus1[e] <= l.largest_acked_plus1[e]
  BY DEF Ledger, Losses
<1> QED  BY <1>1, <1>2 DEF Follows, Tuned

-----------------------------------------------------------------------------
(* Loss detection *)

\* Old packets are retired; none of those still counted is.
LEMMA IterAges ==
  ASSUME NEW l, NEW n \in Nat, Ledger(l, n)
  PROVE  /\ Becomes(l, InitSentmapIter(l), n)
         /\ \A pn \in InFlight(l.sentmap) :
              /\ pn \in DOMAIN InitSentmapIter(l).sentmap
              /\ InitSentmapIter(l).sentmap[pn] = l.sentmap[pn]
<1>1. PICK T : InitSentmapIter(l) = Update(l, T, "expired")
                 /\ \A pn \in T : l.sentmap[pn].cc = 0
  <2> DEFINE old == {pn \in DOMAIN l.sentmap :
                       /\ l.sentmap[pn].sent_at <= now - ExpirationTime(l)
                       /\ l.sentmap[pn].cc = 0}
             surplus == Cardinality(DOMAIN l.sentmap) - KeepPackets + 1
             T == {pn \in old : Cardinality({p \in old : p < pn}) < surplus}
  <2>1. InitSentmapIter(l) = Update(l, T, "expired")
    BY Zenon DEF InitSentmapIter
  <2>2. \A pn \in T : l.sentmap[pn].cc = 0
    BY Zenon
  <2> HIDE DEF T
  <2> QED  BY <2>1, <2>2
<1>2. "expired" \in Events /\ "expired" # "lost"
  BY DEF Events
<1>3. Becomes(l, InitSentmapIter(l), n)
  BY <1>1, <1>2, UpdateAges
<1>4. InitSentmapIter(l).sentmap = Without(l.sentmap, T)
  <2>1. l \in Losses
    BY DEF Ledger
  <2>2. Update(l, T, "expired") =
          Booked(l, l.bytes_in_flight - Bytes(l.sentmap, T),
                 Without(l.sentmap, T))
    BY <1>2, <2>1, UpdateFields
  <2>3. Booked(l, l.bytes_in_flight - Bytes(l.sentmap, T),
               Without(l.sentmap, T)).sentmap = Without(l.sentmap, T)
    BY <2>1 DEF Booked, Losses
  <2> QED  BY <1>1, <2>2, <2>3
<1>5. ASSUME NEW pn \in InFlight(l.sentmap)
      PROVE  pn \in DOMAIN Without(l.sentmap, T)
               /\ Without(l.sentmap, T)[pn] = l.sentmap[pn]
  BY <1>1 DEF InFlight, Without
<1> QED  BY <1>3, <1>4, <1>5

LEMMA MarkLostAges ==
  ASSUME NEW l, NEW n \in Nat, Ledger(l, n)
  PROVE  Becomes(l, MarkLost(l), n)
<1>1. \A pn \in LostPackets(l, ~conn.handshaking) :
        pn \in DOMAIN l.sentmap /\ BelowLargest(l, pn)
  BY DEF LostPackets
<1>2. Behind(l, LostPackets(l, ~conn.handshaking))
  <2>1. ASSUME NEW pn \in DOMAIN l.sentmap, BelowLargest(l, pn)
        PROVE  pn + 1 < l.largest_acked_plus1[l.sentmap[pn].epoch]
    <3>1. l.sentmap[pn].epoch \in Epochs /\ pn \in Nat
      BY DEF Ledger, Losses, Sentmaps, Packets
    <3>2. PICK x \in Nat : x = l.largest_acked_plus1[l.sentmap[pn].epoch]
      BY <3>1 DEF Ledger, Losses
    <3> QED  BY <2>1, <3>1, <3>2 DEF BelowLargest
  <2> QED  BY <1>1, <2>1 DEF Behind
<1>3. "lost" \in Events
  BY DEF Events
<1> QED  BY <1>2, <1>3, UpdateAges DEF MarkLost

LEMMA RewoundAges ==
  ASSUME NEW l, NEW n \in Nat, Ledger(l, n)
  PROVE  Becomes(l, Rewound(l), n)
BY IterAges, FollowsSelf DEF Rewound

LEMMA LossDelayIs ==
  ASSUME NEW l \in Losses
  PROVE  LossDelay(l) \in Int
<1>1. PICK r \in Nat : r = l.rtt
  BY DEF Losses
<1>2. PICK t \in Nat : t = l.time_based_percentile
  BY DEF Losses, Percentiles
<1>3. PICK x \in Int : x = (r * (1024 + t) + 1023) \div 1024
  OBVIOUS
<1>4. LossDelay(l) = Max({1, x})
  BY <1>1, <1>2, <1>3 DEF LossDelay
<1>5. 1 \in Int /\ Max({1, x}) = IF 1 >= x THEN 1 ELSE x
  BY OfTwo
<1> QED  BY <1>4, <1>5

\* loss_time is a time.
LEMMA LossTimeIs ==
  ASSUME NEW l, NEW n \in Nat, Ledger(l, n)
  PROVE  LossTime(l) \in Int
<1>1. LossDelay(l) \in Int
  BY LossDelayIs DEF Ledger
<1>2. \A pn \in DOMAIN l.sentmap : Deadline(l, pn) \in Int
  BY <1>1 DEF Deadline, Ledger, Losses, Sentmaps, Packets
<1> DEFINE waiting == {pn \in DOMAIN l.sentmap :
                         /\ l.sentmap[pn].cc # 0
                         /\ \A p \in DOMAIN l.sentmap :
                              p <= pn => BelowLargest(l, p)}
<1>3. waiting \subseteq DOMAIN l.sentmap /\ waiting \subseteq Nat
  BY DEF Ledger
<1>4. waiting # {} => Min(waiting) \in DOMAIN l.sentmap
  <2> HIDE DEF waiting
  <2> QED  BY <1>3, MinIs
<1>5. LossTime(l) = IF waiting = {} THEN Never ELSE Deadline(l, Min(waiting))
  BY Zenon DEF LossTime
<1> HIDE DEF waiting
<1> QED  BY <1>2, <1>4, <1>5, TimeAssumption

LEMMA ScheduledIs ==
  ASSUME NEW l \in Losses, NEW t \in Int
  PROVE  Tuned(l, Scheduled(l, t)) /\ Scheduled(l, t).pto_count = l.pto_count
<1>1. Scheduled(l, t) \in Losses
  <2>1. PICK b \in BOOLEAN : b = (l.sane /\ now < t)
    BY DEF Losses
  <2>2. Scheduled(l, t) = [l EXCEPT !.loss_time = t, !.sane = b]
    BY <2>1, Zenon DEF Scheduled
  <2>3. [l EXCEPT !.loss_time = t, !.sane = b] \in Losses
    BY DEF Losses
  <2> QED  BY <2>2, <2>3, Zenon
<1>2. /\ Scheduled(l, t).sentmap = l.sentmap
      /\ Scheduled(l, t).bytes_in_flight = l.bytes_in_flight
      /\ Scheduled(l, t).largest_acked_plus1 = l.largest_acked_plus1
      /\ Scheduled(l, t).pto_count = l.pto_count
  BY DEF Scheduled, Losses
<1> QED  BY <1>1, <1>2 DEF Tuned

LEMMA DetectLossAges ==
  ASSUME NEW l, NEW n \in Nat, Ledger(l, n)
  PROVE  Becomes(l, DetectLoss(l), n)
<1>1. PICK a : a = InitSentmapIter(l)
  OBVIOUS
<1>2. PICK b : b = MarkLost(a)
  OBVIOUS
<1>3. PICK c : c = Rewound(b)
  OBVIOUS
<1>4. PICK d : d = WithLossTime(c)
  OBVIOUS
<1>5. DetectLoss(l) = d
  BY <1>1, <1>2, <1>3, <1>4, Zenon DEF DetectLoss
<1>6. Becomes(l, a, n) /\ Ledger(a, n)
  BY <1>1, IterAges DEF Becomes
<1>7. Becomes(a, b, n) /\ Ledger(b, n)
  BY <1>2, <1>6, MarkLostAges DEF Becomes
<1>8. Becomes(b, c, n) /\ Ledger(c, n)
  BY <1>3, <1>7, RewoundAges DEF Becomes
<1>9. Becomes(c, d, n)
  <2>1. c \in Losses /\ LossTime(c) \in Int
    BY <1>8, LossTimeIs DEF Ledger
  <2>2. Tuned(c, d) /\ d.pto_count = c.pto_count
    BY <1>4, <2>1, ScheduledIs DEF WithLossTime
  <2>3. c.pto_count \in Int
    BY <2>1 DEF Losses, Counts
  <2> QED  BY <1>8, <2>2, <2>3, TunedFollows DEF Becomes
<1>10. Becomes(l, b, n)
  BY <1>6, <1>7, BecomesThen
<1>11. Becomes(l, c, n)
  BY <1>8, <1>10, BecomesThen
<1> QED  BY <1>5, <1>9, <1>11, BecomesThen

-----------------------------------------------------------------------------
(* The alarm *)

\* update_send_alarm changes timers only, and leaves them armed.
LEMMA SetAlarmIs ==
  ASSUME NEW l \in Losses, NEW t \in Int, NEW b \in BOOLEAN, now \in Int
  PROVE  /\ Tuned(l, SetAlarm(l, t, b))
         /\ SetAlarm(l, t, b).pto_count = l.pto_count
         /\ SetAlarm(l, t, b).alarm_at \in {now, t}
<1>1. CASE b
  <2>1. PICK s \in BOOLEAN : s = (l.sane /\ now < t)
    BY DEF Losses
  <2>2. SetAlarm(l, t, b) = [l EXCEPT !.alarm_at = t, !.sane = s]
    BY <1>1, <2>1, Zenon DEF SetAlarm
  <2>3. [l EXCEPT !.alarm_at = t, !.sane = s] \in Losses
    BY DEF Losses
  <2>4. [l EXCEPT !.alarm_at = t, !.sane = s].alarm_at = t
    BY DEF Losses
  <2>5. /\ [l EXCEPT !.alarm_at = t, !.sane = s].sentmap = l.sentmap
        /\ [l EXCEPT !.alarm_at = t, !.sane = s].bytes_in_flight =
             l.bytes_in_flight
        /\ [l EXCEPT !.alarm_at = t, !.sane = s].largest_acked_plus1 =
             l.largest_acked_plus1
        /\ [l EXCEPT !.alarm_at = t, !.sane = s].pto_count = l.pto_count
    BY DEF Losses
  <2> QED  BY <2>2, <2>3, <2>4, <2>5, Zenon DEF Tuned
<1>2. CASE ~b
  <2>1. PICK x \in Int : x = Max({now, t}) /\ x \in {now, t}
    BY OfTwo
  <2>2. SetAlarm(l, t, b) = [l EXCEPT !.alarm_at = x]
    BY <1>2, <2>1, Zenon DEF SetAlarm
  <2>3. [l EXCEPT !.alarm_at = x] \in Losses
    BY DEF Losses
  <2>4. [l EXCEPT !.alarm_at = x].alarm_at = x
    BY DEF Losses
  <2>5. /\ [l EXCEPT !.alarm_at = x].sentmap = l.sentmap
        /\ [l EXCEPT !.alarm_at = x].bytes_in_flight = l.bytes_in_flight
        /\ [l EXCEPT !.alarm_at = x].largest_acked_plus1 = l.largest_acked_plus1
        /\ [l EXCEPT !.alarm_at = x].pto_count = l.pto_count
    BY DEF Losses
  <2> QED  BY <2>1, <2>2, <2>3, <2>4, <2>5, Zenon DEF Tuned
<1> QED  BY <1>1, <1>2

LEMMA WithTailIs ==
  ASSUME NEW l \in Losses, NEW c, NEW i \in Queues
  PROVE  /\ Tuned(l, WithTail(l, c, i))
         /\ WithTail(l, c, i).pto_count <= l.pto_count
         /\ WithTail(l, c, i).pto = l.pto
<1>1. l.pto_count \in Int /\ NumSpeculativePtos \in Nat
  BY LossAssumption DEF Losses, Counts
<1>2. PICK s \in Nat : s = Cardinality(i.sent)
  <2>1. i.sent \subseteq AppItems
    BY DEF Queues
  <2> QED  BY <2>1, ItemAssumption, FS_Subset, FS_CardinalityType
<1>3. PICK p \in Counts : /\ p = IF l.pto_count = 0 THEN - NumSpeculativePtos
                                 ELSE l.pto_count
                          /\ p <= l.pto_count
  BY <1>1 DEF Losses, Counts
<1> DEFINE k == [l EXCEPT !.pto_count = p, !.total_bytes_sent = s]
<1>4. WithTail(l, c, i) \in {l, k}
  BY <1>2, <1>3, Zenon DEF WithTail
<1>5. Tuned(l, l) /\ l.pto_count <= l.pto_count
  BY <1>1 DEF Tuned
<1>6. k \in Losses
  BY DEF Losses
<1>7. k.pto_count = p /\ k.pto = l.pto
  BY DEF Losses
<1>8. /\ k.sentmap = l.sentmap /\ k.bytes_in_flight = l.bytes_in_flight
      /\ k.largest_acked_plus1 = l.largest_acked_plus1
  BY DEF Losses
<1>9. Tuned(l, k)
  BY <1>6, <1>8, Zenon DEF Tuned
<1> HIDE DEF k
<1> QED  BY <1>3, <1>4, <1>5, <1>7, <1>9

\* A PTO takes time, and ends before Never.
LEMMA PtoTakesTime ==
  ASSUME NEW l \in Losses, l.pto_count <= MaxPn, NEW c
  PROVE  PtoDuration(l, c) \in 1 .. Never - MaxTime - 1
<1>1. PICK r \in Rtts : l.pto = r.pto
  BY DEF Losses, Ptos
<1>2. PICK x \in - NumSpeculativePtos .. MaxPn : x = l.pto_count
  BY NeverAssumption, LossAssumption DEF Losses, Counts
<1>3. PICK y \in {0, MaxAckDelay} : y = IF c.handshaking THEN 0 ELSE MaxAckDelay
  OBVIOUS
<1>4. PtoDuration(l, c) = BackedOff(r.pto, y, x)
  BY <1>1, <1>2, <1>3 DEF PtoDuration
<1>5. BackedOff(r.pto, y, x) \in 1 .. Never - MaxTime - 1
  BY NeverAssumption, Zenon
<1> QED  BY <1>4, <1>5

LEMMA FirstPto ==
  ASSUME NEW r \in Rtts
  PROVE  BackedOff(r.pto, 0, 0) \in 1 .. Never - MaxTime - 1
<1>1. 0 \in {0, MaxAckDelay} /\ 0 \in - NumSpeculativePtos .. MaxPn
  BY NeverAssumption, LossAssumption
<1> QED  BY <1>1, NeverAssumption, Zenon

LEMMA UpdateSendAlarmIs ==
  ASSUME NEW l \in Losses, NEW c \in Conns, NEW i \in Queues,
         NEW b \in BOOLEAN, now \in 0 .. MaxTime, l.pto_count <= MaxPn
  PROVE  LET k == UpdateSendAlarm(l, c, i, b)
         IN  /\ Tuned(l, k)
             /\ k.pto_count <= l.pto_count
             /\ IF k.bytes_in_flight # 0 \/ c.send_probe THEN k.alarm_at # Never
                ELSE k.loss_time = Never
<1> DEFINE k == UpdateSendAlarm(l, c, i, b)
<1>1. /\ l.pto_count \in Int /\ l.loss_time \in Int /\ now \in Int
      /\ Never \in Int /\ MaxTime \in Int /\ now # Never
  BY TimeAssumption DEF Losses, Counts
<1>2. CASE l.bytes_in_flight = 0 /\ ~c.send_probe
  <2> DEFINE j == [l EXCEPT !.alarm_at = Never, !.loss_time = Never]
  <2>1. k = j
    BY <1>2, Zenon DEF UpdateSendAlarm
  <2>2. j \in Losses
    BY <1>1 DEF Losses
  <2>3. j.loss_time = Never
    BY DEF Losses
  <2>4. /\ j.sentmap = l.sentmap /\ j.bytes_in_flight = l.bytes_in_flight
        /\ j.largest_acked_plus1 = l.largest_acked_plus1
        /\ j.pto_count = l.pto_count
    BY DEF Losses
  <2>5. Tuned(l, j)
    BY <2>2, <2>4, Zenon DEF Tuned
  <2> HIDE DEF j
  <2> QED  BY <1>1, <1>2, <2>1, <2>3, <2>4, <2>5
<1>3. CASE /\ ~(l.bytes_in_flight = 0 /\ ~c.send_probe)
           /\ l.loss_time # Never
           /\ ~InRecovery(l, c) \/ l.bytes_in_flight < c.cwnd + 1
  <2>1. k = SetAlarm(l, l.loss_time, b)
    BY <1>3, Zenon DEF UpdateSendAlarm
  <2>2. /\ Tuned(l, k) /\ k.pto_count = l.pto_count
        /\ k.alarm_at \in {now, l.loss_time}
    BY <1>1, <2>1, SetAlarmIs
  <2> HIDE DEF k
  <2>3. k.alarm_at # Never /\ k.bytes_in_flight = l.bytes_in_flight
    BY <1>1, <1>3, <2>2 DEF Tuned
  <2> QED  BY <1>1, <1>3, <2>2, <2>3 DEF k
<1>4. CASE /\ ~(l.bytes_in_flight = 0 /\ ~c.send_probe)
           /\ ~(/\ l.loss_time # Never
                /\ ~InRecovery(l, c) \/ l.bytes_in_flight < c.cwnd + 1)
  <2>1. PICK j : j = WithTail(l, c, i)
    OBVIOUS
  <2>2. Tuned(l, j) /\ j.pto_count <= l.pto_count /\ j.pto = l.pto
    BY <2>1, WithTailIs
  <2>3. j \in Losses
    BY <2>2 DEF Tuned
  <2>4. PICK d \in 1 .. Never - MaxTime - 1 : d = PtoDuration(j, c)
    <3>1. j.pto_count <= MaxPn
      BY <1>1, <2>2, <2>3, NeverAssumption DEF Losses, Counts
    <3> QED  BY <2>3, <3>1, PtoTakesTime
  <2>5. PICK s \in 0 .. MaxTime : s = c.last_sent
    BY DEF Conns
  <2>6. PICK t \in Int : t = s + d /\ t # Never
    BY <1>1
  <2>7. k = SetAlarm(j, t, b)
    <3>1. k = PtoAlarm(j, c, b)
      BY <1>4, <2>1, Zenon DEF UpdateSendAlarm
    <3> QED  BY <2>4, <2>5, <2>6, <3>1 DEF PtoAlarm
  <2> HIDE DEF k
  <2>8. Tuned(j, k) /\ k.pto_count = j.pto_count /\ k.alarm_at \in {now, t}
    BY <1>1, <2>3, <2>7, SetAlarmIs
  <2>9. Tuned(l, k)
    BY <2>2, <2>8 DEF Tuned
  <2>10. k.alarm_at # Never /\ k.bytes_in_flight = l.bytes_in_flight
    BY <1>1, <2>6, <2>8, <2>9 DEF Tuned
  <2> QED  BY <1>4, <2>2, <2>8, <2>9, <2>10 DEF k
<1> HIDE DEF k
<1> QED  BY <1>2, <1>3, <1>4 DEF k

-----------------------------------------------------------------------------
(* What a fired alarm does *)

LEMMA TunedThen ==
  ASSUME NEW l, NEW j, NEW k, Tuned(l, j), Follows(j, k)
  PROVE  Follows(l, k)
BY DEF Tuned, Follows

LEMMA MarkEpochAges ==
  ASSUME NEW l, NEW n \in Nat, Ledger(l, n), NEW e, NEW b
  PROVE  Becomes(l, MarkEpoch(l, e, b), n)
<1>1. "pto" \in Events /\ "pto" # "lost"
  BY DEF Events
<1> QED  BY <1>1, UpdateAges DEF MarkEpoch

LEMMA MarkAppAges ==
  ASSUME NEW l, NEW n \in Nat, Ledger(l, n), NEW b
  PROVE  Becomes(l, MarkApp(l, b), n)
BY MarkEpochAges, FollowsSelf DEF MarkApp

LEMMA MarkBothAges ==
  ASSUME NEW l, NEW n \in Nat, Ledger(l, n), NEW b
  PROVE  Becomes(l, MarkBoth(l, b), n)
<1>1. CASE conn.handshaking
  <2>1. PICK j : j = MarkEpoch(l, "handshake", b)
    OBVIOUS
  <2>2. PICK d : d = b - MarkedIn(l, "handshake", b)
    OBVIOUS
  <2>3. MarkBoth(l, b) = MarkApp(j, d)
    BY <1>1, <2>1, <2>2, Zenon DEF MarkBoth
  <2>4. Becomes(l, j, n) /\ Ledger(j, n)
    BY <2>1, MarkEpochAges DEF Becomes
  <2>5. Becomes(j, MarkApp(j, d), n)
    BY <2>4, MarkAppAges
  <2> QED  BY <2>3, <2>4, <2>5, BecomesThen
<1>2. CASE ~conn.handshaking
  BY <1>2, MarkAppAges DEF MarkBoth
<1> QED  BY <1>1, <1>2

LEMMA MarkOnPtoAges ==
  ASSUME NEW alarm, NEW n \in Nat, Ledger(alarm.l, n)
  PROVE  Becomes(alarm.l, MarkOnPto(alarm), n)
<1>1. CASE alarm.restrict
  <2>1. PICK l : l = alarm.l
    OBVIOUS
  <2>2. PICK j : j = InitSentmapIter(l)
    OBVIOUS
  <2>3. PICK k : k = MarkBoth(j, alarm.min)
    OBVIOUS
  <2>4. MarkOnPto(alarm) = k
    BY <1>1, <2>1, <2>2, <2>3, Zenon DEF MarkOnPto
  <2>5. Ledger(l, n)
    BY <2>1
  <2>6. Becomes(l, j, n) /\ Ledger(j, n)
    BY <2>2, <2>5, IterAges DEF Becomes
  <2>7. Becomes(j, k, n)
    BY <2>3, <2>6, MarkBothAges
  <2>8. Becomes(l, k, n)
    BY <2>5, <2>6, <2>7, BecomesThen
  <2> QED  BY <2>1, <2>4, <2>8
<1>2. CASE ~alarm.restrict
  BY <1>2, FollowsSelf DEF MarkOnPto
<1> QED  BY <1>1, <1>2

\* quicly_loss_on_alarm ages the sentmap; a PTO is counted, and wants a packet.
LEMMA AlarmAges ==
  ASSUME NEW n \in Nat, Ledger(loss, n), loss.pto_count <= n,
         NEW alarm, alarm = OnAlarm, NEW l, l = MarkOnPto(alarm)
  PROVE  /\ Ledger(l, n) /\ Follows(loss, l)
         /\ \/ /\ alarm.restrict = FALSE /\ alarm.min \in 0 .. 2
               /\ l.pto_count <= n
            \/ /\ alarm.restrict = TRUE /\ alarm.min \in 1 .. 2
               /\ l.pto_count <= n + 1
<1>1. loss \in Losses /\ loss.pto_count \in Int /\ Never \in Int
  BY TimeAssumption DEF Ledger, Losses, Counts
<1> DEFINE off == [loss EXCEPT !.alarm_at = Never]
           pto == [loss EXCEPT !.alarm_at = Never, !.pto_count = @ + 1]
<1>2. Tuned(loss, off) /\ off.pto_count = loss.pto_count
  <2>1. off \in Losses
    BY <1>1 DEF Losses
  <2>2. /\ off.sentmap = loss.sentmap /\ off.pto_count = loss.pto_count
        /\ off.bytes_in_flight = loss.bytes_in_flight
        /\ off.largest_acked_plus1 = loss.largest_acked_plus1
    BY <1>1 DEF Losses
  <2> QED  BY <2>1, <2>2, Zenon DEF Tuned
<1>3. Tuned(loss, pto) /\ pto.pto_count = loss.pto_count + 1
  <2>1. loss.pto_count + 1 \in Counts
    BY <1>1, LossAssumption DEF Losses, Counts
  <2>2. pto \in Losses
    BY <1>1, <2>1 DEF Losses
  <2>3. pto.pto_count = loss.pto_count + 1
    BY <1>1 DEF Losses
  <2>4. /\ pto.sentmap = loss.sentmap
        /\ pto.bytes_in_flight = loss.bytes_in_flight
        /\ pto.largest_acked_plus1 = loss.largest_acked_plus1
    BY <1>1 DEF Losses
  <2> QED  BY <2>2, <2>3, <2>4, Zenon DEF Tuned
<1>4. \/ alarm = [l |-> loss, min |-> 0, restrict |-> FALSE]
      \/ alarm = [l |-> DetectLoss(off), min |-> 1, restrict |-> FALSE]
      \/ alarm = [l |-> pto, min |-> IF loss.pto_count + 1 > 0 THEN 2 ELSE 1,
                  restrict |-> TRUE]
  BY Zenon DEF OnAlarm
<1> HIDE DEF off, pto
<1>5. PICK j : j = alarm.l
  OBVIOUS
<1>6. /\ Ledger(j, n) /\ Follows(loss, j)
      /\ \/ alarm.restrict = FALSE /\ alarm.min \in 0 .. 2 /\ j.pto_count <= n
         \/ alarm.restrict = TRUE /\ alarm.min \in 1 .. 2 /\ j.pto_count <= n + 1
  <2>1. CASE alarm = [l |-> loss, min |-> 0, restrict |-> FALSE]
    <3>1. j = loss /\ alarm.restrict = FALSE /\ alarm.min \in 0 .. 2
      BY <1>5, <2>1
    <3>2. Follows(loss, loss)
      BY FollowsSelf DEF Becomes
    <3> QED  BY <3>1, <3>2, Zenon
  <2>2. CASE alarm = [l |-> DetectLoss(off), min |-> 1, restrict |-> FALSE]
    <3>1. /\ j = DetectLoss(off) /\ alarm.restrict = FALSE
          /\ alarm.min \in 0 .. 2
      BY <1>5, <2>2
    <3>2. Ledger(off, n)
      BY <1>2, TunedFollows
    <3>3. Becomes(off, j, n)
      BY <3>1, <3>2, DetectLossAges
    <3>4. Ledger(j, n) /\ Follows(off, j) /\ j.pto_count <= loss.pto_count
      BY <1>2, <3>3 DEF Becomes
    <3>5. Follows(loss, j)
      BY <1>2, <3>4, TunedThen
    <3>6. j.pto_count \in Int
      BY <3>4 DEF Ledger, Losses, Counts
    <3>7. j.pto_count <= n
      BY <1>1, <3>4, <3>6
    <3> QED  BY <3>1, <3>4, <3>5, <3>7, Zenon
  <2>3. CASE alarm = [l |-> pto,
                      min |-> IF loss.pto_count + 1 > 0 THEN 2 ELSE 1,
                      restrict |-> TRUE]
    <3>1. j = pto /\ alarm.restrict = TRUE /\ alarm.min \in 1 .. 2
      BY <1>5, <2>3
    <3>2. Ledger(pto, n) /\ Follows(loss, pto)
      BY <1>3, TunedFollows
    <3>3. pto.pto_count <= n + 1
      BY <1>1, <1>3
    <3> QED  BY <3>1, <3>2, <3>3, Zenon
  <2> QED  BY <1>4, <2>1, <2>2, <2>3
<1>7. Becomes(j, l, n)
  BY <1>5, <1>6, MarkOnPtoAges
<1>8. Ledger(l, n) /\ Follows(j, l) /\ l.pto_count <= j.pto_count
  BY <1>7 DEF Becomes
<1>9. Follows(loss, l)
  <2>1. loss \in Losses /\ j \in Losses /\ l \in Losses
    BY <1>1, <1>6, <1>8 DEF Ledger
  <2> QED  BY <1>6, <1>8, <2>1, FollowsThen
<1>10. l.pto_count \in Int /\ j.pto_count \in Int
  BY <1>6, <1>8 DEF Ledger, Losses, Counts
<1>11. /\ j.pto_count <= n => l.pto_count <= n
       /\ j.pto_count <= n + 1 => l.pto_count <= n + 1
  BY <1>8, <1>10
<1> QED  BY <1>6, <1>8, <1>9, <1>11, Zenon

-----------------------------------------------------------------------------
(* What is sent *)

\* a packet that is being sent; an item it carries is one of S, and counted
Fresh(p, S) ==
  /\ p \in Packets /\ p.sent_at = now /\ Honest(p)
  /\ p.cc # 0 => p.eliciting
  /\ p.item \in Items => p.item \in S /\ p.frames_in_flight /\ p.cc # 0

Flight(f, S) ==
  f \in Seq(Packets) /\ \A k \in 1 .. Len(f) : Fresh(f[k], S)

\* the flight asks for an ACK
Elicits(f) == \E k \in DOMAIN f : f[k].eliciting

LEMMA PacketFresh ==
  ASSUME NEW epoch \in Epochs, NEW item \in Items \union {NoItem, Skipped},
         NEW eliciting \in BOOLEAN, NEW S, now \in Nat,
         item \in Items => eliciting /\ item \in S,
         item \in AppItems => epoch = "1rtt"
  PROVE  Fresh(Packet(epoch, item, eliciting), S)
<1> DEFINE p == Packet(epoch, item, eliciting)
<1>1. p \in Packets
  BY DEF Packet, Packets
<1>2. p.sent_at = now /\ p.item = item /\ p.epoch = epoch
  BY DEF Packet
<1>3. /\ p.frames_in_flight /\ p.eliciting = eliciting
      /\ p.cc # 0 <=> eliciting
  BY DEF Packet
<1> HIDE DEF p
<1>4. Honest(p)
  BY <1>2, <1>3 DEF Honest
<1>5. Fresh(p, S)
  BY <1>1, <1>2, <1>3, <1>4 DEF Fresh
<1> QED  BY <1>5 DEF p

LEMMA EmptyFlight ==
  ASSUME NEW S
  PROVE  Flight(<<>>, S)
BY DEF Flight

LEMMA SingleFlight ==
  ASSUME NEW p, NEW S, Fresh(p, S)
  PROVE  Flight(<<p>>, S) /\ (p.eliciting => Elicits(<<p>>))
<1>1. p \in Packets
  BY DEF Fresh
<1>2. <<p>> \in Seq(Packets) /\ Len(<<p>>) = 1
  BY <1>1
<1>3. \A k \in 1 .. 1 : <<p>>[k] = p
  OBVIOUS
<1>4. p.eliciting => Elicits(<<p>>)
  BY <1>3 DEF Elicits
<1> QED  BY <1>2, <1>3, <1>4 DEF Flight

LEMMA JoinedFlight ==
  ASSUME NEW f, NEW g, NEW S, Flight(f, S), Flight(g, S)
  PROVE  Flight(f \o g, S) /\ (Elicits(f) \/ Elicits(g) => Elicits(f \o g))
<1>1. f \in Seq(Packets) /\ g \in Seq(Packets)
  BY DEF Flight
<1>2. PICK h : h = f \o g
  OBVIOUS
<1>3. /\ h \in Seq(Packets) /\ Len(h) = Len(f) + Len(g)
      /\ \A i \in 1 .. Len(f) + Len(g) :
           h[i] = IF i <= Len(f) THEN f[i] ELSE g[i - Len(f)]
  BY <1>1, <1>2, ConcatProperties
<1>4. ASSUME NEW k \in 1 .. Len(h) PROVE Fresh(h[k], S)
  <2>1. Len(f) \in Nat /\ Len(g) \in Nat
    BY <1>1
  <2>2. CASE k <= Len(f)
    <3>1. k \in 1 .. Len(f) /\ h[k] = f[k]
      BY <1>3, <2>1, <2>2
    <3> QED  BY <3>1 DEF Flight
  <2>3. CASE k > Len(f)
    <3>1. k - Len(f) \in 1 .. Len(g) /\ h[k] = g[k - Len(f)]
      BY <1>3, <2>1, <2>3
    <3> QED  BY <3>1 DEF Flight
  <2> QED  BY <2>1, <2>2, <2>3
<1>5. Flight(h, S)
  BY <1>3, <1>4 DEF Flight
<1>6. /\ Len(f) \in Nat /\ Len(g) \in Nat /\ DOMAIN h = 1 .. Len(f) + Len(g)
      /\ DOMAIN f = 1 .. Len(f) /\ DOMAIN g = 1 .. Len(g)
  BY <1>1, <1>3
<1>7. ASSUME Elicits(f) PROVE Elicits(h)
  <2>1. PICK k \in 1 .. Len(f) : f[k].eliciting
    BY <1>6, <1>7 DEF Elicits
  <2>2. k \in DOMAIN h /\ h[k] = f[k]
    BY <1>3, <1>6
  <2> QED  BY <2>1, <2>2 DEF Elicits
<1>8. ASSUME Elicits(g) PROVE Elicits(h)
  <2>1. PICK k \in 1 .. Len(g) : g[k].eliciting
    BY <1>6, <1>8 DEF Elicits
  <2>2. k + Len(f) \in DOMAIN h /\ h[k + Len(f)] = g[k]
    BY <1>3, <1>6
  <2> QED  BY <2>1, <2>2 DEF Elicits
<1> QED  BY ONLY <1>2, <1>5, <1>7, <1>8, Zenon

LEMMA ItemFlight ==
  ASSUME NEW T, IsFiniteSet(T), NEW S, T \subseteq S, T \subseteq Items,
         NEW epoch \in Epochs, now \in Nat,
         \A item \in T : item \in AppItems => epoch = "1rtt"
  PROVE  /\ Flight(PacketsOf(SetToSeq(T), epoch), S)
         /\ T # {} => Elicits(PacketsOf(SetToSeq(T), epoch))
<1>1. PICK o \in Seq(T) : o = SetToSeq(T) /\ (T # {} => Len(o) > 0)
  BY SetToSeqIs
<1>2. PICK f : f = PacketsOf(o, epoch)
  OBVIOUS
<1>3. f = [k \in 1 .. Len(o) |-> Packet(epoch, o[k], TRUE)]
  BY <1>2 DEF PacketsOf
<1>4. ASSUME NEW k \in 1 .. Len(o)
      PROVE  Fresh(Packet(epoch, o[k], TRUE), S)
  <2>1. PICK i \in T : i = o[k]
    OBVIOUS
  <2>2. i \in Items \union {NoItem, Skipped} /\ i \in S /\ i \in Items
    OBVIOUS
  <2>3. Fresh(Packet(epoch, i, TRUE), S)
    BY <2>2, PacketFresh
  <2> QED  BY <2>1, <2>3
<1>5. \A k \in 1 .. Len(o) : Packet(epoch, o[k], TRUE) \in Packets
  BY <1>4 DEF Fresh
<1>6. f \in Seq(Packets) /\ Len(f) = Len(o)
  <2>1. Len(o) \in Nat
    OBVIOUS
  <2>2. f \in [1 .. Len(o) -> Packets]
    BY <1>3, <1>5
  <2> QED  BY <2>1, <2>2
<1>7. Flight(f, S)
  BY <1>3, <1>4, <1>6 DEF Flight
<1>8. ASSUME T # {} PROVE Elicits(f)
  <2>1. 1 \in 1 .. Len(o) /\ DOMAIN f = 1 .. Len(o)
    BY <1>1, <1>3, <1>8
  <2>2. f[1].eliciting
    BY <1>3, <2>1 DEF Packet
  <2> QED  BY <2>1, <2>2 DEF Elicits
<1> QED  BY <1>1, <1>2, <1>7, <1>8

LEMMA HandshakeFlightIs ==
  ASSUME NEW T, NEW S, T \subseteq S, T \subseteq CryptoItems,
         NEW probe \in BOOLEAN, NEW window \in Int, now \in Nat
  PROVE  /\ Flight(HandshakeFlight(T, probe, window), S)
         /\ probe /\ conn.handshaking /\ window > 0
              => Elicits(HandshakeFlight(T, probe, window))
<1>1. T \subseteq Items /\ T \cap AppItems = {} /\ IsFiniteSet(T)
  BY LossAssumption, ItemAssumption, FS_Subset DEF Items
<1>2. "handshake" \in Epochs
  BY DEF Epochs
<1>3. CASE T # {}
  BY <1>1, <1>2, <1>3, ItemFlight DEF HandshakeFlight
<1>4. CASE T = {} /\ probe /\ conn.handshaking /\ window > 0
  <2>1. PICK p : p = Packet("handshake", NoItem, TRUE)
    OBVIOUS
  <2>2. NoItem \notin AppItems /\ NoItem \notin Items
    BY ItemAssumption DEF Items
  <2>3. Fresh(p, S)
    BY <1>2, <2>1, <2>2, PacketFresh
  <2>4. HandshakeFlight(T, probe, window) = <<p>>
    BY <1>4, <2>1 DEF HandshakeFlight
  <2>5. Flight(<<p>>, S) /\ Elicits(<<p>>)
    <3>1. p.eliciting
      BY <2>1 DEF Packet
    <3> QED  BY <2>3, <3>1, SingleFlight
  <2> QED  BY ONLY <2>4, <2>5, Zenon
<1>5. CASE T = {} /\ ~(probe /\ conn.handshaking /\ window > 0)
  BY <1>5, EmptyFlight DEF HandshakeFlight
<1> QED  BY <1>3, <1>4, <1>5

LEMMA AppFlightIs ==
  ASSUME NEW T, NEW S, T \subseteq S, T \subseteq AppItems,
         NEW probe \in BOOLEAN, NEW window \in Int, NEW ack \in BOOLEAN,
         now \in Nat
  PROVE  /\ Flight(AppFlight(T, probe, window, ack), S)
         /\ probe /\ window > 0 => Elicits(AppFlight(T, probe, window, ack))
<1>1. T \subseteq Items /\ IsFiniteSet(T)
  BY ItemAssumption, FS_Subset DEF Items
<1>2. "1rtt" \in Epochs
  BY DEF Epochs
<1>3. CASE T # {}
  BY <1>1, <1>2, <1>3, ItemFlight DEF AppFlight
<1>4. ASSUME NEW e \in BOOLEAN, NEW p, p = Packet("1rtt", NoItem, e),
             AppFlight(T, probe, window, ack) = <<p>>
      PROVE  /\ Flight(AppFlight(T, probe, window, ack), S)
             /\ e => Elicits(AppFlight(T, probe, window, ack))
  <2>1. NoItem \notin AppItems /\ NoItem \notin Items
    BY ItemAssumption DEF Items
  <2>2. Fresh(p, S)
    BY <1>2, <1>4, <2>1, PacketFresh
  <2>3. Flight(<<p>>, S) /\ (e => Elicits(<<p>>))
    <3>1. p.eliciting = e
      BY <1>4 DEF Packet
    <3> QED  BY <2>2, <3>1, SingleFlight
  <2> QED  BY ONLY <1>4, <2>3, Zenon
<1>5. CASE T = {} /\ probe /\ window > 0
  <2>1. AppFlight(T, probe, window, ack) = <<Packet("1rtt", NoItem, TRUE)>>
    BY <1>5 DEF AppFlight
  <2> QED  BY <1>4, <2>1
<1>6. CASE T = {} /\ ~(probe /\ window > 0) /\ ack
  <2>1. AppFlight(T, probe, window, ack) = <<Packet("1rtt", NoItem, FALSE)>>
    BY <1>6 DEF AppFlight
  <2> QED  BY <1>4, <1>6, <2>1
<1>7. CASE T = {} /\ ~(probe /\ window > 0) /\ ~ack
  BY <1>7, EmptyFlight DEF AppFlight
<1> QED  BY <1>3, <1>5, <1>6, <1>7

LEMMA GapFlight ==
  ASSUME NEW a, NEW skip \in BOOLEAN, NEW S, now \in Nat
  PROVE  Flight(Gap(a, skip), S)
<1>1. PICK p : p = Packet("1rtt", Skipped, FALSE)
  OBVIOUS
<1>2. "1rtt" \in Epochs /\ Skipped \notin AppItems /\ Skipped \notin Items
  BY ItemAssumption DEF Epochs, Items
<1>3. Fresh(p, S)
  BY <1>1, <1>2, PacketFresh
<1>4. Flight(<<p>>, S)
  BY <1>3, SingleFlight
<1>5. Gap(a, skip) = <<p>> \/ Gap(a, skip) = <<>>
  BY <1>1, Zenon DEF Gap
<1> QED  BY ONLY <1>4, <1>5, EmptyFlight, Zenon

\* the flight f is in the sentmap of k, behind what was in that of l
Carries(l, k, n, f) ==
  /\ k.pto_count = l.pto_count
  /\ k.largest_acked_plus1 = l.largest_acked_plus1
  /\ \A pn \in DOMAIN l.sentmap :
       pn \in DOMAIN k.sentmap /\ k.sentmap[pn] = l.sentmap[pn]
  /\ \A j \in 1 .. Len(f) :
       n + j - 1 \in DOMAIN k.sentmap /\ k.sentmap[n + j - 1] = f[j]
  /\ \A pn \in DOMAIN k.sentmap :
       \/ pn \in DOMAIN l.sentmap
       \/ pn >= n /\ \E j \in 1 .. Len(f) : k.sentmap[pn] = f[j]

\* commit_send_packet keeps the books balanced.
LEMMA CommittedIs ==
  ASSUME NEW l, NEW n \in Nat, Ledger(l, n), n = conn.packet_number,
         NEW f, NEW S, Flight(f, S), now \in Nat
  PROVE  /\ Ledger(Committed(l, f), n + Len(f))
         /\ Carries(l, Committed(l, f), n, f)
<1> DEFINE m == l.sentmap
           D == DOMAIN m
           N == n .. n + Len(f) - 1
           m2 == [pn \in D \union N |-> IF pn \in D THEN m[pn] ELSE f[pn - n + 1]]
           E == {k \in DOMAIN f : f[k].cc # 0}
           b2 == l.bytes_in_flight + Cardinality(E)
<1>1. /\ l \in Losses /\ D \subseteq 0 .. n - 1
      /\ \A pn \in D : Honest(m[pn]) /\ m[pn].sent_at <= now
      /\ \A p, q \in D : p < q => m[p].sent_at <= m[q].sent_at
      /\ l.bytes_in_flight = Cardinality(InFlight(m))
  BY DEF Ledger
<1>2. /\ f \in Seq(Packets) /\ Len(f) \in Nat /\ DOMAIN f = 1 .. Len(f)
      /\ \A k \in 1 .. Len(f) : Fresh(f[k], S)
  BY DEF Flight
<1>3. \A pn \in D : m[pn] \in Packets
  BY <1>1 DEF Losses, Sentmaps
<1>4. \A pn \in N : pn - n + 1 \in 1 .. Len(f)
  BY <1>2
<1>5. D \cap N = {}
  BY <1>1, <1>2
<1>6. \A pn \in D : m2[pn] = m[pn]
  OBVIOUS
<1>7. \A pn \in N : m2[pn] = f[pn - n + 1]
  BY <1>5
<1>8. m2 \in Sentmaps
  <2>1. D \union N \in SUBSET Nat
    BY <1>1, <1>2
  <2>2. \A pn \in D \union N : m2[pn] \in Packets
    BY <1>2, <1>3, <1>4, <1>6, <1>7
  <2>3. m2 \in [D \union N -> Packets]
    BY <2>2
  <2> HIDE DEF m2, D, N
  <2> QED  BY <2>1, <2>3 DEF Sentmaps
<1>9. IsFiniteSet(E) /\ Cardinality(E) \in Nat
  <2>1. IsFiniteSet(1 .. Len(f))
    BY <1>2, FS_Interval
  <2>2. E \subseteq 1 .. Len(f)
    BY <1>2
  <2> HIDE DEF E
  <2> QED  BY <2>1, <2>2, FS_Subset, FS_CardinalityType
<1>10. b2 \in Int /\ b2 = Cardinality(InFlight(m2))
  <2>1. PICK F : F = InFlight(m)
    OBVIOUS
  <2>2. IsFiniteSet(F) /\ Cardinality(F) \in Nat /\ F \subseteq D
    <3>1. F \subseteq 0 .. n - 1 /\ F \subseteq D
      BY <1>1, <2>1 DEF InFlight
    <3> QED  BY <3>1, NumbersFinite
  <2>3. PICK G : G = {pn \in N : pn - n + 1 \in E}
    OBVIOUS
  <2>4. InFlight(m2) = F \union G
    <3>1. \A pn \in N : m2[pn].cc # 0 <=> pn - n + 1 \in E
      BY <1>2, <1>4, <1>7
    <3>2. \A pn \in D : m2[pn].cc # 0 <=> pn \in F
      BY <1>6, <2>1 DEF InFlight
    <3>3. DOMAIN m2 = D \union N
      OBVIOUS
    <3>4. InFlight(m2) = {pn \in D \union N : m2[pn].cc # 0}
      BY <3>3 DEF InFlight
    <3> HIDE DEF m2, D, N, E
    <3> QED  BY <2>2, <2>3, <3>1, <3>2, <3>4
  <2>5. F \cap G = {}
    BY <1>5, <2>2, <2>3
  <2>6. IsFiniteSet(G) /\ Cardinality(G) = Cardinality(E)
    <3>1. PICK g : g = [k \in E |-> n + k - 1]
      OBVIOUS
    <3>2. \A k \in E : k \in Nat /\ n + k - 1 \in N /\ (n + k - 1) - n + 1 = k
      BY <1>2
    <3>3. g \in [E -> G]
      BY <2>3, <3>1, <3>2
    <3>4. \A a, b \in E : g[a] = g[b] => a = b
      BY <3>1, <3>2
    <3>5. \A t \in G : \E k \in E : g[k] = t
      <4>1. ASSUME NEW t \in G PROVE \E k \in E : g[k] = t
        <5>1. t \in N /\ t \in Int /\ t - n + 1 \in E
          BY <1>2, <2>3
        <5>2. n + (t - n + 1) - 1 = t
          BY <5>1
        <5> QED  BY <3>1, <5>1, <5>2
      <4> QED  BY <4>1
    <3>6. g \in Bijection(E, G)
      BY <3>3, <3>4, <3>5, Fun_IsBij
    <3> HIDE DEF E
    <3> QED  BY <1>9, <3>6, FS_Bijection DEF ExistsBijection
  <2>7. Cardinality(F \union G) = Cardinality(F) + Cardinality(G)
    <3>1. Cardinality(F \cap G) = 0
      BY <2>5, FS_EmptySet
    <3>2. Cardinality(F \union G) =
            Cardinality(F) + Cardinality(G) - Cardinality(F \cap G)
      BY <2>2, <2>6, FS_Union
    <3> HIDE DEF E
    <3> QED  BY <1>9, <2>2, <2>6, <3>1, <3>2
  <2> HIDE DEF m2, E
  <2> QED  BY <1>1, <1>9, <2>1, <2>2, <2>4, <2>6, <2>7
<1>11. PICK k : k = Committed(l, f)
  OBVIOUS
<1>12. k = Booked(l, b2, m2)
  <2>1. Numbers(Len(f)) = N
    BY DEF Numbers
  <2> HIDE DEF N
  <2> QED  BY <1>11, <2>1 DEF Committed, Booked
<1>13. /\ k \in Losses /\ k.sentmap = m2 /\ k.bytes_in_flight = b2
       /\ k.largest_acked_plus1 = l.largest_acked_plus1
       /\ k.pto_count = l.pto_count
  <2> HIDE DEF m2, b2
  <2> QED  BY <1>1, <1>8, <1>10, <1>12, BookedIs
<1>14. DOMAIN m2 = D \union N
  OBVIOUS
<1>15. Ledger(k, n + Len(f))
  <2>1. D \union N \subseteq 0 .. (n + Len(f)) - 1
    BY <1>1, <1>2
  <2>2. \A pn \in N : m2[pn].sent_at = now /\ Honest(m2[pn])
    <3> HIDE DEF m2, N
    <3> QED  BY <1>2, <1>4, <1>7 DEF Fresh
  <2>3. \A pn \in D \union N : Honest(m2[pn]) /\ m2[pn].sent_at <= now
    <3>1. now <= now
      OBVIOUS
    <3> HIDE DEF m2, N
    <3> QED  BY <1>1, <1>6, <2>2, <3>1
  <2>4. \A p, q \in D \union N : p < q => m2[p].sent_at <= m2[q].sent_at
    <3>1. ASSUME NEW p \in D \union N, NEW q \in D \union N, p < q
          PROVE  m2[p].sent_at <= m2[q].sent_at
      <4>1. CASE q \in N
        BY <2>2, <2>3, <4>1
      <4>2. CASE q \in D
        <5>1. p \in D
          BY <1>1, <1>2, <3>1, <4>2
        <5> QED  BY <1>1, <1>6, <3>1, <4>2, <5>1
      <4> QED  BY <4>1, <4>2
    <3> QED  BY <3>1
  <2> HIDE DEF m2, b2, N, D
  <2> QED  BY <1>10, <1>13, <1>14, <2>1, <2>3, <2>4 DEF Ledger
<1>16. Carries(l, k, n, f)
  <2>1. \A j \in 1 .. Len(f) : n + j - 1 \in N /\ (n + j - 1) - n + 1 = j
    BY <1>2
  <2>2. \A j \in 1 .. Len(f) : n + j - 1 \in DOMAIN m2 /\ m2[n + j - 1] = f[j]
    BY <1>7, <1>14, <2>1
  <2>3. \A pn \in DOMAIN m2 :
          pn \in D \/ (pn >= n /\ \E j \in 1 .. Len(f) : m2[pn] = f[j])
    BY <1>4, <1>7, <1>14
  <2>4. \A pn \in D : pn \in DOMAIN m2 /\ m2[pn] = m[pn]
    BY <1>6, <1>14
  <2> HIDE DEF m2
  <2> QED  BY <1>13, <2>2, <2>3, <2>4 DEF Carries
<1> QED  BY <1>11, <1>15, <1>16

-----------------------------------------------------------------------------
(* Items *)

\* item is in a packet whose loss will be noticed
Live(m, item) ==
  \E pn \in DOMAIN m :
    m[pn].item = item /\ m[pn].frames_in_flight /\ m[pn].cc # 0

\* the items that must not be forgotten
Wanted(c, i) ==
  (IF c.handshaking THEN Items ELSE AppItems) \ (i.idle \union i.delivered)

\* What was live still is, or has been put back.
LEMMA LiveOrRequeued ==
  ASSUME NEW l, NEW k, NEW n, Ledger(k, n), Follows(l, k),
         NEW item \in Items, Live(l.sentmap, item)
  PROVE  Live(k.sentmap, item) \/ item \in Requeued(l.sentmap, k.sentmap)
<1>1. PICK pn \in DOMAIN l.sentmap :
        l.sentmap[pn].item = item /\ l.sentmap[pn].frames_in_flight
  BY DEF Live
<1>2. CASE pn \in DOMAIN k.sentmap /\ k.sentmap[pn].frames_in_flight
  <2>1. k.sentmap[pn].item = item
    BY <1>1, <1>2 DEF Follows
  <2>2. k.sentmap[pn].cc # 0
    BY <1>2, <2>1 DEF Ledger, Honest
  <2> QED  BY <1>2, <2>1, <2>2 DEF Live
<1>3. CASE ~(pn \in DOMAIN k.sentmap /\ k.sentmap[pn].frames_in_flight)
  BY <1>1, <1>3 DEF Requeued
<1> QED  BY <1>2, <1>3

LEMMA RequeuedWere ==
  ASSUME NEW before, NEW after, NEW item \in Requeued(before, after)
  PROVE  item \in Items /\ \E pn \in DOMAIN before : before[pn].item = item
BY DEF Requeued

LEMMA ConnIs ==
  ASSUME NEW c \in Conns, NEW lost, NEW next \in Nat, NEW cwnd \in Nat
  PROVE  /\ OnLost(c, lost, next, cwnd) \in Conns
         /\ OnLost(c, lost, next, cwnd).packet_number = c.packet_number
         /\ OnLost(c, lost, next, cwnd).handshaking = c.handshaking
<1>1. CASE lost = {}
  BY <1>1 DEF OnLost
<1>2. CASE lost # {}
  <2>1. PICK r \in Nat :
          r = IF Max(lost) >= c.recovery_end THEN next ELSE c.recovery_end
    BY DEF Conns
  <2> DEFINE d == [c EXCEPT !.cwnd = cwnd, !.recovery_end = r]
  <2>2. OnLost(c, lost, next, cwnd) = d
    BY <1>2, <2>1, Zenon DEF OnLost
  <2>3. d \in Conns
    BY DEF Conns
  <2>4. d.packet_number = c.packet_number /\ d.handshaking = c.handshaking
    BY DEF Conns
  <2> QED  BY <2>2, <2>3, <2>4, Zenon
<1> QED  BY <1>1, <1>2

-----------------------------------------------------------------------------
(* do_send *)

\* a packet is given up in this step only behind an acknowledged one
LostStep ==
  \A pn \in DOMAIN loss.sentmap \cap DOMAIN loss'.sentmap :
    loss.sentmap[pn].cc # 0 /\ loss'.sentmap[pn].cc = 0
      => pn + 1 < loss'.largest_acked_plus1[loss.sentmap[pn].epoch]

LEMMA WindowIs ==
  ASSUME NEW l \in Losses, NEW cwnd \in Nat, NEW paced \in BOOLEAN, NEW alarm,
         \/ alarm.restrict = FALSE /\ alarm.min \in 0 .. 2
         \/ alarm.restrict = TRUE /\ alarm.min \in 1 .. 2
  PROVE  /\ SendWindow(l, cwnd, alarm, paced) \in Int
         /\ alarm.min # 0 => SendWindow(l, cwnd, alarm, paced) > 0
<1>1. PICK m \in 0 .. 2 : m = alarm.min /\ (alarm.restrict => m > 0)
  OBVIOUS
<1>2. CASE alarm.restrict = TRUE
  BY <1>1, <1>2 DEF SendWindow
<1>3. CASE alarm.restrict = FALSE
  <2>1. PICK x \in Int : x = cwnd - l.bytes_in_flight
    BY DEF Losses
  <2>2. PICK y \in Int : y = Max({0, x})
    <3>1. 0 \in Int /\ Max({0, x}) = IF 0 >= x THEN 0 ELSE x
      BY OfTwo
    <3> QED  BY <3>1
  <2>3. PICK room \in Int : room = IF paced THEN 0 ELSE y
    OBVIOUS
  <2>4. Max({room, m}) \in Int /\ Max({room, m}) >= m
    <3>1. m \in Int /\ Max({room, m}) = IF room >= m THEN room ELSE m
      BY OfTwo
    <3> QED  BY <3>1
  <2>5. SendWindow(l, cwnd, alarm, paced) = Max({room, m})
    BY <1>1, <1>3, <2>1, <2>2, <2>3 DEF SendWindow
  <2> QED  BY <1>1, <1>3, <2>4, <2>5
<1> QED  BY <1>2, <1>3

LEMMA LeftIs ==
  ASSUME NEW window \in Int, NEW h \in Seq(Packets), NEW coalesce \in BOOLEAN
  PROVE  /\ Left(window, h, coalesce) \in Int
         /\ ~coalesce /\ Len(h) = 0 => Left(window, h, coalesce) = window
<1>1. Len(h) \in Nat
  OBVIOUS
<1>2. PICK x \in Int : x = window - Len(h)
  BY ONLY <1>1, window \in Int
<1>3. Len(h) = 0 => x = window
  BY ONLY <1>1, <1>2, window \in Int
<1>4. Max({x, 1}) \in Int
  <2>1. PICK one \in Int : one = 1
    OBVIOUS
  <2>2. Max({x, one}) = IF x >= one THEN x ELSE one
    BY ONLY x \in Int, one \in Int, OfTwo
  <2>3. Max({x, one}) \in Int
    BY ONLY <2>2, x \in Int, one \in Int
  <2> QED  BY ONLY <2>1, <2>3
<1> QED  BY <1>2, <1>3, <1>4 DEF Left

\* h, a and f are what do_send puts together: Handshake packets, 1-RTT packets
\* and the flight
Composed(pending, window, probe, ack, skip, coalesce, h, a, f) ==
  /\ coalesce => conn.handshaking
  /\ h = HandshakeFlight(Some(IF conn.handshaking THEN pending \cap CryptoItems
                              ELSE {}, window), probe, window)
  /\ a = AppFlight(Some(pending \cap AppItems, Left(window, h, coalesce)),
                   probe, Left(window, h, coalesce), ack)
  /\ f = h \o a \o Gap(a, skip)

\* The flight that do_send puts together consists of what waits; on a PTO
\* there is one.
LEMMA FlightIs ==
  ASSUME NEW pending, pending \subseteq Items, NEW window \in Int,
         NEW probe \in BOOLEAN, NEW ack \in BOOLEAN, NEW skip \in BOOLEAN,
         NEW coalesce \in BOOLEAN, now \in Nat, conn \in Conns,
         NEW h, NEW a, NEW f,
         Composed(pending, window, probe, ack, skip, coalesce, h, a, f)
  PROVE  /\ Flight(f, pending)
         /\ probe /\ window > 0 => Elicits(f)
<1>1. PICK H : H = IF conn.handshaking THEN pending \cap CryptoItems ELSE {}
  OBVIOUS
<1>2. H \subseteq CryptoItems /\ H \subseteq pending
  BY <1>1
<1>3. PICK T : T = Some(H, window)
  OBVIOUS
<1>4. T \subseteq H
  <2>1. IsFiniteSet(H)
    BY <1>2, ItemAssumption, FS_Subset
  <2> QED  BY <1>3, <2>1, SomeIs
<1>5. h = HandshakeFlight(T, probe, window)
  BY <1>1, <1>3, Zenon DEF Composed
<1>6. /\ Flight(h, pending)
      /\ probe /\ conn.handshaking /\ window > 0 => Elicits(h)
      /\ ~conn.handshaking => Len(h) = 0
  <2>1. T \subseteq pending /\ T \subseteq CryptoItems
    BY <1>2, <1>4
  <2>2. ASSUME ~conn.handshaking PROVE Len(h) = 0
    <3>1. T = {}
      BY <1>1, <1>4, <2>2
    <3>2. h = <<>>
      BY <1>5, <2>2, <3>1, Zenon DEF HandshakeFlight
    <3> QED  BY <3>2
  <2> QED  BY <1>5, <2>1, <2>2, HandshakeFlightIs
<1>7. PICK w : w = Left(window, h, coalesce)
  OBVIOUS
<1>8. h \in Seq(Packets)
  BY <1>6 DEF Flight
<1>9. w \in Int /\ (~coalesce /\ Len(h) = 0 => w = window)
  BY <1>7, <1>8, LeftIs
<1>10. PICK U : U = Some(pending \cap AppItems, w)
  OBVIOUS
<1>11. U \subseteq pending /\ U \subseteq AppItems
  <2>1. IsFiniteSet(pending \cap AppItems)
    BY ItemAssumption, FS_Subset
  <2> QED  BY <1>9, <1>10, <2>1, SomeIs
<1>12. a = AppFlight(U, probe, w, ack)
  BY <1>7, <1>10, Zenon DEF Composed
<1>13. Flight(a, pending) /\ (probe /\ w > 0 => Elicits(a))
  BY <1>9, <1>11, <1>12, AppFlightIs
<1>14. PICK g : g = Gap(a, skip)
  OBVIOUS
<1>15. Flight(g, pending)
  BY <1>14, GapFlight
<1>16. PICK e : e = h \o a
  OBVIOUS
<1>17. Flight(e, pending) /\ (Elicits(h) \/ Elicits(a) => Elicits(e))
  BY <1>6, <1>13, <1>16, JoinedFlight
<1>18. f = e \o g
  BY <1>14, <1>16, Zenon DEF Composed
<1>19. Flight(f, pending) /\ (Elicits(e) => Elicits(f))
  BY <1>15, <1>17, <1>18, JoinedFlight
<1>20. conn.handshaking \in BOOLEAN /\ (coalesce => conn.handshaking)
  BY DEF Conns, Composed
<1>21. probe /\ window > 0 => Elicits(h) \/ Elicits(a)
  BY ONLY <1>6, <1>9, <1>13, <1>20
<1> QED  BY ONLY <1>17, <1>19, <1>21

LEMMA InvFacts ==
  ASSUME Inv
  PROVE  /\ now \in 0 .. MaxTime /\ now \in Nat /\ conn \in Conns
         /\ items \in Queues /\ Ledger(loss, conn.packet_number)
         /\ conn.packet_number \in Nat /\ loss.pto_count <= conn.packet_number
         /\ Apart /\ MaxPn \in Nat /\ MaxTime \in Nat
         /\ \A item \in Wanted(conn, items) :
              item \in items.pending \/ Live(loss.sentmap, item)
<1>1. /\ now \in 0 .. MaxTime /\ conn \in Conns /\ items \in Queues
      /\ Ledger(loss, conn.packet_number) /\ Apart
      /\ loss.pto_count <= conn.packet_number /\ NoDataForgotten
  BY DEF Inv
<1>2. MaxPn \in Nat /\ MaxTime \in Nat
  BY NeverAssumption, TimeAssumption
<1>3. now \in Nat /\ conn.packet_number \in Nat
  BY <1>1, <1>2 DEF Conns
<1>4. \A item \in Wanted(conn, items) :
        item \in items.pending \/ Live(loss.sentmap, item)
  BY <1>1 DEF NoDataForgotten, Wanted, Live
<1> QED  BY <1>1, <1>2, <1>3, <1>4

\* The invariant of the next state, put together.
LEMMA InvNextState ==
  ASSUME now' \in 0 .. MaxTime, now' = now, conn' \in Conns, items' \in Queues,
         Ledger(loss', conn'.packet_number),
         loss'.pto_count <= conn'.packet_number,
         items'.pending \cap items'.delivered = {},
         items'.idle \cap (items'.pending \union items'.delivered) = {},
         \A pn \in DOMAIN loss'.sentmap :
           loss'.sentmap[pn].item \notin items'.idle,
         IF loss'.bytes_in_flight # 0 \/ conn'.send_probe
         THEN loss'.alarm_at # Never ELSE loss'.loss_time = Never,
         \A item \in Wanted(conn', items') :
           item \in items'.pending \/ Live(loss'.sentmap, item)
  PROVE  Inv'
<1>1. Apart'
  BY DEF Apart
<1>2. TimersArmed'
  BY DEF TimersArmed
<1>3. NoDataForgotten'
  BY DEF NoDataForgotten, Wanted, Live
<1>4. Ledger(loss, conn.packet_number)'
  BY DEF Ledger
<1> QED  BY <1>1, <1>2, <1>3, <1>4 DEF Inv

\* items of a sentmap that follows another are items of that
LEMMA ItemsFollow ==
  ASSUME NEW l, NEW k, Follows(l, k), NEW S,
         \A pn \in DOMAIN l.sentmap : l.sentmap[pn].item \notin S
  PROVE  \A pn \in DOMAIN k.sentmap : k.sentmap[pn].item \notin S
BY DEF Follows

LEMMA DepartKeeps ==
  ASSUME Inv, NEW l, NEW c \in Conns, NEW pending, NEW f, NEW ack, NEW skip,
         Ledger(l, conn.packet_number), Follows(loss, l),
         c.packet_number = conn.packet_number,
         c.handshaking = conn.handshaking,
         pending = StillPending(l), Flight(f, pending),
         l.pto_count <= conn.packet_number + Len(f),
         Depart(l, c, pending, f, ack, skip)
  PROVE  Inv' /\ LostStep
<1>1. PICK n \in Nat : n = conn.packet_number
  BY InvFacts
<1>2. /\ now \in 0 .. MaxTime /\ now \in Nat /\ conn \in Conns
      /\ items \in Queues /\ Ledger(loss, n) /\ Apart /\ MaxPn \in Nat
      /\ \A item \in Wanted(conn, items) :
           item \in items.pending \/ Live(loss.sentmap, item)
  BY <1>1, InvFacts
<1>3. Len(f) \in Nat /\ DOMAIN f = 1 .. Len(f)
  BY DEF Flight
<1>4. PICK sent : sent = {f[k].item : k \in DOMAIN f} \cap Items
  OBVIOUS
<1>5. /\ n + Len(f) <= MaxPn
      /\ conn' = Advanced(c, f)
      /\ items' = Taken(pending, sent)
      /\ loss' = UpdateSendAlarm(Committed(l, f), conn', items', TRUE)
      /\ now' = now
  BY <1>1, <1>4 DEF Depart
<1>6. /\ conn' \in Conns /\ conn'.packet_number = n + Len(f)
      /\ conn'.handshaking = conn.handshaking
  <2>1. PICK t \in 0 .. MaxTime :
          t = IF \E k \in DOMAIN f : f[k].eliciting THEN now ELSE c.last_sent
    BY <1>2 DEF Conns
  <2>2. PICK p \in 0 .. MaxPn : p = c.packet_number + Len(f)
    BY <1>1, <1>2, <1>3, <1>5
  <2> DEFINE d == [c EXCEPT !.packet_number = p, !.last_sent = t]
  <2>3. conn' = d
    BY <1>5, <2>1, <2>2, Zenon DEF Advanced
  <2>4. d \in Conns
    BY DEF Conns
  <2>5. d.packet_number = p /\ d.handshaking = c.handshaking
    BY DEF Conns
  <2> HIDE DEF d
  <2> QED  BY <1>1, <2>2, <2>3, <2>4, <2>5
<1>7. /\ pending \subseteq Items
      /\ pending \cap items.delivered = {} /\ pending \cap items.idle = {}
      /\ items.pending \subseteq pending
      /\ Requeued(loss.sentmap, l.sentmap) \ items.delivered \subseteq pending
  <2>1. \A x \in Requeued(loss.sentmap, l.sentmap) :
          x \in Items /\ x \notin items.idle
    BY <1>2, RequeuedWere DEF Apart
  <2> QED  BY <1>2, <2>1 DEF StillPending, Apart, Queues
<1>8. /\ items' \in Queues
      /\ items'.pending = pending \ sent
      /\ items'.idle = items.idle /\ items'.delivered = items.delivered
  <2> DEFINE s == items.sent \union (sent \cap (AppItems \ items.withdrawn))
             p == pending \ sent
             i == [items EXCEPT !.pending = p, !.sent = s]
  <2>1. items' = i
    BY <1>5, Zenon DEF Taken
  <2>2. s \in SUBSET AppItems /\ p \in SUBSET Items
    BY <1>2, <1>7 DEF Queues
  <2> HIDE DEF s, p
  <2>3. i \in Queues
    BY <1>2, <2>2 DEF Queues
  <2>4. i.pending = p /\ i.idle = items.idle /\ i.delivered = items.delivered
    BY <1>2 DEF Queues
  <2> HIDE DEF i
  <2> QED  BY <2>1, <2>3, <2>4 DEF p
<1>9. PICK k : k = Committed(l, f)
  OBVIOUS
<1>10. Ledger(k, n + Len(f)) /\ Carries(l, k, n, f)
  BY <1>1, <1>2, <1>9, CommittedIs
<1>11. /\ Tuned(k, loss') /\ loss'.pto_count <= k.pto_count
       /\ IF loss'.bytes_in_flight # 0 \/ conn'.send_probe
          THEN loss'.alarm_at # Never ELSE loss'.loss_time = Never
  <2>1. k \in Losses /\ k.pto_count <= MaxPn
    <3>1. k \in Losses /\ k.pto_count = l.pto_count
      BY <1>10 DEF Ledger, Carries
    <3>2. k.pto_count \in Int
      BY <3>1 DEF Losses, Counts
    <3> QED  BY <1>1, <1>2, <1>3, <1>5, <3>1, <3>2
  <2>2. PICK c2 \in Conns : c2 = conn'
    BY <1>6
  <2>3. PICK i2 \in Queues : i2 = items'
    BY <1>8
  <2>4. PICK k2 : k2 = UpdateSendAlarm(k, c2, i2, TRUE)
    OBVIOUS
  <2>5. /\ Tuned(k, k2) /\ k2.pto_count <= k.pto_count
        /\ IF k2.bytes_in_flight # 0 \/ c2.send_probe
           THEN k2.alarm_at # Never ELSE k2.loss_time = Never
    BY <1>2, <2>1, <2>4, UpdateSendAlarmIs
  <2>6. loss' = k2
    BY <1>5, <1>9, <2>2, <2>3, <2>4
  <2> QED  BY <2>2, <2>5, <2>6
<1>12. Ledger(loss', n + Len(f)) /\ loss'.sentmap = k.sentmap
         /\ loss'.largest_acked_plus1 = l.largest_acked_plus1
  BY <1>10, <1>11, TunedFollows DEF Tuned, Carries
<1>13. loss'.pto_count <= conn'.packet_number
  <2>1. k.pto_count = l.pto_count
    BY <1>10 DEF Carries
  <2>2. l.pto_count \in Int /\ loss'.pto_count \in Int
    BY <1>12 DEF Ledger, Losses, Counts
  <2> QED  BY <1>1, <1>3, <1>6, <1>11, <2>1, <2>2
<1>14. \A pn \in DOMAIN k.sentmap : k.sentmap[pn].item \notin items.idle
  <2>1. \A pn \in DOMAIN l.sentmap : l.sentmap[pn].item \notin items.idle
    BY <1>2, ItemsFollow DEF Apart
  <2>2. \A j \in 1 .. Len(f) : f[j].item \notin items.idle
    BY <1>2, <1>7 DEF Flight, Fresh, Queues, Items
  <2> QED  BY <1>10, <2>1, <2>2 DEF Carries
<1>15. ASSUME NEW item \in Wanted(conn', items')
       PROVE  item \in items'.pending \/ Live(k.sentmap, item)
  <2>1. item \in Wanted(conn, items) /\ item \in Items
          /\ item \notin items.delivered
    BY <1>6, <1>8 DEF Wanted, Items
  <2>2. item \in pending \/ Live(l.sentmap, item)
    <3>1. CASE Live(loss.sentmap, item)
      BY <1>7, <2>1, <3>1, LiveOrRequeued
    <3> QED  BY <1>2, <1>7, <2>1, <3>1
  <2>3. CASE Live(l.sentmap, item)
    BY <1>10, <2>3 DEF Carries, Live
  <2>4. CASE item \in sent
    <3>1. PICK j \in 1 .. Len(f) : f[j].item = item
      BY <1>3, <1>4, <2>4
    <3>2. f[j].frames_in_flight /\ f[j].cc # 0
      BY <2>1, <3>1 DEF Flight, Fresh
    <3>3. n + j - 1 \in DOMAIN k.sentmap /\ k.sentmap[n + j - 1] = f[j]
      BY <1>10 DEF Carries
    <3> QED  BY <3>1, <3>2, <3>3 DEF Live
  <2> QED  BY <1>8, <2>2, <2>3, <2>4
<1>16. LostStep
  <2>1. ASSUME NEW pn \in DOMAIN loss.sentmap, pn \in DOMAIN k.sentmap,
               loss.sentmap[pn].cc # 0, k.sentmap[pn].cc = 0
        PROVE  pn + 1 < l.largest_acked_plus1[loss.sentmap[pn].epoch]
    <3>1. pn \in 0 .. n - 1
      BY <1>2 DEF Ledger
    <3>2. pn \in DOMAIN l.sentmap /\ k.sentmap[pn] = l.sentmap[pn]
      BY <1>10, <2>1, <3>1 DEF Carries
    <3> QED  BY <2>1, <3>2 DEF Follows
  <2> QED  BY <1>12, <2>1 DEF LostStep
<1>17. Inv'
  <2>1. /\ items'.pending \cap items'.delivered = {}
        /\ items'.idle \cap (items'.pending \union items'.delivered) = {}
    BY <1>2, <1>7, <1>8 DEF Apart
  <2>2. now' \in 0 .. MaxTime /\ now' = now
    BY <1>2, <1>5
  <2>3. Ledger(loss', conn'.packet_number)
    BY <1>6, <1>12
  <2> QED  BY <1>6, <1>8, <1>11, <1>12, <1>13, <1>14, <1>15, <2>1, <2>2, <2>3,
              InvNextState
<1> QED  BY <1>16, <1>17

\* An alarm that has gone off wants a packet; one that has not does nothing.
LEMMA AlarmFires ==
  ASSUME NEW alarm, alarm = OnAlarm, loss \in Losses, now \in Nat
  PROVE  IF loss.alarm_at <= now THEN alarm.min # 0
         ELSE MarkOnPto(alarm) = loss
<1>1. loss.alarm_at \in Int
  BY DEF Losses
<1>2. CASE loss.alarm_at > now
  <2>1. alarm = [l |-> loss, min |-> 0, restrict |-> FALSE]
    BY <1>2, Zenon DEF OnAlarm
  <2>2. alarm.l = loss /\ ~alarm.restrict
    BY <2>1
  <2>3. MarkOnPto(alarm) = loss
    BY <2>2, Zenon DEF MarkOnPto
  <2> QED  BY <1>1, <1>2, <2>3
<1>3. CASE ~(loss.alarm_at > now)
  <2>1. PICK j, m, r : alarm = [l |-> j, min |-> m, restrict |-> r] /\ m # 0
    <3>1. PICK m \in 1 .. 2 : m = IF loss.pto_count + 1 > 0 THEN 2 ELSE 1
      OBVIOUS
    <3>2. \/ \E j : alarm = [l |-> j, min |-> 1, restrict |-> FALSE]
          \/ \E j : alarm = [l |-> j, min |-> m, restrict |-> TRUE]
      BY <1>3, <3>1, Zenon DEF OnAlarm
    <3>3. m # 0 /\ 1 # 0
      OBVIOUS
    <3> QED  BY <3>2, <3>3, Zenon
  <2>2. alarm.min = m
    BY <2>1
  <2> QED  BY <1>1, <1>3, <2>1, <2>2
<1> QED  BY <1>2, <1>3

\* what do_send has in hand when the flight f leaves
Sends(l, c, pending, f) ==
  /\ Ledger(l, conn.packet_number) /\ Follows(loss, l)
  /\ l = MarkOnPto(OnAlarm)
  /\ c \in Conns /\ c.packet_number = conn.packet_number
  /\ c.handshaking = conn.handshaking
  /\ pending = StillPending(l) /\ Flight(f, pending)
  /\ l.pto_count <= conn.packet_number + Len(f)
  /\ IF loss.alarm_at <= now THEN Elicits(f) ELSE l = loss /\ c = conn

LEMMA SendIs ==
  ASSUME Inv, NEW ack \in BOOLEAN, NEW paced \in BOOLEAN, NEW skip \in BOOLEAN,
         NEW coalesce \in BOOLEAN, NEW cwnd \in Cwnds,
         Send(ack, paced, skip, coalesce, cwnd)
  PROVE  \E l, c, pending, f :
           Sends(l, c, pending, f) /\ Depart(l, c, pending, f, ack, skip)
<1>1. PICK n \in Nat : n = conn.packet_number
  BY InvFacts
<1>2. /\ now \in Nat /\ conn \in Conns /\ items \in Queues
      /\ Ledger(loss, n) /\ loss.pto_count <= n /\ Apart
  BY <1>1, InvFacts
<1> DEFINE
  H(alarm, pending, window) ==
    HandshakeFlight(Some(IF conn.handshaking THEN pending \cap CryptoItems
                         ELSE {}, window), alarm.min # 0, window)
  A(alarm, pending, window, h) ==
    AppFlight(Some(pending \cap AppItems, Left(window, h, coalesce)),
              alarm.min # 0, Left(window, h, coalesce), ack)
  L(alarm) == IF loss.alarm_at <= now /\ ~alarm.restrict
              THEN OnLost(conn, LostBy(loss), conn.packet_number + 1, cwnd)
              ELSE conn
  Rest(l, c, pending, h, a) ==
    /\ cwnd = conn.cwnd \/ c # conn
    /\ coalesce => h # <<>>
    /\ skip => a # <<>>
    /\ Depart(l, c, pending, h \o a \o Gap(a, skip), ack, skip)
<1>3. PICK alarm : alarm = OnAlarm
  OBVIOUS
<1>4. PICK l : l = MarkOnPto(alarm)
  OBVIOUS
<1>5. PICK c : c = L(alarm)
  OBVIOUS
<1>6. PICK pending : pending = StillPending(l)
  OBVIOUS
<1>7. PICK window : window = SendWindow(l, c.cwnd, alarm, paced)
  OBVIOUS
<1>8. PICK h : h = H(alarm, pending, window)
  OBVIOUS
<1>9. PICK a : a = A(alarm, pending, window, h)
  OBVIOUS
<1>10. Depart(l, c, pending, h \o a \o Gap(a, skip), ack, skip)
  <2>1. \E x1 \in {OnAlarm} : \E x2 \in {MarkOnPto(x1)} :
        \E x3 \in {L(x1)} :
        \E x4 \in {StillPending(x2)},
           x5 \in {SendWindow(x2, x3.cwnd, x1, paced)} :
        \E x6 \in {H(x1, x4, x5)} :
        \E x7 \in {A(x1, x4, x5, x6)} : Rest(x2, x3, x4, x6, x7)
    BY DEF Send
  <2> HIDE DEF Rest, L, H, A
  <2>2. Rest(l, c, pending, h, a)
    BY ONLY <1>3, <1>4, <1>5, <1>6, <1>7, <1>8, <1>9, <2>1
  <2> QED  BY <2>2 DEF Rest
<1>11. /\ c \in {conn, OnLost(conn, LostBy(loss), conn.packet_number + 1, cwnd)}
       /\ ~(loss.alarm_at <= now) => c = conn
  BY ONLY <1>5
<1> HIDE DEF L, Rest
<1>12. coalesce => conn.handshaking
  BY DEF Send
<1>13. /\ Ledger(l, n) /\ Follows(loss, l)
       /\ \/ alarm.restrict = FALSE /\ alarm.min \in 0 .. 2 /\ l.pto_count <= n
          \/ alarm.restrict = TRUE /\ alarm.min \in 1 .. 2 /\ l.pto_count <= n + 1
  BY ONLY <1>1, <1>2, <1>3, <1>4, AlarmAges
<1>14. /\ c \in Conns /\ c.packet_number = conn.packet_number
       /\ c.handshaking = conn.handshaking
  <2>1. cwnd \in Nat /\ conn.packet_number + 1 \in Nat
    BY <1>1, LossAssumption
  <2>2. PICK d : d = OnLost(conn, LostBy(loss), conn.packet_number + 1, cwnd)
    OBVIOUS
  <2>3. /\ d \in Conns /\ d.packet_number = conn.packet_number
        /\ d.handshaking = conn.handshaking
    BY ONLY <1>2, <2>1, <2>2, ConnIs, Zenon
  <2>4. c = d \/ c = conn
    BY ONLY <1>11, <2>2
  <2> QED  BY ONLY <1>2, <2>3, <2>4, Zenon
<1>15. window \in Int /\ (alarm.min # 0 => window > 0)
  <2>1. c.cwnd \in Nat
    BY ONLY <1>14 DEF Conns
  <2>2. l \in Losses
    BY ONLY <1>13 DEF Ledger
  <2> QED  BY ONLY <1>13, <1>7, <2>1, <2>2, paced \in BOOLEAN, WindowIs
<1>16. pending \subseteq Items
  BY ONLY <1>2, <1>6, RequeuedWere DEF StillPending, Queues
<1>17. PICK probe \in BOOLEAN : probe = (alarm.min # 0)
  OBVIOUS
<1>18. alarm.restrict => probe
  <2>1. CASE alarm.restrict = FALSE
    BY <2>1
  <2>2. CASE alarm.restrict = TRUE /\ alarm.min \in 1 .. 2
    <3>1. alarm.min # 0
      BY ONLY <2>2
    <3> QED  BY ONLY <1>17, <3>1, Zenon
  <2> QED  BY ONLY <1>13, <2>1, <2>2
<1>19. PICK f : f = h \o a \o Gap(a, skip)
  OBVIOUS
<1>20. Flight(f, pending) /\ (probe /\ window > 0 => Elicits(f))
  <2>1. Composed(pending, window, probe, ack, skip, coalesce, h, a, f)
    BY ONLY <1>12, <1>17, <1>19, <1>8, <1>9, Zenon DEF Composed, H, A
  <2> QED  BY <1>2, <1>15, <1>16, <2>1, FlightIs
<1>21. l.pto_count <= n + Len(f)
  <2>1. Len(f) \in Nat /\ l.pto_count \in Int
    BY ONLY <1>13, <1>20 DEF Flight, Ledger, Losses, Counts
  <2>2. Elicits(f) => Len(f) > 0
    BY ONLY <1>20 DEF Elicits, Flight
  <2>3. alarm.restrict = TRUE => Len(f) > 0
    BY ONLY <1>15, <1>17, <1>18, <1>20, <2>2
  <2> QED  BY ONLY <1>13, <2>1, <2>3, n \in Nat
<1>22. Depart(l, c, pending, f, ack, skip)
  BY ONLY <1>19, <1>10, Zenon
<1>23. Ledger(l, conn.packet_number) /\ l.pto_count <= conn.packet_number + Len(f)
  BY ONLY <1>1, <1>13, <1>21
<1>24. IF loss.alarm_at <= now THEN Elicits(f) ELSE l = loss /\ c = conn
  <2>1. loss \in Losses
    BY ONLY <1>2 DEF Ledger
  <2>2. IF loss.alarm_at <= now THEN alarm.min # 0 ELSE l = loss
    BY ONLY <1>2, <1>3, <1>4, <2>1, AlarmFires
  <2> QED  BY ONLY <1>11, <1>15, <1>17, <1>20, <2>2
<1>25. Sends(l, c, pending, f)
  BY ONLY <1>3, <1>4, <1>6, <1>13, <1>14, <1>20, <1>23, <1>24, Zenon DEF Sends
<1> QED  BY ONLY <1>22, <1>25, Zenon

LEMMA SendKeeps ==
  ASSUME Inv, NEW ack \in BOOLEAN, NEW paced \in BOOLEAN, NEW skip \in BOOLEAN,
         NEW coalesce \in BOOLEAN, NEW cwnd \in Cwnds,
         Send(ack, paced, skip, coalesce, cwnd)
  PROVE  Inv' /\ LostStep
<1>1. PICK l, c, pending, f :
        Sends(l, c, pending, f) /\ Depart(l, c, pending, f, ack, skip)
  BY SendIs
<1> QED  BY <1>1, DepartKeeps, Zenon DEF Sends

-----------------------------------------------------------------------------
(* The other actions *)

LEMMA WriteKeeps ==
  ASSUME Inv, NEW item \in AppItems, Write(item) \/ ResetStream(item)
  PROVE  Inv' /\ LostStep
<1>1. /\ now \in 0 .. MaxTime /\ conn \in Conns /\ items \in Queues
      /\ Ledger(loss, conn.packet_number)
      /\ loss.pto_count <= conn.packet_number /\ Apart
      /\ \A x \in Wanted(conn, items) :
           x \in items.pending \/ Live(loss.sentmap, x)
  BY InvFacts
<1>2. UNCHANGED <<now, loss, conn>>
  BY DEF Write, ResetStream
<1>3. IF loss.bytes_in_flight # 0 \/ conn.send_probe
      THEN loss.alarm_at # Never ELSE loss.loss_time = Never
  BY DEF Inv, TimersArmed
<1>4. LostStep
  BY <1>2 DEF LostStep
<1>5. /\ items' \in Queues /\ items'.delivered = items.delivered
      /\ \/ /\ item \in items.idle /\ items'.idle = items.idle \ {item}
            /\ items'.pending = items.pending \union {item}
         \/ items'.idle = items.idle /\ items'.pending = items.pending
  <2>1. CASE Write(item)
    <3> DEFINE i == [items EXCEPT !.idle = @ \ {item},
                                  !.pending = @ \union {item}]
    <3>1. items' = i /\ item \in items.idle
      BY <2>1 DEF Write
    <3>2. i \in Queues
      BY <1>1 DEF Queues, Items
    <3>3. /\ i.idle = items.idle \ {item} /\ i.delivered = items.delivered
          /\ i.pending = items.pending \union {item}
      BY <1>1 DEF Queues
    <3> HIDE DEF i
    <3> QED  BY <3>1, <3>2, <3>3
  <2>2. CASE ResetStream(item)
    <3> DEFINE i == [items EXCEPT !.withdrawn = @ \union {item}]
    <3>1. items' = i
      BY <2>2 DEF ResetStream
    <3>2. i \in Queues
      BY <1>1 DEF Queues
    <3>3. /\ i.idle = items.idle /\ i.delivered = items.delivered
          /\ i.pending = items.pending
      BY <1>1 DEF Queues
    <3> HIDE DEF i
    <3> QED  BY <3>1, <3>2, <3>3
  <2> QED  BY <2>1, <2>2
<1>6. /\ items'.pending \cap items'.delivered = {}
      /\ items'.idle \cap (items'.pending \union items'.delivered) = {}
      /\ \A pn \in DOMAIN loss.sentmap : loss.sentmap[pn].item \notin items'.idle
  BY <1>1, <1>5 DEF Apart
<1>7. \A x \in Wanted(conn, items') :
        x \in items'.pending \/ Live(loss.sentmap, x)
  BY <1>1, <1>5 DEF Wanted
<1> QED  BY <1>1, <1>2, <1>3, <1>4, <1>5, <1>6, <1>7, InvNextState

LEMMA TickKeeps ==
  ASSUME Inv, Tick
  PROVE  Inv' /\ LostStep
<1>1. /\ now \in Nat /\ MaxTime \in Nat /\ now < MaxTime /\ now' = now + 1
      /\ UNCHANGED <<loss, conn, items>>
  BY InvFacts DEF Tick
<1>2. LostStep
  BY <1>1 DEF LostStep
<1>3. now' \in 0 .. MaxTime
  BY <1>1
<1>4. Ledger(loss, conn.packet_number)
  BY DEF Inv
<1>5. \A pn \in DOMAIN loss.sentmap : loss.sentmap[pn].sent_at \in Nat
  BY <1>4 DEF Ledger, Losses, Sentmaps, Packets
<1>6. \A pn \in DOMAIN loss.sentmap : loss.sentmap[pn].sent_at <= now'
  BY <1>1, <1>4, <1>5 DEF Ledger
<1>7. Ledger(loss, conn.packet_number)'
  BY <1>1, <1>4, <1>6 DEF Ledger
<1>8. Apart' /\ TimersArmed' /\ NoDataForgotten'
  BY <1>1 DEF Inv, Apart, TimersArmed, NoDataForgotten
<1>9. /\ conn' \in Conns /\ items' \in Queues
      /\ loss'.pto_count <= conn'.packet_number
  BY <1>1 DEF Inv
<1> QED  BY <1>2, <1>3, <1>7, <1>8, <1>9 DEF Inv

-----------------------------------------------------------------------------
(* handle_ack_frame *)

LEMMA PtoCountResetIs ==
  ASSUME NEW l \in Losses, NEW newly
  PROVE  /\ Tuned(l, PtoCountReset(l, newly))
         /\ PtoCountReset(l, newly).pto_count <= l.pto_count
<1>1. PICK p \in Counts : /\ p = IF newly # {} /\ l.pto_count > 0 THEN 0
                                 ELSE l.pto_count
                          /\ p <= l.pto_count
  BY LossAssumption DEF Losses, Counts
<1> DEFINE k == [l EXCEPT !.pto_count = p]
<1>2. PtoCountReset(l, newly) = k
  BY <1>1, Zenon DEF PtoCountReset
<1>3. k \in Losses
  BY DEF Losses
<1>4. /\ k.sentmap = l.sentmap /\ k.bytes_in_flight = l.bytes_in_flight
      /\ k.largest_acked_plus1 = l.largest_acked_plus1 /\ k.pto_count = p
  BY DEF Losses
<1>5. Tuned(l, k)
  BY <1>3, <1>4, Zenon DEF Tuned
<1> HIDE DEF k
<1> QED  BY <1>1, <1>2, <1>4, <1>5

LEMMA RelaxedIs ==
  ASSUME NEW l \in Losses, NEW late, conn \in Conns
  PROVE  Tuned(l, Relaxed(l, late)) /\ Relaxed(l, late).pto_count <= l.pto_count
<1>1. l.pto_count \in Int /\ l.time_based_percentile \in 0 .. 1024
  BY DEF Losses, Counts, Percentiles
<1>2. conn.packet_number \in Nat
  BY NeverAssumption DEF Conns
<1>3. PICK p : p = IF l.use_packet_based THEN l.time_based_percentile
                   ELSE Min({2 * l.time_based_percentile, 1024})
  OBVIOUS
<1>4. p \in 0 .. 1024
  <2>1. PICK t \in 0 .. 1024 : t = l.time_based_percentile
    BY <1>1
  <2>2. PICK d \in Nat, x \in Nat : d = 2 * t /\ x = 1024
    OBVIOUS
  <2>3. Min({d, x}) = IF d <= x THEN d ELSE x
    BY ONLY d \in Nat, x \in Nat, OfTwo
  <2>4. Min({d, x}) \in 0 .. 1024
    BY ONLY d \in Nat, <2>2, <2>3
  <2>5. Min({2 * l.time_based_percentile, 1024}) \in 0 .. 1024
    BY ONLY <2>1, <2>2, <2>4
  <2>6. CASE l.use_packet_based
    <3>1. p = l.time_based_percentile
      BY ONLY <1>3, <2>6, Zenon
    <3> QED  BY ONLY <1>1, <3>1
  <2>7. CASE ~l.use_packet_based
    <3>1. p = Min({2 * l.time_based_percentile, 1024})
      BY ONLY <1>3, <2>7, Zenon
    <3> QED  BY ONLY <2>5, <3>1
  <2> QED  BY ONLY <2>6, <2>7
<1>5. PICK q \in Percentiles, c \in Nat :
        q = p /\ c = conn.packet_number
  BY ONLY <1>2, <1>4 DEF Percentiles
<1> DEFINE k == [l EXCEPT !.use_packet_based = FALSE,
                          !.time_based_percentile = q,
                          !.min_pn_to_relax = c]
<1>6. Relaxed(l, late) = l \/ Relaxed(l, late) = k
  <2>1. CASE l.use_packet_based
    <3>1. q = l.time_based_percentile
      BY ONLY <1>3, <1>5, <2>1, Zenon
    <3> QED  BY ONLY <1>5, <2>1, <3>1, Zenon DEF Relaxed
  <2>2. CASE ~l.use_packet_based
    <3>1. q = Min({2 * l.time_based_percentile, 1024})
      BY ONLY <1>3, <1>5, <2>2
    <3> QED  BY ONLY <1>5, <2>2, <3>1 DEF Relaxed
  <2> QED  BY ONLY <2>1, <2>2
<1>7. k \in Losses
  BY ONLY l \in Losses, q \in Percentiles, c \in Nat DEF Losses
<1>8. /\ k.sentmap = l.sentmap /\ k.bytes_in_flight = l.bytes_in_flight
      /\ k.largest_acked_plus1 = l.largest_acked_plus1
      /\ k.pto_count = l.pto_count
  BY DEF Losses
<1>9. Tuned(l, k) /\ Tuned(l, l)
  BY <1>7, <1>8, Zenon DEF Tuned
<1> HIDE DEF k
<1> QED  BY <1>1, <1>6, <1>8, <1>9

LEMMA TunedBecomes ==
  ASSUME NEW l, NEW k, NEW n, Ledger(l, n), Tuned(l, k),
         k.pto_count <= l.pto_count
  PROVE  Becomes(l, k, n)
BY TunedFollows DEF Becomes

Below(pns, n) == pns \subseteq 0 .. n - 1

\* The largest acknowledged only grows.
LEMMA SampledAges ==
  ASSUME NEW l, NEW n \in Nat, Ledger(l, n), NEW epoch \in Epochs,
         NEW newly, Below(newly, n), NEW eliciting, NEW r \in Rtts
  PROVE  /\ Becomes(l, Sampled(l, epoch, newly, eliciting, r), n)
         /\ Sampled(l, epoch, newly, eliciting, r).sentmap = l.sentmap
<1>1. l \in Losses /\ l.pto_count \in Int
  BY DEF Ledger, Losses, Counts
<1>2. CASE Sampled(l, epoch, newly, eliciting, r) = l
  BY <1>2, FollowsSelf
<1>3. CASE newly # {} /\ ~(l.largest_acked_plus1[epoch] > Max(newly))
  <2>1. PICK m \in Nat : m = Max(newly)
    <3>1. newly \subseteq 0 .. n
      BY DEF Below
    <3>2. Max(newly) \in newly
      BY <1>3, <3>1, MaxIs
    <3>3. newly \subseteq Nat
      BY DEF Below
    <3> QED  BY ONLY <3>2, <3>3
  <2>2. PICK old \in [Epochs -> Nat] : old = l.largest_acked_plus1
    BY <1>1 DEF Losses
  <2>3. PICK new \in [Epochs -> Nat] : new = [old EXCEPT ![epoch] = m + 1]
    <3>1. [old EXCEPT ![epoch] = m + 1] \in [Epochs -> Nat]
      BY ONLY old \in [Epochs -> Nat], epoch \in Epochs, m \in Nat
    <3> QED  BY ONLY <3>1, Zenon
  <2>4. \A e \in Epochs : old[e] <= new[e]
    BY <1>3, <2>1, <2>2, <2>3
  <2>5. PICK a \in Nat, b \in Ptos : a = r.rtt /\ b = r.pto
    BY TimeAssumption DEF Ptos
  <2> DEFINE k1 == [l EXCEPT !.largest_acked_plus1 = new]
             k2 == [l EXCEPT !.largest_acked_plus1 = new,
                             !.rtt = a, !.pto = b]
  <2>6. Sampled(l, epoch, newly, eliciting, r) \in {k1, k2}
    <3>1. new = [l.largest_acked_plus1 EXCEPT ![epoch] = Max(newly) + 1]
      BY ONLY <2>1, <2>2, <2>3
    <3>2. Sampled(l, epoch, newly, eliciting, r)
            \in {[l EXCEPT !.largest_acked_plus1[epoch] = Max(newly) + 1],
                 [l EXCEPT !.largest_acked_plus1[epoch] = Max(newly) + 1,
                           !.rtt = r.rtt, !.pto = r.pto]}
      BY <1>3, Zenon DEF Sampled
    <3>3. [l EXCEPT !.largest_acked_plus1[epoch] = Max(newly) + 1] = k1
      BY <3>1, Zenon
    <3>4. [l EXCEPT !.largest_acked_plus1[epoch] = Max(newly) + 1,
                    !.rtt = r.rtt, !.pto = r.pto] = k2
      BY <2>5, <3>1, Zenon
    <3> HIDE DEF k1, k2
    <3> QED  BY ONLY <3>2, <3>3, <3>4, Zenon
  <2>7. k1 \in Losses
    BY <1>1 DEF Losses
  <2>8. k2 \in Losses
    BY ONLY <1>1, new \in [Epochs -> Nat], a \in Nat, b \in Ptos DEF Losses
  <2>9. /\ k1.sentmap = l.sentmap /\ k1.bytes_in_flight = l.bytes_in_flight
        /\ k1.largest_acked_plus1 = new /\ k1.pto_count = l.pto_count
    BY <1>1 DEF Losses
  <2>10. /\ k2.sentmap = l.sentmap /\ k2.bytes_in_flight = l.bytes_in_flight
         /\ k2.largest_acked_plus1 = new /\ k2.pto_count = l.pto_count
    BY <1>1 DEF Losses
  <2> HIDE DEF k1, k2
  <2>11. PICK k \in {k1, k2} : k = Sampled(l, epoch, newly, eliciting, r)
    BY <2>6
  <2>12. /\ k \in Losses
         /\ k.sentmap = l.sentmap /\ k.bytes_in_flight = l.bytes_in_flight
         /\ k.largest_acked_plus1 = new /\ k.pto_count = l.pto_count
    BY <2>7, <2>8, <2>9, <2>10
  <2>13. Ledger(k, n)
    BY <2>12 DEF Ledger
  <2>14. Follows(l, k)
    BY <2>2, <2>4, <2>12 DEF Follows
  <2> QED  BY <1>1, <2>11, <2>12, <2>13, <2>14 DEF Becomes
<1> QED  BY <1>2, <1>3 DEF Sampled

LEMMA AckAges ==
  ASSUME NEW l, NEW n \in Nat, Ledger(l, n), NEW epoch \in Epochs,
         NEW acked, acked \subseteq DOMAIN l.sentmap, NEW r \in Rtts,
         conn \in Conns
  PROVE  /\ Becomes(l, OnAckReceived(l, epoch, acked, r), n)
         /\ OnAckReceived(l, epoch, acked, r).sentmap
              = Without(l.sentmap, acked)
<1>1. PICK newly : newly = {pn \in acked : pn >= conn.pn_path_start}
  OBVIOUS
<1>2. PICK late : late = LateAcked(l, acked)
  OBVIOUS
<1>3. PICK u : u = Update(l, acked, "acked")
  OBVIOUS
<1>4. PICK v : v = PtoCountReset(u, newly)
  OBVIOUS
<1>5. PICK w : w = Relaxed(v, late)
  OBVIOUS
<1>6. PICK el : el = \E pn \in acked : l.sentmap[pn].eliciting
  OBVIOUS
<1>7. PICK x : x = Sampled(w, epoch, newly, el, r)
  OBVIOUS
<1>8. OnAckReceived(l, epoch, acked, r) = x
  BY ONLY <1>1, <1>2, <1>3, <1>4, <1>5, <1>6, <1>7, Zenon DEF OnAckReceived
<1>9. "acked" \in Events /\ "acked" # "lost"
  BY DEF Events
<1>10. Becomes(l, u, n) /\ Ledger(u, n) /\ u \in Losses
  BY <1>3, <1>9, UpdateAges DEF Becomes, Ledger
<1>11. u.sentmap = Without(l.sentmap, acked)
  <2>1. l \in Losses
    BY DEF Ledger
  <2>2. PICK b : b = l.bytes_in_flight - Bytes(l.sentmap, acked)
    OBVIOUS
  <2>3. u = Booked(l, b, Without(l.sentmap, acked))
    BY <1>3, <1>9, <2>1, <2>2, UpdateFields
  <2>4. Booked(l, b, Without(l.sentmap, acked)).sentmap
          = Without(l.sentmap, acked)
    BY <2>1 DEF Booked, Losses
  <2> QED  BY <2>3, <2>4
<1>12. Tuned(u, v) /\ v.pto_count <= u.pto_count
  BY <1>4, <1>10, PtoCountResetIs
<1>13. Becomes(u, v, n) /\ Ledger(v, n) /\ v \in Losses
  BY <1>10, <1>12, TunedBecomes DEF Becomes, Tuned
<1>14. Tuned(v, w) /\ w.pto_count <= v.pto_count
  BY <1>5, <1>13, RelaxedIs
<1>15. Becomes(v, w, n) /\ Ledger(w, n)
  BY <1>13, <1>14, TunedBecomes DEF Becomes
<1>16. Below(newly, n)
  BY <1>1 DEF Ledger, Below
<1>17. Becomes(w, x, n) /\ x.sentmap = w.sentmap
  <2>1. Ledger(w, n)
    BY <1>15
  <2>2. /\ Becomes(w, Sampled(w, epoch, newly, el, r), n)
        /\ Sampled(w, epoch, newly, el, r).sentmap = w.sentmap
    BY ONLY <1>16, <2>1, n \in Nat, epoch \in Epochs, r \in Rtts,
            SampledAges, SMT
  <2> QED  BY ONLY <1>7, <2>2, Zenon
<1>18. Becomes(l, v, n)
  BY <1>10, <1>13, BecomesThen
<1>19. Becomes(l, w, n)
  BY <1>15, <1>18, BecomesThen
<1>20. Becomes(l, x, n)
  BY <1>17, <1>19, BecomesThen
<1>21. x.sentmap = u.sentmap
  BY <1>12, <1>14, <1>17 DEF Tuned
<1> QED  BY <1>8, <1>11, <1>20, <1>21

\* The last step of every handler but do_send: the alarm is set anew for the
\* packets l that are left.
LEMMA RearmedKeeps ==
  ASSUME Inv, NEW l, Becomes(loss, l, conn.packet_number), now' = now,
         conn' \in Conns, conn'.packet_number = conn.packet_number,
         items' \in Queues, items'.idle = items.idle,
         items'.pending \cap items'.delivered = {},
         items.idle \cap (items'.pending \union items'.delivered) = {},
         \A item \in Wanted(conn', items') :
           item \in items'.pending \/ Live(l.sentmap, item),
         loss' = UpdateSendAlarm(l, conn', items', FALSE)
  PROVE  Inv' /\ LostStep
<1>1. PICK n \in Nat : n = conn.packet_number
  BY InvFacts
<1>2. /\ now \in 0 .. MaxTime /\ conn \in Conns /\ Ledger(loss, n) /\ Apart
      /\ MaxPn \in Nat /\ loss.pto_count <= n
  BY <1>1, InvFacts
<1>3. Ledger(l, n) /\ Follows(loss, l) /\ l.pto_count <= loss.pto_count
  BY <1>1 DEF Becomes
<1>4. /\ l \in Losses /\ l.pto_count \in Int /\ loss.pto_count \in Int
      /\ n <= MaxPn
  BY <1>1, <1>2, <1>3 DEF Ledger, Losses, Counts, Conns
<1>5. l.pto_count <= n /\ l.pto_count <= MaxPn
  BY <1>2, <1>3, <1>4
<1>6. /\ Tuned(l, loss') /\ loss'.pto_count <= l.pto_count
      /\ IF loss'.bytes_in_flight # 0 \/ conn'.send_probe
         THEN loss'.alarm_at # Never ELSE loss'.loss_time = Never
  <2>1. PICK c2 \in Conns : c2 = conn'
    OBVIOUS
  <2>2. PICK i2 \in Queues : i2 = items'
    OBVIOUS
  <2>3. PICK k2 : k2 = UpdateSendAlarm(l, c2, i2, FALSE)
    OBVIOUS
  <2>4. /\ Tuned(l, k2) /\ k2.pto_count <= l.pto_count
        /\ IF k2.bytes_in_flight # 0 \/ c2.send_probe
           THEN k2.alarm_at # Never ELSE k2.loss_time = Never
    BY <1>2, <1>4, <1>5, <2>3, UpdateSendAlarmIs
  <2>5. loss' = k2
    BY <2>1, <2>2, <2>3
  <2> QED  BY <2>1, <2>4, <2>5
<1>7. Ledger(loss', n) /\ loss'.sentmap = l.sentmap
        /\ loss'.largest_acked_plus1 = l.largest_acked_plus1
  BY <1>3, <1>6, TunedFollows DEF Tuned
<1>8. loss'.pto_count <= conn'.packet_number
  <2>1. loss'.pto_count \in Int
    BY <1>7 DEF Ledger, Losses, Counts
  <2>2. loss'.pto_count <= n
    BY ONLY <1>4, <1>5, <1>6, <2>1, n \in Nat
  <2> QED  BY <1>1, <2>2, Zenon
<1>9. \A pn \in DOMAIN l.sentmap : l.sentmap[pn].item \notin items.idle
  BY <1>2, <1>3, ItemsFollow DEF Apart
<1>10. LostStep
  BY <1>3, <1>7 DEF LostStep, Follows
<1>11. Inv'
  <2>1. Ledger(loss', conn'.packet_number) /\ now' \in 0 .. MaxTime
    BY <1>1, <1>2, <1>7
  <2>2. /\ items'.idle \cap (items'.pending \union items'.delivered) = {}
        /\ \A pn \in DOMAIN loss'.sentmap :
             loss'.sentmap[pn].item \notin items'.idle
        /\ \A item \in Wanted(conn', items') :
             item \in items'.pending \/ Live(loss'.sentmap, item)
    BY <1>7, <1>9, Zenon
  <2> QED  BY <1>6, <1>8, <2>1, <2>2, InvNextState
<1> QED  BY <1>10, <1>11

LEMMA PromotePathKeeps ==
  ASSUME Inv, NEW r \in Rtts, NEW cwnd \in Cwnds, PromotePath(r, cwnd)
  PROVE  Inv' /\ LostStep
<1>1. PICK n \in Nat : n = conn.packet_number
  BY InvFacts
<1>2. /\ conn \in Conns /\ items \in Queues /\ Ledger(loss, n) /\ Apart
      /\ \A x \in Wanted(conn, items) :
           x \in items.pending \/ Live(loss.sentmap, x)
  BY <1>1, InvFacts
<1>3. PICK l0 : l0 = InitSentmapIter(loss)
  OBVIOUS
<1>4. PICK l1 : l1 = Update(l0, DOMAIN l0.sentmap, "pto")
  OBVIOUS
<1>5. PICK l : l = Restarted(l0, r)
  OBVIOUS
<1>6. /\ conn' = [conn EXCEPT !.cwnd = cwnd, !.recovery_end = 0,
                              !.pn_path_start = conn.packet_number]
      /\ items' = [items EXCEPT !.pending = @ \union
                     (Requeued(loss.sentmap, l.sentmap) \ items.delivered)]
      /\ loss' = UpdateSendAlarm(l, conn', items', FALSE)
      /\ now' = now
  BY <1>3, <1>5, Zenon DEF PromotePath
<1>7. Becomes(loss, l, n)
  <2>1. Becomes(loss, l0, n) /\ Ledger(l0, n)
    BY <1>2, <1>3, IterAges DEF Becomes
  <2>2. "pto" \in Events /\ "pto" # "lost"
    BY DEF Events
  <2>3. Becomes(l0, l1, n) /\ Ledger(l1, n) /\ l1 \in Losses
    BY <1>4, <2>1, <2>2, UpdateAges DEF Becomes, Ledger
  <2>4. PICK a \in Nat, b \in Ptos : a = r.rtt /\ b = r.pto
    BY TimeAssumption DEF Ptos
  <2> DEFINE k == [l1 EXCEPT !.rtt = a, !.pto = b]
  <2>5. l = k
    BY ONLY <1>4, <1>5, <2>4, Zenon DEF Restarted
  <2>6. k \in Losses
    BY ONLY <2>3, a \in Nat, b \in Ptos DEF Losses
  <2>7. /\ k.sentmap = l1.sentmap /\ k.bytes_in_flight = l1.bytes_in_flight
        /\ k.largest_acked_plus1 = l1.largest_acked_plus1
        /\ k.pto_count = l1.pto_count
    BY ONLY <2>3 DEF Losses
  <2> HIDE DEF k
  <2>8. Tuned(l1, k) /\ k.pto_count <= l1.pto_count
    <3>1. l1.pto_count \in Int
      BY <2>3 DEF Losses, Counts
    <3> QED  BY ONLY <2>6, <2>7, <3>1 DEF Tuned
  <2>9. Becomes(l1, l, n)
    BY <2>3, <2>5, <2>8, TunedBecomes
  <2>10. Becomes(loss, l1, n)
    BY <1>2, <2>1, <2>3, BecomesThen
  <2> QED  BY <1>2, <2>9, <2>10, BecomesThen
<1>8. /\ conn' \in Conns /\ conn'.packet_number = conn.packet_number
      /\ conn'.handshaking = conn.handshaking
  <2>1. PICK w \in Nat, z \in Nat, m \in Nat :
          w = cwnd /\ z = 0 /\ m = conn.packet_number
    BY <1>1, LossAssumption
  <2> DEFINE d == [conn EXCEPT !.cwnd = w, !.recovery_end = z,
                               !.pn_path_start = m]
  <2>2. conn' = d
    BY ONLY <1>6, <2>1
  <2>3. d \in Conns
    BY ONLY <1>2, w \in Nat, z \in Nat, m \in Nat DEF Conns
  <2>4. /\ d.packet_number = conn.packet_number
        /\ d.handshaking = conn.handshaking
    BY ONLY <1>2 DEF Conns
  <2> HIDE DEF d
  <2> QED  BY ONLY <2>2, <2>3, <2>4
<1>9. PICK back : back = Requeued(loss.sentmap, l.sentmap) \ items.delivered
  OBVIOUS
<1>10. back \subseteq Items /\ back \cap items.idle = {}
  BY <1>2, <1>9, RequeuedWere DEF Apart
<1>11. /\ items' \in Queues /\ items'.pending = items.pending \union back
       /\ items'.idle = items.idle /\ items'.delivered = items.delivered
  <2> DEFINE q == items.pending \union back
             i == [items EXCEPT !.pending = q]
  <2>1. items' = i
    BY ONLY <1>6, <1>9, Zenon
  <2>2. q \in SUBSET Items
    BY ONLY <1>2, <1>10 DEF Queues
  <2> HIDE DEF q
  <2>3. i \in Queues
    BY ONLY <1>2, <2>2 DEF Queues
  <2>4. i.pending = q /\ i.idle = items.idle /\ i.delivered = items.delivered
    BY ONLY <1>2 DEF Queues
  <2> HIDE DEF i
  <2> QED  BY ONLY <2>1, <2>3, <2>4 DEF q
<1>12. /\ items'.pending \cap items'.delivered = {}
       /\ items.idle \cap (items'.pending \union items'.delivered) = {}
  BY <1>2, <1>9, <1>10, <1>11 DEF Apart
<1>13. ASSUME NEW x \in Wanted(conn', items')
       PROVE  x \in items'.pending \/ Live(l.sentmap, x)
  <2>1. x \in Wanted(conn, items) /\ x \in Items /\ x \notin items.delivered
    BY <1>8, <1>11 DEF Wanted, Items
  <2>2. CASE x \in items.pending
    BY <1>11, <2>2
  <2>3. CASE Live(loss.sentmap, x)
    BY <1>7, <1>9, <1>11, <2>1, <2>3, LiveOrRequeued DEF Becomes
  <2> QED  BY <1>2, <2>1, <2>2, <2>3
<1> QED  BY <1>1, <1>6, <1>7, <1>8, <1>11, <1>12, <1>13, RearmedKeeps

LEMMA DiscardHandshakeKeeps ==
  ASSUME Inv, DiscardHandshake
  PROVE  Inv' /\ LostStep
<1>1. PICK n \in Nat : n = conn.packet_number
  BY InvFacts
<1>2. /\ conn \in Conns /\ items \in Queues /\ Ledger(loss, n) /\ Apart
      /\ \A x \in Wanted(conn, items) :
           x \in items.pending \/ Live(loss.sentmap, x)
  BY <1>1, InvFacts
<1>3. PICK l0 : l0 = InitSentmapIter(loss)
  OBVIOUS
<1>4. PICK l : l = Discarded(l0, "handshake")
  OBVIOUS
<1>5. /\ conn' = [conn EXCEPT !.handshaking = FALSE, !.send_probe = FALSE]
      /\ items' = [items EXCEPT !.pending = @ \ CryptoItems]
      /\ loss' = UpdateSendAlarm(l, conn', items', FALSE)
      /\ now' = now
  BY <1>3, <1>4, Zenon DEF DiscardHandshake
<1>6. PICK gone : gone = {pn \in DOMAIN l0.sentmap :
                            l0.sentmap[pn].epoch = "handshake"}
  OBVIOUS
<1>7. "expired" \in Events /\ "expired" # "lost"
  BY DEF Events
<1>8. Becomes(loss, l0, n) /\ Ledger(l0, n) /\ l0 \in Losses
  BY <1>2, <1>3, IterAges DEF Becomes, Ledger
<1>9. l = Update(l0, gone, "expired")
  BY ONLY <1>4, <1>6, Zenon DEF Discarded
<1>10. Becomes(loss, l, n)
  <2>1. Becomes(l0, l, n)
    BY <1>7, <1>8, <1>9, UpdateAges
  <2> QED  BY <1>2, <1>8, <2>1, BecomesThen
<1>11. l.sentmap = Without(l0.sentmap, gone)
  <2>1. PICK b : b = l0.bytes_in_flight - Bytes(l0.sentmap, gone)
    OBVIOUS
  <2>2. l = Booked(l0, b, Without(l0.sentmap, gone))
    BY <1>7, <1>8, <1>9, <2>1, UpdateFields
  <2>3. Booked(l0, b, Without(l0.sentmap, gone)).sentmap
          = Without(l0.sentmap, gone)
    BY <1>8 DEF Booked, Losses
  <2> QED  BY <2>2, <2>3
<1>12. /\ conn' \in Conns /\ conn'.packet_number = conn.packet_number
       /\ ~conn'.handshaking
  <2> DEFINE d == [conn EXCEPT !.handshaking = FALSE, !.send_probe = FALSE]
  <2>1. d \in Conns
    BY ONLY <1>2 DEF Conns
  <2>2. d.packet_number = conn.packet_number /\ ~d.handshaking
    BY ONLY <1>2 DEF Conns
  <2>3. conn' = d
    BY <1>5
  <2> HIDE DEF d
  <2> QED  BY ONLY <2>1, <2>2, <2>3
<1>13. /\ items' \in Queues /\ items'.pending = items.pending \ CryptoItems
       /\ items'.idle = items.idle /\ items'.delivered = items.delivered
  <2> DEFINE q == items.pending \ CryptoItems
             i == [items EXCEPT !.pending = q]
  <2>1. items' = i
    BY ONLY <1>5, Zenon
  <2>2. q \in SUBSET Items
    BY ONLY <1>2 DEF Queues
  <2> HIDE DEF q
  <2>3. i \in Queues
    BY ONLY <1>2, <2>2 DEF Queues
  <2>4. i.pending = q /\ i.idle = items.idle /\ i.delivered = items.delivered
    BY ONLY <1>2 DEF Queues
  <2> HIDE DEF i
  <2> QED  BY ONLY <2>1, <2>3, <2>4 DEF q
<1>14. /\ items'.pending \cap items'.delivered = {}
       /\ items.idle \cap (items'.pending \union items'.delivered) = {}
  BY <1>2, <1>13 DEF Apart
<1>15. ASSUME NEW x \in Wanted(conn', items')
       PROVE  x \in items'.pending \/ Live(l.sentmap, x)
  <2>1. /\ x \in Wanted(conn, items) /\ x \in AppItems
        /\ x \notin items.delivered /\ x \notin CryptoItems
    BY <1>12, <1>13, LossAssumption DEF Wanted, Items
  <2>2. CASE x \in items.pending
    BY <1>13, <2>1, <2>2
  <2>3. CASE Live(loss.sentmap, x)
    <3>1. PICK pn \in DOMAIN loss.sentmap :
            /\ loss.sentmap[pn].item = x /\ loss.sentmap[pn].frames_in_flight
            /\ loss.sentmap[pn].cc # 0
      BY <2>3 DEF Live
    <3>2. pn \in DOMAIN l0.sentmap /\ l0.sentmap[pn] = loss.sentmap[pn]
      BY <1>2, <1>3, <3>1, IterAges DEF InFlight
    <3>3. loss.sentmap[pn].epoch = "1rtt"
      BY <1>2, <2>1, <3>1 DEF Ledger, Honest
    <3>4. pn \notin gone
      BY <1>6, <3>2, <3>3
    <3>5. pn \in DOMAIN l.sentmap /\ l.sentmap[pn] = loss.sentmap[pn]
      BY <1>11, <3>2, <3>4 DEF Without
    <3> QED  BY <3>1, <3>5 DEF Live
  <2> QED  BY <1>2, <2>1, <2>2, <2>3
<1> QED  BY <1>1, <1>5, <1>10, <1>12, <1>13, <1>14, <1>15, RearmedKeeps

LEMMA ReceiveAckKeeps ==
  ASSUME Inv, NEW epoch \in Epochs, NEW acked, NEW r \in Rtts,
         NEW cwnd \in Cwnds, NEW undo \in BOOLEAN,
         ReceiveAck(epoch, acked, r, cwnd, undo)
  PROVE  Inv' /\ LostStep
<1>1. PICK n \in Nat : n = conn.packet_number
  BY InvFacts
<1>2. /\ conn \in Conns /\ items \in Queues /\ Ledger(loss, n) /\ Apart
      /\ \A x \in Wanted(conn, items) :
           x \in items.pending \/ Live(loss.sentmap, x)
  BY <1>1, InvFacts
<1>3. PICK l0 : l0 = InitSentmapIter(loss)
  OBVIOUS
<1>4. PICK known : known = acked \cap DOMAIN l0.sentmap
  OBVIOUS
<1>5. PICK l1 : l1 = OnAckReceived(l0, epoch, known, r)
  OBVIOUS
<1>6. PICK l2 : l2 = DetectLoss(l1)
  OBVIOUS
<1>7. PICK told : told = {l0.sentmap[pn].item : pn \in known} \cap Items
  OBVIOUS
<1>8. PICK lost : lost = Requeued(loss.sentmap, l0.sentmap)
                           \union Requeued(l1.sentmap, l2.sentmap)
  OBVIOUS
<1>9. /\ conn' = OnLost([conn EXCEPT !.send_probe = @ /\ epoch # "handshake",
                                     !.cwnd = cwnd,
                                     !.recovery_end = IF undo THEN 0 ELSE @],
                        LostBy(l1), conn.packet_number, cwnd)
      /\ items' = AckItems(items.delivered \union told, lost)
      /\ loss' = UpdateSendAlarm(l2, conn', items', FALSE)
      /\ now' = now
  BY ONLY <1>3, <1>4, <1>5, <1>6, <1>7, <1>8,
          ReceiveAck(epoch, acked, r, cwnd, undo), ZenonT(60) DEF ReceiveAck
<1>10. Becomes(loss, l0, n) /\ Ledger(l0, n)
  BY <1>2, <1>3, IterAges DEF Becomes
<1>11. /\ Becomes(l0, l1, n) /\ Ledger(l1, n)
       /\ l1.sentmap = Without(l0.sentmap, known)
  <2>1. known \subseteq DOMAIN l0.sentmap
    BY <1>4
  <2> QED  BY <1>2, <1>5, <1>10, <2>1, AckAges DEF Becomes
<1>12. Becomes(l1, l2, n) /\ Ledger(l2, n)
  BY <1>6, <1>11, DetectLossAges DEF Becomes
<1>13. Becomes(loss, l2, n)
  <2>1. Becomes(loss, l1, n)
    BY <1>2, <1>10, <1>11, BecomesThen
  <2> QED  BY <1>2, <1>12, <2>1, BecomesThen
<1>14. /\ conn' \in Conns /\ conn'.packet_number = conn.packet_number
       /\ conn'.handshaking = conn.handshaking
  <2>1. conn.send_probe \in BOOLEAN /\ conn.recovery_end \in Nat
    BY <1>2 DEF Conns
  <2>2. PICK b \in BOOLEAN : b = (conn.send_probe /\ epoch # "handshake")
    OBVIOUS
  <2>3. PICK e \in Nat : e = IF undo THEN 0 ELSE conn.recovery_end
    BY <2>1
  <2>4. PICK w \in Nat : w = cwnd
    BY LossAssumption
  <2> DEFINE d == [conn EXCEPT !.send_probe = b, !.cwnd = w,
                               !.recovery_end = e]
  <2>5. conn' = OnLost(d, LostBy(l1), n, w)
    BY ONLY <1>1, <1>9, <2>2, <2>3, <2>4, Zenon
  <2>6. d \in Conns
    BY ONLY <1>2, b \in BOOLEAN, w \in Nat, e \in Nat DEF Conns
  <2>7. /\ d.packet_number = conn.packet_number
        /\ d.handshaking = conn.handshaking
    BY ONLY <1>2 DEF Conns
  <2> HIDE DEF d
  <2> QED  BY <2>5, <2>6, <2>7, ConnIs
<1>15. told \subseteq Items /\ told \cap items.idle = {}
  <2>1. \A pn \in DOMAIN l0.sentmap : l0.sentmap[pn].item \notin items.idle
    BY <1>2, <1>10, ItemsFollow DEF Apart, Becomes
  <2> QED  BY <1>4, <1>7, <2>1
<1>16. lost \subseteq Items /\ lost \cap items.idle = {}
  <2>1. \A pn \in DOMAIN loss.sentmap : loss.sentmap[pn].item \notin items.idle
    BY <1>2 DEF Apart
  <2>2. \A pn \in DOMAIN l1.sentmap : l1.sentmap[pn].item \notin items.idle
    <3>1. \A pn \in DOMAIN l0.sentmap : l0.sentmap[pn].item \notin items.idle
      BY <1>10, <2>1, ItemsFollow DEF Becomes
    <3> QED  BY <1>11, <3>1, ItemsFollow DEF Becomes
  <2> QED  BY <1>8, <2>1, <2>2, RequeuedWere
<1>17. /\ items' \in Queues /\ items'.idle = items.idle
       /\ items'.delivered = items.delivered \union told
       /\ items'.pending = (items.pending \union lost)
                             \ (items.delivered \union told)
  <2> DEFINE t == items.delivered \union told
             q == (items.pending \union lost) \ t
             i == [items EXCEPT !.delivered = t, !.pending = q]
  <2>1. items' = i
    BY ONLY <1>9, Zenon DEF AckItems
  <2>2. q \in SUBSET Items /\ t \in SUBSET Items
    BY ONLY <1>2, <1>15, <1>16 DEF Queues
  <2>3. q = (items.pending \union lost) \ (items.delivered \union told)
          /\ t = items.delivered \union told
    OBVIOUS
  <2> HIDE DEF q, t
  <2>4. i \in Queues
    BY ONLY <1>2, <2>2 DEF Queues
  <2>5. i.pending = q /\ i.idle = items.idle /\ i.delivered = t
    BY ONLY <1>2 DEF Queues
  <2> HIDE DEF i
  <2> QED  BY ONLY <2>1, <2>3, <2>4, <2>5
<1>18. /\ items'.pending \cap items'.delivered = {}
       /\ items.idle \cap (items'.pending \union items'.delivered) = {}
  BY <1>2, <1>15, <1>16, <1>17 DEF Apart
<1>19. ASSUME NEW x \in Wanted(conn', items')
       PROVE  x \in items'.pending \/ Live(l2.sentmap, x)
  <2>1. /\ x \in Wanted(conn, items) /\ x \in Items
        /\ x \notin items.delivered /\ x \notin told
    BY <1>14, <1>17 DEF Wanted, Items
  <2>2. CASE x \in items.pending \/ x \in lost
    BY <1>17, <2>1, <2>2
  <2>3. CASE Live(loss.sentmap, x) /\ x \notin lost
    <3>1. Live(l0.sentmap, x)
      BY <1>8, <1>10, <2>1, <2>3, LiveOrRequeued DEF Becomes
    <3>2. PICK pn \in DOMAIN l0.sentmap :
            /\ l0.sentmap[pn].item = x /\ l0.sentmap[pn].frames_in_flight
            /\ l0.sentmap[pn].cc # 0
      BY <3>1 DEF Live
    <3>3. pn \notin known
      BY <1>7, <2>1, <3>2
    <3>4. pn \in DOMAIN l1.sentmap /\ l1.sentmap[pn] = l0.sentmap[pn]
      BY <1>11, <3>2, <3>3 DEF Without
    <3>5. Live(l1.sentmap, x)
      BY <3>2, <3>4 DEF Live
    <3> QED  BY <1>8, <1>12, <2>1, <2>3, <3>5, LiveOrRequeued DEF Becomes
  <2> QED  BY <1>2, <2>1, <2>2, <2>3
<1> QED  BY <1>1, <1>9, <1>13, <1>14, <1>17, <1>18, <1>19, RearmedKeeps

-----------------------------------------------------------------------------
(* The theorems *)

LEMMA InvInit ==
  ASSUME Init
  PROVE  Inv
<1>1. PICK r \in Rtts, c \in Cwnds, probe \in BOOLEAN :
        /\ loss = [sentmap |-> <<>>, bytes_in_flight |-> 0,
                   largest_acked_plus1 |-> [e \in {"handshake", "1rtt"} |-> 0],
                   loss_time |-> Never,
                   alarm_at |-> IF probe THEN BackedOff(r.pto, 0, 0) ELSE Never,
                   pto_count |-> 0, total_bytes_sent |-> 0,
                   use_packet_based |-> TRUE,
                   time_based_percentile |-> 128, min_pn_to_relax |-> 0,
                   rtt |-> r.rtt, pto |-> r.pto, sane |-> TRUE]
        /\ conn = [packet_number |-> 0, last_sent |-> 0, cwnd |-> c,
                   recovery_end |-> 0, pn_path_start |-> 0,
                   handshaking |-> TRUE, send_probe |-> probe]
  BY DEF Init
<1>2. /\ now = 0
      /\ items = [idle |-> AppItems, pending |-> CryptoItems, sent |-> {},
                  withdrawn |-> {}, delivered |-> {}]
  BY DEF Init
<1>3. now \in 0 .. MaxTime
  BY <1>2, TimeAssumption
<1>4. conn \in Conns
  <2>1. 0 \in 0 .. MaxPn /\ 0 \in 0 .. MaxTime /\ c \in Nat
    BY NeverAssumption, TimeAssumption, LossAssumption
  <2> QED  BY <1>1, <2>1 DEF Conns
<1>5. items \in Queues
  BY <1>2 DEF Queues, Items
<1>6. <<>> \in Sentmaps
  <2>1. {} \in SUBSET Nat /\ <<>> \in [{} -> Packets]
    OBVIOUS
  <2> QED  BY <2>1 DEF Sentmaps
<1>7. PICK d \in 1 .. Never - MaxTime - 1 : d = BackedOff(r.pto, 0, 0)
  BY FirstPto
<1>8. PICK a : a = IF probe THEN d ELSE Never
  OBVIOUS
<1>9. loss \in Losses
  <2>1. r.rtt \in Nat /\ r.pto \in Ptos
    BY TimeAssumption DEF Ptos
  <2>2. 0 \in Counts
    BY LossAssumption DEF Counts
  <2>3. a \in Int /\ Never \in Int
    BY <1>8, TimeAssumption
  <2>4. [e \in {"handshake", "1rtt"} |-> 0] \in [Epochs -> Nat]
    BY DEF Epochs
  <2> QED  BY <1>1, <1>6, <1>7, <1>8, <2>1, <2>2, <2>3, <2>4
           DEF Losses, Percentiles
<1>10. /\ loss.sentmap = <<>> /\ loss.bytes_in_flight = 0
      /\ loss.pto_count = 0 /\ conn.packet_number = 0
      /\ loss.loss_time = Never /\ conn.handshaking
      /\ conn.send_probe = probe
      /\ loss.alarm_at = a
  BY ONLY <1>1, <1>7, <1>8
<1>11. DOMAIN loss.sentmap = {}
  BY <1>10
<1>12. Ledger(loss, conn.packet_number)
  <2>1. InFlight(loss.sentmap) = {}
    BY <1>11 DEF InFlight
  <2>2. loss.bytes_in_flight = Cardinality(InFlight(loss.sentmap))
    BY <1>10, <2>1, FS_EmptySet
  <2> QED  BY <1>9, <1>11, <2>2 DEF Ledger
<1>13. Apart
  <2>1. AppItems \cap CryptoItems = {}
    BY LossAssumption
  <2> QED  BY <1>2, <1>11, <2>1 DEF Apart
<1>14. TimersArmed
  <2>1. probe => loss.alarm_at # Never
    BY <1>8, <1>10, TimeAssumption
  <2> QED  BY <1>10, <2>1 DEF TimersArmed
<1>15. NoDataForgotten
  BY <1>2 DEF NoDataForgotten, Items
<1> QED  BY <1>3, <1>4, <1>5, <1>10, <1>12, <1>13, <1>14, <1>15 DEF Inv

LEMMA InvNext ==
  ASSUME Inv, [Next]_vars
  PROVE  Inv' /\ (LostStep \/ UNCHANGED vars)
<1>1. CASE UNCHANGED vars
  <2>1. UNCHANGED <<now, loss, conn, items>>
    BY <1>1 DEF vars
  <2>2. Ledger(loss, conn.packet_number)'
    BY <2>1 DEF Inv, Ledger
  <2>3. Apart' /\ TimersArmed' /\ NoDataForgotten'
    BY <2>1 DEF Inv, Apart, TimersArmed, NoDataForgotten
  <2> QED  BY <1>1, <2>1, <2>2, <2>3 DEF Inv
<1>2. ASSUME NEW ack \in BOOLEAN, NEW paced \in BOOLEAN, NEW skip \in BOOLEAN,
             NEW coalesce \in BOOLEAN, NEW cwnd \in Cwnds,
             Send(ack, paced, skip, coalesce, cwnd)
      PROVE  Inv' /\ LostStep
  BY <1>2, SendKeeps
<1>3. ASSUME NEW item \in AppItems, Write(item) \/ ResetStream(item)
      PROVE  Inv' /\ LostStep
  BY <1>3, WriteKeeps
<1>4. ASSUME NEW epoch \in {"handshake", "1rtt"}, NEW r \in Rtts,
             NEW cwnd \in Cwnds, NEW undo \in BOOLEAN, NEW acked,
             ReceiveAck(epoch, acked, r, cwnd, undo)
      PROVE  Inv' /\ LostStep
  BY <1>4, ReceiveAckKeeps DEF Epochs
<1>5. CASE DiscardHandshake
  BY <1>5, DiscardHandshakeKeeps
<1>6. ASSUME NEW r \in Rtts, NEW cwnd \in Cwnds, PromotePath(r, cwnd)
      PROVE  Inv' /\ LostStep
  BY <1>6, PromotePathKeeps
<1>7. CASE Tick
  BY <1>7, TickKeeps
<1> QED  BY <1>1, <1>2, <1>3, <1>4, <1>5, <1>6, <1>7 DEF Next

\* The inductive invariant holds of every execution of do_send, the receipt of
\* ACKs, the end of the handshake and the promotion of paths.
THEOREM Invariance == Spec => []Inv
<1>1. Init => Inv
  BY InvInit
<1>2. Inv /\ [Next]_vars => Inv'
  BY InvNext
<1> QED  BY <1>1, <1>2, PTL DEF Spec

\* The books of loss recovery balance: the sentmap is in order, bytes_in_flight
\* is what quicly_sentmap_update left of its packets, and assert_consistency
\* never fails, for any number of packets and any estimates and windows.
THEOREM BooksAreBalanced == Spec => []BooksBalance
<1>1. ASSUME Inv PROVE BooksBalance
  <2>1. Ledger(loss, conn.packet_number) /\ Apart /\ TimersArmed
          /\ now \in 0 .. MaxTime
    BY <1>1 DEF Inv
  <2>2. loss.time_based_percentile \in 0 .. 1024
    BY <2>1 DEF Ledger, Losses, Percentiles
  <2>3. TypeOK
    BY <2>1, <2>2 DEF TypeOK, Ledger, Apart
  <2>4. {pn \in DOMAIN loss.sentmap \cap DOMAIN loss.sentmap :
           loss.sentmap[pn].cc # 0} = InFlight(loss.sentmap)
    BY DEF InFlight
  <2>5. BytesAgree
    BY <2>1, <2>4 DEF BytesAgree, Bytes, Ledger
  <2> QED  BY <2>1, <2>3, <2>5 DEF BooksBalance
<1> QED  BY <1>1, Invariance, PTL

\* Whatever is lost, acknowledged late, marked on a PTO or retired, an item the
\* application has handed over waits to be sent or is in a packet whose loss
\* will be noticed, until it is acknowledged.
THEOREM NothingIsForgotten == Spec => []NoDataForgotten
<1>1. Inv => NoDataForgotten
  BY DEF Inv
<1> QED  BY <1>1, Invariance, PTL

\* quicly_loss_detect_loss gives a packet up only once a later one of its epoch
\* has been acknowledged.
THEOREM GivenUpBehindAck == Spec => LostOnlyBehindAck
<1>1. ASSUME Inv, [Next]_vars
      PROVE  [LostStep]_vars
  BY <1>1, InvNext
<1> QED  BY <1>1, Invariance, PTL DEF Spec, LostOnlyBehindAck, LostStep

-----------------------------------------------------------------------------
(* The alarm is ahead.  SET_ALARM asserts after sending that the alarm is in
   the future.  It is, because the alarm was never later than the time it would
   be set for now (Ahead): as long as it has not gone off that time is still to
   come, and once it has, the flight elicits an ACK and starts the PTO anew. *)

\* the time that quicly_loss_update_alarm would set the alarm for
ByLossTime(l, c) ==
  /\ l.loss_time # Never
  /\ ~InRecovery(l, c) \/ l.bytes_in_flight < c.cwnd + 1
Target(l, c) ==
  IF ByLossTime(l, c) THEN l.loss_time ELSE c.last_sent + PtoDuration(l, c)

Outstanding(l, c) == l.bytes_in_flight # 0 \/ c.send_probe

\* the alarm of l has gone off, or is not later than its target
NotLate(l, c) ==
  Outstanding(l, c) => l.alarm_at <= now \/ l.alarm_at <= Target(l, c)

Ahead == loss.sane /\ NotLate(loss, conn)

\* k has the loss_time of l, and no assertion has failed in between
Timed(l, k) == k.sane = l.sane /\ k.loss_time = l.loss_time

LEMMA UpdateTimed ==
  ASSUME NEW l \in Losses, NEW pns, NEW event \in Events
  PROVE  Timed(l, Update(l, pns, event))
<1>1. PICK b, m : Update(l, pns, event) = Booked(l, b, m)
  BY UpdateFields
<1>2. Booked(l, b, m).sane = l.sane /\ Booked(l, b, m).loss_time = l.loss_time
  BY DEF Booked, Losses
<1> QED  BY <1>1, <1>2 DEF Timed

LEMMA IterTimed ==
  ASSUME NEW l \in Losses
  PROVE  Timed(l, InitSentmapIter(l))
<1>1. PICK T : InitSentmapIter(l) = Update(l, T, "expired")
  BY Zenon DEF InitSentmapIter
<1>2. "expired" \in Events
  BY DEF Events
<1> QED  BY <1>1, <1>2, UpdateTimed

LEMMA MarkEpochTimed ==
  ASSUME NEW l \in Losses, NEW e, NEW b
  PROVE  Timed(l, MarkEpoch(l, e, b))
<1>1. "pto" \in Events
  BY DEF Events
<1> QED  BY <1>1, UpdateTimed DEF MarkEpoch

LEMMA MarkAppTimed ==
  ASSUME NEW l \in Losses, NEW b
  PROVE  Timed(l, MarkApp(l, b))
<1>1. Timed(l, l)
  BY DEF Timed
<1> QED  BY <1>1, MarkEpochTimed DEF MarkApp

LEMMA MarkOnPtoTimed ==
  ASSUME NEW alarm, NEW n \in Nat, Ledger(alarm.l, n)
  PROVE  Timed(alarm.l, MarkOnPto(alarm))
<1>1. CASE alarm.restrict
  <2>1. PICK l : l = alarm.l
    OBVIOUS
  <2>2. PICK j : j = InitSentmapIter(l)
    OBVIOUS
  <2>3. PICK b : b = alarm.min
    OBVIOUS
  <2>4. MarkOnPto(alarm) = MarkBoth(j, b)
    BY <1>1, <2>1, <2>2, <2>3, Zenon DEF MarkOnPto
  <2>5. Ledger(l, n) /\ l \in Losses
    BY <2>1 DEF Ledger
  <2>6. Ledger(j, n) /\ j \in Losses
    BY <2>2, <2>5, IterAges DEF Becomes, Ledger
  <2>7. Timed(l, j)
    BY <2>2, <2>5, IterTimed
  <2>8. Timed(j, MarkBoth(j, b))
    <3>1. CASE conn.handshaking
      <4>1. PICK x : x = MarkEpoch(j, "handshake", b)
        OBVIOUS
      <4>2. PICK d : d = b - MarkedIn(j, "handshake", b)
        OBVIOUS
      <4>3. MarkBoth(j, b) = MarkApp(x, d)
        BY <3>1, <4>1, <4>2, Zenon DEF MarkBoth
      <4>4. x \in Losses
        BY <2>6, <4>1, MarkEpochAges DEF Becomes, Ledger
      <4>5. Timed(j, x) /\ Timed(x, MarkApp(x, d))
        BY <2>6, <4>1, <4>4, MarkEpochTimed, MarkAppTimed
      <4> QED  BY <4>3, <4>5 DEF Timed
    <3>2. CASE ~conn.handshaking
      BY <2>6, <3>2, MarkAppTimed DEF MarkBoth
    <3> QED  BY <3>1, <3>2
  <2> QED  BY <2>1, <2>4, <2>7, <2>8 DEF Timed
<1>2. CASE ~alarm.restrict
  BY <1>2 DEF MarkOnPto, Timed
<1> QED  BY <1>1, <1>2

-----------------------------------------------------------------------------
(* quicly_loss_detect_loss: what is left in flight is not due yet *)

\* k has what l needs to tell what is due: l's estimates, and of its packets
\* the time and the epoch
SameClock(l, k) ==
  /\ LossDelay(k) = LossDelay(l)
  /\ k.largest_acked_plus1 = l.largest_acked_plus1
  /\ \A pn \in DOMAIN k.sentmap :
       /\ pn \in DOMAIN l.sentmap
       /\ k.sentmap[pn].sent_at = l.sentmap[pn].sent_at
       /\ k.sentmap[pn].epoch = l.sentmap[pn].epoch

LEMMA UpdateSameClock ==
  ASSUME NEW l, NEW n \in Nat, Ledger(l, n), NEW pns, NEW event \in Events
  PROVE  SameClock(l, Update(l, pns, event))
<1>1. l \in Losses
  BY DEF Ledger
<1>2. PICK b, m : /\ Update(l, pns, event) = Booked(l, b, m)
                  /\ m \in {Without(l.sentmap, pns), With(l.sentmap, pns, event)}
  BY <1>1, UpdateFields, Zenon
<1>3. PICK k : k = Booked(l, b, m)
  OBVIOUS
<1>4. /\ k.sentmap = m /\ k.largest_acked_plus1 = l.largest_acked_plus1
      /\ k.rtt = l.rtt /\ k.time_based_percentile = l.time_based_percentile
  BY <1>1, <1>3 DEF Booked, Losses
<1>5. \A pn \in DOMAIN m : /\ pn \in DOMAIN l.sentmap
                           /\ m[pn].sent_at = l.sentmap[pn].sent_at
                           /\ m[pn].epoch = l.sentmap[pn].epoch
  <2>1. CASE m = Without(l.sentmap, pns)
    BY <2>1 DEF Without
  <2>2. CASE m = With(l.sentmap, pns, event)
    <3>1. \A pn \in DOMAIN l.sentmap : l.sentmap[pn] \in Packets
      BY <1>1 DEF Losses, Sentmaps
    <3>2. ASSUME NEW p \in Packets
          PROVE  /\ Marked(p, event).sent_at = p.sent_at
                 /\ Marked(p, event).epoch = p.epoch
      BY DEF Marked, Packets
    <3> QED  BY <2>2, <3>1, <3>2 DEF With
  <2> QED  BY <1>2, <2>1, <2>2
<1>6. LossDelay(k) = LossDelay(l)
  BY <1>4 DEF LossDelay
<1> QED  BY <1>2, <1>3, <1>4, <1>5, <1>6 DEF SameClock

\* A packet that the first loop leaves in flight and the second one finds behind
\* an acknowledged one is not due.
LEMMA LeftInFlight ==
  ASSUME NEW l, NEW n \in Nat, Ledger(l, n), now \in Nat, conn \in Conns,
         NEW k, k = Rewound(MarkLost(l)), Ledger(k, n),
         NEW pn \in DOMAIN k.sentmap, k.sentmap[pn].cc # 0,
         \A p \in DOMAIN k.sentmap : p <= pn => BelowLargest(k, p)
  PROVE  Deadline(k, pn) > now
<1>1. PICK lost : lost = LostPackets(l, ~conn.handshaking)
  OBVIOUS
<1>2. PICK j : j = MarkLost(l)
  OBVIOUS
<1>3. "lost" \in Events /\ "expired" \in Events
  BY DEF Events
<1>4. Ledger(j, n) /\ l \in Losses /\ j \in Losses /\ k \in Losses
  BY <1>2, MarkLostAges DEF Becomes, Ledger
<1>5. \A p \in DOMAIN l.sentmap : p \in Nat /\ l.sentmap[p] \in Packets
  <2>1. PICK D \in SUBSET Nat : l.sentmap \in [D -> Packets]
    BY ONLY <1>4 DEF Losses, Sentmaps
  <2> QED  BY ONLY <2>1
<1>6. j.sentmap = With(l.sentmap, lost, "lost") /\ SameClock(l, j)
  <2>1. j = Update(l, lost, "lost")
    BY <1>1, <1>2, Zenon DEF MarkLost
  <2>2. PICK b : j = Booked(l, b, With(l.sentmap, lost, "lost"))
    BY <1>3, <1>4, <2>1, UpdateFields
  <2>3. Booked(l, b, With(l.sentmap, lost, "lost")).sentmap
          = With(l.sentmap, lost, "lost")
    BY <1>4 DEF Booked, Losses
  <2> QED  BY <1>3, <2>1, <2>2, <2>3, UpdateSameClock
<1>7. /\ SameClock(j, k)
      /\ \A p \in InFlight(j.sentmap) : p \in DOMAIN k.sentmap
      /\ pn \in DOMAIN j.sentmap /\ k.sentmap[pn].cc = j.sentmap[pn].cc
  <2>1. CASE conn.handshaking
    <3>1. k = InitSentmapIter(j)
      BY <1>2, <2>1, Zenon DEF Rewound
    <3>2. PICK T : k = Update(j, T, "expired")
      BY <3>1, Zenon DEF InitSentmapIter
    <3>3. SameClock(j, k)
      BY <1>3, <1>4, <3>2, UpdateSameClock
    <3>4. \A p \in InFlight(j.sentmap) : p \in DOMAIN k.sentmap
      BY <1>4, <3>1, IterAges
    <3>5. k.sentmap = Without(j.sentmap, T)
      <4>1. PICK b : k = Booked(j, b, Without(j.sentmap, T))
        BY <1>3, <1>4, <3>2, UpdateFields
      <4>2. Booked(j, b, Without(j.sentmap, T)).sentmap = Without(j.sentmap, T)
        BY <1>4 DEF Booked, Losses
      <4> QED  BY <4>1, <4>2
    <3>6. pn \in DOMAIN j.sentmap /\ k.sentmap[pn] = j.sentmap[pn]
      BY <3>5 DEF Without
    <3> QED  BY <3>3, <3>4, <3>6
  <2>2. CASE ~conn.handshaking
    <3>1. k = j
      BY <1>2, <2>2, Zenon DEF Rewound
    <3> QED  BY <3>1 DEF SameClock, InFlight
  <2> QED  BY <2>1, <2>2
<1>8. /\ pn \in DOMAIN l.sentmap /\ pn \notin lost /\ l.sentmap[pn].cc # 0
  <2>1. j.sentmap[pn].cc # 0 /\ pn \in DOMAIN l.sentmap
    BY <1>6, <1>7 DEF SameClock
  <2>2. l.sentmap[pn] \in Packets
    BY <1>5, <2>1
  <2>3. pn \in lost => j.sentmap[pn] = Marked(l.sentmap[pn], "lost")
    BY <1>6, <2>1 DEF With
  <2>4. Marked(l.sentmap[pn], "lost").cc = 0
    BY <2>2 DEF Marked, Packets
  <2>5. pn \notin lost
    BY <2>1, <2>3, <2>4
  <2>6. j.sentmap[pn] = l.sentmap[pn]
    BY <1>6, <2>1, <2>5 DEF With
  <2> QED  BY <2>1, <2>5, <2>6
<1>9. \A p \in DOMAIN k.sentmap :
        /\ p \in DOMAIN l.sentmap /\ p \in Nat
        /\ l.sentmap[p].sent_at \in Nat
        /\ k.sentmap[p].sent_at = l.sentmap[p].sent_at
        /\ BelowLargest(k, p) => BelowLargest(l, p)
  <2>1. \A p \in DOMAIN l.sentmap : p \in Nat /\ l.sentmap[p].sent_at \in Nat
    BY ONLY <1>5 DEF Packets
  <2> QED  BY <1>6, <1>7, <2>1 DEF SameClock, BelowLargest
<1>10. LossDelay(k) = LossDelay(l) /\ LossDelay(l) \in Int
  BY <1>4, <1>6, <1>7, LossDelayIs DEF SameClock
<1>11. ASSUME NEW p \in DOMAIN k.sentmap, p <= pn, ~OutsideWindows(l, p)
       PROVE  Deadline(k, pn) > now
  <2>1. ~(Deadline(l, p) <= now)
    BY <1>11 DEF OutsideWindows
  <2>2. l.sentmap[p].sent_at <= l.sentmap[pn].sent_at
    <3>1. p < pn \/ p = pn
      BY <1>9, <1>11
    <3> QED  BY <1>9, <3>1 DEF Ledger
  <2>3. l.sentmap[p].sent_at \in Nat /\ l.sentmap[pn].sent_at \in Nat
          /\ k.sentmap[pn].sent_at = l.sentmap[pn].sent_at
    BY <1>9
  <2> QED  BY <1>10, <2>1, <2>2, <2>3 DEF Deadline
<1>12. BelowLargest(l, pn) /\ pn <= pn
  BY <1>9
<1>13. CASE ~OutsideWindows(l, pn)
  BY <1>11, <1>12, <1>13
<1>14. CASE OutsideWindows(l, pn)
  <2>1. /\ ~conn.handshaking
        /\ \E p \in DOMAIN l.sentmap :
             p < pn /\ ~(BelowLargest(l, p) /\ OutsideWindows(l, p))
    BY <1>1, <1>8, <1>12, <1>14 DEF LostPackets
  <2>2. PICK p \in DOMAIN l.sentmap :
          p < pn /\ ~(BelowLargest(l, p) /\ OutsideWindows(l, p))
    BY <2>1
  <2>3. p \in DOMAIN k.sentmap
    <3>1. k = j
      BY <1>2, <2>1, Zenon DEF Rewound
    <3> QED  BY <1>6, <3>1 DEF With
  <2>4. p \in Nat /\ pn \in Nat /\ p <= pn
    BY <1>9, <2>2, <2>3
  <2>5. BelowLargest(l, p)
    BY <1>9, <2>3, <2>4
  <2> QED  BY <1>11, <2>2, <2>3, <2>4, <2>5
<1> QED  BY <1>13, <1>14

\* The assertion of quicly_loss_detect_loss holds: the loss_time it sets is in
\* the future.
LEMMA DetectLossAhead ==
  ASSUME NEW l, NEW n \in Nat, Ledger(l, n), now \in 0 .. MaxTime,
         conn \in Conns
  PROVE  DetectLoss(l).sane = l.sane /\ DetectLoss(l).loss_time > now
<1>1. PICK a : a = InitSentmapIter(l)
  OBVIOUS
<1>2. PICK b : b = MarkLost(a)
  OBVIOUS
<1>3. PICK c : c = Rewound(b)
  OBVIOUS
<1>4. PICK t : t = LossTime(c)
  OBVIOUS
<1>5. DetectLoss(l) = Scheduled(c, t)
  BY <1>1, <1>2, <1>3, <1>4, Zenon DEF DetectLoss, WithLossTime
<1>6. Ledger(a, n) /\ l \in Losses /\ a \in Losses
  BY <1>1, IterAges DEF Becomes, Ledger
<1>7. Ledger(b, n) /\ b \in Losses
  BY <1>2, <1>6, MarkLostAges DEF Becomes, Ledger
<1>8. Ledger(c, n) /\ c \in Losses
  BY <1>3, <1>7, RewoundAges DEF Becomes, Ledger
<1>9. Timed(l, c)
  <2>1. Timed(l, a)
    BY <1>1, <1>6, IterTimed
  <2>2. Timed(a, b)
    <3>1. "lost" \in Events
      BY DEF Events
    <3> QED  BY <1>2, <1>6, <3>1, UpdateTimed DEF MarkLost
  <2>3. Timed(b, c)
    BY <1>3, <1>7, IterTimed DEF Rewound, Timed
  <2> QED  BY <2>1, <2>2, <2>3 DEF Timed
<1>10. now \in Nat /\ Never > now /\ t \in Int
  BY <1>4, <1>8, TimeAssumption, LossTimeIs
<1>11. t > now
  <2> DEFINE waiting == {pn \in DOMAIN c.sentmap :
                           /\ c.sentmap[pn].cc # 0
                           /\ \A p \in DOMAIN c.sentmap :
                                p <= pn => BelowLargest(c, p)}
  <2>1. t = IF waiting = {} THEN Never ELSE Deadline(c, Min(waiting))
    BY <1>4, Zenon DEF LossTime
  <2>2. waiting \subseteq Nat
    BY <1>8 DEF Ledger
  <2>3. ASSUME NEW pn \in waiting PROVE Deadline(c, pn) > now
    <3>1. c = Rewound(MarkLost(a))
      BY <1>2, <1>3
    <3> QED  BY <1>6, <1>8, <1>10, <2>3, <3>1, LeftInFlight
  <2> HIDE DEF waiting
  <2>4. waiting # {} => Min(waiting) \in waiting
    BY <2>2, MinIs
  <2> QED  BY <1>10, <2>1, <2>3, <2>4
<1>12. PICK s \in BOOLEAN : s = (c.sane /\ now < t) /\ s = c.sane
  <2>1. c.sane \in BOOLEAN
    BY <1>8 DEF Losses
  <2> QED  BY <1>10, <1>11, <2>1
<1>13. Scheduled(c, t) = [c EXCEPT !.loss_time = t, !.sane = s]
  BY <1>12, Zenon DEF Scheduled
<1>14. /\ [c EXCEPT !.loss_time = t, !.sane = s].sane = s
       /\ [c EXCEPT !.loss_time = t, !.sane = s].loss_time = t
  BY <1>8 DEF Losses
<1>15. Scheduled(c, t).sane = s /\ Scheduled(c, t).loss_time = t
  BY <1>13, <1>14, Zenon
<1> QED  BY <1>5, <1>9, <1>11, <1>12, <1>15 DEF Timed

-----------------------------------------------------------------------------
(* SET_ALARM: after sending, the alarm is in the future *)

\* The target goes by these fields only.
LEMMA SameTarget ==
  ASSUME NEW l, NEW k, NEW c, Tuned(l, k), k.loss_time = l.loss_time,
         k.pto_count = l.pto_count, k.pto = l.pto
  PROVE  /\ Target(k, c) = Target(l, c)
         /\ Outstanding(k, c) = Outstanding(l, c)
<1>1. PtoDuration(k, c) = PtoDuration(l, c)
  BY DEF PtoDuration
<1>2. InRecovery(k, c) = InRecovery(l, c)
  BY DEF InRecovery, Tuned
<1>3. ByLossTime(k, c) = ByLossTime(l, c)
  BY <1>2 DEF ByLossTime, Tuned
<1> QED  BY <1>1, <1>3 DEF Target, Outstanding, Tuned

LEMMA SetAlarmAhead ==
  ASSUME NEW l \in Losses, NEW t \in Int, NEW b \in BOOLEAN, now \in Int,
         b => now < t
  PROVE  LET k == SetAlarm(l, t, b)
         IN  /\ Timed(l, k) /\ k.pto = l.pto
             /\ k.alarm_at <= now \/ k.alarm_at <= t
<1>1. CASE b
  <2>1. PICK s \in BOOLEAN : s = (l.sane /\ now < t) /\ s = l.sane
    BY <1>1 DEF Losses
  <2>2. SetAlarm(l, t, b) = [l EXCEPT !.alarm_at = t, !.sane = s]
    BY <1>1, <2>1, Zenon DEF SetAlarm
  <2> DEFINE k == [l EXCEPT !.alarm_at = t, !.sane = s]
  <2>3. k.alarm_at = t /\ k.sane = s /\ k.loss_time = l.loss_time /\ k.pto = l.pto
    BY DEF Losses
  <2> HIDE DEF k
  <2>4. Timed(l, k) /\ k.pto = l.pto /\ k.alarm_at <= t
    BY <2>1, <2>3 DEF Timed
  <2> QED  BY <2>2, <2>4, Zenon DEF k
<1>2. CASE ~b
  <2>1. PICK x \in Int : x = Max({now, t}) /\ x \in {now, t}
    BY OfTwo
  <2>2. SetAlarm(l, t, b) = [l EXCEPT !.alarm_at = x]
    BY <1>2, <2>1, Zenon DEF SetAlarm
  <2> DEFINE k == [l EXCEPT !.alarm_at = x]
  <2>3. /\ k.alarm_at = x /\ k.sane = l.sane /\ k.loss_time = l.loss_time
        /\ k.pto = l.pto
    BY DEF Losses
  <2> HIDE DEF k
  <2>4. /\ Timed(l, k) /\ k.pto = l.pto
        /\ k.alarm_at <= now \/ k.alarm_at <= t
    BY <2>1, <2>3 DEF Timed
  <2> QED  BY <2>2, <2>4, Zenon DEF k
<1> QED  BY <1>1, <1>2

\* quicly_loss_update_alarm sets the alarm not later than its target; after
\* sending, the target has to be in the future.
LEMMA UpdateSendAlarmAhead ==
  ASSUME NumSpeculativePtos = 0,
         NEW l \in Losses, NEW c \in Conns, NEW i, NEW b \in BOOLEAN,
         now \in 0 .. MaxTime, l.pto_count <= MaxPn,
         b /\ Outstanding(l, c) => now < Target(l, c)
  PROVE  LET k == UpdateSendAlarm(l, c, i, b)
         IN  k.sane = l.sane /\ NotLate(k, c)
<1> DEFINE k == UpdateSendAlarm(l, c, i, b)
<1>1. now \in Int /\ l.loss_time \in Int
  BY TimeAssumption DEF Losses
<1>2. PICK d \in Int : d = PtoDuration(l, c)
  BY PtoTakesTime, TimeAssumption
<1>3. PICK t \in Int : t = Target(l, c)
  <2>1. c.last_sent + d \in Int
    BY TimeAssumption DEF Conns
  <2> QED  BY <1>1, <1>2, <2>1 DEF Target
<1>4. CASE ~Outstanding(l, c)
  <2> DEFINE j == [l EXCEPT !.alarm_at = Never, !.loss_time = Never]
  <2>1. k = j
    BY <1>4, Zenon DEF UpdateSendAlarm, Outstanding
  <2>2. j.sane = l.sane /\ j.bytes_in_flight = l.bytes_in_flight
    BY DEF Losses
  <2> HIDE DEF j
  <2> QED  BY <1>4, <2>1, <2>2 DEF NotLate, Outstanding
<1>5. CASE Outstanding(l, c)
  <2>1. k = SetAlarm(l, t, b)
    <3>1. WithTail(l, c, i) = l
      BY DEF WithTail
    <3>2. CASE ByLossTime(l, c)
      <4>1. t = l.loss_time
        BY <1>3, <3>2, Zenon DEF Target
      <4> QED  BY <1>5, <3>2, <4>1, Zenon
               DEF UpdateSendAlarm, Outstanding, ByLossTime
    <3>3. CASE ~ByLossTime(l, c)
      <4>1. t = c.last_sent + PtoDuration(l, c)
        BY <1>3, <3>3, Zenon DEF Target
      <4> QED  BY <1>5, <3>1, <3>3, <4>1, Zenon
               DEF UpdateSendAlarm, Outstanding, ByLossTime, PtoAlarm
    <3> QED  BY <3>2, <3>3
  <2>2. b => now < t
    BY <1>3, <1>5
  <2>3. Tuned(l, k) /\ k.pto_count = l.pto_count
    BY <1>1, <2>1, SetAlarmIs
  <2>4. /\ Timed(l, k) /\ k.pto = l.pto
        /\ k.alarm_at <= now \/ k.alarm_at <= t
    BY <1>1, <2>1, <2>2, SetAlarmAhead
  <2> HIDE DEF k
  <2>5. Target(k, c) = t
    BY <1>3, <2>3, <2>4, SameTarget DEF Timed
  <2> QED  BY <2>4, <2>5 DEF k, Timed, NotLate
<1> QED  BY <1>4, <1>5

\* commit_send_packet adds the bytes of the packets that elicit an ACK.
LEMMA CommittedTimed ==
  ASSUME NEW l \in Losses, NEW f, NEW S, Flight(f, S)
  PROVE  LET k == Committed(l, f)
         IN  /\ Timed(l, k) /\ k.pto = l.pto
             /\ k.bytes_in_flight >= l.bytes_in_flight
             /\ ~Elicits(f) => k.bytes_in_flight = l.bytes_in_flight
<1>1. PICK E : E = {j \in DOMAIN f : f[j].cc # 0}
  OBVIOUS
<1>2. Len(f) \in Nat /\ DOMAIN f = 1 .. Len(f)
  BY DEF Flight
<1>3. IsFiniteSet(E) /\ Cardinality(E) \in Nat
  <2>1. IsFiniteSet(1 .. Len(f))
    BY <1>2, FS_Interval
  <2>2. E \subseteq 1 .. Len(f)
    BY <1>1, <1>2
  <2> QED  BY <2>1, <2>2, FS_Subset, FS_CardinalityType
<1>4. ~Elicits(f) => Cardinality(E) = 0
  <2>1. ~Elicits(f) => E = {}
    BY <1>1, <1>2 DEF Elicits, Flight, Fresh
  <2> QED  BY <2>1, FS_EmptySet
<1>5. PICK m : m = [pn \in DOMAIN l.sentmap \union Numbers(Len(f)) |->
                      IF pn \in DOMAIN l.sentmap THEN l.sentmap[pn]
                      ELSE f[pn - conn.packet_number + 1]]
  OBVIOUS
<1>6. PICK n \in Int : n = l.bytes_in_flight + Cardinality(E)
  BY <1>3 DEF Losses
<1>7. Committed(l, f) = [l EXCEPT !.sentmap = m, !.bytes_in_flight = n]
  BY <1>1, <1>5, <1>6, Zenon DEF Committed
<1> DEFINE k == [l EXCEPT !.sentmap = m, !.bytes_in_flight = n]
<1>8. /\ k.sane = l.sane /\ k.loss_time = l.loss_time /\ k.pto = l.pto
      /\ k.bytes_in_flight = n
  BY DEF Losses
<1> HIDE DEF k
<1>9. /\ Timed(l, k) /\ k.pto = l.pto
      /\ k.bytes_in_flight >= l.bytes_in_flight
      /\ ~Elicits(f) => k.bytes_in_flight = l.bytes_in_flight
  BY <1>3, <1>4, <1>6, <1>8 DEF Timed, Losses
<1> QED  BY <1>7, <1>9, Zenon DEF k

-----------------------------------------------------------------------------
(* do_send *)

\* Once quicly_loss_on_alarm has run, nothing is due; it breaks no assertion.
LEMMA AlarmTimed ==
  ASSUME Inv, NEW l, l = MarkOnPto(OnAlarm), loss.alarm_at <= now
  PROVE  l.sane = loss.sane /\ l.loss_time > now
<1>1. PICK n \in Nat : n = conn.packet_number
  BY InvFacts
<1>2. /\ now \in 0 .. MaxTime /\ now \in Nat /\ conn \in Conns
      /\ Ledger(loss, n) /\ loss \in Losses
  BY <1>1, InvFacts DEF Ledger
<1>3. PICK alarm : alarm = OnAlarm
  OBVIOUS
<1>4. loss.alarm_at \in Int /\ loss.loss_time \in Int /\ Never \in Int
        /\ loss.pto_count \in Int
  BY <1>2, TimeAssumption DEF Losses, Counts
<1>5. ~(loss.alarm_at > now)
  BY <1>2, <1>4
<1>6. CASE loss.loss_time <= now
  <2>1. PICK off : off = [loss EXCEPT !.alarm_at = Never]
    OBVIOUS
  <2>2. /\ off \in Losses /\ Tuned(loss, off) /\ off.sane = loss.sane
    <3>1. [loss EXCEPT !.alarm_at = Never] \in Losses
      BY <1>2, <1>4 DEF Losses
    <3>2. /\ [loss EXCEPT !.alarm_at = Never].sentmap = loss.sentmap
          /\ [loss EXCEPT !.alarm_at = Never].sane = loss.sane
          /\ [loss EXCEPT !.alarm_at = Never].bytes_in_flight
               = loss.bytes_in_flight
          /\ [loss EXCEPT !.alarm_at = Never].largest_acked_plus1
               = loss.largest_acked_plus1
      BY <1>2 DEF Losses
    <3> QED  BY <2>1, <3>1, <3>2, Zenon DEF Tuned
  <2>3. alarm = [l |-> DetectLoss(off), min |-> 1, restrict |-> FALSE]
    BY <1>3, <1>5, <1>6, <2>1, Zenon DEF OnAlarm
  <2>4. alarm.l = DetectLoss(off) /\ ~alarm.restrict
    BY <2>3
  <2>5. l = DetectLoss(off)
    BY <1>3, <2>4, Zenon DEF MarkOnPto
  <2>6. Ledger(off, n)
    BY <1>2, <2>2, TunedFollows
  <2> QED  BY <1>2, <2>2, <2>5, <2>6, DetectLossAhead
<1>7. CASE ~(loss.loss_time <= now)
  <2>1. PICK pto : pto = [loss EXCEPT !.alarm_at = Never, !.pto_count = @ + 1]
    OBVIOUS
  <2>2. Tuned(loss, pto) /\ Timed(loss, pto)
    <3>1. PICK q \in Counts : q = loss.pto_count + 1
      BY <1>2, <1>4, LossAssumption DEF Losses, Counts
    <3> DEFINE k == [loss EXCEPT !.alarm_at = Never, !.pto_count = q]
    <3>2. pto = k
      BY <2>1, <3>1, Zenon
    <3>3. k \in Losses
      BY <1>2, <1>4 DEF Losses
    <3>4. /\ k.sentmap = loss.sentmap /\ k.bytes_in_flight = loss.bytes_in_flight
          /\ k.largest_acked_plus1 = loss.largest_acked_plus1
          /\ k.sane = loss.sane /\ k.loss_time = loss.loss_time
      BY <1>2 DEF Losses
    <3> HIDE DEF k
    <3> QED  BY <3>2, <3>3, <3>4, Zenon DEF Tuned, Timed
  <2>3. PICK m : alarm = [l |-> pto, min |-> m, restrict |-> TRUE]
    BY <1>3, <1>5, <1>7, <2>1, Zenon DEF OnAlarm
  <2>4. alarm.l = pto
    BY <2>3
  <2>5. Ledger(alarm.l, n)
    BY <1>2, <2>2, <2>4, TunedFollows
  <2>6. Timed(alarm.l, l)
    BY <1>3, <2>5, MarkOnPtoTimed
  <2> QED  BY <1>2, <1>4, <1>7, <2>2, <2>4, <2>6 DEF Timed
<1> QED  BY <1>6, <1>7

\* The alarm that do_send sets is in the future: a flight that elicits an ACK
\* starts the PTO anew, and no other moves the target.
LEMMA DepartAhead ==
  ASSUME NumSpeculativePtos = 0, Inv, Ahead, NEW l, NEW c, NEW pending, NEW f,
         NEW ack, NEW skip, Sends(l, c, pending, f),
         Depart(l, c, pending, f, ack, skip)
  PROVE  Ahead'
<1>1. PICK n \in Nat : n = conn.packet_number
  BY InvFacts
<1>2. /\ now \in 0 .. MaxTime /\ now \in Nat /\ conn \in Conns
      /\ Ledger(loss, n) /\ loss \in Losses /\ MaxPn \in Nat
      /\ MaxTime \in Nat /\ n <= MaxPn /\ loss.pto_count <= n
  <2>1. conn \in Conns /\ Ledger(loss, n)
    BY <1>1, InvFacts
  <2>2. n <= MaxPn
    BY <1>1, <2>1 DEF Conns
  <2>3. loss \in Losses
    BY <2>1 DEF Ledger
  <2> QED  BY <1>1, <2>1, <2>2, <2>3, InvFacts
<1>3. /\ Ledger(l, n) /\ l \in Losses /\ c \in Conns
      /\ l = MarkOnPto(OnAlarm) /\ Flight(f, pending)
      /\ c.packet_number = n /\ l.pto_count <= n + Len(f)
      /\ IF loss.alarm_at <= now THEN Elicits(f) ELSE l = loss /\ c = conn
  <2>1. Ledger(l, conn.packet_number)
    BY DEF Sends
  <2> QED  BY <1>1, <2>1 DEF Sends, Ledger
<1>4. Len(f) \in Nat
  BY <1>3 DEF Flight
<1>5. /\ n + Len(f) <= MaxPn /\ now' = now
      /\ conn' = Advanced(c, f)
      /\ loss' = UpdateSendAlarm(Committed(l, f), conn', items', TRUE)
  BY <1>1 DEF Depart
<1>6. PICK k : k = Committed(l, f)
  OBVIOUS
<1>7. PICK d : d = conn'
  OBVIOUS
<1>8. /\ k \in Losses /\ k.pto_count = l.pto_count /\ k.pto_count <= MaxPn
      /\ k.largest_acked_plus1 = l.largest_acked_plus1
  <2>1. Ledger(k, n + Len(f)) /\ Carries(l, k, n, f)
    BY <1>1, <1>2, <1>3, <1>6, CommittedIs
  <2>2. k \in Losses /\ k.pto_count = l.pto_count
    BY <2>1 DEF Ledger, Carries
  <2>3. k.pto_count \in Int
    BY <2>2 DEF Losses, Counts
  <2> QED  BY <1>2, <1>3, <1>4, <1>5, <2>1, <2>2, <2>3 DEF Carries
<1>9. /\ Timed(l, k) /\ k.pto = l.pto
      /\ k.bytes_in_flight >= l.bytes_in_flight
      /\ ~Elicits(f) => k.bytes_in_flight = l.bytes_in_flight
  BY <1>3, <1>6, CommittedTimed
<1>10. /\ d \in Conns /\ d.handshaking = c.handshaking /\ d.cwnd = c.cwnd
       /\ d.recovery_end = c.recovery_end /\ d.send_probe = c.send_probe
       /\ d.last_sent = IF Elicits(f) THEN now ELSE c.last_sent
  <2>1. PICK t \in 0 .. MaxTime :
          t = IF Elicits(f) THEN now ELSE c.last_sent
    BY <1>2, <1>3 DEF Conns
  <2>2. PICK p \in 0 .. MaxPn : p = c.packet_number + Len(f)
    BY <1>2, <1>3, <1>4, <1>5
  <2> DEFINE e == [c EXCEPT !.packet_number = p, !.last_sent = t]
  <2>3. d = e
    BY <1>5, <1>7, <2>1, <2>2, Zenon DEF Advanced, Elicits
  <2>4. e \in Conns
    BY <1>3 DEF Conns
  <2>5. /\ e.handshaking = c.handshaking /\ e.cwnd = c.cwnd
        /\ e.recovery_end = c.recovery_end /\ e.send_probe = c.send_probe
        /\ e.last_sent = t
    BY <1>3 DEF Conns
  <2> HIDE DEF e
  <2> QED  BY <2>1, <2>3, <2>4, <2>5
<1>11. InRecovery(k, d) = InRecovery(l, c)
  BY <1>8, <1>10 DEF InRecovery
<1>12. PtoDuration(k, d) = PtoDuration(l, c)
  BY <1>8, <1>9, <1>10 DEF PtoDuration
<1>13. PtoDuration(k, d) \in Nat /\ PtoDuration(k, d) > 0
  <2>1. PtoDuration(k, d) \in 1 .. Never - MaxTime - 1
    BY <1>8, PtoTakesTime
  <2> QED  BY <2>1, TimeAssumption
<1>14. ByLossTime(k, d) => ByLossTime(l, c)
  <2>1. /\ k.bytes_in_flight \in Int /\ l.bytes_in_flight \in Int
        /\ c.cwnd \in Nat
    BY <1>3, <1>8 DEF Losses, Conns
  <2>2. k.bytes_in_flight < d.cwnd + 1 => l.bytes_in_flight < c.cwnd + 1
    BY <1>9, <1>10, <2>1
  <2> QED  BY <1>9, <1>11, <2>2 DEF ByLossTime, Timed
<1>15. Outstanding(loss, conn) /\ ~(loss.alarm_at <= now)
         => loss.alarm_at <= Target(loss, conn)
  BY DEF Ahead, NotLate
<1>16. loss.alarm_at \in Int /\ l.loss_time \in Int /\ k.loss_time = l.loss_time
  BY <1>2, <1>3, <1>9 DEF Losses, Timed
<1>17. ASSUME Outstanding(k, d) PROVE now < Target(k, d)
  <2>1. CASE ByLossTime(k, d)
    <3>1. Target(k, d) = l.loss_time
      BY <1>16, <2>1 DEF Target
    <3>2. CASE loss.alarm_at <= now
      <4>1. l.loss_time > now
        BY <1>3, <3>2, AlarmTimed
      <4> QED  BY <1>2, <1>16, <3>1, <4>1
    <3>3. CASE ~(loss.alarm_at <= now)
      <4>1. l = loss /\ c = conn
        BY <1>3, <3>3
      <4>2. ByLossTime(loss, conn)
        BY <1>14, <2>1, <4>1
      <4>3. Outstanding(loss, conn)
        BY <4>2 DEF Inv, TimersArmed, Outstanding, ByLossTime
      <4>4. Target(loss, conn) = l.loss_time
        BY <4>1, <4>2 DEF Target
      <4> QED  BY <1>2, <1>15, <1>16, <3>1, <3>3, <4>3, <4>4
    <3> QED  BY <3>2, <3>3
  <2>2. CASE ~ByLossTime(k, d)
    <3>1. Target(k, d) = d.last_sent + PtoDuration(k, d)
      BY <2>2 DEF Target
    <3>2. CASE Elicits(f)
      <4>1. d.last_sent = now
        BY <1>10, <3>2
      <4> QED  BY <1>2, <1>13, <3>1, <4>1
    <3>3. CASE ~Elicits(f)
      <4>1. ~(loss.alarm_at <= now) /\ l = loss /\ c = conn
        BY <1>3, <3>3
      <4>2. Outstanding(loss, conn)
        BY <1>9, <1>10, <1>17, <3>3, <4>1 DEF Outstanding
      <4>3. ~ByLossTime(loss, conn)
        BY <1>9, <1>10, <1>11, <2>2, <3>3, <4>1 DEF ByLossTime, Timed
      <4>4. Target(loss, conn) = Target(k, d)
        BY <1>10, <1>12, <3>1, <3>3, <4>1, <4>3 DEF Target
      <4>5. Target(k, d) \in Int
        BY <1>10, <1>13, <3>1 DEF Conns
      <4> QED  BY <1>2, <1>15, <1>16, <4>1, <4>2, <4>4, <4>5
    <3> QED  BY <3>2, <3>3
  <2> QED  BY <2>1, <2>2
<1>18. l.sane
  <2>1. CASE loss.alarm_at <= now
    BY <1>3, <2>1, AlarmTimed DEF Ahead
  <2>2. CASE ~(loss.alarm_at <= now)
    BY <1>3, <2>2 DEF Ahead
  <2> QED  BY <2>1, <2>2
<1>19. PICK i : i = items'
  OBVIOUS
<1>20. PICK j : j = UpdateSendAlarm(k, d, i, TRUE)
  OBVIOUS
<1>21. j.sane = k.sane /\ NotLate(j, d)
  BY <1>2, <1>8, <1>10, <1>17, <1>20, UpdateSendAlarmAhead
<1>22. loss' = j
  BY <1>5, <1>6, <1>7, <1>19, <1>20, Zenon
<1>23. loss'.sane
  BY <1>9, <1>18, <1>21, <1>22 DEF Timed
<1>24. NotLate(loss, conn)'
  BY <1>5, <1>7, <1>21, <1>22
     DEF NotLate, Outstanding, Target, ByLossTime, InRecovery, PtoDuration
<1> QED  BY <1>23, <1>24 DEF Ahead

-----------------------------------------------------------------------------
(* The other handlers set the alarm to now if its target has passed *)

LEMMA RearmedAhead ==
  ASSUME NumSpeculativePtos = 0, Inv, Inv', NEW l,
         Becomes(loss, l, conn.packet_number), l.sane, now' = now,
         loss' = UpdateSendAlarm(l, conn', items', FALSE)
  PROVE  Ahead'
<1>1. /\ l \in Losses /\ l.pto_count <= MaxPn /\ now \in 0 .. MaxTime
  <2>1. /\ l \in Losses /\ loss \in Losses /\ conn \in Conns /\ MaxPn \in Nat
        /\ l.pto_count <= loss.pto_count /\ loss.pto_count <= conn.packet_number
        /\ now \in 0 .. MaxTime
    BY InvFacts DEF Becomes, Ledger
  <2>2. /\ l.pto_count \in Int /\ loss.pto_count \in Int
        /\ conn.packet_number \in 0 .. MaxPn
    BY <2>1 DEF Losses, Counts, Conns
  <2> QED  BY <2>1, <2>2
<1>2. PICK d \in Conns : d = conn'
  BY DEF Inv
<1>3. PICK i : i = items'
  OBVIOUS
<1>4. PICK j : j = UpdateSendAlarm(l, d, i, FALSE)
  OBVIOUS
<1>5. j.sane = l.sane /\ NotLate(j, d)
  BY <1>1, <1>4, UpdateSendAlarmAhead
<1>6. loss' = j
  BY <1>2, <1>3, <1>4, Zenon
<1>7. NotLate(loss, conn)'
  BY <1>2, <1>5, <1>6
     DEF NotLate, Outstanding, Target, ByLossTime, InRecovery, PtoDuration
<1> QED  BY <1>5, <1>6, <1>7 DEF Ahead

LEMMA PromotePathAhead ==
  ASSUME NumSpeculativePtos = 0, Inv, Inv', Ahead, NEW r \in Rtts, NEW cwnd,
         PromotePath(r, cwnd)
  PROVE  Ahead'
<1>1. PICK n \in Nat : n = conn.packet_number
  BY InvFacts
<1>2. Ledger(loss, n) /\ loss \in Losses
  BY <1>1, InvFacts DEF Ledger
<1>3. PICK l0 : l0 = InitSentmapIter(loss)
  OBVIOUS
<1>4. PICK l1 : l1 = Update(l0, DOMAIN l0.sentmap, "pto")
  OBVIOUS
<1>5. PICK l : l = Restarted(l0, r)
  OBVIOUS
<1>6. loss' = UpdateSendAlarm(l, conn', items', FALSE) /\ now' = now
  BY <1>3, <1>5, Zenon DEF PromotePath
<1>7. Becomes(loss, l0, n) /\ Ledger(l0, n) /\ l0 \in Losses
  BY <1>2, <1>3, IterAges DEF Becomes, Ledger
<1>8. "pto" \in Events /\ "pto" # "lost"
  BY DEF Events
<1>9. Becomes(l0, l1, n) /\ Ledger(l1, n) /\ l1 \in Losses
  BY <1>4, <1>7, <1>8, UpdateAges DEF Becomes, Ledger
<1>10. PICK a \in Nat, b \in Ptos : a = r.rtt /\ b = r.pto
  BY TimeAssumption DEF Ptos
<1> DEFINE k == [l1 EXCEPT !.rtt = a, !.pto = b]
<1>11. l = k
  BY ONLY <1>4, <1>5, <1>10, Zenon DEF Restarted
<1>12. k \in Losses
  BY ONLY <1>9, a \in Nat, b \in Ptos DEF Losses
<1>13. /\ k.sentmap = l1.sentmap /\ k.bytes_in_flight = l1.bytes_in_flight
       /\ k.largest_acked_plus1 = l1.largest_acked_plus1
       /\ k.pto_count = l1.pto_count /\ k.sane = l1.sane
  BY ONLY <1>9 DEF Losses
<1> HIDE DEF k
<1>14. Tuned(l1, k) /\ k.pto_count <= l1.pto_count
  <2>1. l1.pto_count \in Int
    BY <1>9 DEF Losses, Counts
  <2> QED  BY ONLY <1>12, <1>13, <2>1 DEF Tuned
<1>15. Becomes(loss, l, n)
  <2>1. Becomes(l1, l, n)
    BY <1>9, <1>11, <1>14, TunedBecomes
  <2>2. Becomes(loss, l1, n)
    BY <1>2, <1>7, <1>9, BecomesThen
  <2> QED  BY <1>2, <2>1, <2>2, BecomesThen
<1>16. l.sane
  <2>1. Timed(loss, l0) /\ Timed(l0, l1)
    BY <1>2, <1>3, <1>4, <1>7, <1>8, IterTimed, UpdateTimed
  <2> QED  BY <1>11, <1>13, <2>1 DEF Timed, Ahead
<1> QED  BY <1>1, <1>6, <1>15, <1>16, RearmedAhead

LEMMA DiscardHandshakeAhead ==
  ASSUME NumSpeculativePtos = 0, Inv, Inv', Ahead, DiscardHandshake
  PROVE  Ahead'
<1>1. PICK n \in Nat : n = conn.packet_number
  BY InvFacts
<1>2. Ledger(loss, n) /\ loss \in Losses
  BY <1>1, InvFacts DEF Ledger
<1>3. PICK l0 : l0 = InitSentmapIter(loss)
  OBVIOUS
<1>4. PICK l : l = Discarded(l0, "handshake")
  OBVIOUS
<1>5. loss' = UpdateSendAlarm(l, conn', items', FALSE) /\ now' = now
  BY <1>3, <1>4, Zenon DEF DiscardHandshake
<1>6. Becomes(loss, l0, n) /\ Ledger(l0, n) /\ l0 \in Losses
  BY <1>2, <1>3, IterAges DEF Becomes, Ledger
<1>7. "expired" \in Events /\ "expired" # "lost"
  BY DEF Events
<1>8. PICK gone : l = Update(l0, gone, "expired")
  BY <1>4, Zenon DEF Discarded
<1>9. Becomes(loss, l, n)
  <2>1. Becomes(l0, l, n)
    BY <1>6, <1>7, <1>8, UpdateAges
  <2> QED  BY <1>2, <1>6, <2>1, BecomesThen
<1>10. l.sane
  <2>1. Timed(loss, l0) /\ Timed(l0, l)
    BY <1>2, <1>3, <1>6, <1>7, <1>8, IterTimed, UpdateTimed
  <2> QED  BY <2>1 DEF Timed, Ahead
<1> QED  BY <1>1, <1>5, <1>9, <1>10, RearmedAhead

\* quicly_loss_on_ack_received contains no assertion of these.
LEMMA AckSane ==
  ASSUME NEW l, NEW n \in Nat, Ledger(l, n), NEW epoch, NEW acked, NEW r,
         conn \in Conns
  PROVE  OnAckReceived(l, epoch, acked, r).sane = l.sane
<1>1. PICK newly : newly = {pn \in acked : pn >= conn.pn_path_start}
  OBVIOUS
<1>2. PICK late : late = LateAcked(l, acked)
  OBVIOUS
<1>3. PICK u : u = Update(l, acked, "acked")
  OBVIOUS
<1>4. PICK v : v = PtoCountReset(u, newly)
  OBVIOUS
<1>5. PICK w : w = Relaxed(v, late)
  OBVIOUS
<1>6. PICK el : el = \E pn \in acked : l.sentmap[pn].eliciting
  OBVIOUS
<1>7. OnAckReceived(l, epoch, acked, r) = Sampled(w, epoch, newly, el, r)
  BY ONLY <1>1, <1>2, <1>3, <1>4, <1>5, <1>6, Zenon DEF OnAckReceived
<1>8. "acked" \in Events /\ "acked" # "lost" /\ l \in Losses
  BY DEF Events, Ledger
<1>9. u \in Losses /\ u.sane = l.sane
  BY <1>3, <1>8, UpdateAges, UpdateTimed DEF Becomes, Ledger, Timed
<1>10. v \in Losses /\ v.sane = u.sane
  <2>1. v \in Losses
    BY <1>4, <1>9, PtoCountResetIs DEF Tuned
  <2>2. v.sane = u.sane
    BY <1>4, <1>9 DEF PtoCountReset, Losses
  <2> QED  BY <2>1, <2>2
<1>11. w \in Losses /\ w.sane = v.sane
  <2>1. w \in Losses
    BY <1>5, <1>10, RelaxedIs DEF Tuned
  <2>2. w.sane = v.sane
    BY <1>5, <1>10 DEF Relaxed, Losses
  <2> QED  BY <2>1, <2>2
<1>12. Sampled(w, epoch, newly, el, r).sane = w.sane
  BY <1>11 DEF Sampled, Losses
<1> QED  BY <1>7, <1>9, <1>10, <1>11, <1>12

LEMMA ReceiveAckAhead ==
  ASSUME NumSpeculativePtos = 0, Inv, Inv', Ahead, NEW epoch \in Epochs,
         NEW acked, NEW r \in Rtts, NEW cwnd, NEW undo,
         ReceiveAck(epoch, acked, r, cwnd, undo)
  PROVE  Ahead'
<1>1. PICK n \in Nat : n = conn.packet_number
  BY InvFacts
<1>2. /\ Ledger(loss, n) /\ loss \in Losses /\ conn \in Conns
      /\ now \in 0 .. MaxTime
  BY <1>1, InvFacts DEF Ledger
<1>3. PICK l0 : l0 = InitSentmapIter(loss)
  OBVIOUS
<1>4. PICK known : known = acked \cap DOMAIN l0.sentmap
  OBVIOUS
<1>5. PICK l1 : l1 = OnAckReceived(l0, epoch, known, r)
  OBVIOUS
<1>6. PICK l2 : l2 = DetectLoss(l1)
  OBVIOUS
<1>7. loss' = UpdateSendAlarm(l2, conn', items', FALSE) /\ now' = now
  BY ONLY <1>3, <1>4, <1>5, <1>6,
          ReceiveAck(epoch, acked, r, cwnd, undo), ZenonT(60) DEF ReceiveAck
<1>8. Becomes(loss, l0, n) /\ Ledger(l0, n) /\ l0 \in Losses
  BY <1>2, <1>3, IterAges DEF Becomes, Ledger
<1>9. Becomes(l0, l1, n) /\ Ledger(l1, n)
  <2>1. known \subseteq DOMAIN l0.sentmap
    BY <1>4
  <2> QED  BY <1>2, <1>5, <1>8, <2>1, AckAges DEF Becomes
<1>10. Becomes(l1, l2, n)
  BY <1>6, <1>9, DetectLossAges
<1>11. Becomes(loss, l2, n)
  <2>1. Becomes(loss, l1, n)
    BY <1>2, <1>8, <1>9, BecomesThen
  <2> QED  BY <1>2, <1>10, <2>1, BecomesThen
<1>12. l2.sane
  <2>1. l0.sane = loss.sane
    BY <1>2, <1>3, IterTimed DEF Timed
  <2>2. l1.sane = l0.sane
    BY <1>2, <1>5, <1>8, AckSane
  <2>3. l2.sane = l1.sane
    BY <1>2, <1>6, <1>9, DetectLossAhead
  <2> QED  BY <2>1, <2>2, <2>3 DEF Ahead
<1> QED  BY <1>1, <1>7, <1>11, <1>12, RearmedAhead

LEMMA AheadInit ==
  ASSUME Init
  PROVE  Ahead
<1>1. PICK r \in Rtts, c \in Cwnds, probe \in BOOLEAN :
        /\ loss = [sentmap |-> <<>>, bytes_in_flight |-> 0,
                   largest_acked_plus1 |-> [e \in {"handshake", "1rtt"} |-> 0],
                   loss_time |-> Never,
                   alarm_at |-> IF probe THEN BackedOff(r.pto, 0, 0) ELSE Never,
                   pto_count |-> 0, total_bytes_sent |-> 0,
                   use_packet_based |-> TRUE,
                   time_based_percentile |-> 128, min_pn_to_relax |-> 0,
                   rtt |-> r.rtt, pto |-> r.pto, sane |-> TRUE]
        /\ conn = [packet_number |-> 0, last_sent |-> 0, cwnd |-> c,
                   recovery_end |-> 0, pn_path_start |-> 0,
                   handshaking |-> TRUE, send_probe |-> probe]
  BY DEF Init
<1>2. PICK d \in 1 .. Never - MaxTime - 1 : d = BackedOff(r.pto, 0, 0)
  BY FirstPto
<1>3. PICK a : a = IF probe THEN d ELSE Never
  OBVIOUS
<1>4. /\ loss.bytes_in_flight = 0 /\ loss.pto_count = 0 /\ loss.pto = r.pto
      /\ loss.loss_time = Never /\ loss.alarm_at = a /\ loss.sane
      /\ conn.handshaking /\ conn.send_probe = probe /\ conn.last_sent = 0
  BY ONLY <1>1, <1>2, <1>3
<1>5. PtoDuration(loss, conn) = d
  BY <1>2, <1>4 DEF PtoDuration
<1>6. Target(loss, conn) = d
  BY <1>4, <1>5 DEF Target, ByLossTime
<1>7. Outstanding(loss, conn) => loss.alarm_at = d
  BY <1>3, <1>4 DEF Outstanding
<1> QED  BY <1>4, <1>6, <1>7 DEF Ahead, NotLate

LEMMA AheadNext ==
  ASSUME NumSpeculativePtos = 0, Inv, Ahead, [Next]_vars
  PROVE  Ahead'
<1>1. Inv'
  BY InvNext
<1>2. ASSUME UNCHANGED <<loss, conn>>, now' \in Int, now \in Int, now <= now'
      PROVE  Ahead'
  <2>1. loss.sane /\ NotLate(loss, conn)
    BY DEF Ahead
  <2>2. loss.alarm_at \in Int
    BY DEF Inv, Ledger, Losses
  <2>3. loss.alarm_at <= now => loss.alarm_at <= now'
    BY <1>2, <2>2
  <2>4. NotLate(loss, conn)'
    BY <1>2, <2>1, <2>3
       DEF NotLate, Outstanding, Target, ByLossTime, InRecovery, PtoDuration
  <2> QED  BY <1>2, <2>1, <2>4 DEF Ahead
<1>3. now \in Int
  BY InvFacts
<1>4. CASE UNCHANGED vars
  BY <1>2, <1>3, <1>4 DEF vars
<1>5. ASSUME NEW ack \in BOOLEAN, NEW paced \in BOOLEAN, NEW skip \in BOOLEAN,
             NEW coalesce \in BOOLEAN, NEW cwnd \in Cwnds,
             Send(ack, paced, skip, coalesce, cwnd)
      PROVE  Ahead'
  <2>1. PICK l, c, pending, f :
          Sends(l, c, pending, f) /\ Depart(l, c, pending, f, ack, skip)
    BY <1>5, SendIs
  <2> QED  BY <2>1, DepartAhead
<1>6. ASSUME NEW item \in AppItems, Write(item) \/ ResetStream(item)
      PROVE  Ahead'
  BY <1>2, <1>3, <1>6 DEF Write, ResetStream
<1>7. ASSUME NEW epoch \in {"handshake", "1rtt"}, NEW r \in Rtts,
             NEW cwnd \in Cwnds, NEW undo \in BOOLEAN, NEW acked,
             ReceiveAck(epoch, acked, r, cwnd, undo)
      PROVE  Ahead'
  BY <1>1, <1>7, ReceiveAckAhead DEF Epochs
<1>8. CASE DiscardHandshake
  BY <1>1, <1>8, DiscardHandshakeAhead
<1>9. ASSUME NEW r \in Rtts, NEW cwnd \in Cwnds, PromotePath(r, cwnd)
      PROVE  Ahead'
  BY <1>1, <1>9, PromotePathAhead
<1>10. CASE Tick
  BY <1>2, <1>3, <1>10 DEF Tick
<1> QED  BY <1>4, <1>5, <1>6, <1>7, <1>8, <1>9, <1>10 DEF Next

\* Unless probes are sent speculatively, the assertions of
\* quicly_loss_detect_loss (what it leaves in flight is not due yet) and of
\* SET_ALARM (after sending, the alarm is in the future) never fail, however
\* sending, ACKs, losses, promotions and the clock interleave.
THEOREM AlarmsStayAhead ==
  ASSUME NumSpeculativePtos = 0
  PROVE  Spec => []AlarmsInFuture
<1>1. Init => Ahead
  BY AheadInit
<1>2. Inv /\ Ahead /\ [Next]_vars => Ahead'
  BY AheadNext
<1>3. Ahead => AlarmsInFuture
  BY DEF Ahead, AlarmsInFuture
<1> QED  BY <1>1, <1>2, <1>3, Invariance, PTL DEF Spec
=============================================================================
