---------------------------- MODULE RangesProofs ----------------------------
(***************************************************************************)
(* A list of ranges holds exactly the set that was added to it and         *)
(* subtracted from it, for lists of any length and whatever the order.     *)
(* Inv is the inductive invariant: Canonical with the order of any two     *)
(* ranges in place of neighbouring ones, which spares induction over the   *)
(* list.  Every operation replaces a stretch of the list by no more than   *)
(* two ranges (Splice), so that each comes down to which ranges lie below, *)
(* within and above the stretch.                                           *)
(***************************************************************************)
EXTENDS Ranges, SequenceTheorems, WellFoundedInduction, TLAPS

Pairs == [start : Nat, end : Nat]

\* the integers of one range
Span(x) == x.start .. x.end - 1

\* every range ends before the ones behind it begin
Ordered(r) == \A i, j \in 1 .. Len(r) : i < j => r[i].end < r[j].start
\* no range is backwards; none is empty but the one of a seeded list
Filled(r, s) ==
  \A i \in 1 .. Len(r) : \/ r[i].start < r[i].end
                         \/ s /\ i = 1 /\ r[i].start = 0 /\ r[i].end = 0
Bounded(r) == \A i \in 1 .. Len(r) : r[i].end <= Limit

Sound(r, s) == r \in Seq(Pairs) /\ Ordered(r) /\ Filled(r, s) /\ Bounded(r)

Inv ==
  /\ seeded \in BOOLEAN /\ Sound(ranges, seeded)
  /\ seeded => ranges # <<>> /\ ranges[1].start = 0
  /\ capacity \in Nat /\ Len(ranges) <= capacity
  /\ held = Members(ranges)

-----------------------------------------------------------------------------
(* The least and the greatest of a set *)

\* Every set of natural numbers has a least element.
LEMMA LeastExists ==
  ASSUME NEW T, T \subseteq Nat, T # {}
  PROVE  \E m \in T : \A k \in T : m <= k
<1>1. \E m \in T : \A k \in T : ~(k < m)
  <2>1. PICK R : R = OpToRel(<, Nat)
    OBVIOUS
  <2>2. IsWellFoundedOn(R, Nat)
    BY <2>1, NatLessThanWellFounded
  <2>3. PICK m \in T : \A k \in T : ~(<<k, m>> \in R)
    BY <2>2, WFMin
  <2>4. \A k \in T : <<k, m>> \in R <=> k < m
    BY <2>1 DEF OpToRel
  <2> QED  BY <2>3, <2>4
<1> QED  BY <1>1

\* One that is bounded has a greatest.
LEMMA GreatestExists ==
  ASSUME NEW n \in Nat, NEW T, T \subseteq 0 .. n, T # {}
  PROVE  \E m \in T : \A k \in T : k <= m
<1>1. PICK D : D = {n - k : k \in T}
  OBVIOUS
<1>2. D \subseteq Nat /\ D # {}
  <2>1. \A k \in T : n - k \in Nat
    OBVIOUS
  <2> QED  BY <1>1, <2>1
<1>3. PICK d \in D : \A k \in D : d <= k
  BY <1>2, LeastExists
<1>4. PICK m \in T : d = n - m
  BY <1>1
<1>5. ASSUME NEW k \in T PROVE k <= m
  <2>1. n - k \in D
    BY <1>1
  <2>2. n - m <= n - k
    BY <1>3, <1>4, <2>1
  <2> QED  BY <2>2
<1> QED  BY <1>5

LEMMA MinIs ==
  ASSUME NEW T, T \subseteq Nat, T # {}
  PROVE  Min(T) \in T /\ \A k \in T : Min(T) <= k
BY LeastExists DEF Min

LEMMA MaxIs ==
  ASSUME NEW n \in Nat, NEW T, T \subseteq 0 .. n, T # {}
  PROVE  Max(T) \in T /\ \A k \in T : k <= Max(T)
<1>1. \E m \in T : \A k \in T : m >= k
  BY GreatestExists
<1> QED  BY <1>1 DEF Max

\* The lesser and the greater of two.
LEMMA OfTwo ==
  ASSUME NEW a \in Nat, NEW b \in Nat
  PROVE  /\ Min({a, b}) = IF a <= b THEN a ELSE b
         /\ Max({a, b}) = IF a >= b THEN a ELSE b
<1>1. Min({a, b}) \in {a, b} /\ Min({a, b}) <= a /\ Min({a, b}) <= b
  <2>1. \E x \in {a, b} : \A y \in {a, b} : x <= y
    OBVIOUS
  <2> QED  BY <2>1 DEF Min
<1>2. Max({a, b}) \in {a, b} /\ Max({a, b}) >= a /\ Max({a, b}) >= b
  <2>1. \E x \in {a, b} : \A y \in {a, b} : x >= y
    OBVIOUS
  <2> QED  BY <2>1 DEF Max
<1> QED  BY <1>1, <1>2

-----------------------------------------------------------------------------
(* Replacing a stretch of a list *)

\* q is r with what is behind slot i and before slot j replaced by `mid`
Splice(q, r, i, mid, j) ==
  /\ q \in Seq(Pairs)
  /\ Len(q) = i + Len(mid) + Len(r) - j + 1
  /\ \A k \in 1 .. i : q[k] = r[k]
  /\ \A k \in 1 .. Len(mid) : q[i + k] = mid[k]
  /\ \A k \in 1 .. Len(r) - j + 1 : q[i + Len(mid) + k] = r[j + k - 1]

LEMMA Joined ==
  ASSUME NEW a \in Seq(Pairs), NEW mid \in Seq(Pairs), NEW b \in Seq(Pairs)
  PROVE  \E q : /\ q = (a \o mid) \o b
                /\ q \in Seq(Pairs) /\ Len(q) = Len(a) + Len(mid) + Len(b)
                /\ \A k \in 1 .. Len(a) : q[k] = a[k]
                /\ \A k \in 1 .. Len(mid) : q[Len(a) + k] = mid[k]
                /\ \A k \in 1 .. Len(b) : q[Len(a) + Len(mid) + k] = b[k]
<1>1. PICK i \in Nat, l \in Nat, h \in Nat : i = Len(a) /\ l = Len(mid) /\ h = Len(b)
  BY LenProperties
<1>2. PICK c : c = a \o mid
  OBVIOUS
<1>3. /\ c \in Seq(Pairs) /\ Len(c) = i + l
      /\ \A k \in 1 .. i + l : c[k] = IF k <= i THEN a[k] ELSE mid[k - i]
  BY <1>1, <1>2, ConcatProperties
<1>4. PICK q : q = c \o b
  OBVIOUS
<1>5. /\ q \in Seq(Pairs) /\ Len(q) = i + l + h
      /\ \A k \in 1 .. i + l + h : q[k] = IF k <= i + l THEN c[k] ELSE b[k - (i + l)]
  <2>1. PICK m \in Nat : m = Len(c) /\ m = i + l
    BY <1>3
  <2>2. /\ q \in Seq(Pairs) /\ Len(q) = m + h
        /\ \A k \in 1 .. m + h : q[k] = IF k <= m THEN c[k] ELSE b[k - m]
    <3>1. /\ c \o b \in Seq(Pairs) /\ Len(c \o b) = Len(c) + Len(b)
          /\ \A k \in 1 .. Len(c) + Len(b) :
               (c \o b)[k] = IF k <= Len(c) THEN c[k] ELSE b[k - Len(c)]
      BY <1>3, ConcatProperties, Zenon
    <3> QED  BY <1>1, <1>4, <2>1, <3>1, Zenon
  <2> QED  BY <2>1, <2>2
<1>6. ASSUME NEW k \in 1 .. i PROVE q[k] = a[k]
  BY <1>3, <1>5
<1>7. ASSUME NEW k \in 1 .. l PROVE q[i + k] = mid[k]
  <2>1. PICK x : x = i + k
    OBVIOUS
  <2>2. x \in 1 .. i + l + h /\ x \in 1 .. i + l /\ x <= i + l /\ ~(x <= i) /\ x - i = k
    BY <2>1
  <2> QED  BY <1>3, <1>5, <2>1, <2>2
<1>8. ASSUME NEW k \in 1 .. h PROVE q[i + l + k] = b[k]
  <2>1. PICK x : x = i + l + k
    OBVIOUS
  <2>2. x \in 1 .. i + l + h /\ ~(x <= i + l) /\ x - (i + l) = k
    BY <2>1
  <2> QED  BY <1>5, <2>1, <2>2
<1>9. q = (a \o mid) \o b
  BY <1>2, <1>4
<1> QED  BY <1>1, <1>5, <1>6, <1>7, <1>8, <1>9

\* The head and the tail of a list.
LEMMA Parts ==
  ASSUME NEW r \in Seq(Pairs), NEW i \in 0 .. Len(r), NEW j \in 1 .. Len(r) + 1
  PROVE  /\ SubSeq(r, 1, i) \in Seq(Pairs) /\ Len(SubSeq(r, 1, i)) = i
         /\ \A k \in 1 .. i : SubSeq(r, 1, i)[k] = r[k]
         /\ SubSeq(r, j, Len(r)) \in Seq(Pairs) /\ Len(SubSeq(r, j, Len(r))) = Len(r) - j + 1
         /\ \A k \in 1 .. Len(r) - j + 1 : SubSeq(r, j, Len(r))[k] = r[j + k - 1]
<1>1. PICK n \in Nat : n = Len(r)
  BY LenProperties
<1>2. i \in 0 .. n /\ j \in 1 .. n + 1 /\ \A k \in 1 .. n : r[k] \in Pairs
  BY <1>1, ElementOfSeq
<1>3. PICK a : a = SubSeq(r, 1, i)
  OBVIOUS
<1>4. a \in Seq(Pairs) /\ Len(a) = i /\ \A k \in 1 .. i : a[k] = r[k]
  <2>1. \A k \in 1 .. i : r[k] \in Pairs
    BY <1>2
  <2>2. /\ a \in Seq(Pairs) /\ Len(a) = IF 1 <= i THEN i - 1 + 1 ELSE 0
        /\ \A k \in 1 .. i - 1 + 1 : a[k] = r[1 + k - 1]
    BY <1>2, <1>3, <2>1, SubSeqProperties
  <2> QED  BY <1>2, <2>2
<1>5. PICK b : b = SubSeq(r, j, n)
  OBVIOUS
<1>6. /\ b \in Seq(Pairs) /\ Len(b) = n - j + 1
      /\ \A k \in 1 .. n - j + 1 : b[k] = r[j + k - 1]
  <2>1. \A k \in j .. n : r[k] \in Pairs
    BY <1>2
  <2>2. /\ b \in Seq(Pairs) /\ Len(b) = IF j <= n THEN n - j + 1 ELSE 0
        /\ \A k \in 1 .. n - j + 1 : b[k] = r[j + k - 1]
    BY <1>2, <1>5, <2>1, SubSeqProperties
  <2> QED  BY <1>2, <2>2
<1> QED  BY <1>1, <1>3, <1>4, <1>5, <1>6

LEMMA SpliceIs ==
  ASSUME NEW r \in Seq(Pairs), NEW mid \in Seq(Pairs),
         NEW i \in 0 .. Len(r), NEW j \in 1 .. Len(r) + 1
  PROVE  Splice(SubSeq(r, 1, i) \o mid \o SubSeq(r, j, Len(r)), r, i, mid, j)
<1>1. PICK n \in Nat, l \in Nat : n = Len(r) /\ l = Len(mid)
  BY LenProperties
<1>2. i \in 0 .. n /\ j \in 1 .. n + 1
  BY <1>1
<1>3. PICK a, b : a = SubSeq(r, 1, i) /\ b = SubSeq(r, j, Len(r))
  OBVIOUS
<1>4. /\ a \in Seq(Pairs) /\ Len(a) = i /\ \A k \in 1 .. i : a[k] = r[k]
      /\ b \in Seq(Pairs) /\ Len(b) = n - j + 1
      /\ \A k \in 1 .. n - j + 1 : b[k] = r[j + k - 1]
  BY <1>1, <1>3, Parts
<1>5. a \in Seq(Pairs) /\ b \in Seq(Pairs)
  BY <1>4
<1>6. PICK q : /\ q = (a \o mid) \o b
               /\ q \in Seq(Pairs) /\ Len(q) = Len(a) + Len(mid) + Len(b)
               /\ \A k \in 1 .. Len(a) : q[k] = a[k]
               /\ \A k \in 1 .. Len(mid) : q[Len(a) + k] = mid[k]
               /\ \A k \in 1 .. Len(b) : q[Len(a) + Len(mid) + k] = b[k]
  BY <1>5, Joined
<1>7. /\ q \in Seq(Pairs) /\ Len(q) = i + l + (n - j + 1)
      /\ \A k \in 1 .. i : q[k] = a[k]
      /\ \A k \in 1 .. l : q[i + k] = mid[k]
      /\ \A k \in 1 .. n - j + 1 : q[i + l + k] = b[k]
  BY <1>1, <1>4, <1>6, Zenon
<1>8. Len(q) = i + l + n - j + 1
  BY <1>2, <1>7
<1>9. ASSUME NEW k \in 1 .. n - j + 1 PROVE q[i + l + k] = r[j + k - 1]
  <2>1. q[i + l + k] = b[k]
    <3>1. \A x \in 1 .. n - j + 1 : q[i + l + x] = b[x]
      BY <1>7
    <3> QED  BY <3>1
  <2>2. b[k] = r[j + k - 1]
    BY <1>4, Zenon
  <2> QED  BY <2>1, <2>2, Zenon
<1>10. \A k \in 1 .. i : q[k] = r[k]
  BY <1>4, <1>7, Zenon
<1>11. Splice(q, r, i, mid, j)
  <2>1. Len(q) = i + Len(mid) + Len(r) - j + 1
    BY <1>1, <1>8, Zenon
  <2>2. \A k \in 1 .. Len(mid) : q[i + k] = mid[k]
    BY <1>1, <1>7, Zenon
  <2>3. \A k \in 1 .. Len(r) - j + 1 : q[i + Len(mid) + k] = r[j + k - 1]
    <3>1. \A k \in 1 .. n - j + 1 : q[i + l + k] = r[j + k - 1]
      BY <1>9
    <3> QED  BY <1>1, <3>1
  <2>4. q \in Seq(Pairs)
    BY <1>7, Zenon
  <2> QED  BY <1>10, <2>1, <2>2, <2>3, <2>4, Zenon DEF Splice
<1> QED  BY <1>3, <1>6, <1>11

LEMMA MembersAre ==
  ASSUME NEW r \in Seq(Pairs), NEW x
  PROVE  x \in Members(r) <=> \E k \in 1 .. Len(r) : x \in Span(r[k])
<1>1. DOMAIN r = 1 .. Len(r)
  BY LenProperties
<1> QED  BY <1>1 DEF Members, Span

\* where each slot of a splice comes from, and where each kept slot went
Slots(q, r, i, mid, j, n, l, N) ==
  /\ Len(q) = N
  /\ \A p \in 1 .. N :
       \/ p \in 1 .. i /\ q[p] = r[p]
       \/ p - i \in 1 .. l /\ q[p] = mid[p - i]
       \/ /\ p - i - l + j - 1 \in j .. n /\ p - i - l >= 1
          /\ q[p] = r[p - i - l + j - 1]
  /\ \A k \in 1 .. i : k \in 1 .. N /\ q[k] = r[k]
  /\ \A m \in 1 .. l : i + m \in 1 .. N /\ q[i + m] = mid[m]
  /\ \A k \in j .. n : i + l + k - j + 1 \in 1 .. N /\ q[i + l + k - j + 1] = r[k]

LEMMA SpliceSlots ==
  ASSUME NEW r \in Seq(Pairs), NEW mid \in Seq(Pairs), NEW q,
         NEW n \in Nat, n = Len(r), NEW l \in Nat, l = Len(mid),
         NEW i \in 0 .. n, NEW j \in 1 .. n + 1, NEW N \in Int, N = i + l + n - j + 1,
         Splice(q, r, i, mid, j)
  PROVE  Slots(q, r, i, mid, j, n, l, N)
<1>1. /\ Len(q) = N
      /\ \A k \in 1 .. i : q[k] = r[k]
      /\ \A k \in 1 .. l : q[i + k] = mid[k]
      /\ \A k \in 1 .. n - j + 1 : q[i + l + k] = r[j + k - 1]
  BY Zenon DEF Splice
<1>2. ASSUME NEW p \in 1 .. N
      PROVE  \/ p \in 1 .. i /\ q[p] = r[p]
             \/ p - i \in 1 .. l /\ q[p] = mid[p - i]
             \/ /\ p - i - l + j - 1 \in j .. n /\ p - i - l >= 1
                /\ q[p] = r[p - i - l + j - 1]
  <2>1. CASE p <= i
    BY <1>1, <2>1
  <2>2. CASE p > i /\ p <= i + l
    <3>1. PICK m : m = p - i
      OBVIOUS
    <3>2. m \in 1 .. l /\ i + m = p
      BY <2>2, <3>1
    <3>3. q[i + m] = mid[m]
      BY <1>1, <3>2
    <3> QED  BY <3>1, <3>2, <3>3
  <2>3. CASE p > i + l
    <3>1. PICK m : m = p - i - l
      OBVIOUS
    <3>2. m \in 1 .. n - j + 1 /\ i + l + m = p /\ j + m - 1 = p - i - l + j - 1
      BY <2>3, <3>1
    <3>3. q[i + l + m] = r[j + m - 1]
      BY <1>1, <3>2
    <3>4. j + m - 1 \in j .. n /\ m >= 1
      BY <3>2
    <3> QED  BY <3>1, <3>2, <3>3, <3>4
  <2> QED  BY <2>1, <2>2, <2>3
<1>3. \A k \in 1 .. i : k \in 1 .. N /\ q[k] = r[k]
  BY <1>1
<1>4. \A m \in 1 .. l : i + m \in 1 .. N /\ q[i + m] = mid[m]
  BY <1>1
<1>5. ASSUME NEW k \in j .. n
      PROVE  /\ i + l + k - j + 1 \in 1 .. N
             /\ q[i + l + k - j + 1] = r[k]
  <2>1. PICK m : m = k - j + 1
    OBVIOUS
  <2>2. m \in 1 .. n - j + 1 /\ j + m - 1 = k /\ i + l + m = i + l + k - j + 1
    BY <2>1
  <2>3. q[i + l + m] = r[j + m - 1]
    BY <1>1, <2>2
  <2>4. i + l + k - j + 1 \in 1 .. N
    OBVIOUS
  <2> QED  BY <2>2, <2>3, <2>4, Zenon
<1>6. Len(q) = N
  BY <1>1
<1> QED  BY <1>2, <1>3, <1>4, <1>5, <1>6, Zenon DEF Slots

\* the ranges of mid fit between what is kept, and none is empty
Fits(r, i, mid, j, n, l) ==
  /\ Ordered(mid) /\ l = Len(mid) /\ i < j
  /\ \A m \in 1 .. l : mid[m].start < mid[m].end /\ mid[m].end <= Limit
  /\ \A k \in 1 .. i : \A m \in 1 .. l : r[k].end < mid[m].start
  /\ \A k \in j .. n : \A m \in 1 .. l : mid[m].end < r[k].start
  /\ \A k \in j .. n : r[k].start < r[k].end

\* what the splice then holds
Gathers(q, r, i, mid, j, n, l) ==
  \A x : x \in Members(q) <=> \/ \E k \in 1 .. i : x \in Span(r[k])
                              \/ \E m \in 1 .. l : x \in Span(mid[m])
                              \/ \E k \in j .. n : x \in Span(r[k])

\* A splice that fits between what it keeps is sound, and holds what it keeps
\* and the ranges put in.
LEMMA SpliceSound ==
  ASSUME NEW r, NEW s, Sound(r, s), NEW mid \in Seq(Pairs), NEW q,
         NEW n \in Nat, n = Len(r), NEW l \in Nat,
         NEW i \in 0 .. n, NEW j \in 1 .. n + 1, Splice(q, r, i, mid, j),
         Fits(r, i, mid, j, n, l)
  PROVE  Sound(q, s) /\ Gathers(q, r, i, mid, j, n, l)
<1>1. /\ Ordered(mid) /\ l = Len(mid) /\ i < j
      /\ \A m \in 1 .. l : mid[m].start < mid[m].end /\ mid[m].end <= Limit
      /\ \A k \in 1 .. i : \A m \in 1 .. l : r[k].end < mid[m].start
      /\ \A k \in j .. n : \A m \in 1 .. l : mid[m].end < r[k].start
      /\ \A k \in j .. n : r[k].start < r[k].end
  BY Zenon DEF Fits
<1>2. PICK N \in Int : N = i + l + n - j + 1
  <2>1. i + l + n - j + 1 \in Int
    OBVIOUS
  <2> QED  BY <2>1, Zenon
<1>3. /\ r \in Seq(Pairs) /\ Bounded(r)
      /\ \A k, k2 \in 1 .. n : k < k2 => r[k].end < r[k2].start
      /\ \A k \in 1 .. n : \/ r[k].start < r[k].end
                           \/ s /\ k = 1 /\ r[k].start = 0 /\ r[k].end = 0
      /\ \A k \in 1 .. n : r[k].end <= Limit
  BY Zenon DEF Sound, Ordered, Filled, Bounded
<1>4. /\ Len(q) = N
      /\ \A p \in 1 .. N :
           \/ p \in 1 .. i /\ q[p] = r[p]
           \/ p - i \in 1 .. l /\ q[p] = mid[p - i]
           \/ /\ p - i - l + j - 1 \in j .. n /\ p - i - l >= 1
              /\ q[p] = r[p - i - l + j - 1]
      /\ \A k \in 1 .. i : k \in 1 .. N /\ q[k] = r[k]
      /\ \A m \in 1 .. l : i + m \in 1 .. N /\ q[i + m] = mid[m]
      /\ \A k \in j .. n : i + l + k - j + 1 \in 1 .. N /\ q[i + l + k - j + 1] = r[k]
  <2>1. Slots(q, r, i, mid, j, n, l, N)
    BY <1>1, <1>2, <1>3, SpliceSlots, Zenon
  <2> QED  BY <2>1, Zenon DEF Slots
<1>5. q \in Seq(Pairs)
  BY Zenon DEF Splice
<1>6. \A p \in 1 .. N : q[p] \in Pairs
  BY <1>4, <1>5, ElementOfSeq
<1>7. /\ \A k \in 1 .. n : r[k] \in Pairs
      /\ \A m \in 1 .. l : mid[m] \in Pairs
  BY <1>1, <1>3, ElementOfSeq
<1>8. ASSUME NEW p1 \in 1 .. N, NEW p2 \in 1 .. N, p1 < p2
      PROVE  q[p1].end < q[p2].start
  <2>1. CASE p1 \in 1 .. i /\ q[p1] = r[p1]
    <3>1. CASE p2 \in 1 .. i /\ q[p2] = r[p2]
      BY <1>3, <1>8, <2>1, <3>1
    <3>2. CASE p2 - i \in 1 .. l /\ q[p2] = mid[p2 - i]
      BY <1>1, <2>1, <3>2
    <3>3. CASE /\ p2 - i - l + j - 1 \in j .. n
               /\ q[p2] = r[p2 - i - l + j - 1]
      <4>1. p1 < p2 - i - l + j - 1 /\ p1 \in 1 .. n /\ p2 - i - l + j - 1 \in 1 .. n
        BY <1>1, <2>1, <3>3
      <4> QED  BY <1>3, <2>1, <3>3, <4>1
    <3> QED  BY <1>4, <3>1, <3>2, <3>3
  <2>2. CASE p1 - i \in 1 .. l /\ q[p1] = mid[p1 - i]
    <3>1. p2 > i
      BY <1>8, <2>2
    <3>2. CASE p2 - i \in 1 .. l /\ q[p2] = mid[p2 - i]
      <4>1. \A m, m2 \in 1 .. l : m < m2 => mid[m].end < mid[m2].start
        BY <1>1, Zenon DEF Ordered
      <4>2. p1 - i < p2 - i
        BY <1>8
      <4> QED  BY <2>2, <3>2, <4>1, <4>2
    <3>3. CASE /\ p2 - i - l + j - 1 \in j .. n
               /\ q[p2] = r[p2 - i - l + j - 1]
      BY <1>1, <2>2, <3>3
    <3> QED  BY <1>4, <3>1, <3>2, <3>3
  <2>3. CASE /\ p1 - i - l + j - 1 \in j .. n /\ p1 - i - l >= 1
             /\ q[p1] = r[p1 - i - l + j - 1]
    <3>1. p2 - i > l /\ p2 > i
      BY <1>8, <2>3
    <3>2. /\ p2 - i - l + j - 1 \in j .. n
          /\ q[p2] = r[p2 - i - l + j - 1]
      BY <1>4, <3>1
    <3>3. PICK k1 \in j .. n, k2 \in j .. n :
            k1 = p1 - i - l + j - 1 /\ k2 = p2 - i - l + j - 1
      BY <2>3, <3>2
    <3>4. k1 < k2 /\ k1 \in 1 .. n /\ k2 \in 1 .. n
      BY <1>8, <3>3
    <3>5. r[k1].end < r[k2].start
      BY <1>3, <3>4
    <3> QED  BY <2>3, <3>2, <3>3, <3>5
  <2> QED  BY <1>4, <2>1, <2>2, <2>3
<1>9. ASSUME NEW p \in 1 .. N
      PROVE  /\ q[p].end <= Limit
             /\ \/ q[p].start < q[p].end
                \/ s /\ p = 1 /\ q[p].start = 0 /\ q[p].end = 0
  <2>1. CASE p \in 1 .. i /\ q[p] = r[p]
    BY <1>3, <2>1
  <2>2. CASE p - i \in 1 .. l /\ q[p] = mid[p - i]
    BY <1>1, <2>2
  <2>3. CASE p - i - l + j - 1 \in j .. n /\ q[p] = r[p - i - l + j - 1]
    <3>1. p - i - l + j - 1 \in 1 .. n
      BY <1>1, <2>3
    <3> QED  BY <1>1, <1>3, <2>3, <3>1
  <2> QED  BY <1>4, <2>1, <2>2, <2>3
<1>10. Sound(q, s)
  BY <1>4, <1>5, <1>8, <1>9, Zenon DEF Sound, Ordered, Filled, Bounded
<1>11. ASSUME NEW x
      PROVE  x \in Members(q) <=> \/ \E k \in 1 .. i : x \in Span(r[k])
                                  \/ \E m \in 1 .. l : x \in Span(mid[m])
                                  \/ \E k \in j .. n : x \in Span(r[k])
  <2>1. x \in Members(q) <=> \E p \in 1 .. N : x \in Span(q[p])
    BY <1>4, <1>5, MembersAre
  <2>2. ASSUME NEW p \in 1 .. N, x \in Span(q[p])
        PROVE  \/ \E k \in 1 .. i : x \in Span(r[k])
               \/ \E m \in 1 .. l : x \in Span(mid[m])
               \/ \E k \in j .. n : x \in Span(r[k])
    BY <1>4, <2>2, Zenon
  <2>3. ASSUME NEW k \in 1 .. i, x \in Span(r[k])
        PROVE  \E p \in 1 .. N : x \in Span(q[p])
    BY <1>4, <2>3, Zenon
  <2>4. ASSUME NEW m \in 1 .. l, x \in Span(mid[m])
        PROVE  \E p \in 1 .. N : x \in Span(q[p])
    BY <1>4, <2>4, Zenon
  <2>5. ASSUME NEW k \in j .. n, x \in Span(r[k])
        PROVE  \E p \in 1 .. N : x \in Span(q[p])
    BY <1>4, <2>5, Zenon
  <2> QED  BY <2>1, <2>2, <2>3, <2>4, <2>5, Zenon
<1> QED  BY <1>10, <1>11, Zenon DEF Gathers

-----------------------------------------------------------------------------
(* The ways in which the operations splice *)

LEMMA DropIs ==
  ASSUME NEW r \in Seq(Pairs), NEW b \in 1 .. Len(r) + 1, NEW e \in 1 .. Len(r) + 1
  PROVE  Splice(DropSlots(r, b, e), r, b - 1, <<>>, e)
<1>1. PICK n \in Nat : n = Len(r)
  BY LenProperties
<1>2. PICK i \in 0 .. n : i = b - 1
  BY <1>1
<1>3. PICK h, t : h = SubSeq(r, 1, i) /\ t = SubSeq(r, e, Len(r))
  OBVIOUS
<1>4. h \in Seq(Pairs)
  BY <1>1, <1>2, <1>3, Parts
<1>5. <<>> \in Seq(Pairs)
  OBVIOUS
<1>6. Splice(SubSeq(r, 1, i) \o <<>> \o SubSeq(r, e, Len(r)), r, i, <<>>, e)
  BY <1>1, <1>5, SpliceIs
<1>7. h \o <<>> = h
  BY <1>4, ConcatEmptySeq
<1>8. Splice(h \o t, r, i, <<>>, e)
  BY <1>3, <1>6, <1>7, Zenon
<1> QED  BY <1>2, <1>3, <1>8, Zenon DEF DropSlots

LEMMA InsertIs ==
  ASSUME NEW r \in Seq(Pairs), NEW p \in 1 .. Len(r) + 1, NEW x \in Pairs
  PROVE  Splice(InsertAt(r, p, x), r, p - 1, <<x>>, p)
<1>1. PICK n \in Nat : n = Len(r)
  BY LenProperties
<1>2. PICK i \in 0 .. n : i = p - 1
  BY <1>1
<1>3. <<x>> \in Seq(Pairs)
  OBVIOUS
<1>4. Splice(SubSeq(r, 1, i) \o <<x>> \o SubSeq(r, p, Len(r)), r, i, <<x>>, p)
  BY <1>1, <1>3, SpliceIs
<1> QED  BY <1>2, <1>4, Zenon DEF InsertAt

\* slots a .. b become one range
LEMMA MergeIs ==
  ASSUME NEW r \in Seq(Pairs), NEW a \in 1 .. Len(r), NEW b \in a .. Len(r),
         NEW x \in Pairs
  PROVE  Splice(DropSlots(ReplaceAt(r, a, x), a + 1, b + 1), r, a - 1, <<x>>, b + 1)
<1>1. PICK n \in Nat : n = Len(r)
  BY LenProperties
<1>2. a \in 1 .. n /\ b \in a .. n /\ b \in 1 .. n
  BY <1>1
<1>3. PICK r2 : r2 = ReplaceAt(r, a, x)
  OBVIOUS
<1>4. /\ r2 \in Seq(Pairs) /\ Len(r2) = n /\ r2[a] = x
      /\ \A k \in 1 .. n : k # a => r2[k] = r[k]
  <2>1. r2 = [r EXCEPT ![a] = x]
    BY <1>3, Zenon DEF ReplaceAt
  <2>2. DOMAIN r = 1 .. n
    BY <1>1, LenProperties
  <2> QED  BY <1>1, <1>2, <2>1, <2>2, ExceptSeq
<1>5. PICK q : q = DropSlots(r2, a + 1, b + 1)
  OBVIOUS
<1>6. PICK c \in 1 .. n + 1, d \in 1 .. n + 1 : c = a + 1 /\ d = b + 1
  BY <1>2
<1>7. Splice(q, r2, c - 1, <<>>, d)
  BY <1>4, <1>5, <1>6, DropIs
<1>8. Splice(q, r2, a, <<>>, d)
  <2>1. c - 1 = a
    BY <1>2, <1>6
  <2> QED  BY <1>7, <2>1, Zenon
<1>9. /\ q \in Seq(Pairs) /\ Len(q) = a + 0 + n - d + 1
      /\ \A k \in 1 .. a : q[k] = r2[k]
      /\ \A k \in 1 .. n - d + 1 : q[a + 0 + k] = r2[d + k - 1]
  BY <1>4, <1>8, EmptySeq DEF Splice
<1>10. Len(q) = (a - 1) + 1 + n - d + 1
  BY <1>2, <1>6, <1>9
<1>11. \A k \in 1 .. a - 1 : q[k] = r[k]
  BY <1>2, <1>4, <1>9
<1>12. q[a] = x
  BY <1>2, <1>4, <1>9
<1>13. ASSUME NEW k \in 1 .. n - d + 1
      PROVE  q[(a - 1) + 1 + k] = r[d + k - 1]
  <2>1. PICK g : g = d + k - 1
    OBVIOUS
  <2>2. g \in 1 .. n /\ g # a /\ a + 0 + k = (a - 1) + 1 + k
    BY <1>2, <1>6, <2>1
  <2>3. r2[g] = r[g]
    BY <1>4, <2>2
  <2>4. q[a + 0 + k] = r2[d + k - 1]
    BY <1>9
  <2> QED  BY <2>1, <2>2, <2>3, <2>4
<1>14. Splice(q, r, a - 1, <<x>>, d)
  <2>1. PICK mid : mid = <<x>>
    OBVIOUS
  <2>2. Len(mid) = 1 /\ mid[1] = x
    BY <2>1
  <2>3. PICK i : i = a - 1
    OBVIOUS
  <2>4. \A k \in 1 .. Len(mid) : q[i + k] = mid[k]
    <3>1. ASSUME NEW k \in 1 .. 1 PROVE q[i + k] = mid[k]
      <4>1. k = 1 /\ i + k = a
        BY <1>2, <2>3
      <4> QED  BY <1>12, <2>2, <4>1
    <3> QED  BY <2>2, <3>1, Zenon
  <2>5. Len(q) = i + Len(mid) + Len(r) - d + 1
    BY <1>1, <1>10, <2>2, <2>3, Zenon
  <2>6. \A k \in 1 .. Len(r) - d + 1 : q[i + Len(mid) + k] = r[d + k - 1]
    BY <1>1, <1>13, <2>2, <2>3, Zenon
  <2>7. \A k \in 1 .. i : q[k] = r[k]
    BY <1>11, <2>3, Zenon
  <2>8. q \in Seq(Pairs)
    BY <1>9
  <2>9. Splice(q, r, i, mid, d)
    BY <2>4, <2>5, <2>6, <2>7, <2>8, Zenon DEF Splice
  <2> QED  BY <2>1, <2>3, <2>9
<1> QED  BY <1>3, <1>5, <1>6, <1>14

-----------------------------------------------------------------------------
(* Addition *)

\* a seeded list begins with zero, and always has that range
Rooted(r, s) == s => r # <<>> /\ r[1].start = 0

\* q is sound, and holds what r does and [start, end)
Adds(q, r, s, start, end) ==
  /\ Sound(q, s)
  /\ \A x : x \in Members(q) <=> x \in Members(r) \/ x \in start .. end - 1
  /\ Len(q) <= Len(r) + 1
  /\ Rooted(q, s)

LEMMA FieldsAreNat ==
  ASSUME NEW r \in Seq(Pairs), NEW k \in 1 .. Len(r)
  PROVE  r[k].start \in Nat /\ r[k].end \in Nat
<1>1. r[k] \in Pairs
  BY ElementOfSeq
<1> QED  BY <1>1 DEF Pairs

LEMMA InsertAdds ==
  ASSUME NEW r, NEW s, Sound(r, s), Rooted(r, s),
         NEW n \in Nat, n = Len(r), NEW p \in 1 .. n + 1, Limit \in Nat,
         NEW start \in 0 .. Limit, NEW end \in 0 .. Limit, start < end,
         \A k \in 1 .. p - 1 : r[k].end < start,
         \A k \in p .. n : end < r[k].start,
         s => p # 1
  PROVE  Adds(InsertAt(r, p, Interval(start, end)), r, s, start, end)
<1>1. r \in Seq(Pairs)
  BY Zenon DEF Sound
<1>2. PICK x : x = Interval(start, end)
  OBVIOUS
<1>3. x \in Pairs /\ x.start = start /\ x.end = end
  BY <1>2 DEF Interval, Pairs
<1>4. PICK mid : mid = <<x>>
  OBVIOUS
<1>5. mid \in Seq(Pairs) /\ Len(mid) = 1 /\ mid[1] = x
  BY <1>3, <1>4
<1>6. PICK q : q = InsertAt(r, p, x)
  OBVIOUS
<1>7. PICK i \in 0 .. n : i = p - 1
  OBVIOUS
<1>8. Splice(q, r, i, mid, p)
  BY <1>1, <1>3, <1>4, <1>6, <1>7, InsertIs, Zenon
<1>9. /\ Sound(q, s)
      /\ \A y : y \in Members(q) <=> \/ \E k \in 1 .. i : y \in Span(r[k])
                                     \/ \E m \in 1 .. 1 : y \in Span(mid[m])
                                     \/ \E k \in p .. n : y \in Span(r[k])
  <2>1. Ordered(mid)
    BY <1>5 DEF Ordered
  <2>2. \A m \in 1 .. 1 : mid[m] = x
    BY <1>5
  <2>3. \A m \in 1 .. 1 : mid[m].start < mid[m].end /\ mid[m].end <= Limit
    BY <1>3, <2>2
  <2>4. \A k \in 1 .. i : \A m \in 1 .. 1 : r[k].end < mid[m].start
    BY <1>3, <1>7, <2>2
  <2>5. \A k \in p .. n : \A m \in 1 .. 1 : mid[m].end < r[k].start
    BY <1>3, <2>2
  <2>6. ASSUME NEW k \in p .. n PROVE r[k].start < r[k].end
    <3>1. \/ r[k].start < r[k].end
          \/ s /\ k = 1 /\ r[k].start = 0 /\ r[k].end = 0
      BY DEF Sound, Filled
    <3>2. end < r[k].start
      OBVIOUS
    <3> QED  BY <3>1, <3>2
  <2>7. i < p /\ 1 \in Nat
    BY <1>7
  <2>8. Fits(r, i, mid, p, n, 1)
    BY <1>5, <2>1, <2>3, <2>4, <2>5, <2>6, <2>7, Zenon DEF Fits
  <2> QED  BY <1>5, <1>8, <2>7, <2>8, SpliceSound, Zenon DEF Gathers
<1>10. ASSUME NEW y
      PROVE  y \in Members(q) <=> y \in Members(r) \/ y \in start .. end - 1
  <2>1. y \in Members(r) <=> \E k \in 1 .. n : y \in Span(r[k])
    BY <1>1, MembersAre
  <2>2. (\E m \in 1 .. 1 : y \in Span(mid[m])) <=> y \in start .. end - 1
    BY <1>3, <1>5 DEF Span
  <2>3. \A k : k \in 1 .. n <=> k \in 1 .. i \/ k \in p .. n
    BY <1>7
  <2> QED  BY <1>9, <2>1, <2>2, <2>3, Zenon
<1>11. Len(q) = n + 1 /\ \A k \in 1 .. i : q[k] = r[k]
  <2>1. Len(q) = i + 1 + n - p + 1 /\ \A k \in 1 .. i : q[k] = r[k]
    BY <1>5, <1>8, Zenon DEF Splice
  <2> QED  BY <1>7, <2>1
<1>12. Rooted(q, s)
  <2>1. SUFFICES ASSUME s PROVE q # <<>> /\ q[1].start = 0
    BY DEF Rooted
  <2>2. 1 \in 1 .. i
    BY <1>7, <2>1
  <2>3. q[1] = r[1] /\ r[1].start = 0
    BY <1>11, <2>1, <2>2 DEF Rooted
  <2>4. q # <<>>
    BY <1>11, EmptySeq
  <2> QED  BY <2>3, <2>4
<1>13. Len(q) <= Len(r) + 1
  BY <1>11
<1>14. Adds(q, r, s, start, end)
  BY <1>9, <1>10, <1>12, <1>13, Zenon DEF Adds
<1> QED  BY <1>2, <1>6, <1>14

\* slots a .. b are those that touch [start, end)
LEMMA MergeAdds ==
  ASSUME NEW r, NEW s, Sound(r, s), Rooted(r, s),
         NEW n \in Nat, n = Len(r), NEW a \in 1 .. n, NEW b \in a .. n, Limit \in Nat,
         NEW start \in 0 .. Limit, NEW end \in 0 .. Limit, start < end,
         \A k \in 1 .. a - 1 : r[k].end < start,
         \A k \in b + 1 .. n : end < r[k].start,
         start <= r[a].end, r[b].start <= end
  PROVE  Adds(MergeUpdate(r, start, end, a, b), r, s, start, end)
<1>1. r \in Seq(Pairs) /\ a \in 1 .. n /\ b \in 1 .. n
  BY DEF Sound
<1>2. \A k \in 1 .. n : r[k].start \in Nat /\ r[k].end \in Nat
  BY <1>1, FieldsAreNat
<1>3. PICK sa \in Nat, ea \in Nat, sb \in Nat, eb \in Nat :
        r[a].start = sa /\ r[a].end = ea /\ r[b].start = sb /\ r[b].end = eb
  BY <1>1, <1>2
<1>4. PICK lo \in Nat : lo = Min({start, sa}) /\ lo = IF start <= sa THEN start ELSE sa
  BY OfTwo
<1>5. PICK hi \in Nat : hi = Max({end, eb}) /\ hi = IF end >= eb THEN end ELSE eb
  <2>1. end \in Nat
    OBVIOUS
  <2>2. Max({end, eb}) = IF end >= eb THEN end ELSE eb
    BY <2>1, OfTwo
  <2>3. (IF end >= eb THEN end ELSE eb) \in Nat
    BY <2>1
  <2> QED  BY <2>2, <2>3
<1>6. start <= ea /\ sb <= end
  BY <1>3
<1>7. /\ \A k, k2 \in 1 .. n : k < k2 => r[k].end < r[k2].start
      /\ \A k \in 1 .. n : r[k].start <= r[k].end /\ r[k].end <= Limit
      /\ \A k \in 2 .. n : r[k].start < r[k].end
  <2>1. /\ \A k, k2 \in 1 .. n : k < k2 => r[k].end < r[k2].start
        /\ \A k \in 1 .. n : \/ r[k].start < r[k].end
                             \/ s /\ k = 1 /\ r[k].start = 0 /\ r[k].end = 0
        /\ \A k \in 1 .. n : r[k].end <= Limit
    BY Zenon DEF Sound, Ordered, Filled, Bounded
  <2>2. \A k \in 1 .. n : r[k].start <= r[k].end
    BY <1>2, <2>1
  <2>3. \A k \in 2 .. n : r[k].start < r[k].end
    BY <2>1
  <2> QED  BY <2>1, <2>2, <2>3
<1>8. lo < hi /\ hi <= Limit /\ lo <= start /\ end <= hi
  <2>1. eb <= Limit
    BY <1>1, <1>7, <1>3
  <2> QED  BY <1>4, <1>5, <2>1
<1>9. PICK x : x = Interval(lo, hi)
  OBVIOUS
<1>10. x \in Pairs /\ x.start = lo /\ x.end = hi
  BY <1>9 DEF Interval, Pairs
<1>11. PICK mid : mid = <<x>>
  OBVIOUS
<1>12. mid \in Seq(Pairs) /\ Len(mid) = 1 /\ mid[1] = x
  BY <1>10, <1>11
<1>13. PICK q : q = DropSlots(ReplaceAt(r, a, x), a + 1, b + 1)
  OBVIOUS
<1>14. PICK i \in 0 .. n, j \in 1 .. n + 1 : i = a - 1 /\ j = b + 1
  BY <1>1
<1>15. Splice(q, r, i, mid, j)
  BY <1>1, <1>10, <1>11, <1>13, <1>14, MergeIs, Zenon
<1>16. \A k \in 1 .. i : r[k].end < lo
  <2>1. ASSUME NEW k \in 1 .. i PROVE r[k].end < lo
    <3>1. k \in 1 .. n /\ k < a /\ k \in 1 .. a - 1
      BY <1>1, <1>14
    <3>2. r[k].end < r[a].start /\ r[k].end < start
      BY <1>1, <1>7, <3>1
    <3>3. r[k].end < sa
      BY <1>3, <3>2
    <3> QED  BY <1>4, <3>2, <3>3
  <2> QED  BY <2>1
<1>17. \A k \in j .. n : hi < r[k].start
  <2>1. ASSUME NEW k \in j .. n PROVE hi < r[k].start
    <3>1. k \in 1 .. n /\ b < k /\ k \in b + 1 .. n
      BY <1>1, <1>14
    <3>2. r[b].end < r[k].start /\ end < r[k].start
      BY <1>1, <1>7, <3>1
    <3>3. eb < r[k].start
      BY <1>3, <3>2
    <3> QED  BY <1>5, <3>2, <3>3
  <2> QED  BY <2>1
<1>18. /\ Sound(q, s)
       /\ \A y : y \in Members(q) <=> \/ \E k \in 1 .. i : y \in Span(r[k])
                                      \/ \E m \in 1 .. 1 : y \in Span(mid[m])
                                      \/ \E k \in j .. n : y \in Span(r[k])
  <2>1. Ordered(mid)
    BY <1>12 DEF Ordered
  <2>2. \A m \in 1 .. 1 : mid[m] = x
    BY <1>12
  <2>3. \A m \in 1 .. 1 : mid[m].start < mid[m].end /\ mid[m].end <= Limit
    BY <1>8, <1>10, <2>2, Zenon
  <2>4. \A k \in 1 .. i : \A m \in 1 .. 1 : r[k].end < mid[m].start
    BY <1>10, <1>16, <2>2, Zenon
  <2>5. \A k \in j .. n : \A m \in 1 .. 1 : mid[m].end < r[k].start
    BY <1>10, <1>17, <2>2, Zenon
  <2>6. \A k \in j .. n : r[k].start < r[k].end
    <3>1. \A k \in j .. n : k \in 2 .. n
      BY <1>1, <1>14
    <3> QED  BY <1>7, <3>1
  <2>7. i < j /\ 1 \in Nat
    BY <1>1, <1>14
  <2>8. Fits(r, i, mid, j, n, 1)
    BY <1>12, <2>1, <2>3, <2>4, <2>5, <2>6, <2>7, Zenon DEF Fits
  <2> QED  BY <1>12, <1>15, <2>7, <2>8, SpliceSound, Zenon DEF Gathers
<1>19. ASSUME NEW y
      PROVE  y \in lo .. hi - 1 <=> \/ y \in start .. end - 1
                                    \/ \E k \in a .. b : y \in Span(r[k])
  <2>1. ASSUME y \in lo .. hi - 1, ~(y \in start .. end - 1)
        PROVE  \E k \in a .. b : y \in Span(r[k])
    <3>1. CASE y < start
      <4>1. y \in sa .. ea - 1
        BY <1>4, <1>6, <2>1, <3>1
      <4>2. a \in a .. b
        OBVIOUS
      <4> QED  BY <1>3, <4>1, <4>2 DEF Span
    <3>2. CASE y >= end
      <4>1. y \in sb .. eb - 1
        BY <1>5, <1>6, <2>1, <3>2
      <4>2. b \in a .. b
        OBVIOUS
      <4> QED  BY <1>3, <4>1, <4>2 DEF Span
    <3> QED  BY <2>1, <3>1, <3>2
  <2>2. ASSUME NEW k \in a .. b, y \in Span(r[k]) PROVE y \in lo .. hi - 1
    <3>1. k \in 1 .. n /\ y \in r[k].start .. r[k].end - 1
      BY <1>1, <2>2 DEF Span
    <3>2. PICK sk \in Nat, ek \in Nat : r[k].start = sk /\ r[k].end = ek
      BY <1>2, <3>1
    <3>3. sa <= sk
      <4>1. CASE a = k
        BY <1>3, <3>2, <4>1
      <4>2. CASE a # k
        <5>1. a < k
          BY <4>2
        <5>2. r[a].end < r[k].start /\ r[a].start <= r[a].end
          BY <1>1, <1>7, <3>1, <5>1, Zenon
        <5> QED  BY <1>3, <3>2, <5>2
      <4> QED  BY <4>1, <4>2
    <3>4. ek <= eb
      <4>1. CASE b = k
        BY <1>3, <3>2, <4>1
      <4>2. CASE b # k
        <5>1. k < b
          BY <4>2
        <5>2. r[k].end < r[b].start /\ r[b].start <= r[b].end
          BY <1>1, <1>7, <3>1, <5>1, Zenon
        <5> QED  BY <1>3, <3>2, <5>2
      <4> QED  BY <4>1, <4>2
    <3>5. y \in sk .. ek - 1
      BY <3>1, <3>2
    <3> QED  BY <1>4, <1>5, <3>3, <3>4, <3>5
  <2>3. y \in start .. end - 1 => y \in lo .. hi - 1
    BY <1>8
  <2> QED  BY <2>1, <2>2, <2>3
<1>20. ASSUME NEW y
      PROVE  y \in Members(q) <=> y \in Members(r) \/ y \in start .. end - 1
  <2>1. y \in Members(r) <=> \E k \in 1 .. n : y \in Span(r[k])
    BY <1>1, MembersAre
  <2>2. (\E m \in 1 .. 1 : y \in Span(mid[m])) <=> y \in lo .. hi - 1
    BY <1>10, <1>12 DEF Span
  <2>3. \A k : k \in 1 .. n <=> k \in 1 .. i \/ k \in a .. b \/ k \in j .. n
    BY <1>1, <1>14
  <2> QED  BY <1>18, <1>19, <2>1, <2>2, <2>3, Zenon
<1>21. /\ Len(q) = n - b + a
       /\ \A k \in 1 .. i : q[k] = r[k]
       /\ q[i + 1] = x
  <2>1. /\ Len(q) = i + 1 + n - j + 1 /\ \A k \in 1 .. i : q[k] = r[k]
        /\ \A k \in 1 .. 1 : q[i + k] = mid[k]
    BY <1>12, <1>15, Zenon DEF Splice
  <2>2. q[i + 1] = mid[1]
    BY <2>1
  <2>3. Len(q) = n - b + a
    BY <1>1, <1>14, <2>1
  <2> QED  BY <1>12, <2>1, <2>2, <2>3, Zenon
<1>22. Rooted(q, s)
  <2>1. SUFFICES ASSUME s PROVE q # <<>> /\ q[1].start = 0
    BY DEF Rooted
  <2>2. Len(q) > 0
    BY <1>1, <1>21
  <2>3. q # <<>>
    BY <2>2, EmptySeq
  <2>4. r[1].start = 0
    BY <2>1 DEF Rooted
  <2>5. CASE a = 1
    <3>1. i + 1 = 1 /\ lo = 0
      <4>1. sa = 0
        BY <1>3, <2>4, <2>5
      <4>2. lo = 0
        BY <1>4, <4>1
      <4> QED  BY <1>14, <2>5, <4>2
    <3>2. q[1] = x
      <4>1. q[i + 1] = x /\ i + 1 = 1
        BY <1>21, <3>1, Zenon
      <4> QED  BY <4>1
    <3>3. q[1].start = 0
      BY <1>10, <3>1, <3>2, Zenon
    <3> QED  BY <2>3, <3>3
  <2>6. CASE a # 1
    <3>1. 1 \in 1 .. i
      BY <1>14, <2>6
    <3> QED  BY <1>21, <2>3, <2>4, <3>1
  <2> QED  BY <2>5, <2>6
<1>23. Len(q) <= Len(r) + 1
  BY <1>1, <1>21
<1>24. Adds(q, r, s, start, end)
  BY <1>18, <1>20, <1>22, <1>23, Zenon DEF Adds
<1>25. q = MergeUpdate(r, start, end, a, b)
  BY <1>3, <1>4, <1>5, <1>9, <1>13, Zenon DEF MergeUpdate
<1> QED  BY <1>24, <1>25

\* what Sound says of the numbers in a list
LEMMA SoundNumbers ==
  ASSUME NEW r, NEW s, Sound(r, s), NEW n \in Nat, n = Len(r)
  PROVE  /\ r \in Seq(Pairs) /\ DOMAIN r = 1 .. n
         /\ \A k \in 1 .. n : r[k].start \in Nat /\ r[k].end \in Nat
         /\ \A k \in 1 .. n : r[k].start <= r[k].end /\ r[k].end <= Limit
         /\ \A k, m \in 1 .. n : k < m => r[k].end < r[m].start
         /\ \A k \in 1 .. n : s \/ r[k].start < r[k].end
<1>1. r \in Seq(Pairs)
  BY Zenon DEF Sound
<1>2. \A k \in 1 .. n : r[k].start \in Nat /\ r[k].end \in Nat
  BY <1>1, FieldsAreNat
<1>3. /\ \A k, m \in 1 .. n : k < m => r[k].end < r[m].start
      /\ \A k \in 1 .. n : \/ r[k].start < r[k].end
                           \/ s /\ k = 1 /\ r[k].start = 0 /\ r[k].end = 0
      /\ \A k \in 1 .. n : r[k].end <= Limit
  BY Zenon DEF Sound, Ordered, Filled, Bounded
<1>4. \A k \in 1 .. n : r[k].start <= r[k].end
  BY <1>2, <1>3
<1>5. DOMAIN r = 1 .. n
  BY <1>1, LenProperties
<1>6. \A k \in 1 .. n : s \/ r[k].start < r[k].end
  BY <1>3, Zenon
<1> QED  BY <1>1, <1>2, <1>3, <1>4, <1>5, <1>6, Zenon

\* quicly_ranges_add makes the union, wherever the range falls.
LEMMA AddAdds ==
  ASSUME NEW r, NEW s, Sound(r, s), Rooted(r, s), Limit \in Nat,
         NEW start \in 0 .. Limit, NEW end \in 0 .. Limit, start <= end
  PROVE  Adds(Add(r, start, end), r, s, start, end)
<1>1. PICK n \in Nat : n = Len(r)
  BY LenProperties DEF Sound
<1>2. /\ r \in Seq(Pairs) /\ DOMAIN r = 1 .. n
      /\ \A k \in 1 .. n : r[k].start \in Nat /\ r[k].end \in Nat
      /\ \A k \in 1 .. n : r[k].start <= r[k].end /\ r[k].end <= Limit
      /\ \A k, m \in 1 .. n : k < m => r[k].end < r[m].start
  BY <1>1, SoundNumbers, Zenon
<1>3. PICK reached : reached = ReachedBy(r, end)
  OBVIOUS
<1>4. \A k : k \in reached <=> k \in 1 .. n /\ r[k].start <= end
  BY <1>2, <1>3 DEF ReachedBy
<1>5. PICK below : below = {k \in reached : r[k].end <= start}
  OBVIOUS
<1>6. CASE start = end
  <2>1. Add(r, start, end) = r
    BY <1>6 DEF Add
  <2>2. start .. end - 1 = {}
    BY <1>6
  <2>3. Len(r) <= Len(r) + 1
    BY <1>1
  <2> QED  BY <2>1, <2>2, <2>3 DEF Adds
<1>7. CASE start < end /\ reached = {}
  <2>1. Add(r, start, end) = InsertAt(r, 1, Interval(start, end))
    BY <1>3, <1>7 DEF Add
  <2>2. \A k \in 1 .. n : end < r[k].start
    BY <1>2, <1>4, <1>7
  <2>3. ~s
    <3>1. SUFFICES ASSUME s PROVE FALSE
      OBVIOUS
    <3>2. r # <<>> /\ r[1].start = 0
      BY <3>1 DEF Rooted
    <3>3. 1 \in 1 .. n
      BY <1>1, <1>2, <3>2, EmptySeq
    <3> QED  BY <2>2, <3>2, <3>3
  <2>4. \A k \in 1 .. 1 - 1 : r[k].end < start
    OBVIOUS
  <2>5. 1 \in 1 .. n + 1
    OBVIOUS
  <2> QED  BY <1>1, <1>7, <2>1, <2>2, <2>3, <2>4, <2>5, InsertAdds, Zenon
<1>8. CASE start < end /\ reached # {}
  <2>1. PICK e \in 1 .. n : e = Max(reached) /\ r[e].start <= end /\ \A k \in reached : k <= e
    <3>1. reached \subseteq 0 .. n
      BY <1>4
    <3>2. Max(reached) \in reached /\ \A k \in reached : k <= Max(reached)
      BY <1>8, <3>1, MaxIs
    <3> QED  BY <1>4, <3>2
  <2>2. \A k \in e + 1 .. n : end < r[k].start
    <3>1. ASSUME NEW k \in e + 1 .. n PROVE end < r[k].start
      <4>1. k \in 1 .. n /\ ~(k <= e)
        OBVIOUS
      <4>2. ~(r[k].start <= end)
        BY <1>4, <2>1, <4>1
      <4> QED  BY <1>2, <4>1, <4>2
    <3> QED  BY <3>1
  <2>3. CASE below = {}
    <3>1. Add(r, start, end) = MergeUpdate(r, start, end, 1, e)
      BY <1>3, <1>5, <1>8, <2>1, <2>3 DEF Add
    <3>2. 1 \in reached
      <4>1. CASE e = 1
        BY <1>4, <2>1, <4>1
      <4>2. CASE e # 1
        <5>1. 1 \in 1 .. n /\ 1 < e
          BY <4>2
        <5>2. PICK a \in Nat, b \in Nat, c \in Nat :
                r[1].start = a /\ r[1].end = b /\ r[e].start = c
          BY <1>2, <5>1
        <5>3. a <= b /\ b < c /\ c <= end
          BY <1>2, <2>1, <5>1, <5>2
        <5> QED  BY <1>4, <5>1, <5>2, <5>3
      <4> QED  BY <4>1, <4>2
    <3>3. 1 \in 1 .. n /\ start <= r[1].end
      BY <1>2, <1>4, <1>5, <2>3, <3>2
    <3>4. \A k \in 1 .. 1 - 1 : r[k].end < start
      OBVIOUS
    <3>5. e \in 1 .. n
      OBVIOUS
    <3> QED  BY <1>1, <1>8, <2>1, <2>2, <3>1, <3>3, <3>4, <3>5, MergeAdds
  <2>4. CASE below # {}
    <3>1. PICK t \in 1 .. n : /\ t = Max(below) /\ t <= e /\ r[t].end <= start
                              /\ \A k \in below : k <= t
      <4>1. below \subseteq 0 .. n
        BY <1>4, <1>5
      <4>2. Max(below) \in below /\ \A k \in below : k <= Max(below)
        BY <2>4, <4>1, MaxIs
      <4> QED  BY <1>4, <1>5, <2>1, <4>2
    <3>2. CASE r[t].end = start
      <4>1. Add(r, start, end) = MergeUpdate(r, start, end, t, e)
        BY <1>3, <1>5, <1>8, <2>1, <2>4, <3>1, <3>2 DEF Add
      <4>2. ASSUME NEW k \in 1 .. t - 1 PROVE r[k].end < start
        <5>1. k \in 1 .. n /\ k < t
          OBVIOUS
        <5>2. PICK a \in Nat, b \in Nat : r[k].end = a /\ r[t].start = b
          BY <1>2, <5>1
        <5>3. a < b /\ b <= start
          BY <1>2, <3>2, <5>1, <5>2
        <5> QED  BY <5>2, <5>3
      <4>3. e \in t .. n /\ start <= r[t].end
        BY <3>1, <3>2
      <4> QED  BY <1>1, <1>8, <2>1, <2>2, <4>1, <4>2, <4>3, MergeAdds
    <3>3. ASSUME r[t].end # start PROVE \A k \in 1 .. t : r[k].end < start
      <4>1. r[t].end < start
        BY <1>2, <3>1, <3>3
      <4>2. ASSUME NEW k \in 1 .. t, k # t PROVE r[k].end < start
        <5>1. k \in 1 .. n /\ k < t
          BY <4>2
        <5>2. PICK a \in Nat, b \in Nat, c \in Nat : r[k].end = a /\ r[t].start = b /\ r[t].end = c
          BY <1>2, <5>1
        <5>3. a < b /\ b <= c /\ c < start
          BY <1>2, <4>1, <5>1, <5>2
        <5> QED  BY <5>2, <5>3
      <4> QED  BY <4>1, <4>2
    <3>4. CASE r[t].end # start /\ t = e
      <4>1. PICK p \in 1 .. n + 1 : p = t + 1
        OBVIOUS
      <4>2. Add(r, start, end) = InsertAt(r, p, Interval(start, end))
        BY <1>3, <1>5, <1>8, <2>1, <2>4, <3>1, <3>4, <4>1 DEF Add
      <4>3. \A k \in 1 .. p - 1 : r[k].end < start
        BY <3>3, <3>4, <4>1
      <4>4. \A k \in p .. n : end < r[k].start
        BY <2>2, <3>4, <4>1
      <4>5. p # 1
        BY <4>1
      <4> QED  BY <1>1, <1>8, <4>2, <4>3, <4>4, <4>5, InsertAdds
    <3>5. CASE r[t].end # start /\ t # e
      <4>1. PICK a \in 1 .. n : a = t + 1
        BY <3>1, <3>5
      <4>2. Add(r, start, end) = MergeUpdate(r, start, end, a, e)
        BY <1>3, <1>5, <1>8, <2>1, <2>4, <3>1, <3>5, <4>1 DEF Add
      <4>3. \A k \in 1 .. a - 1 : r[k].end < start
        BY <3>3, <3>5, <4>1
      <4>4. e \in a .. n
        BY <3>1, <3>5, <4>1
      <4>5. a \in reached
        <5>1. CASE a = e
          BY <1>4, <2>1, <5>1
        <5>2. CASE a # e
          <6>1. a < e
            BY <4>4, <5>2
          <6>2. PICK x \in Nat, y \in Nat, z \in Nat :
                  r[a].start = x /\ r[a].end = y /\ r[e].start = z
            BY <1>2
          <6>3. x <= y /\ y < z /\ z <= end
            BY <1>2, <2>1, <6>1, <6>2
          <6> QED  BY <1>4, <6>2, <6>3
        <5> QED  BY <5>1, <5>2
      <4>6. start <= r[a].end
        <5>1. a \notin below
          BY <3>1, <4>1
        <5> QED  BY <1>2, <1>5, <4>5, <5>1
      <4> QED  BY <1>1, <1>8, <2>1, <2>2, <4>2, <4>3, <4>4, <4>6, MergeAdds
    <3> QED  BY <3>2, <3>4, <3>5
  <2> QED  BY <2>3, <2>4
<1> QED  BY <1>6, <1>7, <1>8

-----------------------------------------------------------------------------
(* Subtraction *)

\* q is sound, and holds what r does but for [start, end)
Takes(q, r, start, end) ==
  /\ Sound(q, FALSE)
  /\ \A x : x \in Members(q) <=> x \in Members(r) /\ ~(x \in start .. end - 1)
  /\ Len(q) <= Len(r) + 1

\* c agrees with r but for the slots behind i0 and before j0, and mid is what
\* it has there, but for the slots behind i and before j
Patched(c, r, mid, n, i0, i, j, j0) ==
  /\ Len(mid) = (i - i0) + (j0 - j)
  /\ \A k \in 1 .. i0 : c[k] = r[k]
  /\ \A k \in j0 .. n : c[k] = r[k]
  /\ \A m \in 1 .. i - i0 : mid[m] = c[i0 + m]
  /\ \A m \in 1 .. j0 - j : mid[i - i0 + m] = c[j + m - 1]

LEMMA Reslice ==
  ASSUME NEW r \in Seq(Pairs), NEW c \in Seq(Pairs), NEW mid \in Seq(Pairs), NEW q,
         NEW n \in Nat, Len(r) = n, Len(c) = n, NEW l \in Nat, Len(mid) = l,
         NEW i0 \in 0 .. n, NEW i \in i0 .. n,
         NEW j \in 1 .. n + 1, NEW j0 \in j .. n + 1,
         Splice(q, c, i, <<>>, j), Patched(c, r, mid, n, i0, i, j, j0)
  PROVE  Splice(q, r, i0, mid, j0)
<1>1. /\ l = (i - i0) + (j0 - j)
      /\ \A k \in 1 .. i0 : c[k] = r[k]
      /\ \A k \in j0 .. n : c[k] = r[k]
      /\ \A m \in 1 .. i - i0 : mid[m] = c[i0 + m]
      /\ \A m \in 1 .. j0 - j : mid[i - i0 + m] = c[j + m - 1]
  BY Zenon DEF Patched
<1>2. /\ q \in Seq(Pairs) /\ Len(q) = i + 0 + n - j + 1
      /\ \A k \in 1 .. i : q[k] = c[k]
      /\ \A k \in 1 .. n - j + 1 : q[i + 0 + k] = c[j + k - 1]
  BY EmptySeq, Zenon DEF Splice
<1>3. Len(q) = i0 + l + n - j0 + 1
  BY <1>1, <1>2
<1>4. \A k \in 1 .. i0 : q[k] = r[k]
  BY <1>1, <1>2
<1>5. ASSUME NEW m \in 1 .. l PROVE q[i0 + m] = mid[m]
  <2>1. CASE m <= i - i0
    <3>1. PICK k : k = i0 + m
      OBVIOUS
    <3>2. k \in 1 .. i /\ m \in 1 .. i - i0
      BY <1>1, <2>1, <3>1
    <3>3. q[k] = c[k] /\ mid[m] = c[i0 + m]
      BY <1>1, <1>2, <3>2, Zenon
    <3> QED  BY <3>1, <3>3, Zenon
  <2>2. CASE m > i - i0
    <3>1. PICK k : k = m - (i - i0)
      OBVIOUS
    <3>2. k \in 1 .. j0 - j /\ k \in 1 .. n - j + 1 /\ i + 0 + k = i0 + m /\ i - i0 + k = m
      BY <1>1, <2>2, <3>1
    <3>3. q[i + 0 + k] = c[j + k - 1] /\ mid[i - i0 + k] = c[j + k - 1]
      BY <1>1, <1>2, <3>2, Zenon
    <3> QED  BY <3>2, <3>3, Zenon
  <2> QED  BY <2>1, <2>2
<1>6. ASSUME NEW k \in 1 .. n - j0 + 1 PROVE q[i0 + l + k] = r[j0 + k - 1]
  <2>1. PICK g : g = k + (j0 - j)
    OBVIOUS
  <2>2. /\ g \in 1 .. n - j + 1 /\ i + 0 + g = i0 + l + k /\ j + g - 1 = j0 + k - 1
        /\ j0 + k - 1 \in j0 .. n
    BY <1>1, <2>1
  <2>3. q[i + 0 + g] = c[j + g - 1] /\ c[j0 + k - 1] = r[j0 + k - 1]
    BY <1>1, <1>2, <2>2, Zenon
  <2> QED  BY <2>2, <2>3, Zenon
<1>7. /\ Len(q) = i0 + Len(mid) + Len(r) - j0 + 1
      /\ \A k \in 1 .. Len(mid) : q[i0 + k] = mid[k]
      /\ \A k \in 1 .. Len(r) - j0 + 1 : q[i0 + Len(mid) + k] = r[j0 + k - 1]
  BY <1>3, <1>5, <1>6, Zenon
<1> QED  BY <1>2, <1>4, <1>7, Zenon DEF Splice

\* what is left of the first and of the last slot that are touched
Halves(mid, x, z, p, u) ==
  /\ mid \in Seq(Pairs)
  /\ p /\ u => mid = <<>>
  /\ p /\ ~u => mid = <<z>>
  /\ ~p /\ u => mid = <<x>>
  /\ ~p /\ ~u => mid = <<x, z>>

LEMMA HalvesAre ==
  ASSUME NEW x \in Pairs, NEW z \in Pairs, NEW p \in BOOLEAN, NEW u \in BOOLEAN
  PROVE  Halves((IF p THEN <<>> ELSE <<x>>) \o (IF u THEN <<>> ELSE <<z>>), x, z, p, u)
<1>1. /\ <<>> \o <<>> = <<>> /\ <<>> \o <<z>> = <<z>>
      /\ <<x>> \o <<>> = <<x>> /\ <<x>> \o <<z>> = <<x, z>>
  <2>1. <<>> \in Seq(Pairs) /\ <<z>> \in Seq(Pairs) /\ <<x>> \in Seq(Pairs)
    OBVIOUS
  <2>2. <<>> \o <<>> = <<>> /\ <<>> \o <<z>> = <<z>> /\ <<x>> \o <<>> = <<x>>
    BY <2>1, ConcatEmptySeq, Zenon
  <2>3. <<x>> \o <<z>> = <<x, z>>
    <3>1. PICK f, g, h : f = <<x>> /\ g = <<z>> /\ h = <<x, z>>
      OBVIOUS
    <3>2. /\ f \in Seq(Pairs) /\ Len(f) = 1 /\ f[1] = x
          /\ g \in Seq(Pairs) /\ Len(g) = 1 /\ g[1] = z
          /\ h \in Seq(Pairs) /\ Len(h) = 2 /\ h[1] = x /\ h[2] = z
      BY <3>1
    <3>3. PICK c : c = f \o g
      OBVIOUS
    <3>4. /\ c \in Seq(Pairs) /\ Len(c) = 1 + 1
          /\ \A k \in 1 .. 1 + 1 : c[k] = IF k <= 1 THEN f[k] ELSE g[k - 1]
      BY <3>2, <3>3, ConcatProperties
    <3>5. Len(c) = 2 /\ c[1] = x /\ c[2] = z
      BY <3>2, <3>4
    <3>6. \A k \in 1 .. Len(c) : c[k] = h[k]
      BY <3>2, <3>5
    <3>7. c = h
      BY <3>2, <3>4, <3>5, <3>6, SeqEqual
    <3> QED  BY <3>1, <3>3, <3>7
  <2> QED  BY <2>2, <2>3, Zenon
<1>2. <<>> \in Seq(Pairs) /\ <<z>> \in Seq(Pairs) /\ <<x>> \in Seq(Pairs) /\ <<x, z>> \in Seq(Pairs)
  OBVIOUS
<1>3. CASE p /\ u
  BY <1>1, <1>2, <1>3 DEF Halves
<1>4. CASE p /\ ~u
  BY <1>1, <1>2, <1>4 DEF Halves
<1>5. CASE ~p /\ u
  BY <1>1, <1>2, <1>5 DEF Halves
<1>6. CASE ~p /\ ~u
  BY <1>1, <1>2, <1>6 DEF Halves
<1> QED  BY <1>3, <1>4, <1>5, <1>6

LEMMA HalvesHold ==
  ASSUME NEW x \in Pairs, NEW z \in Pairs, NEW p \in BOOLEAN, NEW u \in BOOLEAN,
         NEW mid, Halves(mid, x, z, p, u), x.end < z.start
  PROVE  /\ mid \in Seq(Pairs) /\ Ordered(mid)
         /\ Len(mid) = (IF p THEN 0 ELSE 1) + (IF u THEN 0 ELSE 1)
         /\ \A m \in 1 .. Len(mid) : (~p /\ mid[m] = x) \/ (~u /\ mid[m] = z)
         /\ ~p => 1 \in 1 .. Len(mid) /\ mid[1] = x
         /\ ~u => Len(mid) \in 1 .. Len(mid) /\ mid[Len(mid)] = z
<1>1. CASE p /\ u
  <2>1. mid = <<>>
    BY <1>1 DEF Halves
  <2> QED  BY <1>1, <2>1 DEF Halves, Ordered
<1>2. CASE p /\ ~u
  <2>1. mid = <<z>>
    BY <1>2 DEF Halves
  <2> QED  BY <1>2, <2>1 DEF Halves, Ordered
<1>3. CASE ~p /\ u
  <2>1. mid = <<x>>
    BY <1>3 DEF Halves
  <2> QED  BY <1>3, <2>1 DEF Halves, Ordered
<1>4. CASE ~p /\ ~u
  <2>1. mid = <<x, z>>
    BY <1>4 DEF Halves
  <2>2. mid \in Seq(Pairs) /\ Len(mid) = 2 /\ mid[1] = x /\ mid[2] = z
    BY <2>1
  <2>3. Ordered(mid)
    BY <2>2 DEF Ordered
  <2>4. \A m \in 1 .. 2 : mid[m] = x \/ mid[m] = z
    BY <2>2
  <2> QED  BY <1>4, <2>2, <2>3, <2>4
<1> QED  BY <1>1, <1>2, <1>3, <1>4

\* Slots a .. b are those that [start, end) touches; what is left of a and of
\* b takes their place.
LEMMA CutTakes ==
  ASSUME NEW r, Sound(r, FALSE), NEW n \in Nat, n = Len(r), Limit \in Nat,
         NEW a \in 1 .. n, NEW b \in a .. n,
         NEW start \in 0 .. Limit, NEW end \in 0 .. Limit, start < end,
         \A k \in 1 .. a - 1 : r[k].end < start,
         \A k \in b + 1 .. n : end <= r[k].start,
         start <= r[a].end, r[b].start <= end,
         NEW p \in BOOLEAN, p <=> start <= r[a].start,
         NEW u \in BOOLEAN, u <=> r[b].end <= end,
         NEW mid, Halves(mid, Interval(r[a].start, start), Interval(end, r[b].end), p, u),
         NEW q, Splice(q, r, a - 1, mid, b + 1)
  PROVE  Takes(q, r, start, end)
<1>1. /\ r \in Seq(Pairs) /\ DOMAIN r = 1 .. n
      /\ \A k \in 1 .. n : r[k].start \in Nat /\ r[k].end \in Nat
      /\ \A k \in 1 .. n : r[k].start <= r[k].end /\ r[k].end <= Limit
      /\ \A k, m \in 1 .. n : k < m => r[k].end < r[m].start
      /\ \A k \in 1 .. n : r[k].start < r[k].end
  <2>1. \A k \in 1 .. n : FALSE \/ r[k].start < r[k].end
    BY SoundNumbers, Zenon
  <2> QED  BY <2>1, SoundNumbers, Zenon
<1>2. b \in 1 .. n
  OBVIOUS
<1>3. PICK sa \in Nat, ea \in Nat, sb \in Nat, eb \in Nat :
        r[a].start = sa /\ r[a].end = ea /\ r[b].start = sb /\ r[b].end = eb
  BY <1>1, <1>2
<1>4. PICK x, z : x = Interval(sa, start) /\ z = Interval(end, eb)
  OBVIOUS
<1>5. x \in Pairs /\ x.start = sa /\ x.end = start /\ z \in Pairs /\ z.start = end /\ z.end = eb
  BY <1>4 DEF Interval, Pairs
<1>6. (p <=> start <= sa) /\ (u <=> eb <= end) /\ start <= ea /\ sb <= end /\ eb <= Limit
  BY <1>1, <1>2, <1>3
<1>7. Halves(mid, x, z, p, u)
  BY <1>3, <1>4, Zenon
<1>8. /\ mid \in Seq(Pairs) /\ Ordered(mid)
      /\ Len(mid) = (IF p THEN 0 ELSE 1) + (IF u THEN 0 ELSE 1)
      /\ \A m \in 1 .. Len(mid) : (~p /\ mid[m] = x) \/ (~u /\ mid[m] = z)
      /\ ~p => 1 \in 1 .. Len(mid) /\ mid[1] = x
      /\ ~u => Len(mid) \in 1 .. Len(mid) /\ mid[Len(mid)] = z
  BY <1>5, <1>7, HalvesHold
<1>9. PICK l \in Nat : l = Len(mid) /\ l <= 2
  BY <1>8
<1>10. PICK i \in 0 .. n, j \in 1 .. n + 1 : i = a - 1 /\ j = b + 1
  BY <1>2
<1>11. \A k \in 1 .. i : k \in 1 .. n /\ r[k].end < start /\ r[k].end < sa
  <2>1. ASSUME NEW k \in 1 .. i PROVE k \in 1 .. n /\ r[k].end < start /\ r[k].end < sa
    <3>1. k \in 1 .. n /\ k < a /\ k \in 1 .. a - 1
      BY <1>10
    <3> QED  BY <1>1, <1>3, <3>1
  <2> QED  BY <2>1
<1>12. \A k \in j .. n : k \in 1 .. n /\ end <= r[k].start /\ eb < r[k].start
  <2>1. ASSUME NEW k \in j .. n PROVE k \in 1 .. n /\ end <= r[k].start /\ eb < r[k].start
    <3>1. k \in 1 .. n /\ b < k /\ k \in b + 1 .. n
      BY <1>10
    <3> QED  BY <1>1, <1>2, <1>3, <3>1
  <2> QED  BY <2>1
<1>13. Fits(r, i, mid, j, n, l)
  <2>1. ASSUME NEW m \in 1 .. l
        PROVE  \/ ~p /\ mid[m].start = sa /\ mid[m].end = start
               \/ ~u /\ mid[m].start = end /\ mid[m].end = eb
    BY <1>5, <1>8, <1>9, Zenon
  <2>2. ASSUME NEW m \in 1 .. l
        PROVE  mid[m].start < mid[m].end /\ mid[m].end <= Limit
    BY <1>6, <2>1
  <2>3. ASSUME NEW k \in 1 .. i, NEW m \in 1 .. l PROVE r[k].end < mid[m].start
    <3>1. r[k].end < start /\ r[k].end < sa /\ r[k].end \in Nat
      BY <1>1, <1>11
    <3> QED  BY <2>1, <3>1
  <2>4. ASSUME NEW k \in j .. n, NEW m \in 1 .. l PROVE mid[m].end < r[k].start
    <3>1. end <= r[k].start /\ eb < r[k].start /\ r[k].start \in Nat
      BY <1>1, <1>12
    <3> QED  BY <2>1, <3>1
  <2>5. \A k \in j .. n : r[k].start < r[k].end
    BY <1>1, <1>12, Zenon
  <2>6. i < j
    BY <1>10
  <2> QED  BY <1>8, <1>9, <2>2, <2>3, <2>4, <2>5, <2>6, Zenon DEF Fits
<1>14. Splice(q, r, i, mid, j)
  BY <1>10, Zenon
<1>15. Sound(q, FALSE) /\ Gathers(q, r, i, mid, j, n, l)
  BY <1>8, <1>13, <1>14, SpliceSound, Zenon
<1>16. ASSUME NEW y
      PROVE  (\E m \in 1 .. l : y \in Span(mid[m]))
               <=> (~p /\ y \in sa .. start - 1) \/ (~u /\ y \in end .. eb - 1)
  <2>1. Span(x) = sa .. start - 1 /\ Span(z) = end .. eb - 1
    BY <1>5 DEF Span
  <2>2. ASSUME NEW m \in 1 .. l, y \in Span(mid[m])
        PROVE  (~p /\ y \in Span(x)) \/ (~u /\ y \in Span(z))
    BY <1>8, <1>9, <2>2, Zenon
  <2>3. ~p /\ y \in Span(x) => \E m \in 1 .. l : y \in Span(mid[m])
    BY <1>8, <1>9, Zenon
  <2>4. ~u /\ y \in Span(z) => \E m \in 1 .. l : y \in Span(mid[m])
    BY <1>8, <1>9, Zenon
  <2> QED  BY <2>1, <2>2, <2>3, <2>4, Zenon
<1>17. ASSUME NEW y
      PROVE  y \in Members(q) <=> y \in Members(r) /\ ~(y \in start .. end - 1)
  <2>1. y \in Members(r) <=> \E k \in 1 .. n : y \in Span(r[k])
    BY <1>1, MembersAre
  <2>2. y \in Members(q) <=> \/ \E k \in 1 .. i : y \in Span(r[k])
                             \/ (~p /\ y \in sa .. start - 1) \/ (~u /\ y \in end .. eb - 1)
                             \/ \E k \in j .. n : y \in Span(r[k])
    BY <1>15, <1>16, Zenon DEF Gathers
  <2>3. ASSUME NEW k \in 1 .. n, y \in Span(r[k]), ~(y \in start .. end - 1)
        PROVE  \/ k \in 1 .. i
               \/ (~p /\ y \in sa .. start - 1) \/ (~u /\ y \in end .. eb - 1)
               \/ k \in j .. n
    <3>1. PICK sk \in Nat, ek \in Nat : r[k].start = sk /\ r[k].end = ek
      BY <1>1
    <3>2. y \in sk .. ek - 1
      BY <2>3, <3>1 DEF Span
    <3>3. SUFFICES ASSUME k \in a .. b
                   PROVE  (~p /\ y \in sa .. start - 1) \/ (~u /\ y \in end .. eb - 1)
      BY <1>10
    <3>4. CASE y < start
      <4>1. k = a
        <5>1. SUFFICES ASSUME a < k PROVE FALSE
          BY <3>3
        <5>2. ea < sk
          BY <1>1, <1>3, <3>1, <5>1
        <5> QED  BY <1>6, <3>2, <3>4, <5>2
      <4>2. sk = sa
        BY <1>3, <3>1, <4>1
      <4> QED  BY <1>6, <3>2, <3>4, <4>2
    <3>5. CASE y >= end
      <4>1. k = b
        <5>1. SUFFICES ASSUME k < b PROVE FALSE
          BY <3>3
        <5>2. ek < sb
          BY <1>1, <1>2, <1>3, <3>1, <5>1
        <5> QED  BY <1>6, <3>2, <3>5, <5>2
      <4>2. ek = eb
        BY <1>3, <3>1, <4>1
      <4> QED  BY <1>6, <3>2, <3>5, <4>2
    <3> QED  BY <2>3, <3>2, <3>4, <3>5
  <2>4. ASSUME NEW k \in 1 .. i, y \in Span(r[k])
        PROVE  k \in 1 .. n /\ ~(y \in start .. end - 1)
    <3>1. PICK sk \in Nat, ek \in Nat :
            k \in 1 .. n /\ r[k].start = sk /\ r[k].end = ek /\ ek < start
      BY <1>1, <1>11
    <3>2. y \in sk .. ek - 1
      BY <2>4, <3>1 DEF Span
    <3> QED  BY <3>1, <3>2
  <2>5. ASSUME NEW k \in j .. n, y \in Span(r[k])
        PROVE  k \in 1 .. n /\ ~(y \in start .. end - 1)
    <3>1. PICK sk \in Nat, ek \in Nat :
            k \in 1 .. n /\ r[k].start = sk /\ r[k].end = ek /\ end <= sk
      BY <1>1, <1>12
    <3>2. y \in sk .. ek - 1
      BY <2>5, <3>1 DEF Span
    <3> QED  BY <3>1, <3>2
  <2>6. ASSUME y \in sa .. start - 1
        PROVE  y \in Span(r[a]) /\ ~(y \in start .. end - 1)
    <3>1. y \in sa .. ea - 1 /\ ~(y \in start .. end - 1)
      BY <1>6, <2>6
    <3> QED  BY <1>3, <3>1 DEF Span
  <2>7. ASSUME y \in end .. eb - 1
        PROVE  y \in Span(r[b]) /\ ~(y \in start .. end - 1)
    <3>1. y \in sb .. eb - 1 /\ ~(y \in start .. end - 1)
      BY <1>6, <2>7
    <3> QED  BY <1>3, <3>1 DEF Span
  <2>8. ASSUME y \in Members(q)
        PROVE  y \in Members(r) /\ ~(y \in start .. end - 1)
    BY <1>2, <2>1, <2>2, <2>4, <2>5, <2>6, <2>7, <2>8, Zenon
  <2>9. ASSUME y \in Members(r), ~(y \in start .. end - 1)
        PROVE  y \in Members(q)
    BY <2>1, <2>2, <2>3, <2>9, Zenon
  <2> QED  BY <2>8, <2>9
<1>18. Len(q) <= Len(r) + 1
  <2>1. Len(q) = i + l + n - j + 1
    BY <1>9, <1>14, Zenon DEF Splice
  <2> QED  BY <1>9, <1>10, <2>1
<1> QED  BY <1>15, <1>17, <1>18, Zenon DEF Takes

\* the conditions under which quicly_ranges_subtract gets to change a slot
Touches(r, start, n, t) ==
  /\ t \in 1 .. n /\ start <= r[t].end
  /\ \A k \in 1 .. t - 1 : r[k].end < start

LEMMA WithinTakes ==
  ASSUME NEW r, Sound(r, FALSE), NEW n \in Nat, n = Len(r), Limit \in Nat,
         NEW start \in 0 .. Limit, NEW end \in 0 .. Limit, start < end,
         NEW t \in 1 .. n, Touches(r, start, n, t), end <= r[t].end
  PROVE  Takes(SubtractWithin(r, start, end, t), r, start, end)
<1>1. /\ r \in Seq(Pairs) /\ DOMAIN r = 1 .. n
      /\ \A k \in 1 .. n : r[k].start \in Nat /\ r[k].end \in Nat
      /\ \A k \in 1 .. n : r[k].start <= r[k].end /\ r[k].end <= Limit
      /\ \A k, m \in 1 .. n : k < m => r[k].end < r[m].start
  BY SoundNumbers, Zenon
<1>2. PICK st \in Nat, et \in Nat : r[t].start = st /\ r[t].end = et
  BY <1>1
<1>3. /\ start <= et /\ end <= et
      /\ \A k \in 1 .. t - 1 : r[k].end < start
  BY <1>2 DEF Touches
<1>4. CASE end <= st
  <2>1. SubtractWithin(r, start, end, t) = r
    BY <1>2, <1>4 DEF SubtractWithin
  <2>2. ASSUME NEW y, y \in Members(r) PROVE ~(y \in start .. end - 1)
    <3>1. PICK k \in 1 .. n : y \in Span(r[k])
      BY <1>1, <2>2, MembersAre
    <3>2. PICK sk \in Nat, ek \in Nat : r[k].start = sk /\ r[k].end = ek
      BY <1>1
    <3>3. y \in sk .. ek - 1
      BY <3>1, <3>2 DEF Span
    <3>4. CASE k < t
      <4>1. ek < start
        BY <1>3, <3>2, <3>4
      <4> QED  BY <3>3, <4>1
    <3>5. CASE k = t
      <4>1. sk = st
        BY <1>2, <3>2, <3>5
      <4> QED  BY <1>4, <3>3, <4>1
    <3>6. CASE k > t
      <4>1. et < sk
        BY <1>1, <1>2, <3>2, <3>6
      <4> QED  BY <1>3, <3>3, <4>1
    <3> QED  BY <3>4, <3>5, <3>6
  <2>3. Len(r) <= Len(r) + 1
    OBVIOUS
  <2> QED  BY <2>1, <2>2, <2>3, Zenon DEF Takes
<1>5. CASE st < end
  <2>1. PICK x, z : x = Interval(st, start) /\ z = Interval(end, et)
    OBVIOUS
  <2>2. x \in Pairs /\ z \in Pairs
    BY <2>1 DEF Interval, Pairs
  <2>3. PICK p \in BOOLEAN, u \in BOOLEAN : (p <=> start <= st) /\ (u <=> et <= end)
    <3>1. (start <= st) \in BOOLEAN /\ (et <= end) \in BOOLEAN
      OBVIOUS
    <3> QED  BY <3>1, Zenon
  <2>4. PICK left, right : /\ left = IF p THEN <<>> ELSE <<x>>
                           /\ right = IF u THEN <<>> ELSE <<z>>
    OBVIOUS
  <2>5. left \in Seq(Pairs) /\ right \in Seq(Pairs)
    BY <2>2, <2>4
  <2>6. PICK mid : mid = left \o right
    OBVIOUS
  <2>7. Halves(mid, x, z, p, u)
    BY <2>2, <2>4, <2>6, HalvesAre, Zenon
  <2>8. mid \in Seq(Pairs)
    BY <2>7, Zenon DEF Halves
  <2>9. PICK i \in 0 .. n, j \in 1 .. n + 1 : i = t - 1 /\ j = t + 1
    OBVIOUS
  <2>10. PICK h, g : h = SubSeq(r, 1, i) /\ g = SubSeq(r, j, Len(r))
    OBVIOUS
  <2>11. h \in Seq(Pairs)
    BY <1>1, <2>10, Parts
  <2>12. Splice(h \o mid \o g, r, i, mid, j)
    BY <1>1, <2>8, <2>10, SpliceIs, Zenon
  <2>13. (h \o left) \o right = h \o mid
    <3>1. (h \o left) \o right = h \o (left \o right)
      <4>1. h \in Seq(Pairs) /\ left \in Seq(Pairs) /\ right \in Seq(Pairs)
        BY <2>5, <2>11, Zenon
      <4> QED  BY ONLY <4>1, ConcatAssociative
    <3> QED  BY <2>6, <3>1, Zenon
  <2>14. SubtractWithin(r, start, end, t) = ((h \o left) \o right) \o g
    <3>1. ~(end <= r[t].start)
      BY <1>2, <1>5
    <3>2. /\ left = IF start <= r[t].start THEN <<>> ELSE <<Interval(r[t].start, start)>>
          /\ right = IF end = r[t].end THEN <<>> ELSE <<Interval(end, r[t].end)>>
      <4>1. u <=> end = et
        BY <1>3, <2>3
      <4> QED  BY <1>2, <2>1, <2>3, <2>4, <4>1, Zenon
    <3>3. h = SubSeq(r, 1, t - 1) /\ g = SubSeq(r, t + 1, Len(r))
      BY <2>9, <2>10
    <3> QED  BY <3>1, <3>2, <3>3, Zenon DEF SubtractWithin
  <2>15. PICK q : q = SubtractWithin(r, start, end, t)
    OBVIOUS
  <2>16. Splice(q, r, t - 1, mid, t + 1)
    BY <2>9, <2>12, <2>13, <2>14, <2>15, Zenon
  <2>17. Halves(mid, Interval(r[t].start, start), Interval(end, r[t].end), p, u)
    BY <1>2, <2>1, <2>7, Zenon
  <2>18. (p <=> start <= r[t].start) /\ (u <=> r[t].end <= end)
    BY <1>2, <2>3, Zenon
  <2>19. ASSUME NEW k \in t + 1 .. n PROVE end <= r[k].start
    <3>1. k \in 1 .. n /\ t < k
      OBVIOUS
    <3>2. et < r[k].start /\ r[k].start \in Nat
      BY <1>1, <1>2, <3>1
    <3> QED  BY <1>3, <3>2
  <2>20. t \in t .. n /\ start <= r[t].end /\ r[t].start <= end
    BY <1>2, <1>3, <1>5
  <2>21. Takes(q, r, start, end)
    BY <1>3, <2>16, <2>17, <2>18, <2>19, <2>20, CutTakes, Zenon
  <2> QED  BY <2>15, <2>21
<1> QED  BY <1>4, <1>5

\* the two writes of SubtractAcross before it drops slots
Written(c, r, n, t, last, x, z, p, u) ==
  /\ c = LET kept == IF p THEN r ELSE ReplaceAt(r, t, x)
         IN  IF u THEN kept ELSE ReplaceAt(kept, last, z)
  /\ Len(c) = n
  /\ \A k \in 1 .. n : k # t /\ k # last => c[k] = r[k]
  /\ p => c[t] = r[t]
  /\ ~p => c[t] = x
  /\ u /\ last # n + 1 => c[last] = r[last]
  /\ ~u => c[last] = z

\* the slots that are written are there
Writable(r, n, t, last, x, z, p, u) ==
  /\ r \in Seq(Pairs) /\ n \in Nat /\ n = Len(r)
  /\ t \in 1 .. n /\ last \in 1 .. n + 1 /\ t < last
  /\ x \in Pairs /\ z \in Pairs /\ p \in BOOLEAN /\ u \in BOOLEAN
  /\ ~u => last # n + 1

LEMMA TwoWrites ==
  ASSUME NEW r, NEW n, NEW t, NEW last, NEW x, NEW z, NEW p, NEW u,
         Writable(r, n, t, last, x, z, p, u)
  PROVE  \E c \in Seq(Pairs) : Written(c, r, n, t, last, x, z, p, u)
<1> SUFFICES ASSUME r \in Seq(Pairs), n \in Nat, n = Len(r),
                    t \in 1 .. n, last \in 1 .. n + 1, t < last,
                    x \in Pairs, z \in Pairs, p \in BOOLEAN, u \in BOOLEAN,
                    ~u => last # n + 1
             PROVE  \E c \in Seq(Pairs) : Written(c, r, n, t, last, x, z, p, u)
  BY DEF Writable
<1>1. PICK kept : kept = IF p THEN r ELSE ReplaceAt(r, t, x)
  OBVIOUS
<1>2. /\ kept \in Seq(Pairs) /\ Len(kept) = n
      /\ \A k \in 1 .. n : k # t => kept[k] = r[k]
      /\ p => kept[t] = r[t]
      /\ ~p => kept[t] = x
  <2>1. CASE p
    BY <1>1, <2>1
  <2>2. CASE ~p
    <3>1. kept = [r EXCEPT ![t] = x]
      BY <1>1, <2>2, Zenon DEF ReplaceAt
    <3>2. /\ kept \in Seq(Pairs) /\ Len(kept) = n
          /\ \A k \in 1 .. n : kept[k] = IF k = t THEN x ELSE r[k]
      BY <3>1, ExceptSeq
    <3> QED  BY <2>2, <3>2
  <2> QED  BY <2>1, <2>2
<1>3. PICK c : c = IF u THEN kept ELSE ReplaceAt(kept, last, z)
  OBVIOUS
<1>4. /\ c \in Seq(Pairs) /\ Len(c) = n
      /\ \A k \in 1 .. n : k # last => c[k] = kept[k]
      /\ u => c = kept
      /\ ~u => c[last] = z
  <2>1. CASE u
    BY <1>2, <1>3, <2>1
  <2>2. CASE ~u
    <3>1. c = [kept EXCEPT ![last] = z]
      BY <1>3, <2>2, Zenon DEF ReplaceAt
    <3>2. last \in 1 .. n
      BY <2>2
    <3>3. /\ c \in Seq(Pairs) /\ Len(c) = n
          /\ \A k \in 1 .. n : c[k] = IF k = last THEN z ELSE kept[k]
      BY <1>2, <3>1, <3>2, ExceptSeq
    <3> QED  BY <2>2, <3>2, <3>3
  <2> QED  BY <2>1, <2>2
<1>5. t # last
  OBVIOUS
<1>6. u /\ last # n + 1 => c[last] = r[last]
  <2>1. SUFFICES ASSUME u, last # n + 1 PROVE c[last] = r[last]
    OBVIOUS
  <2>2. last \in 1 .. n
    BY <2>1
  <2> QED  BY <1>2, <1>4, <1>5, <2>1, <2>2
<1>7. (p => c[t] = r[t]) /\ (~p => c[t] = x)
  BY <1>2, <1>4, <1>5
<1>8. \A k \in 1 .. n : k # t /\ k # last => c[k] = r[k]
  BY <1>2, <1>4
<1>9. Written(c, r, n, t, last, x, z, p, u)
  BY <1>1, <1>3, <1>4, <1>6, <1>7, <1>8, Zenon DEF Written
<1> QED  BY <1>4, <1>9, Zenon

LEMMA AcrossTakes ==
  ASSUME NEW r, Sound(r, FALSE), NEW n \in Nat, n = Len(r), Limit \in Nat,
         NEW start \in 0 .. Limit, NEW end \in 0 .. Limit, start < end,
         NEW t \in 1 .. n, Touches(r, start, n, t), r[t].end < end
  PROVE  Takes(SubtractAcross(r, start, end, t), r, start, end)
<1>1. /\ r \in Seq(Pairs) /\ DOMAIN r = 1 .. n
      /\ \A k \in 1 .. n : r[k].start \in Nat /\ r[k].end \in Nat
      /\ \A k \in 1 .. n : r[k].start <= r[k].end /\ r[k].end <= Limit
      /\ \A k, m \in 1 .. n : k < m => r[k].end < r[m].start
  BY SoundNumbers, Zenon
<1>2. /\ start <= r[t].end
      /\ \A k \in 1 .. t - 1 : r[k].end < start
  BY Zenon DEF Touches
<1>3. PICK beyond : beyond = {k \in t + 1 .. Len(r) : end <= r[k].start \/ end < r[k].end}
  OBVIOUS
<1>4. PICK last \in 1 .. n + 1 :
        /\ last = IF beyond = {} THEN Len(r) + 1 ELSE Min(beyond)
        /\ t < last
        /\ last # n + 1 => end <= r[last].start \/ end < r[last].end
        /\ \A k \in t + 1 .. last - 1 : r[k].end <= end
        /\ beyond = {} <=> last = n + 1
  <2>1. CASE beyond = {}
    <3>1. \A k \in t + 1 .. n : ~(end <= r[k].start \/ end < r[k].end)
      BY <1>3, <2>1
    <3>2. \A k \in t + 1 .. n : r[k].end <= end
      <4>1. ASSUME NEW k \in t + 1 .. n PROVE r[k].end <= end
        <5>1. k \in 1 .. n
          OBVIOUS
        <5>2. r[k].end \in Nat /\ ~(end < r[k].end)
          BY <1>1, <3>1, <5>1
        <5> QED  BY <5>2
      <4> QED  BY <4>1
    <3>3. PICK last \in 1 .. n + 1 : last = n + 1
      OBVIOUS
    <3>4. t < last /\ last - 1 = n
      BY <3>3
    <3> QED  BY <2>1, <3>2, <3>3, <3>4
  <2>2. CASE beyond # {}
    <3>1. beyond \subseteq Nat
      BY <1>3
    <3>2. PICK last : last = Min(beyond)
      OBVIOUS
    <3>3. last \in beyond /\ \A k \in beyond : last <= k
      BY <2>2, <3>1, <3>2, MinIs
    <3>4. last \in t + 1 .. n /\ (end <= r[last].start \/ end < r[last].end)
      BY <1>3, <3>3
    <3>5. ASSUME NEW k \in t + 1 .. last - 1 PROVE r[k].end <= end
      <4>1. k \in t + 1 .. n /\ k \in 1 .. n /\ ~(last <= k)
        BY <3>4
      <4>2. ~(end <= r[k].start \/ end < r[k].end)
        BY <1>3, <3>3, <4>1
      <4>3. r[k].end \in Nat
        BY <1>1, <4>1
      <4> QED  BY <4>2, <4>3
    <3>6. last \in 1 .. n + 1 /\ t < last /\ last # n + 1
      BY <3>4
    <3> QED  BY <2>2, <3>2, <3>4, <3>5, <3>6
  <2> QED  BY <2>1, <2>2
<1>5. ASSUME NEW k \in 1 .. n, last < k PROVE end <= r[k].start
  <2>1. last \in 1 .. n /\ last # n + 1
    BY <1>5
  <2>2. PICK sl \in Nat, el \in Nat, sk \in Nat :
          r[last].start = sl /\ r[last].end = el /\ r[k].start = sk
    BY <1>1, <2>1
  <2>3. sl <= el /\ el < sk
    BY <1>1, <1>5, <2>1, <2>2
  <2>4. end <= sl \/ end < el
    BY <1>4, <2>1, <2>2
  <2> QED  BY <2>2, <2>3, <2>4
<1>6. PICK u \in BOOLEAN : u <=> (beyond = {} \/ end <= r[last].start)
  <2>1. (beyond = {} \/ end <= r[last].start) \in BOOLEAN
    OBVIOUS
  <2> QED  BY <2>1, Zenon
<1>7. PICK p \in BOOLEAN : p <=> start <= r[t].start
  <2>1. (start <= r[t].start) \in BOOLEAN
    OBVIOUS
  <2> QED  BY <2>1, Zenon
\* the last slot that is touched
<1>8. PICK b \in t .. n :
        /\ b = IF u THEN last - 1 ELSE last
        /\ r[b].start <= end /\ (u <=> r[b].end <= end)
        /\ \A k \in b + 1 .. n : end <= r[k].start
  <2>1. CASE u
    <3>1. PICK b \in t .. n : b = last - 1
      BY <1>4
    <3>2. b \in 1 .. n
      OBVIOUS
    <3>3. PICK s0 \in Nat, e0 \in Nat : r[b].start = s0 /\ r[b].end = e0 /\ s0 <= e0
      BY <1>1, <3>2
    <3>4. e0 <= end
      <4>1. CASE b = t
        BY <3>3, <4>1
      <4>2. CASE b # t
        <5>1. b \in t + 1 .. last - 1
          BY <3>1, <4>2
        <5> QED  BY <1>4, <3>3, <5>1
      <4> QED  BY <4>1, <4>2
    <3>5. ASSUME NEW k \in b + 1 .. n PROVE end <= r[k].start
      <4>1. k \in 1 .. n /\ (k = last \/ last < k)
        BY <3>1
      <4>2. CASE k = last
        <5>1. beyond # {}
          BY <1>4, <4>1, <4>2
        <5> QED  BY <1>6, <2>1, <4>2, <5>1
      <4>3. CASE last < k
        BY <1>5, <4>1, <4>3
      <4> QED  BY <4>1, <4>2, <4>3
    <3>6. r[b].start <= end /\ r[b].end <= end
      BY <3>3, <3>4
    <3> QED  BY <2>1, <3>1, <3>5, <3>6
  <2>2. CASE ~u
    <3>1. last \in 1 .. n /\ last \in t .. n /\ last # n + 1
      BY <1>4, <1>6, <2>2
    <3>2. PICK s0 \in Nat, e0 \in Nat : r[last].start = s0 /\ r[last].end = e0
      BY <1>1, <3>1
    <3>3. ~(end <= s0) /\ (end <= s0 \/ end < e0)
      BY <1>4, <1>6, <2>2, <3>1, <3>2
    <3>4. r[last].start <= end /\ ~(r[last].end <= end)
      BY <3>2, <3>3
    <3>5. ASSUME NEW k \in last + 1 .. n PROVE end <= r[k].start
      <4>1. k \in 1 .. n /\ last < k
        OBVIOUS
      <4> QED  BY <1>5, <4>1
    <3> QED  BY <2>2, <3>1, <3>4, <3>5
  <2> QED  BY <2>1, <2>2
<1>9. PICK x, z : x = Interval(r[t].start, start) /\ z = Interval(end, r[b].end)
  OBVIOUS
<1>10. x \in Pairs /\ x.end = start /\ z \in Pairs /\ z.start = end
  <2>1. b \in 1 .. n
    OBVIOUS
  <2>2. r[t].start \in Nat /\ r[b].end \in Nat
    BY <1>1, <2>1
  <2> QED  BY <1>9, <2>2 DEF Interval, Pairs
<1>11. ~u => last # n + 1
  BY <1>4, <1>6
<1>12. PICK c \in Seq(Pairs) : Written(c, r, n, t, last, x, z, p, u)
  <2>1. r \in Seq(Pairs) /\ t < last /\ x \in Pairs /\ z \in Pairs
    BY <1>1, <1>4, <1>10, Zenon
  <2>2. Writable(r, n, t, last, x, z, p, u)
    BY <1>11, <2>1, Zenon DEF Writable
  <2> QED  BY <2>2, TwoWrites, Zenon
<1>13. /\ c = LET kept == IF p THEN r ELSE ReplaceAt(r, t, x)
              IN  IF u THEN kept ELSE ReplaceAt(kept, last, z)
       /\ Len(c) = n
       /\ \A k \in 1 .. n : k # t /\ k # last => c[k] = r[k]
       /\ p => c[t] = r[t]
       /\ ~p => c[t] = x
       /\ u /\ last # n + 1 => c[last] = r[last]
       /\ ~u => c[last] = z
  BY <1>12, Zenon DEF Written
<1>14. PICK f \in 1 .. n + 1 : f = IF p THEN t ELSE t + 1
  OBVIOUS
<1>15. PICK q : q = SubtractAcross(r, start, end, t)
  OBVIOUS
<1>16. q = DropSlots(c, f, last)
  <2>1. CASE u
    BY <1>3, <1>4, <1>6, <1>7, <1>9, <1>13, <1>14, <1>15, <2>1, Zenon DEF SubtractAcross
  <2>2. CASE ~u
    <3>1. b = last
      BY <1>8, <2>2
    <3> QED  BY <1>3, <1>4, <1>6, <1>7, <1>9, <1>13, <1>14, <1>15, <2>2, <3>1, Zenon
             DEF SubtractAcross
  <2> QED  BY <2>1, <2>2
<1>17. PICK i \in 0 .. n, i0 \in 0 .. n : i = f - 1 /\ i0 = t - 1
  OBVIOUS
<1>18. Splice(q, c, i, <<>>, last)
  <2>1. Splice(DropSlots(c, f, last), c, f - 1, <<>>, last)
    BY <1>13, DropIs
  <2> QED  BY <1>16, <1>17, <2>1, Zenon
<1>19. PICK mid : mid = (IF p THEN <<>> ELSE <<x>>) \o (IF u THEN <<>> ELSE <<z>>)
  OBVIOUS
<1>20. Halves(mid, x, z, p, u)
  BY <1>10, <1>19, HalvesAre, Zenon
<1>21. /\ mid \in Seq(Pairs)
       /\ Len(mid) = (IF p THEN 0 ELSE 1) + (IF u THEN 0 ELSE 1)
       /\ ~p => mid[1] = x
       /\ ~u => mid[Len(mid)] = z
  BY <1>10, <1>20, HalvesHold
<1>22. PICK l \in Nat : l = Len(mid) /\ l = (IF p THEN 0 ELSE 1) + (IF u THEN 0 ELSE 1)
  BY <1>21
<1>23. PICK j0 \in last .. n + 1 : j0 = b + 1
  <2>1. b + 1 \in last .. n + 1
    <3>1. CASE u
      BY <1>8, <3>1
    <3>2. CASE ~u
      BY <1>8, <3>2
    <3> QED  BY <3>1, <3>2
  <2> QED  BY <2>1, Zenon
<1>24. Splice(q, r, i0, mid, j0)
  <2>1. i \in i0 .. n /\ l = (i - i0) + (j0 - last)
    BY <1>8, <1>14, <1>17, <1>22, <1>23
  <2>2. \A k \in 1 .. i0 : c[k] = r[k]
    <3>1. ASSUME NEW k \in 1 .. i0 PROVE c[k] = r[k]
      <4>1. k \in 1 .. n /\ k # t /\ k # last
        BY <1>4, <1>17
      <4> QED  BY <1>13, <4>1
    <3> QED  BY <3>1
  <2>3. \A k \in j0 .. n : c[k] = r[k]
    <3>1. ASSUME NEW k \in j0 .. n PROVE c[k] = r[k]
      <4>1. k \in 1 .. n /\ k # t
        BY <1>23
      <4>2. CASE k # last
        BY <1>13, <4>1, <4>2
      <4>3. CASE k = last
        <5>1. u /\ last # n + 1
          BY <1>8, <1>23, <4>3
        <5> QED  BY <1>13, <4>3, <5>1
      <4> QED  BY <4>2, <4>3
    <3> QED  BY <3>1
  <2>4. \A m \in 1 .. i - i0 : mid[m] = c[i0 + m]
    <3>1. ASSUME NEW m \in 1 .. i - i0 PROVE mid[m] = c[i0 + m]
      <4>1. ~p /\ m = 1 /\ i0 + m = t
        BY <1>14, <1>17
      <4> QED  BY <1>13, <1>21, <4>1, Zenon
    <3> QED  BY <3>1
  <2>5. \A m \in 1 .. j0 - last : mid[i - i0 + m] = c[last + m - 1]
    <3>1. ASSUME NEW m \in 1 .. j0 - last PROVE mid[i - i0 + m] = c[last + m - 1]
      <4>1. ~u /\ m = 1 /\ last + m - 1 = last /\ i - i0 + m = l
        BY <1>8, <1>14, <1>17, <1>22, <1>23
      <4> QED  BY <1>13, <1>21, <1>22, <4>1, Zenon
    <3> QED  BY <3>1
  <2>6. Patched(c, r, mid, n, i0, i, last, j0)
    BY <1>22, <2>1, <2>2, <2>3, <2>4, <2>5, Zenon DEF Patched
  <2> QED  BY <1>1, <1>13, <1>18, <1>21, <1>22, <2>1, <2>6, Reslice, Zenon
<1>25. Splice(q, r, t - 1, mid, b + 1)
  BY <1>17, <1>23, <1>24, Zenon
<1>26. Halves(mid, Interval(r[t].start, start), Interval(end, r[b].end), p, u)
  BY <1>9, <1>20, Zenon
<1>27. Takes(q, r, start, end)
  BY <1>2, <1>7, <1>8, <1>25, <1>26, CutTakes, Zenon
<1> QED  BY <1>15, <1>27

\* quicly_ranges_subtract makes the difference, wherever the range falls.
LEMMA SubtractTakes ==
  ASSUME NEW r, Sound(r, FALSE), Limit \in Nat,
         NEW start \in 0 .. Limit, NEW end \in 0 .. Limit, start <= end
  PROVE  Takes(Subtract(r, start, end), r, start, end)
<1>1. PICK n \in Nat : n = Len(r)
  BY LenProperties DEF Sound
<1>2. /\ r \in Seq(Pairs) /\ DOMAIN r = 1 .. n
      /\ \A k \in 1 .. n : r[k].start \in Nat /\ r[k].end \in Nat
      /\ \A k \in 1 .. n : r[k].start <= r[k].end /\ r[k].end <= Limit
      /\ \A k, m \in 1 .. n : k < m => r[k].end < r[m].start
  BY <1>1, SoundNumbers, Zenon
<1>3. CASE start = end \/ n = 0 \/ end <= r[1].start \/ r[n].end <= start
  <2>1. Subtract(r, start, end) = r
    BY <1>1, <1>3, Zenon DEF Subtract
  <2>2. ASSUME NEW y, y \in Members(r) PROVE ~(y \in start .. end - 1)
    <3>1. PICK k \in 1 .. n : y \in Span(r[k])
      BY <1>1, <1>2, <2>2, MembersAre
    <3>2. 1 \in 1 .. n /\ n \in 1 .. n
      OBVIOUS
    <3>3. PICK sk \in Nat, ek \in Nat, s1 \in Nat, e1 \in Nat, sn \in Nat, en \in Nat :
            /\ r[k].start = sk /\ r[k].end = ek
            /\ r[1].start = s1 /\ r[1].end = e1
            /\ r[n].start = sn /\ r[n].end = en
      BY <1>2, <3>2
    <3>4. y \in sk .. ek - 1
      BY <3>1, <3>3 DEF Span
    <3>5. s1 <= sk
      <4>1. CASE k = 1
        BY <3>3, <4>1
      <4>2. CASE 1 < k
        <5>1. s1 <= e1 /\ e1 < sk
          BY <1>2, <3>2, <3>3, <4>2
        <5> QED  BY <5>1
      <4> QED  BY <4>1, <4>2
    <3>6. ek <= en
      <4>1. CASE k = n
        BY <3>3, <4>1
      <4>2. CASE k < n
        <5>1. ek < sn /\ sn <= en
          BY <1>2, <3>2, <3>3, <4>2
        <5> QED  BY <5>1
      <4> QED  BY <4>1, <4>2
    <3>7. start = end \/ end <= s1 \/ en <= start
      BY <1>3, <3>2, <3>3
    <3> QED  BY <3>4, <3>5, <3>6, <3>7
  <2>3. Len(r) <= Len(r) + 1
    BY <1>1
  <2> QED  BY <2>1, <2>2, <2>3, Zenon DEF Takes
<1>4. CASE ~(start = end \/ n = 0 \/ end <= r[1].start \/ r[n].end <= start)
  <2>1. start < end /\ n \in 1 .. n
    BY <1>4
  <2>2. PICK ends : ends = {k \in DOMAIN r : start <= r[k].end}
    OBVIOUS
  <2>3. ends \subseteq Nat /\ ends # {}
    <3>1. start <= r[n].end
      BY <1>2, <1>4, <2>1
    <3> QED  BY <1>2, <2>1, <2>2, <3>1
  <2>4. PICK t : t = Min(ends)
    OBVIOUS
  <2>5. t \in ends /\ \A k \in ends : t <= k
    BY <2>3, <2>4, MinIs
  <2>6. t \in 1 .. n /\ start <= r[t].end
    BY <1>2, <2>2, <2>5
  <2>7. ASSUME NEW k \in 1 .. t - 1 PROVE r[k].end < start
    <3>1. k \in 1 .. n /\ ~(t <= k)
      BY <2>6
    <3>2. ~(start <= r[k].end)
      BY <1>2, <2>2, <2>5, <3>1
    <3> QED  BY <1>2, <3>1, <3>2
  <2>8. Touches(r, start, n, t)
    BY <2>6, <2>7, Zenon DEF Touches
  <2>9. CASE end <= r[t].end
    <3>1. Subtract(r, start, end) = SubtractWithin(r, start, end, t)
      BY <1>1, <1>4, <2>2, <2>4, <2>9, Zenon DEF Subtract
    <3>2. Takes(SubtractWithin(r, start, end, t), r, start, end)
      BY <1>1, <2>1, <2>6, <2>8, <2>9, WithinTakes, Zenon
    <3> QED  BY <3>1, <3>2, Zenon
  <2>10. CASE ~(end <= r[t].end)
    <3>1. Subtract(r, start, end) = SubtractAcross(r, start, end, t)
      BY <1>1, <1>4, <2>2, <2>4, <2>10, Zenon DEF Subtract
    <3>2. r[t].end < end
      BY <1>2, <2>6, <2>10
    <3>3. Takes(SubtractAcross(r, start, end, t), r, start, end)
      BY <1>1, <2>1, <2>6, <2>8, <3>2, AcrossTakes, Zenon
    <3> QED  BY <3>1, <3>3, Zenon
  <2> QED  BY <2>9, <2>10
<1> QED  BY <1>3, <1>4, Zenon

\* Dropping the first slots keeps what is not below the first that stays.
LEMMA DropTakes ==
  ASSUME NEW r, Sound(r, FALSE), NEW n \in Nat, n = Len(r), NEW d \in 1 .. n - 1
  PROVE  /\ Sound(DropSlots(r, 1, d + 1), FALSE)
         /\ \A x : x \in Members(DropSlots(r, 1, d + 1))
                     <=> x \in Members(r) /\ x >= r[d + 1].start
         /\ Len(DropSlots(r, 1, d + 1)) <= n
<1>1. /\ r \in Seq(Pairs) /\ DOMAIN r = 1 .. n
      /\ \A k \in 1 .. n : r[k].start \in Nat /\ r[k].end \in Nat
      /\ \A k \in 1 .. n : r[k].start <= r[k].end
      /\ \A k, m \in 1 .. n : k < m => r[k].end < r[m].start
      /\ \A k \in 1 .. n : FALSE \/ r[k].start < r[k].end
  BY SoundNumbers, Zenon
<1>2. PICK j \in 1 .. n : j = d + 1
  OBVIOUS
<1>3. PICK q : q = DropSlots(r, 1, j)
  OBVIOUS
<1>4. Splice(q, r, 0, <<>>, j)
  <2>1. 1 \in 1 .. Len(r) + 1 /\ j \in 1 .. Len(r) + 1 /\ 1 - 1 = 0
    OBVIOUS
  <2>2. Splice(q, r, 1 - 1, <<>>, j)
    BY <1>1, <1>3, <2>1, DropIs, Zenon
  <2> QED  BY <2>1, <2>2, Zenon
<1>5. PICK mid : mid = <<>>
  OBVIOUS
<1>6. mid \in Seq(Pairs) /\ 0 = Len(mid)
  BY <1>5, EmptySeq
<1>7. Fits(r, 0, mid, j, n, 0)
  <2>1. Ordered(mid)
    BY <1>6 DEF Ordered
  <2>2. \A m \in 1 .. 0 : FALSE
    OBVIOUS
  <2>3. \A k \in j .. n : r[k].start < r[k].end
    BY <1>1
  <2>4. 0 < j
    OBVIOUS
  <2> QED  BY <1>6, <2>1, <2>2, <2>3, <2>4, Zenon DEF Fits
<1>8. Sound(q, FALSE) /\ Gathers(q, r, 0, mid, j, n, 0)
  <2>1. 0 \in 0 .. n /\ j \in 1 .. n + 1 /\ 0 \in Nat
    OBVIOUS
  <2> QED  BY <1>4, <1>5, <1>6, <1>7, <2>1, SpliceSound, Zenon
<1>9. ASSUME NEW y PROVE y \in Members(q) <=> y \in Members(r) /\ y >= r[j].start
  <2>1. y \in Members(r) <=> \E k \in 1 .. n : y \in Span(r[k])
    BY <1>1, MembersAre
  <2>2. \A m : m \notin 1 .. 0
    OBVIOUS
  <2>3. y \in Members(q) <=> \E k \in j .. n : y \in Span(r[k])
    BY <1>8, <2>2, Zenon DEF Gathers
  <2>4. PICK sj \in Nat : r[j].start = sj
    BY <1>1
  <2>5. ASSUME NEW k \in 1 .. n, y \in Span(r[k]) PROVE y >= sj <=> k \in j .. n
    <3>1. PICK sk \in Nat, ek \in Nat, ej \in Nat :
            r[k].start = sk /\ r[k].end = ek /\ r[j].end = ej
      BY <1>1
    <3>2. y \in sk .. ek - 1
      BY <2>5, <3>1 DEF Span
    <3>3. CASE k < j
      <4>1. ek < sj
        BY <1>1, <2>4, <3>1, <3>3
      <4> QED  BY <3>2, <3>3, <4>1
    <3>4. CASE k = j
      <4>1. sk = sj
        BY <2>4, <3>1, <3>4
      <4> QED  BY <3>2, <3>4, <4>1
    <3>5. CASE k > j
      <4>1. ej < sk /\ sj <= ej
        BY <1>1, <2>4, <3>1, <3>5
      <4> QED  BY <3>2, <3>5, <4>1
    <3> QED  BY <3>3, <3>4, <3>5
  <2>6. \A k \in j .. n : k \in 1 .. n
    OBVIOUS
  <2> QED  BY <2>1, <2>3, <2>4, <2>5, <2>6, Zenon
<1>10. Len(q) <= n
  <2>1. Len(q) = 0 + 0 + n - j + 1
    BY <1>4, EmptySeq DEF Splice
  <2> QED  BY <2>1
<1> QED  BY <1>2, <1>3, <1>8, <1>9, <1>10, Zenon

-----------------------------------------------------------------------------
(* Search *)

LEMMA LeastIs ==
  ASSUME NEW T, T \subseteq Nat, NEW v \in T, \A k \in T : v <= k
  PROVE  Min(T) = v
<1>1. Min(T) \in T /\ \A k \in T : Min(T) <= k
  BY MinIs
<1>2. PICK m \in Nat : m = Min(T)
  BY <1>1
<1>3. v \in Nat /\ m <= v /\ v <= m
  BY <1>1, <1>2
<1> QED  BY <1>2, <1>3

LEMMA NextMissingIs ==
  ASSUME NEW r, Sound(r, FALSE), Limit \in Nat, NEW lb \in 0 .. Limit,
         r = <<>> \/ r[1].start <= lb
  PROVE  NextMissing(r, lb) = Min({k \in lb .. Limit + 1 : k \notin Members(r)})
<1>1. PICK n \in Nat : n = Len(r)
  BY LenProperties DEF Sound
<1>2. /\ r \in Seq(Pairs) /\ DOMAIN r = 1 .. n
      /\ \A k \in 1 .. n : r[k].start \in Nat /\ r[k].end \in Nat
      /\ \A k \in 1 .. n : r[k].start <= r[k].end /\ r[k].end <= Limit
      /\ \A k, m \in 1 .. n : k < m => r[k].end < r[m].start
  BY <1>1, SoundNumbers, Zenon
<1>3. r = <<>> <=> n = 0
  BY <1>1, <1>2, EmptySeq
<1>4. PICK from \in Nat :
        /\ from = lb
        /\ n # 0 => from >= r[1].start
  BY <1>3
<1>5. PICK T : T = {k \in from .. Limit + 1 : k \notin Members(r)}
  OBVIOUS
<1>6. T \subseteq Nat
  BY <1>5
<1>7. PICK reached : reached = {k \in DOMAIN r : r[k].end >= lb}
  OBVIOUS
<1>8. CASE reached = {} \/ \E i \in reached : InGapBefore(r, i, lb)
  <2>1. NextMissing(r, lb) = lb
    BY <1>7, <1>8, Zenon DEF NextMissing
  \* the slots below the gap, and those above it
  <2>2. PICK g \in 0 .. n : /\ \A k \in 1 .. g : r[k].end < lb
                            /\ \A k \in g + 1 .. n : lb < r[k].start
                            /\ g = 0 => n = 0
    <3>1. CASE reached = {}
      <4>1. \A k \in 1 .. n : ~(r[k].end >= lb)
        BY <1>2, <1>7, <3>1
      <4>2. \A k \in 1 .. n : r[k].end < lb
        BY <1>2, <4>1
      <4>3. \A k \in n + 1 .. n : lb < r[k].start
        OBVIOUS
      <4>4. n \in 0 .. n
        OBVIOUS
      <4> QED  BY <4>2, <4>3, <4>4
    <3>2. CASE \E i \in reached : InGapBefore(r, i, lb)
      <4>1. PICK i \in 1 .. n : i # 1 /\ r[i].start > lb /\ lb > r[i - 1].end
        BY <1>2, <1>7, <3>2 DEF InGapBefore
      <4>2. PICK g \in 1 .. n : g = i - 1
        BY <4>1
      <4>3. PICK sg \in Nat, eg \in Nat, si \in Nat, ei \in Nat :
              /\ r[g].start = sg /\ r[g].end = eg /\ r[i].start = si /\ r[i].end = ei
              /\ sg <= eg /\ si <= ei
        BY <1>2
      <4>4. si > lb /\ lb > eg
        BY <4>1, <4>2, <4>3
      <4>5. ASSUME NEW k \in 1 .. g PROVE r[k].end < lb
        <5>1. k \in 1 .. n
          OBVIOUS
        <5>2. PICK ek \in Nat : r[k].end = ek
          BY <1>2, <5>1
        <5>3. CASE k = g
          BY <4>3, <4>4, <5>3
        <5>4. CASE k < g
          <6>1. ek < sg
            BY <1>2, <4>3, <5>1, <5>2, <5>4
          <6> QED  BY <4>3, <4>4, <5>2, <6>1
        <5> QED  BY <5>3, <5>4
      <4>6. ASSUME NEW k \in g + 1 .. n PROVE lb < r[k].start
        <5>1. k \in 1 .. n /\ (k = i \/ i < k)
          BY <4>2
        <5>2. PICK sk \in Nat : r[k].start = sk
          BY <1>2, <5>1
        <5>3. CASE k = i
          BY <4>3, <4>4, <5>3
        <5>4. CASE i < k
          <6>1. ei < sk
            BY <1>2, <4>3, <5>1, <5>2, <5>4
          <6> QED  BY <4>3, <4>4, <5>2, <6>1
        <5> QED  BY <5>1, <5>3, <5>4
      <4>7. g \in 0 .. n /\ g # 0
        OBVIOUS
      <4> QED  BY <4>5, <4>6, <4>7
    <3> QED  BY <1>8, <3>1, <3>2
  <2>3. lb \notin Members(r)
    <3>1. SUFFICES ASSUME NEW k \in 1 .. n, lb \in Span(r[k]) PROVE FALSE
      BY <1>1, <1>2, MembersAre
    <3>2. PICK sk \in Nat, ek \in Nat : r[k].start = sk /\ r[k].end = ek
      BY <1>2
    <3>3. lb \in sk .. ek - 1
      BY <3>1, <3>2 DEF Span
    <3>4. ek < lb \/ lb < sk
      <4>1. k \in 1 .. g \/ k \in g + 1 .. n
        OBVIOUS
      <4> QED  BY <2>2, <3>2, <4>1
    <3> QED  BY <3>3, <3>4
  <2>4. from = lb
    BY <1>4
  <2>5. lb \in T /\ \A k \in T : lb <= k
    <3>1. lb \in from .. Limit + 1
      BY <2>4
    <3>2. \A k \in from .. Limit + 1 : lb <= k
      BY <2>4
    <3> QED  BY <1>5, <2>3, <3>1, <3>2
  <2>6. Min(T) = lb
    BY <1>6, <2>5, LeastIs
  <2> QED  BY <1>4, <1>5, <2>1, <2>6, Zenon
<1>9. CASE reached # {} /\ ~(\E i \in reached : InGapBefore(r, i, lb))
  <2>1. reached \subseteq Nat
    BY <1>2, <1>7
  <2>2. PICK m : m = Min(reached)
    OBVIOUS
  <2>3. m \in reached /\ \A k \in reached : m <= k
    BY <1>9, <2>1, <2>2, MinIs
  <2>4. m \in 1 .. n /\ r[m].end >= lb
    BY <1>2, <1>7, <2>3
  <2>5. NextMissing(r, lb) = r[m].end
    BY <1>7, <1>9, <2>2, Zenon DEF NextMissing
  <2>6. PICK s0 \in Nat, v \in Nat : r[m].start = s0 /\ r[m].end = v /\ s0 <= v /\ v <= Limit
    BY <1>2, <2>4
  <2>7. m # 1 => s0 <= lb
    <3>1. SUFFICES ASSUME m # 1 PROVE s0 <= lb
      OBVIOUS
    <3>2. m - 1 \in 1 .. n /\ ~(m <= m - 1)
      BY <2>4, <3>1
    <3>3. ~(r[m - 1].end >= lb)
      BY <1>2, <1>7, <2>3, <3>2
    <3>4. r[m - 1].end \in Nat
      BY <1>2, <3>2
    <3>5. lb > r[m - 1].end
      BY <3>3, <3>4
    <3>6. ~(r[m].start > lb)
      BY <1>9, <2>3, <3>1, <3>5 DEF InGapBefore
    <3> QED  BY <2>6, <3>6
  <2>8. s0 <= from /\ from <= v /\ from >= lb
    <3>1. PICK s1 \in Nat, e1 \in Nat : r[1].start = s1 /\ r[1].end = e1 /\ s1 <= e1
      BY <1>2, <2>4
    <3>2. from = IF lb >= s1 THEN lb ELSE s1
      BY <1>4, <2>4, <3>1
    <3>3. lb <= v
      BY <2>4, <2>6
    <3>4. CASE m = 1
      <4>1. s1 = s0 /\ e1 = v
        BY <2>6, <3>1, <3>4
      <4> QED  BY <2>6, <3>2, <3>3, <4>1
    <3>5. CASE m # 1
      <4>1. 1 \in 1 .. n /\ 1 < m
        BY <2>4, <3>5
      <4>2. e1 < s0
        BY <1>2, <2>4, <2>6, <3>1, <4>1
      <4>3. s0 <= lb
        BY <2>7, <3>5
      <4> QED  BY <3>1, <3>2, <3>3, <4>2, <4>3
    <3> QED  BY <3>4, <3>5
  <2>9. v \notin Members(r)
    <3>1. SUFFICES ASSUME NEW k \in 1 .. n, v \in Span(r[k]) PROVE FALSE
      BY <1>1, <1>2, MembersAre
    <3>2. PICK sk \in Nat, ek \in Nat : r[k].start = sk /\ r[k].end = ek
      BY <1>2
    <3>3. v \in sk .. ek - 1
      BY <3>1, <3>2 DEF Span
    <3>4. CASE k < m
      <4>1. ek < s0
        BY <1>2, <2>4, <2>6, <3>2, <3>4
      <4> QED  BY <2>6, <3>3, <4>1
    <3>5. CASE k = m
      <4>1. ek = v
        BY <2>6, <3>2, <3>5
      <4> QED  BY <3>3, <4>1
    <3>6. CASE m < k
      <4>1. v < sk
        BY <1>2, <2>4, <2>6, <3>2, <3>6
      <4> QED  BY <3>3, <4>1
    <3> QED  BY <2>4, <3>4, <3>5, <3>6
  <2>10. ASSUME NEW k \in T PROVE v <= k
    <3>1. k \in from .. Limit + 1 /\ k \notin Members(r)
      BY <1>5
    <3>2. SUFFICES ASSUME k < v PROVE FALSE
      BY <3>1
    <3>3. k \in s0 .. v - 1
      BY <2>8, <3>1, <3>2
    <3>4. k \in Span(r[m])
      BY <2>6, <3>3 DEF Span
    <3>5. k \in Members(r)
      BY <1>1, <1>2, <2>4, <3>4, MembersAre
    <3> QED  BY <3>1, <3>5
  <2>11. v \in T
    <3>1. v \in from .. Limit + 1
      BY <2>6, <2>8
    <3> QED  BY <1>5, <2>9, <3>1
  <2>12. Min(T) = v
    BY <1>6, <2>10, <2>11, LeastIs
  <2> QED  BY <1>4, <1>5, <2>5, <2>6, <2>12, Zenon
<1> QED  BY <1>8, <1>9

-----------------------------------------------------------------------------
(* The invariant *)

LEMMA CapacityKept ==
  ASSUME NEW q, Len(q) \in Nat, Len(ranges) \in Nat, capacity \in Nat,
         Len(ranges) <= capacity, Len(q) <= Len(ranges) + 1, Replace(q)
  PROVE  capacity' \in Nat /\ Len(q) <= capacity'
<1>1. PICK m \in Nat, n \in Nat, c \in Nat : m = Len(q) /\ n = Len(ranges) /\ c = capacity
  OBVIOUS
<1>2. n <= c /\ m <= n + 1
  BY <1>1
<1>3. capacity' \in IF m > n THEN {Grown(c, n)} ELSE IF m < n THEN Shrunk(c, m) ELSE {c}
  BY <1>1, Zenon DEF Replace
<1>4. CASE m > n
  <2>1. capacity' = IF n < c THEN c ELSE IF c < 4 THEN 4 ELSE c * 2
    BY <1>3, <1>4 DEF Grown
  <2>2. (IF n < c THEN c ELSE IF c < 4 THEN 4 ELSE c * 2) \in Nat
    OBVIOUS
  <2>3. m <= IF n < c THEN c ELSE IF c < 4 THEN 4 ELSE c * 2
    BY <1>2
  <2> QED  BY <1>1, <2>1, <2>2, <2>3
<1>5. CASE m < n
  <2>1. capacity' = c \/ (m * 3 <= c /\ capacity' = c \div 2)
    BY <1>3, <1>5 DEF Shrunk
  <2>2. c \div 2 \in Nat /\ (m * 3 <= c => m <= c \div 2)
    OBVIOUS
  <2> QED  BY <1>1, <1>2, <1>5, <2>1, <2>2
<1>6. CASE m = n
  <2>1. capacity' = c
    BY <1>3, <1>6
  <2> QED  BY <1>1, <1>2, <1>6, <2>1
<1> QED  BY <1>4, <1>5, <1>6

LEMMA InvInit ==
  ASSUME LimitAssumption
  PROVE  Init => Inv
<1> SUFFICES ASSUME Init PROVE Inv
  OBVIOUS
<1>1. seeded \in BOOLEAN /\ capacity = 1 /\ held = {}
  BY DEF Init
<1>2. CASE ~seeded
  <2>1. ranges = <<>>
    BY <1>2 DEF Init
  <2>2. ranges \in Seq(Pairs) /\ Len(ranges) = 0
    BY <2>1, EmptySeq
  <2>3. Sound(ranges, seeded)
    BY <2>2 DEF Sound, Ordered, Filled, Bounded
  <2>4. \A x : x \notin Members(ranges)
    <3>1. \A k : k \notin 1 .. 0
      OBVIOUS
    <3> QED  BY <2>2, <3>1, MembersAre, Zenon
  <2> QED  BY <1>1, <1>2, <2>2, <2>3, <2>4 DEF Inv
<1>3. CASE seeded
  <2>1. ranges = <<Interval(0, 0)>>
    BY <1>3 DEF Init
  <2>2. /\ ranges \in Seq(Pairs) /\ Len(ranges) = 1
        /\ ranges[1].start = 0 /\ ranges[1].end = 0
    BY <2>1 DEF Interval, Pairs
  <2>3. Sound(ranges, seeded)
    BY <1>3, <2>2 DEF LimitAssumption, Sound, Ordered, Filled, Bounded
  <2>4. \A x : x \notin Members(ranges)
    <3>1. SUFFICES ASSUME NEW k \in 1 .. 1, NEW x, x \in Span(ranges[k]) PROVE FALSE
      BY <2>2, MembersAre
    <3> QED  BY <2>2, <3>1 DEF Span
  <2>5. ranges # <<>>
    BY <2>2, EmptySeq
  <2>6. held = Members(ranges)
    BY <1>1, <2>4
  <2> QED  BY <1>1, <2>2, <2>3, <2>5, <2>6 DEF Inv
<1> QED  BY <1>1, <1>2, <1>3

LEMMA InvNext ==
  ASSUME LimitAssumption
  PROVE  Inv /\ [Next]_vars => Inv'
<1> SUFFICES ASSUME Inv, [Next]_vars PROVE Inv'
  OBVIOUS
<1>1. /\ seeded \in BOOLEAN /\ Sound(ranges, seeded) /\ Rooted(ranges, seeded)
      /\ capacity \in Nat /\ Len(ranges) <= capacity /\ held = Members(ranges)
  BY DEF Inv, Rooted
<1>2. ranges \in Seq(Pairs) /\ Len(ranges) \in Nat
  BY <1>1, LenProperties DEF Sound
<1>3. Limit \in Nat
  BY DEF LimitAssumption
\* every operation comes down to a list put in place of the old one
<1>4. ASSUME NEW q, Replace(q), Sound(q, seeded), Rooted(q, seeded),
             Len(q) <= Len(ranges) + 1, seeded' = seeded,
             held' = Members(q)
      PROVE  Inv'
  <2>1. q \in Seq(Pairs) /\ Len(q) \in Nat
    BY <1>4, LenProperties DEF Sound
  <2>2. capacity' \in Nat /\ Len(q) <= capacity'
    BY <1>1, <1>2, <1>4, <2>1, CapacityKept
  <2>3. ranges' = q
    BY <1>4 DEF Replace
  <2> QED  BY <1>1, <1>4, <2>2, <2>3 DEF Inv, Rooted
<1>5. ASSUME NEW start \in 0 .. Limit, NEW end \in 0 .. Limit, start <= end,
             AddRange(start, end)
      PROVE  Inv'
  <2>1. PICK q : q = Add(ranges, start, end)
    OBVIOUS
  <2>2. Adds(q, ranges, seeded, start, end)
    BY <1>1, <1>3, <1>5, <2>1, AddAdds, Zenon
  <2>3. Replace(q) /\ held' = held \union (start .. end - 1) /\ seeded' = seeded
    BY <1>5, <2>1 DEF AddRange
  <2>4. held' = Members(q)
    BY <1>1, <2>2, <2>3 DEF Adds
  <2> QED  BY <1>4, <2>2, <2>3, <2>4 DEF Adds
<1>6. ASSUME NEW start \in 0 .. Limit, NEW end \in 0 .. Limit, start <= end,
             SubtractRange(start, end)
      PROVE  Inv'
  <2>1. PICK q : q = Subtract(ranges, start, end)
    OBVIOUS
  <2>2. ~seeded /\ Replace(q) /\ held' = held \ (start .. end - 1) /\ seeded' = seeded
    BY <1>6, <2>1 DEF SubtractRange
  <2>3. seeded = FALSE
    BY <1>1, <2>2
  <2>4. Takes(q, ranges, start, end)
    BY <1>1, <1>3, <1>6, <2>1, <2>3, SubtractTakes, Zenon
  <2>5. held' = Members(q)
    BY <1>1, <2>2, <2>4 DEF Takes
  <2>6. Rooted(q, seeded)
    BY <2>2 DEF Rooted
  <2> QED  BY <1>4, <2>2, <2>3, <2>4, <2>5, <2>6 DEF Takes
<1>7. ASSUME NEW d \in 1 .. Limit, DropOldest(d)
      PROVE  Inv'
  <2>1. PICK q : q = DropSlots(ranges, 1, d + 1)
    OBVIOUS
  <2>2. /\ ~seeded /\ d < Len(ranges) /\ Replace(q) /\ seeded' = seeded
        /\ held' = {m \in held : m >= ranges[d + 1].start}
    BY <1>7, <2>1 DEF DropOldest
  <2>3. seeded = FALSE /\ d \in 1 .. Len(ranges) - 1
    BY <1>1, <1>2, <1>3, <2>2
  <2>4. /\ Sound(q, FALSE) /\ Len(q) <= Len(ranges)
        /\ \A x : x \in Members(q) <=> x \in Members(ranges) /\ x >= ranges[d + 1].start
    BY <1>1, <1>2, <2>1, <2>3, DropTakes, Zenon
  <2>5. held' = Members(q)
    BY <1>1, <2>2, <2>4
  <2>6. Rooted(q, seeded)
    BY <2>2 DEF Rooted
  <2>7. Len(q) <= Len(ranges) + 1
    <3>1. Len(q) \in Nat
      BY <2>4, LenProperties DEF Sound
    <3> QED  BY <1>2, <2>4, <3>1
  <2> QED  BY <1>4, <2>2, <2>3, <2>4, <2>5, <2>6, <2>7
<1>8. CASE Clear
  <2>1. ~seeded /\ ranges' = <<>> /\ capacity' = 1 /\ held' = {} /\ seeded' = seeded
    BY <1>8 DEF Clear
  <2>2. ranges' \in Seq(Pairs) /\ Len(ranges') = 0
    BY <2>1, EmptySeq
  <2>3. Sound(ranges', seeded')
    BY <2>2 DEF Sound, Ordered, Filled, Bounded
  <2>4. \A x : x \notin Members(ranges')
    <3>1. \A k : k \notin 1 .. 0
      OBVIOUS
    <3> QED  BY <2>2, <3>1, MembersAre, Zenon
  <2>5. held' = Members(ranges')
    BY <2>1, <2>4
  <2> QED  BY <1>1, <2>1, <2>2, <2>3, <2>5 DEF Inv
<1>9. CASE UNCHANGED vars
  <2>1. ranges' = ranges /\ capacity' = capacity /\ seeded' = seeded /\ held' = held
    BY <1>9 DEF vars
  <2> QED  BY <1>1, <2>1 DEF Inv, Rooted
<1> QED  BY <1>5, <1>6, <1>7, <1>8, <1>9, Zenon DEF Next

\* What the invariant says is what was to be shown.
LEMMA InvExact ==
  ASSUME LimitAssumption
  PROVE  Inv => RangesExact
<1> SUFFICES ASSUME Inv PROVE RangesExact
  OBVIOUS
<1>1. /\ seeded \in BOOLEAN /\ Sound(ranges, seeded)
      /\ seeded => ranges # <<>> /\ ranges[1].start = 0
      /\ Len(ranges) <= capacity /\ held = Members(ranges)
  BY DEF Inv
<1>2. PICK n \in Nat : n = Len(ranges)
  BY <1>1, LenProperties DEF Sound
<1>3. /\ ranges \in Seq(Pairs) /\ DOMAIN ranges = 1 .. n
      /\ \A k, m \in 1 .. n : k < m => ranges[k].end < ranges[m].start
  BY <1>1, <1>2, SoundNumbers, Zenon
<1>4. ASSUME NEW k \in 1 .. n
      PROVE  \/ ranges[k].start < ranges[k].end
             \/ seeded /\ k = 1 /\ ranges[k] = Interval(0, 0)
  <2>1. \/ ranges[k].start < ranges[k].end
        \/ seeded /\ k = 1 /\ ranges[k].start = 0 /\ ranges[k].end = 0
    BY <1>1, <1>2, Zenon DEF Sound, Filled
  <2>2. ranges[k] \in Pairs
    BY <1>2, <1>3, ElementOfSeq
  <2>3. ranges[k].start = 0 /\ ranges[k].end = 0 => ranges[k] = Interval(0, 0)
    BY <2>2 DEF Pairs, Interval
  <2> QED  BY <2>1, <2>3, Zenon
<1>5. ASSUME NEW k \in 1 .. n - 1 PROVE ranges[k].end < ranges[k + 1].start
  <2>1. k \in 1 .. n /\ k + 1 \in 1 .. n /\ k < k + 1
    OBVIOUS
  <2> QED  BY <1>3, <2>1, Zenon
<1>6. Canonical
  BY <1>1, <1>2, <1>3, <1>4, <1>5, Zenon DEF Canonical
<1>7. FindsNextMissing
  <2>1. SUFFICES ASSUME ~seeded, NEW lb \in 0 .. Limit,
                        ranges = <<>> \/ ranges[1].start <= lb
                 PROVE  NextMissing(ranges, lb) = Min({k \in lb .. Limit + 1 : k \notin held})
    BY Zenon DEF FindsNextMissing, IsNextMissing
  <2>2. seeded = FALSE
    BY <1>1, <2>1
  <2>3. Limit \in Nat
    BY DEF LimitAssumption
  <2> QED  BY <1>1, <2>1, <2>2, <2>3, NextMissingIs, Zenon
<1> QED  BY <1>1, <1>6, <1>7 DEF RangesExact, HoldsTheSet, FitsCapacity

\* The array of a quicly_ranges_t is what the invariant says, whatever is
\* added, subtracted, dropped or cleared.
THEOREM Invariance ==
  ASSUME LimitAssumption
  PROVE  Spec => []Inv
<1> QED  BY InvInit, InvNext, PTL DEF Spec

\* Whatever quicly_ranges_add, quicly_ranges_subtract and the dropping of the
\* oldest ranges are given, in whatever order and for integers of any size, the
\* array holds exactly the set that was asked for, in its one canonical form,
\* within its memory, and quicly_ranges_next_missing finds what is missing from
\* a bound that is not below the first range.
THEOREM RangesAreExact ==
  ASSUME LimitAssumption
  PROVE  Spec => []RangesExact
<1> QED  BY Invariance, InvExact, PTL
=============================================================================
