-------------------------- MODULE CidExchangeProofs --------------------------
(***************************************************************************)
(* Connection IDs between two endpoints, for any number of CIDs given,     *)
(* slots, paths and sequence numbers.                                      *)
(*                                                                         *)
(* None of the properties is inductive.  What links the endpoints is a     *)
(* count: a slot or a retirement that was taken back stands for every      *)
(* sequence number that the issuer has used (Room), since it uses a new    *)
(* one only for one taken back, and the peer expects one more for each     *)
(* that it lets go of.  So no CID is beyond the peer's limit.  In return   *)
(* all that the peer gives back were issued (Holding), and not all of      *)
(* them, as the frame leaves on a path whose CID is not among them         *)
(* (Numbers).  The array of the issuer holds exactly the CIDs issued and   *)
(* not taken back, those to be sent at its front (Sound): on this rests    *)
(* that each operation on it finds the CID it looks for.                   *)
(***************************************************************************)
EXTENDS CidExchange, FiniteSetTheorems, SequenceTheorems, TLAPS

Cid == [state : L!State, sequence : L!Sequence \union {None}]

Issued == 0 .. path_id - 1

-----------------------------------------------------------------------------
(* The inductive invariant *)

\* exactly the CIDs in m are pending, they are at the front and in this order
Queued(set, N, m) ==
  /\ m \in Seq(L!Sequence) /\ Len(m) <= N
  /\ \A i \in 1 .. N : set[i].state = "PENDING" <=> i <= Len(m)
  /\ \A i \in 1 .. Len(m) : set[i].sequence = m[i]

\* the CIDs in the set are those in `active`, each in one place
Content(set, N, active) ==
  /\ \A i \in 1 .. N : set[i].state = "IDLE" <=> set[i].sequence = None
  /\ \A i, j \in 1 .. N :
       set[i].sequence = set[j].sequence => i = j \/ set[i].sequence = None
  /\ \A s : s \in active <=> s # None /\ \E i \in 1 .. N : set[i].sequence = s

\* the frames of those that wait for an ACK are in the sentmap
Flying(set, N, sent) ==
  \A i \in 1 .. N : set[i].state = "INFLIGHT" => set[i].sequence \in sent

Sound(set, N, m, sent, active) ==
  /\ N \in Nat /\ set \in [1 .. N -> Cid]
  /\ Queued(set, N, m) /\ Content(set, N, active) /\ Flying(set, N, sent)

\* the issuer
Array ==
  /\ Len(cids) \in {1, LocalSize}
  /\ Sound(cids, Len(cids), marked, inflight, Issued \ taken_back)
  /\ others \in BOOLEAN /\ (marked # <<>> => others)
  /\ Len(cids) = 1 => /\ cids[1] = [state |-> "DELIVERED", sequence |-> 0]
                      /\ path_id = 1 /\ inflight = {} /\ lost = {}
  /\ error = "none"

\* sequence numbers
Numbers ==
  /\ path_id \in 1 .. MaxPathId
  /\ inflight \subseteq DOMAIN ask /\ lost \subseteq DOMAIN ask
  /\ arrived \subseteq DOMAIN ask
  /\ ask \in [DOMAIN ask -> 0 .. RetireLimit]
  /\ \A s \in DOMAIN ask : s \in Issued /\ ask[s] \in {0, s}
  /\ given_back \subseteq Issued /\ taken_back \subseteq given_back
  /\ path_id <= LocalSize + Cardinality(taken_back)
  /\ Issued \ given_back # {}

SlotState == {"UNAVAILABLE", "IN_USE", "AVAILABLE"}
Usable(held) == R!InState(held, "IN_USE") \union R!InState(held, "AVAILABLE")

\* the slots `held` up to `largest`; `gone` were in slots once
Holding(held, largest, gone, issued) ==
  /\ largest \in Nat
  /\ held \in [DOMAIN held -> SlotState]
  /\ DOMAIN held \subseteq 0 .. largest
  /\ Cardinality(DOMAIN held) = Slots
  /\ Usable(held) \subseteq issued
  /\ gone \subseteq issued /\ gone \subseteq 0 .. largest
  /\ DOMAIN held \intersect gone = {}

Gone == retired \union r_inflight \union given_back

PathRecord == [state : R!PathState, probe_only : BOOLEAN, dcid : Nat \union {None}]

Matching(map, held) ==
  /\ map \in [R!Path -> PathRecord]
  /\ \A i, j \in R!Path : i # j /\ map[i].dcid # None => map[i].dcid # map[j].dcid
  /\ \A s : s \in R!InState(held, "IN_USE")
              <=> s # None /\ \E i \in R!Path : map[i].dcid = s

Peer ==
  /\ Holding(slots, largest_sequence_expected, Gone, Issued)
  /\ Matching(paths, slots)
  /\ r_error \in {"none", "STATE_EXHAUSTION"}
  /\ r_others \in BOOLEAN
  /\ NoRetirementForgotten

Inv == Array /\ Numbers /\ Peer

-----------------------------------------------------------------------------
(* Numbers *)

\* Every set of natural numbers has a least element.
LEMMA LeastExists ==
  ASSUME NEW T, T \subseteq Nat, T # {}
  PROVE  \E m \in T : \A k \in T : m <= k
<1>1. PICK Rel : Rel = OpToRel(<, Nat)
  OBVIOUS
<1>2. IsWellFoundedOn(Rel, Nat)
  BY <1>1, NatLessThanWellFounded
<1>3. PICK m \in T : \A k \in T : ~(<<k, m>> \in Rel)
  BY <1>2, WFMin
<1>4. \A k \in T : <<k, m>> \in Rel <=> k < m
  BY <1>1 DEF OpToRel
<1>5. \A k \in T : ~(k < m)
  BY <1>3, <1>4
<1> QED  BY <1>5

LEMMA MinIs ==
  ASSUME NEW T, T \subseteq Nat, T # {}
  PROVE  /\ L!Min(T) \in T /\ \A k \in T : L!Min(T) <= k
         /\ R!Min(T) \in T /\ \A k \in T : R!Min(T) <= k
BY LeastExists DEF L!Min, R!Min

\* An element that is not above any other is the least, likewise the greatest.
LEMMA LeastIs ==
  ASSUME NEW T, T \subseteq Nat, NEW m \in T, \A k \in T : m <= k
  PROVE  L!Min(T) = m
<1>1. L!Min(T) \in T /\ L!Min(T) <= m
  BY MinIs
<1>2. PICK l \in Nat : l = L!Min(T)
  BY <1>1
<1>3. m <= l /\ m \in Nat
  BY <1>1, <1>2
<1> QED  BY <1>1, <1>2, <1>3

LEMMA GreatestIs ==
  ASSUME NEW T, T \subseteq Int, NEW m \in T, \A k \in T : k <= m
  PROVE  L!Max(T) = m /\ R!Max(T) = m
<1>1. \E x \in T : \A y \in T : x >= y
  OBVIOUS
<1>2. L!Max(T) \in T /\ L!Max(T) >= m /\ R!Max(T) \in T /\ R!Max(T) >= m
  BY <1>1 DEF L!Max, R!Max
<1>3. \A k \in T : k \in Int /\ (k >= m => k = m)
  OBVIOUS
<1> QED  BY <1>2, <1>3

LEMMA LesserIs ==
  ASSUME NEW a \in Nat, NEW b \in Nat
  PROVE  L!Min({a, b}) = IF a <= b THEN a ELSE b
<1>1. CASE a <= b
  BY <1>1, LeastIs
<1>2. CASE b < a
  BY <1>2, LeastIs
<1> QED  BY <1>1, <1>2

-----------------------------------------------------------------------------
(* The array of CIDs *)

\* exactly the first p CIDs are pending
Front(set, N, p) ==
  /\ N \in Nat /\ p \in 0 .. N /\ set \in [1 .. N -> Cid]
  /\ \A i \in 1 .. N : set[i].state = "PENDING" <=> i <= p

\* A CID that becomes pending is put behind those that are.
LEMMA MarkPendingIs ==
  ASSUME NEW set, NEW N, NEW p, Front(set, N, p), NEW x \in p + 1 .. N
  PROVE  L!do_mark_pending(set, x)
           = [i \in 1 .. N |->
                IF i = p + 1 THEN [state |-> "PENDING", sequence |-> set[x].sequence]
                ELSE IF i = x THEN set[p + 1] ELSE set[i]]
<1>1. /\ N \in Nat /\ p \in Nat /\ p < x /\ x <= N /\ x \in 1 .. N /\ p + 1 \in 1 .. N
      /\ set \in [1 .. N -> Cid]
  BY DEF Front
<1>2. PICK c : c = [state |-> "PENDING", sequence |-> set[x].sequence]
  OBVIOUS
<1>3. [set[x] EXCEPT !.state = "PENDING"] = c
  BY <1>1, <1>2 DEF Cid
<1>4. PICK pd : pd = [set EXCEPT ![x].state = "PENDING"]
  OBVIOUS
<1>5. pd = [i \in 1 .. N |-> IF i = x THEN c ELSE set[i]]
  BY <1>1, <1>3, <1>4
<1>6. PICK ahead : ahead = {j \in 1 .. x - 1 : ~ L!IsPending(pd, j)}
  OBVIOUS
<1>7. \A j \in 1 .. x - 1 : j \in ahead <=> j > p
  BY <1>1, <1>5, <1>6 DEF L!IsPending, Front
<1>8. L!do_mark_pending(set, x)
        = IF ahead = {} THEN pd ELSE L!swap_cids(pd, x, L!Min(ahead))
  BY <1>4, <1>6 DEF L!do_mark_pending
<1>9. CASE x = p + 1
  <2>1. ahead = {}
    BY <1>1, <1>6, <1>7, <1>9
  <2>2. pd = [i \in 1 .. N |->
                IF i = p + 1 THEN c
                ELSE IF i = x THEN set[p + 1] ELSE set[i]]
    BY <1>5, <1>9
  <2> QED  BY <1>2, <1>8, <2>1, <2>2
<1>10. CASE x > p + 1
  <2>1. p + 1 \in ahead /\ ahead \subseteq Nat /\ \A k \in ahead : p + 1 <= k
    BY <1>1, <1>6, <1>7, <1>10
  <2>2. ahead # {} /\ L!Min(ahead) = p + 1
    BY <2>1, LeastIs
  <2>3. L!swap_cids(pd, x, p + 1) = [pd EXCEPT ![x] = pd[p + 1], ![p + 1] = pd[x]]
    BY DEF L!swap_cids
  <2>4. pd[x] = c /\ pd[p + 1] = set[p + 1]
    BY <1>1, <1>5, <1>10
  <2>5. L!swap_cids(pd, x, p + 1)
          = [i \in 1 .. N |->
               IF i = p + 1 THEN c ELSE IF i = x THEN set[p + 1] ELSE set[i]]
    BY <1>1, <1>5, <1>10, <2>3, <2>4
  <2> QED  BY <1>2, <1>8, <2>2, <2>5
<1> QED  BY <1>1, <1>9, <1>10

\* The last of the pending CIDs that follow the one at x.
LEMMA BehindIs ==
  ASSUME NEW N \in Nat, NEW p \in 0 .. N, NEW x \in 1 .. N,
         NEW set \in [1 .. N -> Cid],
         \A i \in x + 1 .. N : set[i].state = "PENDING" <=> i <= p
  PROVE  /\ x <= p => L!Behind(set, x) = p
         /\ x > p => L!Behind(set, x) = x
<1>1. Len(set) = N
  BY DEF Cid
<1>2. PICK T : T = {k \in x .. N : \A j \in x + 1 .. k : L!IsPending(set, j)}
  OBVIOUS
<1>3. L!Behind(set, x) = L!Max(T)
  BY <1>1, <1>2 DEF L!Behind
<1>4. T \subseteq Nat /\ T \subseteq Int
  BY <1>2
<1>5. CASE x <= p
  <2>1. p \in T
    BY <1>2, <1>5 DEF L!IsPending
  <2>2. \A k \in T : k <= p
    <3>1. SUFFICES ASSUME NEW k \in T, k > p PROVE FALSE
      BY <1>4
    <3>2. k \in x .. N /\ k \in x + 1 .. k /\ k \in x + 1 .. N
      BY <1>2, <1>5, <3>1
    <3>3. set[k].state = "PENDING"
      BY <1>2, <3>2 DEF L!IsPending
    <3> QED  BY <3>1, <3>2, <3>3
  <2>3. L!Max(T) = p
    BY ONLY <1>4, <2>1, <2>2, GreatestIs
  <2> QED  BY <1>3, <1>5, <2>3
<1>6. CASE x > p
  <2>1. x \in T
    BY <1>2
  <2>2. \A k \in T : k <= x
    <3>1. SUFFICES ASSUME NEW k \in T, k > x PROVE FALSE
      BY <1>4
    <3>2. k \in x .. N /\ x + 1 \in x + 1 .. k /\ x + 1 \in x + 1 .. N
      BY <1>2, <3>1
    <3>3. set[x + 1].state = "PENDING"
      BY <1>2, <3>2 DEF L!IsPending
    <3> QED  BY <1>6, <3>2, <3>3
  <2>3. L!Max(T) = x
    BY ONLY <1>4, <2>1, <2>2, GreatestIs
  <2> QED  BY <1>3, <1>6, <2>3
<1> QED  BY <1>5, <1>6

\* the array with the CID at x moved to place p, behind those in between
Moved(set, N, x, p) ==
  [i \in 1 .. N |-> IF i = p THEN set[x]
                    ELSE IF x <= i /\ i < p THEN set[i + 1] ELSE set[i]]

LEMMA MoveBehindIs ==
  ASSUME NEW N \in Nat, NEW p \in 0 .. N, NEW x \in 1 .. N,
         NEW set \in [1 .. N -> Cid],
         \A i \in x + 1 .. N : set[i].state = "PENDING" <=> i <= p
  PROVE  /\ x <= p => L!MoveBehind(set, x) = Moved(set, N, x, p)
         /\ x > p => L!MoveBehind(set, x) = set
<1>1. PICK h : h = L!Behind(set, x)
  OBVIOUS
<1>2. (x <= p => h = p) /\ (x > p => h = x)
  BY <1>1, BehindIs
<1>3. L!MoveBehind(set, x)
        = [i \in DOMAIN set |-> IF i = h THEN set[x]
                                ELSE IF i \in x .. h - 1 THEN set[i + 1] ELSE set[i]]
  BY <1>1 DEF L!MoveBehind
<1>4. CASE x <= p
  BY <1>2, <1>3, <1>4 DEF Moved
<1>5. CASE x > p
  BY <1>2, <1>3, <1>5
<1> QED  BY <1>4, <1>5

\* each CID in `new` comes from place f[i] of `set`
Rearranges(f, g, N, set, new) ==
  /\ f \in [1 .. N -> 1 .. N] /\ g \in [1 .. N -> 1 .. N]
  /\ \A i \in 1 .. N : f[g[i]] = i /\ g[f[i]] = i
  /\ \A i \in 1 .. N : /\ new[i].sequence = set[f[i]].sequence
                       /\ new[i].state = "IDLE" <=> set[f[i]].state = "IDLE"

\* Rearranging the array does not change its content.
LEMMA Rearranged ==
  ASSUME NEW N \in Nat, NEW set, NEW new, NEW A, Content(set, N, A),
         NEW f, NEW g, Rearranges(f, g, N, set, new)
  PROVE  Content(new, N, A)
<1> /\ f \in [1 .. N -> 1 .. N] /\ g \in [1 .. N -> 1 .. N]
    /\ \A i \in 1 .. N : f[g[i]] = i /\ g[f[i]] = i
    /\ \A i \in 1 .. N : /\ new[i].sequence = set[f[i]].sequence
                         /\ new[i].state = "IDLE" <=> set[f[i]].state = "IDLE"
  BY DEF Rearranges
<1>1. \A i \in 1 .. N : new[i].state = "IDLE" <=> new[i].sequence = None
  BY DEF Content
<1>2. ASSUME NEW i \in 1 .. N, NEW j \in 1 .. N, new[i].sequence = new[j].sequence
      PROVE  i = j \/ new[i].sequence = None
  <2>1. PICK a \in 1 .. N, b \in 1 .. N : a = f[i] /\ b = f[j]
    OBVIOUS
  <2>2. set[a].sequence = set[b].sequence => a = b \/ set[a].sequence = None
    BY DEF Content
  <2>3. new[i].sequence = set[a].sequence /\ new[j].sequence = set[b].sequence
    BY <2>1, Zenon
  <2>4. f[i] = f[j] \/ set[f[i]].sequence = None
    BY ONLY <1>2, <2>1, <2>2, <2>3, Zenon
  <2>5. f[i] = f[j] => i = j
    BY Zenon
  <2> QED  BY <2>4, <2>5
<1>3. ASSUME NEW s
      PROVE  (\E i \in 1 .. N : new[i].sequence = s) <=> (\E i \in 1 .. N : set[i].sequence = s)
  <2>1. \A i \in 1 .. N : new[i].sequence = s => set[f[i]].sequence = s
    OBVIOUS
  <2>2. \A i \in 1 .. N : set[i].sequence = s => new[g[i]].sequence = s
    OBVIOUS
  <2>3. \A i \in 1 .. N : f[i] \in 1 .. N /\ g[i] \in 1 .. N
    OBVIOUS
  <2> QED  BY ONLY <2>1, <2>2, <2>3, Zenon
<1>4. \A s : s \in A <=> s # None /\ \E i \in 1 .. N : new[i].sequence = s
  BY ONLY Content(set, N, A), <1>3, Zenon DEF Content
<1> QED  BY ONLY <1>1, <1>2, <1>4, Zenon DEF Content

LEMMA MovedContent ==
  ASSUME NEW N \in Nat, NEW set, NEW new, NEW A, Content(set, N, A),
         NEW p \in 1 .. N, NEW x \in 1 .. p,
         \A i \in 1 .. N : /\ new[i].sequence = Moved(set, N, x, p)[i].sequence
                           /\ new[i].state = "IDLE" <=> Moved(set, N, x, p)[i].state = "IDLE"
  PROVE  Content(new, N, A)
<1>1. PICK f : f = [i \in 1 .. N |-> IF i = p THEN x ELSE IF x <= i /\ i < p THEN i + 1 ELSE i]
  OBVIOUS
<1>2. PICK g : g = [i \in 1 .. N |-> IF i = x THEN p ELSE IF x < i /\ i <= p THEN i - 1 ELSE i]
  OBVIOUS
<1>3. f \in [1 .. N -> 1 .. N] /\ g \in [1 .. N -> 1 .. N]
  BY <1>1, <1>2
<1>4. \A i \in 1 .. N : f[g[i]] = i /\ g[f[i]] = i
  BY <1>1, <1>2
<1>5. \A i \in 1 .. N : Moved(set, N, x, p)[i] = set[f[i]]
  BY <1>1 DEF Moved
<1>6. \A i \in 1 .. N : /\ new[i].sequence = set[f[i]].sequence
                        /\ new[i].state = "IDLE" <=> set[f[i]].state = "IDLE"
  BY <1>5
<1>7. Rearranges(f, g, N, set, new)
  BY ONLY <1>3, <1>4, <1>6, Zenon DEF Rearranges
<1> QED  BY <1>7, Rearranged

LEMMA SwappedContent ==
  ASSUME NEW N \in Nat, NEW set, NEW new, NEW A, Content(set, N, A),
         NEW p \in 1 .. N, NEW x \in 1 .. N,
         \A i \in 1 .. N :
           LET j == IF i = p THEN x ELSE IF i = x THEN p ELSE i
           IN  /\ new[i].sequence = set[j].sequence
               /\ new[i].state = "IDLE" <=> set[j].state = "IDLE"
  PROVE  Content(new, N, A)
<1>1. PICK f : f = [i \in 1 .. N |-> IF i = p THEN x ELSE IF i = x THEN p ELSE i]
  OBVIOUS
<1>2. f \in [1 .. N -> 1 .. N]
  BY <1>1
<1>3. \A i \in 1 .. N : f[f[i]] = i
  BY <1>1
<1>4. \A i \in 1 .. N : /\ new[i].sequence = set[f[i]].sequence
                        /\ new[i].state = "IDLE" <=> set[f[i]].state = "IDLE"
  BY <1>1
<1>5. Rearranges(f, f, N, set, new)
  BY ONLY <1>2, <1>3, <1>4, Zenon DEF Rearranges
<1> QED  BY <1>5, Rearranged

\* the sequence m without the element at k
Without(m, k) == [i \in 1 .. Len(m) - 1 |-> IF i < k THEN m[i] ELSE m[i + 1]]

LEMMA TailIs ==
  ASSUME NEW m \in Seq(L!Sequence), NEW n \in 0 .. Len(m)
  PROVE  /\ SubSeq(m, n + 1, Len(m)) \in Seq(L!Sequence)
         /\ Len(SubSeq(m, n + 1, Len(m))) = Len(m) - n
         /\ \A i \in 1 .. Len(m) - n : SubSeq(m, n + 1, Len(m))[i] = m[i + n]
         /\ SubSeq(m, 1, n) \in Seq(L!Sequence)
         /\ Len(SubSeq(m, 1, n)) = n
         /\ \A i \in 1 .. n : SubSeq(m, 1, n)[i] = m[i]
<1>1. PICK z \in Nat : z = Len(m)
  BY LenProperties
<1>2. n \in 0 .. z /\ \A i \in 1 .. z : m[i] \in L!Sequence
  BY <1>1, ElementOfSeq
<1>3. PICK a : a = SubSeq(m, 1, n)
  OBVIOUS
<1>4. a \in Seq(L!Sequence) /\ Len(a) = n /\ \A i \in 1 .. n : a[i] = m[i]
  <2>1. \A i \in 1 .. n : m[i] \in L!Sequence
    BY <1>2
  <2>2. /\ a \in Seq(L!Sequence) /\ Len(a) = IF 1 <= n THEN n - 1 + 1 ELSE 0
        /\ \A i \in 1 .. n - 1 + 1 : a[i] = m[1 + i - 1]
    BY <1>2, <1>3, <2>1, SubSeqProperties
  <2> QED  BY <1>2, <2>2
<1>5. PICK b : b = SubSeq(m, n + 1, z)
  OBVIOUS
<1>6. b \in Seq(L!Sequence) /\ Len(b) = z - n /\ \A i \in 1 .. z - n : b[i] = m[i + n]
  <2>1. \A i \in n + 1 .. z : m[i] \in L!Sequence
    BY <1>2
  <2>2. /\ b \in Seq(L!Sequence) /\ Len(b) = IF n + 1 <= z THEN z - (n + 1) + 1 ELSE 0
        /\ \A i \in 1 .. z - (n + 1) + 1 : b[i] = m[n + 1 + i - 1]
    BY <1>2, <1>5, <2>1, SubSeqProperties
  <2> QED  BY <1>2, <2>2
<1> QED  BY <1>1, <1>3, <1>4, <1>5, <1>6

LEMMA RemoveFirstIs ==
  ASSUME NEW m \in Seq(L!Sequence), NEW s
  PROVE  /\ (\A i \in 1 .. Len(m) : m[i] # s) => L!RemoveFirst(m, s) = m
         /\ \A k \in 1 .. Len(m) :
              m[k] = s /\ (\A j \in 1 .. Len(m) : m[j] = s => j = k) =>
                L!RemoveFirst(m, s) = Without(m, k)
<1>1. PICK I : I = {i \in 1 .. Len(m) : m[i] = s}
  OBVIOUS
<1>2. L!RemoveFirst(m, s)
        = IF I # {} THEN L!RemoveAt(m, L!Min(I)) ELSE m
  BY <1>1 DEF L!RemoveFirst, L!SelectInSeq
<1>3. CASE \A i \in 1 .. Len(m) : m[i] # s
  BY <1>1, <1>2, <1>3
<1>4. ASSUME NEW k \in 1 .. Len(m), m[k] = s,
             \A j \in 1 .. Len(m) : m[j] = s => j = k
      PROVE  L!RemoveFirst(m, s) = Without(m, k)
  <2>1. I = {k} /\ I # {} /\ k \in Nat
    BY <1>1, <1>4
  <2>2. L!Min(I) = k
    BY <2>1, LeastIs
  <2>3. L!RemoveAt(m, k) = SubSeq(m, 1, k - 1) \o SubSeq(m, k + 1, Len(m))
    BY DEF L!RemoveAt
  <2>4. SubSeq(m, 1, k - 1) \o SubSeq(m, k + 1, Len(m)) = Without(m, k)
    <3>1. PICK a : a = SubSeq(m, 1, k - 1)
      OBVIOUS
    <3>2. PICK b : b = SubSeq(m, k + 1, Len(m))
      OBVIOUS
    <3>3. /\ a \in Seq(L!Sequence) /\ Len(a) = k - 1
          /\ \A i \in 1 .. k - 1 : a[i] = m[i]
      <4>1. k - 1 \in 0 .. Len(m)
        OBVIOUS
      <4> QED  BY <3>1, <4>1, TailIs
    <3>4. /\ b \in Seq(L!Sequence) /\ Len(b) = Len(m) - k
          /\ \A i \in 1 .. Len(m) - k : b[i] = m[i + k]
      <4>1. k \in 0 .. Len(m)
        OBVIOUS
      <4> QED  BY <3>2, <4>1, TailIs
    <3>5. PICK c : c = a \o b
      OBVIOUS
    <3>6. /\ c \in Seq(L!Sequence) /\ Len(c) = Len(m) - 1
          /\ \A i \in 1 .. Len(m) - 1 : c[i] = IF i <= k - 1 THEN a[i] ELSE b[i - (k - 1)]
      <4>1. /\ c \in Seq(L!Sequence) /\ Len(c) = Len(a) + Len(b)
            /\ \A i \in 1 .. Len(a) + Len(b) :
                 c[i] = IF i <= Len(a) THEN a[i] ELSE b[i - Len(a)]
        BY ONLY <3>3, <3>4, <3>5, ConcatProperties
      <4>2. Len(a) + Len(b) = Len(m) - 1
        BY <3>3, <3>4
      <4> QED  BY <3>3, <4>1, <4>2
    <3>7. ASSUME NEW i \in 1 .. Len(m) - 1
          PROVE  c[i] = IF i < k THEN m[i] ELSE m[i + 1]
      <4>1. PICK z \in Nat : z = Len(m)
        BY LenProperties
      <4>2. CASE i < k
        BY <3>3, <3>6, <4>1, <4>2
      <4>3. CASE i >= k
        <5>1. PICK j \in 1 .. z - k : j = i - (k - 1)
          BY <4>1, <4>3
        <5>2. c[i] = b[j] /\ b[j] = m[j + k]
          BY <3>4, <3>6, <4>1, <4>3, <5>1
        <5>3. j + k = i + 1
          BY <4>1, <5>1
        <5> QED  BY <4>3, <5>2, <5>3
      <4> QED  BY <4>1, <4>2, <4>3
    <3>8. c = Without(m, k)
      BY <3>6, <3>7 DEF Without
    <3> QED  BY ONLY <3>1, <3>2, <3>5, <3>8, Zenon
  <2> QED  BY <1>2, <2>1, <2>2, <2>3, <2>4
<1> QED  BY <1>3, <1>4

LEMMA WithoutIs ==
  ASSUME NEW m \in Seq(L!Sequence), NEW k \in 1 .. Len(m)
  PROVE  /\ Without(m, k) \in Seq(L!Sequence)
         /\ Len(Without(m, k)) = Len(m) - 1
         /\ \A i \in 1 .. Len(m) - 1 :
              Without(m, k)[i] = IF i < k THEN m[i] ELSE m[i + 1]
BY DEF Without

LEMMA SoundFacts ==
  ASSUME NEW set, NEW N, NEW m, NEW sent, NEW A, Sound(set, N, m, sent, A)
  PROVE  /\ N \in Nat /\ Len(m) \in 0 .. N /\ set \in [1 .. N -> Cid]
         /\ m \in Seq(L!Sequence) /\ None \notin L!Sequence
         /\ Front(set, N, Len(m))
         /\ \A i \in 1 .. N : set[i].state \in L!State
                              /\ set[i].sequence \in L!Sequence \union {None}
<1>1. Len(m) \in Nat /\ Len(m) <= N /\ N \in Nat
  BY LenProperties DEF Sound, Queued
<1>2. None \notin L!Sequence
  BY SizeAssumption DEF L!Sequence
<1>3. Front(set, N, Len(m))
  BY <1>1 DEF Sound, Queued, Front
<1> QED  BY <1>1, <1>2, <1>3 DEF Sound, Queued, Cid

\* A CID whose frame is acknowledged leaves the queue if it is in it.
LEMMA DeliveredSound ==
  ASSUME NEW set, NEW N, NEW m, NEW sent, NEW A, Sound(set, N, m, sent, A),
         NEW x \in 1 .. N, NEW s, s = set[x].sequence, s # None,
         NEW F, F = sent \/ F = sent \ {s}
  PROVE  Sound(L!do_mark_delivered(set, x), N, L!RemoveFirst(m, s), F, A)
<1>1. /\ N \in Nat /\ Len(m) \in 0 .. N /\ set \in [1 .. N -> Cid]
      /\ m \in Seq(L!Sequence) /\ Front(set, N, Len(m))
  BY SoundFacts
<1>2. PICK p \in 0 .. N : p = Len(m)
  BY <1>1
<1>3. PICK c : c = [state |-> "DELIVERED", sequence |-> s]
  OBVIOUS
<1>4. c \in Cid
  BY <1>1, <1>3 DEF Cid, L!State
<1>5. \A i \in 1 .. N : set[i].state = "PENDING" <=> i <= p
  BY <1>1, <1>2 DEF Front
<1>6. \A j \in 1 .. N : set[j].sequence = s => j = x
  BY DEF Sound, Content
<1>7. \A i \in 1 .. p : set[i].sequence = m[i]
  BY <1>2 DEF Sound, Queued
<1>8. CASE x <= p
  <2>1. PICK v : v = Moved(set, N, x, p)
    OBVIOUS
  <2>2. L!MoveBehind(set, x) = v /\ L!Behind(set, x) = p
    BY <1>1, <1>5, <1>8, <2>1, MoveBehindIs, BehindIs
  <2>3. v \in [1 .. N -> Cid] /\ v[p] = set[x]
    BY <1>1, <1>8, <2>1 DEF Moved
  <2>4. PICK new : new = [i \in 1 .. N |-> IF i = p THEN c ELSE v[i]]
    OBVIOUS
  <2>5. L!do_mark_delivered(set, x) = new
    <3>1. L!IsPending(set, x)
      BY <1>5, <1>8 DEF L!IsPending
    <3>2. L!do_mark_delivered(set, x) = [v EXCEPT ![p].state = "DELIVERED"]
      BY <2>2, <3>1 DEF L!do_mark_delivered
    <3>3. [v[p] EXCEPT !.state = "DELIVERED"] = c
      BY <1>1, <1>3, <2>3 DEF Cid
    <3>4. [v EXCEPT ![p].state = "DELIVERED"] = new
      BY <2>3, <2>4, <3>3
    <3> QED  BY <3>2, <3>4
  <2>6. PICK q : q = Without(m, x)
    OBVIOUS
  <2>7. L!RemoveFirst(m, s) = q
    <3>1. x \in 1 .. Len(m) /\ m[x] = s
      BY <1>2, <1>7, <1>8
    <3>2. \A j \in 1 .. Len(m) : m[j] = s => j = x
      BY <1>1, <1>2, <1>6, <1>7
    <3> QED  BY <1>1, <2>6, <3>1, <3>2, RemoveFirstIs
  <2>8. /\ q \in Seq(L!Sequence) /\ Len(q) = p - 1
        /\ \A i \in 1 .. p - 1 : q[i] = IF i < x THEN m[i] ELSE m[i + 1]
    BY <1>1, <1>2, <1>8, <2>6, WithoutIs
  <2>9. \A i \in 1 .. N :
          new[i] = IF i = p THEN c ELSE IF x <= i /\ i < p THEN set[i + 1] ELSE set[i]
    BY <2>1, <2>4 DEF Moved
  <2>10. new \in [1 .. N -> Cid]
    BY <1>4, <2>3, <2>4
  <2>11. Queued(new, N, q)
    <3>1. \A i \in 1 .. N : new[i].state = "PENDING" <=> i <= p - 1
      BY <1>1, <1>3, <1>5, <1>8, <2>9
    <3>2. \A i \in 1 .. p - 1 : new[i].sequence = q[i]
      BY <1>1, <1>7, <1>8, <2>8, <2>9
    <3> QED  BY <1>1, <2>8, <3>1, <3>2 DEF Queued
  <2>12. Content(new, N, A)
    <3>1. \A i \in 1 .. N : /\ new[i].sequence = v[i].sequence
                            /\ new[i].state = "IDLE" <=> v[i].state = "IDLE"
      BY <1>3, <1>5, <1>8, <2>3, <2>4
    <3> QED  BY <1>1, <1>8, <2>1, <3>1, MovedContent DEF Sound
  <2>13. Flying(new, N, F)
    <3>1. ASSUME NEW i \in 1 .. N, new[i].state = "INFLIGHT"
          PROVE  new[i].sequence \in F
      <4>1. new[i] = set[i] /\ i # x
        BY <1>1, <1>3, <1>5, <1>8, <2>9, <3>1
      <4>2. set[i].sequence \in sent /\ set[i].sequence # s
        BY <1>6, <3>1, <4>1 DEF Sound, Flying
      <4> QED  BY <4>1, <4>2
    <3> QED  BY <3>1 DEF Flying
  <2> QED  BY <1>1, <2>5, <2>7, <2>10, <2>11, <2>12, <2>13 DEF Sound
<1>9. CASE x > p
  <2>1. PICK new : new = [i \in 1 .. N |-> IF i = x THEN c ELSE set[i]]
    OBVIOUS
  <2>2. L!do_mark_delivered(set, x) = new
    <3>1. ~ L!IsPending(set, x)
      BY <1>5, <1>9 DEF L!IsPending
    <3>2. [set[x] EXCEPT !.state = "DELIVERED"] = c
      BY <1>1, <1>3 DEF Cid
    <3> QED  BY <1>1, <2>1, <3>1, <3>2 DEF L!do_mark_delivered
  <2>3. L!RemoveFirst(m, s) = m
    <3>1. \A i \in 1 .. Len(m) : m[i] # s
      BY <1>1, <1>2, <1>6, <1>7, <1>9
    <3> QED  BY <1>1, <3>1, RemoveFirstIs
  <2>4. Queued(new, N, m)
    <3>1. \A i \in 1 .. N : new[i].state = "PENDING" <=> i <= p
      BY <1>3, <1>5, <1>9, <2>1
    <3>2. ASSUME NEW i \in 1 .. p PROVE new[i].sequence = m[i]
      <4>1. i \in 1 .. N /\ i # x
        BY <1>1, <1>9
      <4>2. new[i] = set[i]
        BY <2>1, <4>1
      <4> QED  BY <1>7, <4>2
    <3> QED  BY <1>1, <1>2, <3>1, <3>2 DEF Queued
  <2>5. Content(new, N, A)
    <3>1. set[x].state # "IDLE"
      BY DEF Sound, Content
    <3>2. \A i \in 1 .. N :
            LET j == IF i = x THEN x ELSE IF i = x THEN x ELSE i
            IN  /\ new[i].sequence = set[j].sequence
                /\ new[i].state = "IDLE" <=> set[j].state = "IDLE"
      BY <1>3, <2>1, <3>1
    <3> QED  BY <1>1, <3>2, SwappedContent DEF Sound
  <2>6. Flying(new, N, F)
    <3>1. ASSUME NEW i \in 1 .. N, new[i].state = "INFLIGHT"
          PROVE  new[i].sequence \in F
      <4>1. new[i] = set[i] /\ i # x
        BY <1>3, <2>1, <3>1
      <4>2. set[i].sequence \in sent /\ set[i].sequence # s
        BY <1>6, <3>1, <4>1 DEF Sound, Flying
      <4> QED  BY <4>1, <4>2
    <3> QED  BY <3>1 DEF Flying
  <2>7. new \in [1 .. N -> Cid]
    BY <1>1, <1>4, <2>1
  <2> QED  BY <1>1, <2>2, <2>3, <2>4, <2>5, <2>6, <2>7 DEF Sound
<1> QED  BY <1>8, <1>9

LEMMA MarkPendingSame ==
  ASSUME NEW set, NEW N, NEW p, Front(set, N, p), NEW x \in 1 .. p
  PROVE  L!do_mark_pending(set, x) = set
<1>1. /\ N \in Nat /\ p \in Nat /\ p <= N /\ x \in 1 .. N
      /\ set \in [1 .. N -> Cid] /\ \A i \in 1 .. p : set[i].state = "PENDING"
  BY DEF Front
<1>2. PICK pd : pd = [set EXCEPT ![x].state = "PENDING"]
  OBVIOUS
<1>3. [set[x] EXCEPT !.state = "PENDING"] = set[x]
  BY <1>1 DEF Cid
<1>4. pd = set
  BY <1>1, <1>2, <1>3
<1>5. {j \in 1 .. x - 1 : ~ L!IsPending(pd, j)} = {}
  BY <1>1, <1>4 DEF L!IsPending
<1> QED  BY <1>2, <1>4, <1>5 DEF L!do_mark_pending

\* A CID whose frame is lost joins the end of the queue, unless it is in it.
LEMMA LostSound ==
  ASSUME NEW set, NEW N, NEW m, NEW sent, NEW A, Sound(set, N, m, sent, A),
         NEW x \in 1 .. N, NEW s, s = set[x].sequence, s # None
  PROVE  /\ set[x].state = "PENDING" =>
              Sound(L!do_mark_pending(set, x), N, m, sent \ {s}, A)
         /\ set[x].state # "PENDING" =>
              Sound(L!do_mark_pending(set, x), N, Append(m, s), sent \ {s}, A)
<1>1. /\ N \in Nat /\ Len(m) \in 0 .. N /\ set \in [1 .. N -> Cid]
      /\ m \in Seq(L!Sequence) /\ Front(set, N, Len(m)) /\ s \in L!Sequence
  BY SoundFacts
<1>2. PICK p \in 0 .. N : p = Len(m)
  BY <1>1
<1>3. \A i \in 1 .. N : set[i].state = "PENDING" <=> i <= p
  BY <1>1, <1>2 DEF Front
<1>4. \A j \in 1 .. N : set[j].sequence = s => j = x
  BY DEF Sound, Content
<1>5. \A i \in 1 .. p : set[i].sequence = m[i]
  BY <1>2 DEF Sound, Queued
<1>6. CASE x <= p
  <2>1. L!do_mark_pending(set, x) = set
    BY <1>1, <1>2, <1>6, MarkPendingSame
  <2>2. Flying(set, N, sent \ {s})
    <3>1. ASSUME NEW i \in 1 .. N, set[i].state = "INFLIGHT"
          PROVE  set[i].sequence \in sent \ {s}
      <4>1. i # x /\ set[i].sequence \in sent
        BY <1>3, <1>6, <3>1 DEF Sound, Flying
      <4> QED  BY <1>4, <4>1
    <3> QED  BY <3>1 DEF Flying
  <2>3. Sound(set, N, m, sent \ {s}, A)
    BY <2>2 DEF Sound
  <2> QED  BY <1>3, <1>6, <2>1, <2>3
<1>7. CASE x > p
  <2>1. PICK c : c = [state |-> "PENDING", sequence |-> s]
    OBVIOUS
  <2>2. PICK new : new = L!do_mark_pending(set, x)
    OBVIOUS
  <2>3. x \in p + 1 .. N /\ p + 1 \in 1 .. N
    BY <1>1, <1>7
  <2>4. new = [i \in 1 .. N |-> IF i = p + 1 THEN c
                               ELSE IF i = x THEN set[p + 1] ELSE set[i]]
    BY <1>1, <1>2, <2>1, <2>2, <2>3, MarkPendingIs
  <2>5. c \in Cid
    BY <1>1, <2>1 DEF Cid, L!State
  <2>6. new \in [1 .. N -> Cid]
    BY <1>1, <2>3, <2>4, <2>5
  <2>7. PICK q : q = Append(m, s)
    OBVIOUS
  <2>8. /\ q \in Seq(L!Sequence) /\ Len(q) = p + 1 /\ q[p + 1] = s
        /\ \A i \in 1 .. p : q[i] = m[i]
    BY <1>1, <1>2, <2>7
  <2>9. Queued(new, N, q)
    <3>1. \A i \in 1 .. N : new[i].state = "PENDING" <=> i <= p + 1
      BY <1>1, <1>3, <1>7, <2>1, <2>3, <2>4
    <3>2. ASSUME NEW i \in 1 .. p + 1 PROVE new[i].sequence = q[i]
      <4>1. CASE i = p + 1
        BY <2>1, <2>3, <2>4, <2>8, <4>1
      <4>2. CASE i # p + 1
        <5>1. i \in 1 .. p /\ i \in 1 .. N /\ i # x
          BY <1>1, <1>7, <2>3, <4>2
        <5>2. new[i] = set[i]
          BY <2>4, <4>2, <5>1
        <5> QED  BY <1>5, <2>8, <5>1, <5>2
      <4> QED  BY <4>1, <4>2
    <3> QED  BY <1>1, <2>3, <2>8, <3>1, <3>2 DEF Queued
  <2>10. Content(new, N, A)
    <3>1. set[x].state # "IDLE"
      BY DEF Sound, Content
    <3>2. \A i \in 1 .. N :
            LET j == IF i = p + 1 THEN x ELSE IF i = x THEN p + 1 ELSE i
            IN  /\ new[i].sequence = set[j].sequence
                /\ new[i].state = "IDLE" <=> set[j].state = "IDLE"
      BY <2>1, <2>3, <2>4, <3>1
    <3> QED  BY <1>1, <2>3, <3>2, SwappedContent DEF Sound
  <2>11. Flying(new, N, sent \ {s})
    <3>1. ASSUME NEW i \in 1 .. N, new[i].state = "INFLIGHT"
          PROVE  new[i].sequence \in sent \ {s}
      <4>1. PICK j \in 1 .. N : j # x /\ new[i] = set[j]
        <5>1. CASE i = x
          BY <2>1, <2>3, <2>4, <3>1, <5>1
        <5>2. CASE i # x
          BY <2>1, <2>4, <3>1, <5>2
        <5> QED  BY <5>1, <5>2
      <4>2. set[j].sequence \in sent /\ set[j].sequence # s
        BY <1>4, <3>1, <4>1 DEF Sound, Flying
      <4> QED  BY <4>1, <4>2
    <3> QED  BY <3>1 DEF Flying
  <2>12. Sound(new, N, q, sent \ {s}, A)
    BY <1>1, <2>6, <2>9, <2>10, <2>11 DEF Sound
  <2> QED  BY <1>3, <1>7, <2>2, <2>7, <2>12
<1> QED  BY <1>1, <1>6, <1>7

\* The remainder that rotates the CIDs sent.
LEMMA TurnIs ==
  ASSUME NEW r \in Nat, NEW n \in Nat, n > 0
  PROVE  r % n \in 0 .. n - 1
OBVIOUS

\* The CIDs sent leave the queue and go behind the rest of it.
LEMMA SentSound ==
  ASSUME NEW set, NEW N, NEW m, NEW sent, NEW A, Sound(set, N, m, sent, A),
         NEW n \in 1 .. Len(m)
  PROVE  Sound(L!on_sent(set, n), N, SubSeq(m, n + 1, Len(m)),
               sent \union {set[i].sequence : i \in 1 .. n}, A)
<1>1. /\ N \in Nat /\ Len(m) \in 0 .. N /\ set \in [1 .. N -> Cid]
      /\ m \in Seq(L!Sequence) /\ Front(set, N, Len(m))
  BY SoundFacts
<1>2. PICK p \in 0 .. N : p = Len(m)
  BY <1>1
<1>3. \A i \in 1 .. N : set[i].state = "PENDING" <=> i <= p
  BY <1>1, <1>2 DEF Front
<1>4. n \in 1 .. p /\ n \in Nat /\ p \in Nat /\ p <= N /\ n <= p
  BY <1>1, <1>2
<1>5. PICK r \in Nat : r = p - n
  BY <1>4
<1>6. PICK t \in 0 .. n - 1 : t = r % n
  BY <1>4, <1>5, TurnIs
<1>7. r = IF n < Len(set) /\ L!IsPending(set, n + 1) THEN L!Behind(set, n + 1) - n ELSE 0
  <2>1. Len(set) = N
    BY <1>1 DEF Cid
  <2>2. CASE n < p
    <3>1. L!IsPending(set, n + 1)
      BY <1>1, <1>3, <1>4, <2>2 DEF L!IsPending
    <3>2. L!Behind(set, n + 1) = p
      <4>1. n + 1 \in 1 .. N /\ n + 1 <= p
        BY <1>1, <1>4, <2>2
      <4>2. \A i \in (n + 1) + 1 .. N : set[i].state = "PENDING" <=> i <= p
        BY <1>1, <1>3, <1>4
      <4> QED  BY <1>1, <4>1, <4>2, BehindIs
    <3> QED  BY <1>1, <1>4, <1>5, <2>1, <2>2, <3>1, <3>2
  <2>3. CASE n = p
    <3>1. ~(n < N /\ L!IsPending(set, n + 1))
      BY <1>1, <1>3, <1>4, <2>3 DEF L!IsPending
    <3> QED  BY <1>5, <2>1, <2>3, <3>1
  <2> QED  BY <1>4, <2>2, <2>3
<1> DEFINE Sent(i) == [set[i] EXCEPT !.state = "INFLIGHT"]
<1>8. PICK new : new = L!on_sent(set, n)
  OBVIOUS
<1>9. new = [i \in 1 .. N |->
               IF i <= r THEN set[i + n]
               ELSE IF i <= r + n - t THEN Sent(i - r + t)
               ELSE IF i <= r + n THEN Sent(i - r + t - n) ELSE set[i]]
  BY <1>1, <1>6, <1>7, <1>8 DEF L!on_sent
<1>10. \A i \in 1 .. N : /\ Sent(i) \in Cid /\ Sent(i).state = "INFLIGHT"
                         /\ Sent(i).sequence = set[i].sequence
  BY <1>1 DEF Cid, L!State
<1> HIDE DEF Sent
<1>11. PICK f : f = [i \in 1 .. N |->
                       IF i <= r THEN i + n
                       ELSE IF i <= r + n - t THEN i - r + t
                       ELSE IF i <= r + n THEN i - r + t - n ELSE i]
  OBVIOUS
<1>12. PICK g : g = [i \in 1 .. N |->
                       IF i > p THEN i ELSE IF i > n THEN i - n
                       ELSE IF i > t THEN i - t + r ELSE i - t + n + r]
  OBVIOUS
<1>13. f \in [1 .. N -> 1 .. N] /\ g \in [1 .. N -> 1 .. N]
  BY <1>1, <1>4, <1>5, <1>11, <1>12
<1>14. \A i \in 1 .. N : f[g[i]] = i /\ g[f[i]] = i
  BY <1>1, <1>4, <1>5, <1>11, <1>12
<1>15. \A i \in 1 .. N : new[i] = IF r < i /\ i <= p THEN Sent(f[i]) ELSE set[f[i]]
  BY <1>1, <1>4, <1>5, <1>9, <1>11
<1>16. \A i \in 1 .. N : f[i] \in 1 .. N /\ (r < i /\ i <= p => f[i] \in 1 .. n)
  BY <1>1, <1>4, <1>5, <1>11
<1>17. new \in [1 .. N -> Cid]
  <2>1. \A i \in 1 .. N : new[i] \in Cid
    BY <1>1, <1>10, <1>15, <1>16
  <2>2. DOMAIN new = 1 .. N /\ new = [i \in 1 .. N |-> new[i]]
    BY <1>9
  <2> QED  BY <2>1, <2>2
<1>18. PICK q : q = SubSeq(m, n + 1, Len(m))
  OBVIOUS
<1>19. q \in Seq(L!Sequence) /\ Len(q) = r /\ \A i \in 1 .. r : q[i] = m[i + n]
  <2>1. n \in 0 .. Len(m)
    BY <1>1
  <2> QED  BY <1>1, <1>2, <1>5, <1>18, <2>1, TailIs
<1>20. Queued(new, N, q)
  <2>1. \A i \in 1 .. N : new[i].state = "PENDING" <=> i <= r
    <3>1. SUFFICES ASSUME NEW i \in 1 .. N PROVE new[i].state = "PENDING" <=> i <= r
      OBVIOUS
    <3>2. CASE r < i /\ i <= p
      BY <1>10, <1>15, <1>16, <3>2
    <3>3. CASE i <= r
      <4>1. f[i] = i + n /\ i + n <= p /\ i + n \in 1 .. N /\ i <= p /\ ~(r < i)
        BY <1>1, <1>4, <1>5, <1>11, <3>3
      <4> QED  BY <1>3, <1>15, <3>3, <4>1
    <3>4. CASE i > p
      <4>1. f[i] = i /\ ~(i <= r) /\ ~(i <= p)
        BY <1>1, <1>4, <1>5, <1>11, <3>4
      <4> QED  BY <1>3, <1>15, <3>4, <4>1
    <3> QED  BY <1>1, <1>4, <1>5, <3>2, <3>3, <3>4
  <2>2. \A i \in 1 .. r : new[i].sequence = q[i]
    <3>1. SUFFICES ASSUME NEW i \in 1 .. r PROVE new[i].sequence = q[i]
      OBVIOUS
    <3>2. i + n \in 1 .. p /\ i \in 1 .. N /\ new[i] = set[i + n] /\ q[i] = m[i + n]
      BY <1>1, <1>4, <1>5, <1>9, <1>19
    <3>3. set[i + n].sequence = m[i + n]
      BY <1>2, <3>2 DEF Sound, Queued
    <3> QED  BY <3>2, <3>3
  <2>3. Len(q) <= N
    BY <1>1, <1>4, <1>5, <1>19
  <2> QED  BY ONLY <1>19, <2>1, <2>2, <2>3, Zenon DEF Queued
<1>21. Content(new, N, A)
  <2>1. ASSUME NEW i \in 1 .. N
        PROVE  /\ new[i].sequence = set[f[i]].sequence
               /\ new[i].state = "IDLE" <=> set[f[i]].state = "IDLE"
    <3>1. CASE r < i /\ i <= p
      <4>1. PICK j \in 1 .. N : j = f[i] /\ j <= p
        BY <1>4, <1>16, <3>1
      <4>2. set[j].state # "IDLE" /\ Sent(j).state # "IDLE"
        BY <1>3, <1>10, <4>1
      <4> QED  BY <1>10, <1>15, <3>1, <4>1, <4>2
    <3>2. CASE ~(r < i /\ i <= p)
      BY <1>15, <3>2
    <3> QED  BY <3>1, <3>2
  <2>2. Rearranges(f, g, N, set, new)
    BY ONLY <1>13, <1>14, <2>1, Zenon DEF Rearranges
  <2> QED  BY <1>1, <2>2, Rearranged DEF Sound
<1>22. PICK F : F = sent \union {set[i].sequence : i \in 1 .. n}
  OBVIOUS
<1>23. Flying(new, N, F)
  <2>1. ASSUME NEW i \in 1 .. N, new[i].state = "INFLIGHT"
        PROVE  new[i].sequence \in F
    <3>1. CASE r < i /\ i <= p
      <4>1. PICK j \in 1 .. n : j = f[i] /\ j \in 1 .. N
        BY <1>1, <1>16, <3>1
      <4>2. new[i].sequence = set[j].sequence
        BY <1>10, <1>15, <3>1, <4>1
      <4> QED  BY <1>22, <4>1, <4>2
    <3>2. CASE ~(r < i /\ i <= p)
      <4>1. PICK j \in 1 .. N : new[i] = set[j]
        BY <1>15, <1>16, <3>2
      <4>2. set[j].sequence \in sent
        BY <2>1, <4>1 DEF Sound, Flying
      <4> QED  BY <1>22, <4>1, <4>2
    <3> QED  BY <3>1, <3>2
  <2> QED  BY <2>1 DEF Flying
<1>24. Sound(new, N, q, F, A)
  BY <1>1, <1>17, <1>20, <1>21, <1>23 DEF Sound
<1> QED  BY ONLY <1>8, <1>18, <1>22, <1>24

IdleCid == [state |-> "IDLE", sequence |-> None]

LEMMA IdleContent ==
  ASSUME NEW N \in Nat, NEW set, NEW new, NEW A, Content(set, N, A),
         NEW x \in 1 .. N,
         \A i \in 1 .. N : new[i] = IF i = x THEN IdleCid ELSE set[i]
  PROVE  Content(new, N, A \ {set[x].sequence})
<1>1. new[x] = IdleCid /\ \A i \in 1 .. N : i # x => new[i] = set[i]
  OBVIOUS
<1>2. IdleCid.state = "IDLE" /\ IdleCid.sequence = None
  BY DEF IdleCid
<1>3. \A i \in 1 .. N : new[i].state = "IDLE" <=> new[i].sequence = None
  BY <1>1, <1>2 DEF Content
<1>4. \A i, j \in 1 .. N :
        new[i].sequence = new[j].sequence => i = j \/ new[i].sequence = None
  BY <1>1, <1>2 DEF Content
<1>5. ASSUME NEW s
      PROVE  s \in A \ {set[x].sequence}
               <=> s # None /\ \E i \in 1 .. N : new[i].sequence = s
  <2>1. ASSUME s \in A, s # set[x].sequence
        PROVE  s # None /\ \E i \in 1 .. N : new[i].sequence = s
    <3>1. PICK i \in 1 .. N : set[i].sequence = s /\ s # None
      BY <2>1 DEF Content
    <3>2. new[i].sequence = s
      BY <1>1, <2>1, <3>1
    <3> QED  BY <3>1, <3>2
  <2>2. ASSUME s # None, NEW i \in 1 .. N, new[i].sequence = s
        PROVE  s \in A /\ s # set[x].sequence
    <3>1. i # x /\ set[i].sequence = s
      BY <1>1, <1>2, <2>2
    <3>2. s \in A
      BY <2>2, <3>1 DEF Content
    <3>3. set[i].sequence = set[x].sequence => i = x \/ set[i].sequence = None
      BY DEF Content
    <3> QED  BY <2>2, <3>1, <3>2, <3>3
  <2> QED  BY ONLY <2>1, <2>2, Zenon
<1> QED  BY ONLY <1>3, <1>4, <1>5, Zenon DEF Content

LEMMA IssuedContent ==
  ASSUME NEW N \in Nat, NEW set, NEW new, NEW A, Content(set, N, A),
         NEW x \in 1 .. N, set[x] = IdleCid, NEW c, NEW id, id \notin A,
         c.sequence = id, id # None, c.state # "IDLE",
         \A i \in 1 .. N : new[i] = IF i = x THEN c ELSE set[i]
  PROVE  Content(new, N, A \union {id})
<1>1. new[x] = c /\ \A i \in 1 .. N : i # x => new[i] = set[i]
  OBVIOUS
<1>2. set[x].state = "IDLE" /\ set[x].sequence = None
  BY DEF IdleCid
<1>3. \A i \in 1 .. N : new[i].state = "IDLE" <=> new[i].sequence = None
  BY <1>1 DEF Content
<1>4. \A i \in 1 .. N : set[i].sequence # id
  BY DEF Content
<1>5. \A i, j \in 1 .. N :
        new[i].sequence = new[j].sequence => i = j \/ new[i].sequence = None
  BY <1>1, <1>4 DEF Content
<1>6. ASSUME NEW s
      PROVE  s \in A \union {id}
               <=> s # None /\ \E i \in 1 .. N : new[i].sequence = s
  <2>1. ASSUME s \in A
        PROVE  s # None /\ \E i \in 1 .. N : new[i].sequence = s
    <3>1. PICK i \in 1 .. N : set[i].sequence = s /\ s # None
      BY <2>1 DEF Content
    <3>2. new[i].sequence = s
      BY <1>1, <1>2, <3>1
    <3> QED  BY <3>1, <3>2
  <2>2. ASSUME s = id
        PROVE  s # None /\ \E i \in 1 .. N : new[i].sequence = s
    BY <1>1, <2>2
  <2>3. ASSUME s # None, NEW i \in 1 .. N, new[i].sequence = s
        PROVE  s \in A \union {id}
    <3>1. CASE i = x
      BY <1>1, <2>3, <3>1
    <3>2. CASE i # x
      BY <1>1, <2>3, <3>2 DEF Content
    <3> QED  BY <3>1, <3>2
  <2> QED  BY ONLY <2>1, <2>2, <2>3, Zenon
<1> QED  BY ONLY <1>3, <1>5, <1>6, Zenon DEF Content

\* The CID at x is retired: an idle one takes its place behind the queue.
LEMMA VacatedSound ==
  ASSUME NEW set, NEW N, NEW m, NEW sent, NEW A, Sound(set, N, m, sent, A),
         NEW x \in 1 .. N, NEW s, s = set[x].sequence, s # None
  PROVE  LET new == L!MoveBehind([set EXCEPT ![x] = IdleCid], x)
         IN  /\ Sound(new, N, L!RemoveFirst(m, s), sent, A \ {s})
             /\ L!Behind(set, x) \in 1 .. N /\ new[L!Behind(set, x)] = IdleCid
<1>1. /\ N \in Nat /\ Len(m) \in 0 .. N /\ set \in [1 .. N -> Cid]
      /\ m \in Seq(L!Sequence) /\ Front(set, N, Len(m)) /\ s \in L!Sequence
  BY SoundFacts
<1>2. PICK p \in 0 .. N : p = Len(m)
  BY <1>1
<1>3. \A i \in 1 .. N : set[i].state = "PENDING" <=> i <= p
  BY <1>1, <1>2 DEF Front
<1>4. \A j \in 1 .. N : set[j].sequence = s => j = x
  BY DEF Sound, Content
<1>5. \A i \in 1 .. p : set[i].sequence = m[i]
  BY <1>2 DEF Sound, Queued
<1>6. IdleCid \in Cid /\ IdleCid.state = "IDLE" /\ IdleCid.sequence = None
  BY DEF IdleCid, Cid, L!State
<1>7. PICK v : v = [set EXCEPT ![x] = IdleCid]
  OBVIOUS
<1>8. /\ v \in [1 .. N -> Cid] /\ v[x] = IdleCid
      /\ \A i \in 1 .. N : v[i] = IF i = x THEN IdleCid ELSE set[i]
  BY <1>1, <1>6, <1>7
<1>9. Content(v, N, A \ {s})
  BY <1>1, <1>8, IdleContent DEF Sound
<1>10. \A i \in x + 1 .. N : v[i].state = "PENDING" <=> i <= p
  BY <1>1, <1>3, <1>8
<1>11. \A i \in 1 .. N : v[i].state = "INFLIGHT" => v[i].sequence \in sent
  BY <1>6, <1>8 DEF Sound, Flying
<1>12. PICK new : new = L!MoveBehind(v, x)
  OBVIOUS
<1>13. PICK q : q = L!RemoveFirst(m, s)
  OBVIOUS
<1>14. PICK h : h = L!Behind(set, x)
  OBVIOUS
<1>15. SUFFICES Sound(new, N, q, sent, A \ {s}) /\ h \in 1 .. N /\ new[h] = IdleCid
  BY <1>7, <1>12, <1>13, <1>14
<1>16. CASE x <= p
  <2>1. new = Moved(v, N, x, p)
    BY <1>1, <1>8, <1>10, <1>16, <1>12, MoveBehindIs
  <2>2. \A i \in 1 .. N :
          new[i] = IF i = p THEN IdleCid ELSE IF x <= i /\ i < p THEN set[i + 1] ELSE set[i]
    BY <1>1, <1>8, <1>16, <2>1 DEF Moved
  <2>3. q = Without(m, x)
    <3>1. x \in 1 .. Len(m) /\ m[x] = s
      BY <1>1, <1>2, <1>5, <1>16
    <3>2. \A j \in 1 .. Len(m) : m[j] = s => j = x
      BY <1>1, <1>2, <1>4, <1>5
    <3> QED  BY <1>1, <1>13, <3>1, <3>2, RemoveFirstIs
  <2>4. /\ q \in Seq(L!Sequence) /\ Len(q) = p - 1
        /\ \A i \in 1 .. p - 1 : q[i] = IF i < x THEN m[i] ELSE m[i + 1]
    <3>1. x \in 1 .. Len(m)
      BY <1>1, <1>2, <1>16
    <3> QED  BY <1>1, <1>2, <2>3, <3>1, WithoutIs
  <2>5. new \in [1 .. N -> Cid]
    BY <1>1, <1>8, <1>16, <2>1 DEF Moved
  <2>6. Queued(new, N, q)
    <3>1. \A i \in 1 .. N : new[i].state = "PENDING" <=> i <= p - 1
      BY <1>1, <1>3, <1>6, <1>16, <2>2
    <3>2. \A i \in 1 .. p - 1 : new[i].sequence = q[i]
      BY <1>1, <1>5, <1>16, <2>2, <2>4
    <3> QED  BY <1>1, <2>4, <3>1, <3>2 DEF Queued
  <2>7. Content(new, N, A \ {s})
    BY <1>1, <1>9, <1>16, <2>1, MovedContent
  <2>8. Flying(new, N, sent)
    <3>1. ASSUME NEW i \in 1 .. N, new[i].state = "INFLIGHT"
          PROVE  new[i].sequence \in sent
      <4>1. new[i] = set[i]
        BY <1>1, <1>3, <1>6, <1>16, <2>2, <3>1
      <4> QED  BY <3>1, <4>1 DEF Sound, Flying
    <3> QED  BY <3>1 DEF Flying
  <2>9. h = p
    BY <1>1, <1>3, <1>16, <1>14, BehindIs
  <2>10. p \in 1 .. N /\ new[p] = IdleCid
    BY <1>1, <1>16, <2>2
  <2>11. Sound(new, N, q, sent, A \ {s})
    BY ONLY <1>1, <2>5, <2>6, <2>7, <2>8 DEF Sound
  <2> QED  BY <2>9, <2>10, <2>11
<1>17. CASE x > p
  <2>1. new = v
    BY <1>1, <1>8, <1>10, <1>17, <1>12, MoveBehindIs
  <2>2. q = m
    <3>1. \A i \in 1 .. Len(m) : m[i] # s
      BY <1>1, <1>2, <1>4, <1>5, <1>17
    <3> QED  BY <1>1, <1>13, <3>1, RemoveFirstIs
  <2>3. Queued(v, N, m)
    <3>1. \A i \in 1 .. N : v[i].state = "PENDING" <=> i <= p
      BY <1>1, <1>3, <1>6, <1>8, <1>17
    <3>2. \A i \in 1 .. p : v[i].sequence = m[i]
      BY <1>1, <1>5, <1>8, <1>17
    <3> QED  BY <1>1, <1>2, <3>1, <3>2 DEF Queued
  <2>4. h = x
    BY <1>1, <1>3, <1>17, <1>14, BehindIs
  <2>5. Sound(v, N, m, sent, A \ {s})
    BY ONLY <1>1, <1>8, <1>9, <1>11, <2>3 DEF Sound, Flying
  <2> QED  BY <1>8, <2>1, <2>2, <2>4, <2>5
<1> QED  BY <1>1, <1>16, <1>17

\* A new CID takes an idle place and joins the end of the queue.
LEMMA IssuedSound ==
  ASSUME NEW set, NEW N, NEW m, NEW sent, NEW A, Sound(set, N, m, sent, A),
         NEW x \in 1 .. N, set[x] = IdleCid, NEW id \in L!Sequence, id \notin A
  PROVE  Sound(L!do_mark_pending([set EXCEPT ![x].sequence = id], x), N,
               Append(m, id), sent, A \union {id})
<1>1. /\ N \in Nat /\ Len(m) \in 0 .. N /\ set \in [1 .. N -> Cid]
      /\ m \in Seq(L!Sequence) /\ Front(set, N, Len(m)) /\ None \notin L!Sequence
  BY SoundFacts
<1>2. PICK p \in 0 .. N : p = Len(m)
  BY <1>1
<1>3. \A i \in 1 .. N : set[i].state = "PENDING" <=> i <= p
  BY <1>1, <1>2 DEF Front
<1>4. \A i \in 1 .. p : set[i].sequence = m[i]
  BY <1>2 DEF Sound, Queued
<1>5. PICK c : c = [state |-> "PENDING", sequence |-> id]
  OBVIOUS
<1>6. c \in Cid /\ c.state = "PENDING" /\ c.sequence = id
  BY <1>5 DEF Cid, L!State
<1>7. PICK w : w = [set EXCEPT ![x].sequence = id]
  OBVIOUS
<1>8. PICK d : d = [state |-> "IDLE", sequence |-> id]
  OBVIOUS
<1>9. d \in Cid /\ d.state = "IDLE" /\ d.sequence = id
  BY <1>8 DEF Cid, L!State
<1>10. [IdleCid EXCEPT !.sequence = id] = d
  BY <1>8 DEF IdleCid
<1>11. w = [i \in 1 .. N |-> IF i = x THEN d ELSE set[i]]
  BY <1>1, <1>7, <1>10
<1>12. x \in p + 1 .. N /\ p + 1 \in 1 .. N
  <2>1. set[x].state # "PENDING"
    BY DEF IdleCid
  <2> QED  BY <1>1, <1>3, <2>1
<1>13. Front(w, N, p)
  <2>1. w \in [1 .. N -> Cid]
    BY <1>1, <1>9, <1>11
  <2>2. \A i \in 1 .. N : w[i].state = "PENDING" <=> i <= p
    BY <1>1, <1>3, <1>9, <1>11, <1>12
  <2> QED  BY <1>1, <2>1, <2>2 DEF Front
<1>14. PICK new : new = L!do_mark_pending(w, x)
  OBVIOUS
<1>15. new = [i \in 1 .. N |-> IF i = p + 1 THEN c ELSE IF i = x THEN w[p + 1] ELSE w[i]]
  <2>1. w[x].sequence = id
    BY <1>9, <1>11
  <2> QED  BY <1>5, <1>12, <1>13, <1>14, <2>1, MarkPendingIs
<1>16. PICK u : u = [i \in 1 .. N |-> IF i = x THEN c ELSE set[i]]
  OBVIOUS
<1>17. \A i \in 1 .. N : new[i] = IF i = p + 1 THEN u[x] ELSE IF i = x THEN u[p + 1] ELSE u[i]
  BY <1>11, <1>12, <1>15, <1>16
<1>18. PICK B : B = A \union {id}
  OBVIOUS
<1>19. Content(u, N, B)
  <2>1. \A i \in 1 .. N : u[i] = IF i = x THEN c ELSE set[i]
    BY <1>16
  <2>2. id # None /\ c.state # "IDLE" /\ Content(set, N, A)
    BY <1>1, <1>6 DEF Sound
  <2> QED  BY <1>1, <1>6, <1>18, <2>1, <2>2, IssuedContent
<1>20. Content(new, N, B)
  <2>1. \A i \in 1 .. N :
          LET j == IF i = p + 1 THEN x ELSE IF i = x THEN p + 1 ELSE i
          IN  /\ new[i].sequence = u[j].sequence
              /\ new[i].state = "IDLE" <=> u[j].state = "IDLE"
    BY <1>17
  <2>2. p + 1 \in 1 .. N /\ x \in 1 .. N /\ N \in Nat
    BY <1>1, <1>12
  <2> QED  BY ONLY <1>19, <2>1, <2>2, SwappedContent
<1>21. \A i \in 1 .. N :
         \/ i = p + 1 /\ new[i] = c
         \/ i # p + 1 /\ i # x /\ new[i] = set[i]
         \/ i # p + 1 /\ i = x /\ new[i] = set[p + 1]
  BY <1>12, <1>16, <1>17
<1>22. new \in [1 .. N -> Cid]
  BY <1>1, <1>6, <1>12, <1>15, <1>11
<1>23. PICK q : q = Append(m, id)
  OBVIOUS
<1>24. /\ q \in Seq(L!Sequence) /\ Len(q) = p + 1 /\ q[p + 1] = id
       /\ \A i \in 1 .. p : q[i] = m[i]
  BY <1>1, <1>2, <1>23
<1>25. Queued(new, N, q)
  <2>1. ASSUME NEW i \in 1 .. N PROVE new[i].state = "PENDING" <=> i <= p + 1
    <3>1. p \in Nat /\ i \in Nat /\ x \in Nat /\ p < x
      BY <1>1, <1>12
    <3>2. CASE i = p + 1
      BY <1>6, <1>21, <3>1, <3>2
    <3>3. CASE i # p + 1 /\ i # x
      BY <1>3, <1>21, <3>1, <3>3
    <3>4. CASE i # p + 1 /\ i = x
      BY <1>3, <1>12, <1>21, <3>1, <3>4
    <3> QED  BY <3>2, <3>3, <3>4
  <2>2. ASSUME NEW i \in 1 .. p + 1 PROVE new[i].sequence = q[i]
    <3>1. CASE i = p + 1
      BY <1>6, <1>12, <1>21, <1>24, <3>1
    <3>2. CASE i # p + 1
      <4>1. i \in 1 .. p /\ i \in 1 .. N /\ i # x
        BY <1>1, <1>12, <3>2
      <4>2. new[i] = set[i]
        BY <1>21, <3>2, <4>1
      <4> QED  BY <1>4, <1>24, <4>1, <4>2
    <3> QED  BY <3>1, <3>2
  <2>3. Len(q) <= N
    BY <1>1, <1>12, <1>24
  <2>4. \A i \in 1 .. Len(q) : new[i].sequence = q[i]
    BY <1>24, <2>2
  <2>5. \A i \in 1 .. N : new[i].state = "PENDING" <=> i <= Len(q)
    BY <1>24, <2>1
  <2> QED  BY ONLY <1>24, <2>3, <2>4, <2>5, Zenon DEF Queued
<1>26. Flying(new, N, sent)
  <2>1. ASSUME NEW i \in 1 .. N, new[i].state = "INFLIGHT"
        PROVE  new[i].sequence \in sent
    <3>1. PICK j \in 1 .. N : new[i] = set[j]
      BY <1>6, <1>12, <1>21, <2>1
    <3> QED  BY <2>1, <3>1 DEF Sound, Flying
  <2> QED  BY <2>1 DEF Flying
<1>27. Sound(new, N, q, sent, B)
  BY ONLY <1>1, <1>20, <1>22, <1>25, <1>26 DEF Sound
<1> QED  BY ONLY <1>7, <1>14, <1>23, <1>27, <1>18

-----------------------------------------------------------------------------
(* Counting sequence numbers *)

\* The components count as this module does.
LEMMA SameCount ==
  \A S : L!Cardinality(S) = Cardinality(S) /\ R!Cardinality(S) = Cardinality(S)
BY Zenon DEF L!Cardinality, R!Cardinality, Cardinality

LEMMA NumbersFinite ==
  ASSUME NEW n \in Nat, NEW S, S \subseteq 0 .. n
  PROVE  IsFiniteSet(S) /\ Cardinality(S) \in Nat /\ Cardinality(S) <= n + 1
<1>1. IsFiniteSet(0 .. n) /\ Cardinality(0 .. n) = n + 1
  BY FS_Interval
<1>2. IsFiniteSet(S) /\ Cardinality(S) <= n + 1
  BY <1>1, FS_Subset
<1> QED  BY <1>2, FS_CardinalityType

\* Two sets of sequence numbers that have none in common.
LEMMA ApartCount ==
  ASSUME NEW n \in Nat, NEW S, NEW T, S \subseteq 0 .. n, T \subseteq 0 .. n,
         S \intersect T = {}
  PROVE  /\ Cardinality(S) \in Nat /\ Cardinality(T) \in Nat
         /\ Cardinality(S \union T) = Cardinality(S) + Cardinality(T)
         /\ Cardinality(S) + Cardinality(T) <= n + 1
<1>1. /\ IsFiniteSet(S) /\ Cardinality(S) \in Nat
      /\ IsFiniteSet(T) /\ Cardinality(T) \in Nat
  BY NumbersFinite
<1>2. PICK U : U = S \union T
  OBVIOUS
<1>3. Cardinality(U) = Cardinality(S) + Cardinality(T) - Cardinality(S \intersect T)
  BY <1>1, <1>2, FS_Union
<1>4. Cardinality(S \intersect T) = 0
  BY FS_EmptySet
<1>5. Cardinality(U) <= n + 1
  <2>1. U \subseteq 0 .. n
    BY <1>2
  <2> QED  BY <2>1, NumbersFinite
<1> QED  BY <1>1, <1>2, <1>3, <1>4, <1>5

\* The issuer has not issued more than its peer expects.
LEMMA Room ==
  ASSUME Numbers, Peer
  PROVE  /\ path_id \in Nat /\ path_id >= 1 /\ largest_sequence_expected \in Nat
         /\ path_id <= largest_sequence_expected + 1
         /\ Cardinality(taken_back) \in Nat /\ IsFiniteSet(taken_back)
         /\ Issued \subseteq 0 .. largest_sequence_expected
<1>1. PICK n \in Nat : n = largest_sequence_expected
  BY DEF Peer, Holding
<1>2. PICK S : S = DOMAIN slots
  OBVIOUS
<1>3. S \subseteq 0 .. n /\ Cardinality(S) = Slots
  BY <1>1, <1>2 DEF Peer, Holding
<1>4. taken_back \subseteq 0 .. n /\ S \intersect taken_back = {}
  BY <1>1, <1>2 DEF Peer, Holding, Numbers, Gone
<1>5. PICK k \in Nat : k = Cardinality(taken_back)
  BY <1>4, NumbersFinite
<1>6. Slots + k <= n + 1
  BY <1>3, <1>4, <1>5, ApartCount
<1>7. path_id \in Nat /\ path_id >= 1 /\ path_id <= LocalSize + k
  BY <1>5, SizeAssumption DEF Numbers
<1>8. path_id <= n + 1
  BY <1>6, <1>7, SizeAssumption
<1>9. IsFiniteSet(taken_back)
  BY <1>4, NumbersFinite
<1> QED  BY <1>1, <1>5, <1>7, <1>8, <1>9 DEF Issued

\* What the issuer does leaves the peer as it is.
LEMMA PeerKept ==
  ASSUME Numbers, Peer, Numbers', UNCHANGED peer, given_back' = given_back,
         Issued \subseteq Issued', taken_back \subseteq taken_back'
  PROVE  Peer'
<1>1. /\ slots' = slots /\ largest_sequence_expected' = largest_sequence_expected
      /\ retired' = retired /\ paths' = paths /\ r_others' = r_others
      /\ r_inflight' = r_inflight /\ r_error' = r_error
  BY DEF peer
<1>2. Gone' = Gone
  BY <1>1 DEF Gone
<1>3. Holding(slots, largest_sequence_expected, Gone, Issued')
  BY DEF Peer, Holding
<1>4. Holding(slots, largest_sequence_expected, Gone, Issued)'
  BY <1>1, <1>2, <1>3
<1>5. Matching(paths, slots)'
  BY <1>1 DEF Peer, Matching
<1>6. taken_back' \subseteq 0 .. largest_sequence_expected
  <2>1. taken_back' \subseteq given_back
    BY DEF Numbers
  <2>2. given_back \subseteq 0 .. largest_sequence_expected
    BY DEF Peer, Holding, Gone
  <2> QED  BY <2>1, <2>2
<1>7. NoRetirementForgotten'
  BY <1>1, <1>6 DEF Peer, NoRetirementForgotten
<1> QED  BY <1>1, <1>4, <1>5, <1>7 DEF Peer

-----------------------------------------------------------------------------
(* The issuer *)

LEMMA SetSizeKeeps ==
  ASSUME Inv, L!SetSize, UNCHANGED <<peer, ask, arrived, given_back, taken_back>>
  PROVE  Inv'
<1>1. /\ Len(cids) = 1 /\ path_id = 1 /\ inflight = {} /\ lost = {} /\ error = "none"
      /\ cids[1] = [state |-> "DELIVERED", sequence |-> 0]
  BY DEF L!SetSize, Inv, Array
<1>2. given_back = {} /\ taken_back = {} /\ Issued = {0}
  <2>1. Issued = {0}
    BY <1>1 DEF Issued
  <2> QED  BY <2>1 DEF Inv, Numbers
<1>3. PICK z \in Nat : z = L!Min({LocalSize, MaxPathId})
  BY LesserIs, SizeAssumption
<1>4. /\ 1 <= z /\ z <= LocalSize /\ z <= MaxPathId /\ LocalSize \in Nat
      /\ MaxPathId \in Nat /\ None \notin Nat
  BY <1>3, LesserIs, SizeAssumption
<1>5. PICK c : c = [state |-> "DELIVERED", sequence |-> 0]
  OBVIOUS
<1> DEFINE Fresh(i) == [state |-> "PENDING", sequence |-> i]
<1>6. cids' = [i \in 1 .. LocalSize |->
                 IF i < z THEN Fresh(i) ELSE IF i = z THEN c ELSE IdleCid]
  BY <1>1, <1>3, <1>5 DEF L!SetSize, IdleCid
<1>7. /\ path_id' = z /\ others' = (others \/ z > 1)
      /\ marked' = [k \in 1 .. z - 1 |-> k]
      /\ inflight' = inflight /\ lost' = lost /\ error' = error
  BY <1>3 DEF L!SetSize
<1>8. /\ c \in Cid /\ c.state = "DELIVERED" /\ c.sequence = 0
      /\ IdleCid \in Cid /\ IdleCid.state = "IDLE" /\ IdleCid.sequence = None
      /\ \A i \in 1 .. z - 1 : Fresh(i) \in Cid /\ Fresh(i).state = "PENDING"
                               /\ Fresh(i).sequence = i
  BY <1>4, <1>5 DEF Cid, IdleCid, L!State, L!Sequence
<1> HIDE DEF Fresh
<1>9. PICK new : new = cids'
  OBVIOUS
<1>10. \A i \in 1 .. LocalSize :
        \/ i < z /\ i \in 1 .. z - 1 /\ new[i] = Fresh(i)
        \/ i = z /\ new[i] = c
        \/ i > z /\ new[i] = IdleCid
  BY <1>4, <1>6, <1>9
<1>11. new \in [1 .. LocalSize -> Cid] /\ Len(new) = LocalSize
  <2>1. \A i \in 1 .. LocalSize : new[i] \in Cid
    BY <1>8, <1>10
  <2>2. new = [i \in 1 .. LocalSize |-> new[i]]
    BY <1>6, <1>9
  <2> QED  BY <1>4, <2>1, <2>2
<1>12. PICK q : q = marked'
  OBVIOUS
<1>13. q \in Seq(L!Sequence) /\ Len(q) = z - 1 /\ \A i \in 1 .. z - 1 : q[i] = i
  <2>1. q = [k \in 1 .. z - 1 |-> k]
    BY <1>7, <1>12
  <2>2. \A k \in 1 .. z - 1 : k \in L!Sequence
    BY <1>4 DEF L!Sequence
  <2>3. z - 1 \in Nat
    BY <1>4
  <2>4. q \in [1 .. z - 1 -> L!Sequence]
    BY <2>1, <2>2
  <2>5. q \in Seq(L!Sequence) /\ Len(q) = z - 1
    BY <2>3, <2>4
  <2> QED  BY <2>1, <2>5
<1>14. Queued(new, LocalSize, q)
  <2>1. ASSUME NEW i \in 1 .. LocalSize
        PROVE  new[i].state = "PENDING" <=> i <= z - 1
    <3>1. CASE i < z
      BY <1>4, <1>8, <1>10, <3>1
    <3>2. CASE i = z
      BY <1>4, <1>8, <1>10, <3>2
    <3>3. CASE i > z
      BY <1>4, <1>8, <1>10, <3>3
    <3> QED  BY <1>4, <3>1, <3>2, <3>3
  <2>2. ASSUME NEW i \in 1 .. z - 1 PROVE new[i].sequence = q[i]
    <3>1. i \in 1 .. LocalSize /\ i < z
      BY <1>4
    <3> QED  BY <1>4, <1>8, <1>10, <1>13, <3>1
  <2> QED  BY <1>4, <1>13, <2>1, <2>2 DEF Queued
<1>15. Content(new, LocalSize, 0 .. z - 1)
  <2>1. \A i \in 1 .. LocalSize : new[i].state = "IDLE" <=> new[i].sequence = None
    BY <1>4, <1>8, <1>10
  <2>2. \A i \in 1 .. LocalSize :
          new[i].sequence = IF i < z THEN i ELSE IF i = z THEN 0 ELSE None
    <3>1. SUFFICES ASSUME NEW i \in 1 .. LocalSize
                   PROVE  new[i].sequence = IF i < z THEN i ELSE IF i = z THEN 0 ELSE None
      OBVIOUS
    <3>2. CASE i < z
      BY <1>4, <1>8, <1>10, <3>2
    <3>3. CASE i = z
      BY <1>4, <1>8, <1>10, <3>3
    <3>4. CASE i > z
      BY <1>4, <1>8, <1>10, <3>4
    <3> QED  BY <1>4, <3>2, <3>3, <3>4
  <2>3. \A i, j \in 1 .. LocalSize :
          new[i].sequence = new[j].sequence => i = j \/ new[i].sequence = None
    BY <1>4, <2>2
  <2>4. ASSUME NEW s
        PROVE  s \in 0 .. z - 1
                 <=> s # None /\ \E i \in 1 .. LocalSize : new[i].sequence = s
    <3>1. ASSUME s \in 0 .. z - 1
          PROVE  s # None /\ \E i \in 1 .. LocalSize : new[i].sequence = s
      <4>1. CASE s = 0
        BY <1>4, <2>2, <4>1
      <4>2. CASE s # 0
        <5>1. s \in 1 .. LocalSize /\ s < z /\ s \in Nat
          BY <1>4, <3>1, <4>2
        <5>2. new[s].sequence = s
          BY <2>2, <5>1
        <5> QED  BY <1>4, <5>1, <5>2
      <4> QED  BY <4>1, <4>2
    <3>2. ASSUME s # None, NEW i \in 1 .. LocalSize, new[i].sequence = s
          PROVE  s \in 0 .. z - 1
      BY <1>4, <2>2, <3>2
    <3> QED  BY ONLY <3>1, <3>2, Zenon
  <2> QED  BY ONLY <2>1, <2>3, <2>4, Zenon DEF Content
<1>16. Flying(new, LocalSize, {})
  BY <1>8, <1>10 DEF Flying
<1>17. Sound(new, LocalSize, q, {}, 0 .. z - 1)
  BY <1>11, <1>14, <1>15, <1>16 DEF Sound
<1>18. Issued' = 0 .. z - 1 /\ Issued' \ taken_back' = 0 .. z - 1
  BY <1>2, <1>7 DEF Issued
<1>19. Array'
  <2>1. Sound(cids', Len(cids'), marked', inflight', Issued' \ taken_back')
    BY <1>1, <1>7, <1>9, <1>11, <1>12, <1>17, <1>18
  <2>2. marked' # <<>> => others'
    <3>1. CASE z > 1
      BY <1>7, <3>1
    <3>2. CASE z = 1
      BY <1>12, <1>13, <3>2, EmptySeq
    <3> QED  BY <1>4, <3>1, <3>2
  <2>3. others' \in BOOLEAN
    BY <1>7 DEF Inv, Array
  <2>4. Len(cids') = LocalSize /\ LocalSize # 1
    BY <1>9, <1>11, SizeAssumption
  <2> QED  BY <1>1, <1>7, <2>1, <2>2, <2>3, <2>4 DEF Array
<1>20. Issued \subseteq Issued'
  BY <1>2, <1>4, <1>18
<1>21. Numbers'
  <2>1. Cardinality({}) = 0
    BY FS_EmptySet
  <2>2. Issued' \ given_back' # {}
    BY <1>2, <1>4, <1>18
  <2>3. path_id' \in 1 .. MaxPathId /\ path_id' <= LocalSize + Cardinality(taken_back')
    BY <1>2, <1>4, <1>7, <2>1
  <2> QED  BY <1>1, <1>2, <1>7, <1>20, <2>2, <2>3 DEF Inv, Numbers
<1> QED  BY <1>19, <1>20, <1>21, PeerKept DEF Inv

LEMMA ArrayFacts ==
  ASSUME Array
  PROVE  /\ Len(cids) \in Nat /\ DOMAIN cids = 1 .. Len(cids)
         /\ cids \in [1 .. Len(cids) -> Cid]
         /\ marked \in Seq(L!Sequence) /\ Len(marked) \in Nat
         /\ L!PendingOf(cids) = 1 .. Len(marked)
         /\ L!Cardinality(L!PendingOf(cids)) = Len(marked)
<1>1. PICK N : N = Len(cids)
  OBVIOUS
<1>2. Sound(cids, N, marked, inflight, Issued \ taken_back)
  BY <1>1 DEF Array
<1>3. /\ N \in Nat /\ Len(marked) \in 0 .. N /\ cids \in [1 .. N -> Cid]
      /\ marked \in Seq(L!Sequence) /\ Front(cids, N, Len(marked))
  BY <1>2, SoundFacts
<1>4. PICK p \in Nat : p = Len(marked) /\ p <= N
  BY <1>3
<1>5. L!PendingOf(cids) = 1 .. p
  BY <1>3, <1>4 DEF Front, L!PendingOf, L!IsPending
<1>6. L!Cardinality(1 .. p) = p
  BY FS_Interval, SameCount
<1> QED  BY <1>1, <1>3, <1>4, <1>5, <1>6

\* What a step leaves of the invariant of the array, once the array is sound.
LEMMA ArrayKept ==
  ASSUME Array, NEW new, NEW q, Sound(new, Len(cids), q, inflight', (Issued \ taken_back)'),
         cids' = new, marked' = q, others' \in BOOLEAN, q # <<>> => others',
         error' = error, Len(cids) # 1
  PROVE  Array'
<1>1. Len(cids) \in Nat /\ new \in [1 .. Len(cids) -> Cid]
  BY SoundFacts
<1>2. Len(new) = Len(cids)
  BY <1>1
<1> QED  BY <1>2 DEF Array

LEMMA SendKeeps ==
  ASSUME Inv, SendNewConnectionIds
  PROVE  Inv'
<1>1. PICK n \in 1 .. LocalSize : L!SendNewConnectionIds(n)
  BY DEF SendNewConnectionIds
<1>2. PICK p \in Nat : /\ p = Len(marked) /\ L!Cardinality(L!PendingOf(cids)) = p
                       /\ DOMAIN cids = 1 .. Len(cids) /\ marked \in Seq(L!Sequence)
  BY ArrayFacts DEF Inv
<1>3. /\ n <= p /\ cids' = L!on_sent(cids, n)
      /\ inflight' = inflight \union {cids[i].sequence : i \in 1 .. n}
      /\ marked' = SubSeq(marked, n + 1, Len(marked))
      /\ path_id' = path_id /\ lost' = lost /\ error' = error
  BY <1>1, <1>2 DEF L!SendNewConnectionIds
<1>4. others' = (others /\ n < p)
  <2>1. others' = L!FlowsAfterSend(others, n < L!Cardinality(L!PendingOf(cids)))
    BY <1>1, Zenon DEF L!SendNewConnectionIds
  <2> QED  BY ONLY <1>2, <2>1, Zenon DEF L!FlowsAfterSend
<1>5. /\ ask' \in AskFor(inflight' \ inflight) /\ UNCHANGED peer
      /\ arrived' = arrived /\ given_back' = given_back /\ taken_back' = taken_back
  BY DEF SendNewConnectionIds
<1>6. n \in 1 .. Len(marked) /\ n \in Nat /\ 1 <= n
  BY <1>2, <1>3, SizeAssumption
<1>7. PICK A : A = Issued \ taken_back
  OBVIOUS
<1>8. Issued' = Issued /\ (Issued \ taken_back)' = A
  BY <1>3, <1>5, <1>7 DEF Issued
<1>9. Sound(cids, Len(cids), marked, inflight, A)
  BY <1>7 DEF Inv, Array
<1>10. PICK new, q : new = cids' /\ q = marked'
  OBVIOUS
<1>11. Sound(new, Len(cids), q, inflight', A)
  BY <1>3, <1>6, <1>9, <1>10, SentSound
<1>12. Len(cids) # 1
  <2>1. SUFFICES ASSUME Len(cids) = 1 PROVE FALSE
    OBVIOUS
  <2>2. cids[1].state = "DELIVERED"
    BY <2>1 DEF Inv, Array
  <2>3. cids[1].state = "PENDING"
    BY <1>6, <1>9, <2>1 DEF Sound, Queued
  <2> QED  BY <2>2, <2>3
<1>13. q # <<>> => others'
  <2>1. Len(q) = p - n
    BY <1>2, <1>3, <1>6, <1>10, TailIs
  <2>2. p > 0 => others
    BY <1>2, EmptySeq DEF Inv, Array
  <2>3. n < p => p > 0
    BY <1>6
  <2>4. n < p => others'
    BY ONLY <1>4, <2>2, <2>3, Zenon
  <2>5. ~(n < p) => Len(q) = 0
    BY <1>2, <1>3, <1>6, <2>1
  <2>6. q \in Seq(L!Sequence)
    BY <1>11 DEF Sound, Queued
  <2> QED  BY <2>4, <2>5, <2>6, EmptySeq
<1>14. others' \in BOOLEAN
  BY <1>4
<1>15. Array'
  BY <1>3, <1>8, <1>10, <1>11, <1>12, <1>13, <1>14, ArrayKept DEF Inv
<1>16. {cids[i].sequence : i \in 1 .. n} \subseteq Issued
  <2>1. SUFFICES ASSUME NEW i \in 1 .. n PROVE cids[i].sequence \in Issued
    OBVIOUS
  <2>2. i \in 1 .. Len(cids) /\ i <= Len(marked)
    BY <1>2, <1>6, <1>9, SoundFacts
  <2>3. cids[i].state = "PENDING"
    BY <1>9, <2>2 DEF Sound, Queued
  <2>4. cids[i].sequence \in A
    BY <1>9, <2>2, <2>3 DEF Sound, Content
  <2> QED  BY <1>7, <2>4
<1>17. Numbers'
  <2>1. PICK D : D = DOMAIN ask \union (inflight' \ inflight)
    OBVIOUS
  <2>2. /\ ask' \in [D -> 0 .. RetireLimit]
        /\ \A s \in DOMAIN ask : ask'[s] = ask[s]
        /\ \A s \in (inflight' \ inflight) \ DOMAIN ask : ask'[s] \in {0, s}
    BY <1>5, <2>1 DEF AskFor
  <2>3. DOMAIN ask' = D
    BY <2>2
  <2>4. inflight \subseteq DOMAIN ask /\ lost \subseteq DOMAIN ask /\ arrived \subseteq DOMAIN ask
    BY DEF Inv, Numbers
  <2>5. inflight' \subseteq D /\ lost' \subseteq D /\ arrived' \subseteq D
    BY <1>3, <1>5, <2>1, <2>4
  <2>6. ASSUME NEW s \in D PROVE s \in Issued' /\ ask'[s] \in {0, s}
    <3>1. CASE s \in DOMAIN ask
      BY <1>8, <2>2, <3>1 DEF Inv, Numbers
    <3>2. CASE s \notin DOMAIN ask
      <4>1. s \in (inflight' \ inflight) \ DOMAIN ask
        BY <2>1, <3>2
      <4>2. s \in Issued
        BY <1>3, <1>16, <4>1
      <4> QED  BY <1>8, <2>2, <4>1, <4>2
    <3> QED  BY <3>1, <3>2
  <2>7. ask' \in [DOMAIN ask' -> 0 .. RetireLimit]
    BY <2>2, <2>3
  <2>8. /\ path_id' \in 1 .. MaxPathId /\ given_back' \subseteq Issued'
        /\ taken_back' \subseteq given_back'
        /\ path_id' <= LocalSize + Cardinality(taken_back')
        /\ Issued' \ given_back' # {}
    BY <1>3, <1>5, <1>8 DEF Inv, Numbers
  <2> QED  BY ONLY <2>3, <2>5, <2>6, <2>7, <2>8 DEF Numbers
<1>18. Issued \subseteq Issued' /\ taken_back \subseteq taken_back'
  BY <1>5, <1>8
<1> QED  BY <1>5, <1>15, <1>17, <1>18, PeerKept DEF Inv

\* The number is in one place of the array or in none.
LEMMA FindIs ==
  ASSUME Array, NEW s, s # None, L!Find(s) # {}
  PROVE  /\ L!Min(L!Find(s)) \in 1 .. Len(cids)
         /\ cids[L!Min(L!Find(s))].sequence = s
<1>1. L!Find(s) = {i \in 1 .. Len(cids) : cids[i].sequence = s}
  BY ArrayFacts DEF L!Find
<1>2. L!Find(s) \subseteq Nat
  BY <1>1, ArrayFacts
<1>3. L!Min(L!Find(s)) \in L!Find(s)
  BY <1>2, MinIs
<1> QED  BY <1>1, <1>3

\* Frames that leave the sentmap change nothing about the sequence numbers.
LEMMA NumbersKept ==
  ASSUME Numbers, path_id' = path_id, inflight' \subseteq inflight,
         lost' \subseteq lost \union inflight,
         UNCHANGED <<ask, arrived, given_back, taken_back>>
  PROVE  Numbers' /\ Issued' = Issued
<1>1. Issued' = Issued
  BY DEF Issued
<1>2. ask' = ask /\ arrived' = arrived /\ given_back' = given_back /\ taken_back' = taken_back
  OBVIOUS
<1>3. inflight' \subseteq DOMAIN ask /\ lost' \subseteq DOMAIN ask
  BY DEF Numbers
<1> QED  BY <1>1, <1>2, <1>3 DEF Numbers

LEMMA NumbersOfFrames ==
  ASSUME Numbers
  PROVE  \A s \in DOMAIN ask : s \in Nat /\ s # None
<1>1. path_id \in Nat
  BY SizeAssumption DEF Numbers
<1>2. \A s \in DOMAIN ask : s \in 0 .. path_id - 1
  BY DEF Numbers, Issued
<1> QED  BY <1>1, <1>2, SizeAssumption

LEMMA AckedKeeps ==
  ASSUME Inv, NEW s \in arrived, L!Acked(s),
         UNCHANGED <<peer, ask, arrived, given_back, taken_back>>
  PROVE  Inv'
<1>1. /\ s \in inflight \union lost /\ marked' = L!RemoveFirst(marked, s)
      /\ path_id' = path_id /\ error' = error
  BY DEF L!Acked
<1>2. others' = others
  BY Zenon DEF L!Acked
<1>3. /\ inflight' = inflight \/ inflight' = inflight \ {s}
      /\ lost' = lost \/ lost' = lost \ {s}
  BY DEF L!Acked
<1>4. s # None /\ s \in Nat
  BY NumbersOfFrames DEF Inv, Numbers
<1>5. Len(cids) # 1
  BY <1>1 DEF Inv, Array
<1>6. Numbers' /\ Issued' = Issued
  BY <1>1, <1>3, NumbersKept DEF Inv
<1>7. PICK A : A = Issued \ taken_back
  OBVIOUS
<1>8. (Issued \ taken_back)' = A
  BY <1>6, <1>7
<1>9. PICK N : N = Len(cids)
  OBVIOUS
<1>10. Sound(cids, N, marked, inflight, A)
  BY <1>7, <1>9 DEF Inv, Array
<1>11. PICK new, q : new = cids' /\ q = marked'
  OBVIOUS
<1>12. /\ N \in Nat /\ DOMAIN cids = 1 .. N /\ marked \in Seq(L!Sequence)
       /\ Len(marked) \in Nat
  BY <1>9, ArrayFacts DEF Inv
<1>13. Sound(new, N, q, inflight', A)
  <2>1. CASE L!Find(s) = {}
    <3>1. \A i \in 1 .. N : cids[i].sequence # s
      BY <1>12, <2>1 DEF L!Find
    <3>2. \A i \in 1 .. Len(marked) : marked[i] # s
      BY <1>10, <1>12, <3>1 DEF Sound, Queued
    <3>3. q = marked
      BY <1>1, <1>11, <1>12, <3>2, RemoveFirstIs
    <3>4. new = cids
      BY <1>11, <2>1 DEF L!Acked
    <3>5. Flying(cids, N, inflight')
      BY <1>3, <1>10, <3>1 DEF Sound, Flying
    <3> QED  BY <1>10, <3>3, <3>4, <3>5 DEF Sound
  <2>2. CASE L!Find(s) # {}
    <3>1. PICK x \in 1 .. N : x = L!Min(L!Find(s)) /\ cids[x].sequence = s
      BY <1>4, <1>9, <2>2, FindIs DEF Inv
    <3>2. new = L!do_mark_delivered(cids, x)
      BY <1>11, <2>2, <3>1 DEF L!Acked
    <3>3. q = L!RemoveFirst(marked, s)
      BY <1>1, <1>11
    <3>4. Sound(L!do_mark_delivered(cids, x), N, L!RemoveFirst(marked, s), inflight', A)
      BY <1>3, <1>4, <1>10, <3>1, DeliveredSound
    <3> QED  BY <3>2, <3>3, <3>4
  <2> QED  BY <2>1, <2>2
<1>14. q # <<>> => marked # <<>>
  <2>1. SUFFICES ASSUME marked = <<>> PROVE q = <<>>
    OBVIOUS
  <2>2. \A i \in 1 .. Len(marked) : marked[i] # s
    BY <2>1
  <2> QED  BY <1>1, <1>11, <1>12, <2>1, <2>2, RemoveFirstIs
<1>15. others' \in BOOLEAN /\ (q # <<>> => others')
  BY <1>2, <1>14 DEF Inv, Array
<1>16. Array'
  BY <1>1, <1>5, <1>8, <1>9, <1>11, <1>13, <1>15, ArrayKept DEF Inv
<1> QED  BY <1>6, <1>16, PeerKept DEF Inv

LEMMA ExpireKeeps ==
  ASSUME Inv, NEW s \in lost, L!Expire(s),
         UNCHANGED <<peer, ask, arrived, given_back, taken_back>>
  PROVE  Inv'
<1>1. /\ lost' = lost \ {s} /\ inflight' = inflight /\ path_id' = path_id
      /\ cids' = cids /\ marked' = marked /\ error' = error
  BY DEF L!Expire
<1>2. others' = others
  BY Zenon DEF L!Expire
<1>3. Numbers' /\ Issued' = Issued
  BY <1>1, NumbersKept DEF Inv
<1>4. Array'
  BY <1>1, <1>2, <1>3 DEF Inv, Array
<1> QED  BY <1>3, <1>4, PeerKept DEF Inv

LEMMA LostKeeps ==
  ASSUME Inv, NEW s \in inflight, NEW keep \in BOOLEAN, L!Lost(s, keep),
         UNCHANGED <<peer, ask, arrived, given_back, taken_back>>
  PROVE  Inv'
<1>1. /\ inflight' = inflight \ {s} /\ lost' \subseteq lost \union inflight
      /\ path_id' = path_id /\ error' = error
  BY DEF L!Lost
<1>2. s # None /\ s \in Nat
  BY NumbersOfFrames DEF Inv, Numbers
<1>3. Len(cids) # 1
  BY DEF Inv, Array
<1>4. Numbers' /\ Issued' = Issued
  BY <1>1, NumbersKept DEF Inv
<1>5. PICK A : A = Issued \ taken_back
  OBVIOUS
<1>6. (Issued \ taken_back)' = A
  BY <1>4, <1>5
<1>7. PICK N : N = Len(cids)
  OBVIOUS
<1>8. Sound(cids, N, marked, inflight, A)
  BY <1>5, <1>7 DEF Inv, Array
<1>9. PICK new, q : new = cids' /\ q = marked'
  OBVIOUS
<1>10. /\ N \in Nat /\ DOMAIN cids = 1 .. N /\ marked \in Seq(L!Sequence)
       /\ Len(marked) \in Nat
  BY <1>7, ArrayFacts DEF Inv
<1>11. PICK again : again = (L!Find(s) # {} /\ L!LostAgain(cids, L!Min(L!Find(s))))
  OBVIOUS
<1>12. again \in BOOLEAN
  BY <1>11
<1>13. /\ new = IF again THEN L!do_mark_pending(cids, L!Min(L!Find(s))) ELSE cids
       /\ q = IF again /\ ~ L!IsPending(cids, L!Min(L!Find(s)))
              THEN Append(marked, s) ELSE marked
  BY ONLY <1>9, <1>11, L!Lost(s, keep), Zenon DEF L!Lost
<1>14. others' = (others \/ again \/ L!has_pending(cids))
  BY ONLY <1>11, L!Lost(s, keep), Zenon DEF L!Lost
<1>15. Sound(new, N, q, inflight', A)
  <2>1. CASE ~ again
    <3>1. new = cids /\ q = marked
      BY <1>13, <2>1
    <3>2. \A i \in 1 .. N : cids[i].state = "INFLIGHT" => cids[i].sequence # s
      <4>1. CASE L!Find(s) = {}
        BY <1>10, <4>1 DEF L!Find
      <4>2. CASE L!Find(s) # {}
        <5>1. PICK x \in 1 .. N : x = L!Min(L!Find(s)) /\ cids[x].sequence = s
          BY <1>2, <1>7, <4>2, FindIs DEF Inv
        <5>2. cids[x].state = "DELIVERED"
          BY <1>11, <2>1, <4>2, <5>1 DEF L!LostAgain
        <5>3. \A i \in 1 .. N : cids[i].sequence = s => i = x
          BY <1>2, <1>8, <5>1 DEF Sound, Content
        <5> QED  BY <5>2, <5>3
      <4> QED  BY <4>1, <4>2
    <3>3. Flying(cids, N, inflight')
      BY <1>1, <1>8, <3>2 DEF Sound, Flying
    <3> QED  BY <1>8, <3>1, <3>3 DEF Sound
  <2>2. CASE again
    <3>1. PICK x \in 1 .. N : x = L!Min(L!Find(s)) /\ cids[x].sequence = s
      BY <1>2, <1>7, <1>11, <2>2, FindIs DEF Inv
    <3>2. /\ new = L!do_mark_pending(cids, x)
          /\ q = IF cids[x].state # "PENDING" THEN Append(marked, s) ELSE marked
      BY <1>13, <2>2, <3>1 DEF L!IsPending
    <3>3. /\ cids[x].state = "PENDING" =>
               Sound(L!do_mark_pending(cids, x), N, marked, inflight \ {s}, A)
          /\ cids[x].state # "PENDING" =>
               Sound(L!do_mark_pending(cids, x), N, Append(marked, s), inflight \ {s}, A)
      BY <1>2, <1>8, <3>1, LostSound
    <3> QED  BY <1>1, <3>2, <3>3
  <2> QED  BY <1>12, <2>1, <2>2
<1>16. others' \in BOOLEAN
  BY ONLY <1>14
<1>17. q # <<>> => others'
  <2>1. q = marked \/ again
    BY <1>13
  <2>2. marked # <<>> => others
    BY DEF Inv, Array
  <2> QED  BY ONLY <1>14, <2>1, <2>2, Zenon
<1>18. Array'
  BY <1>1, <1>3, <1>6, <1>7, <1>9, <1>15, <1>16, <1>17, ArrayKept DEF Inv
<1> QED  BY <1>4, <1>18, PeerKept DEF Inv

\* Those active at the issuer are the ones issued and not taken back.
LEMMA ActiveIs ==
  ASSUME Inv
  PROVE  /\ L!Active(cids) = Issued \ taken_back
         /\ \A s \in Issued : {i \in L!Find(s) : cids[i].state # "IDLE"} = L!Find(s)
         /\ \A s \in Issued : L!Find(s) = {} <=> s \in taken_back
<1>1. PICK N : N = Len(cids)
  OBVIOUS
<1>2. Content(cids, N, Issued \ taken_back)
  BY <1>1 DEF Inv, Array, Sound
<1>3. N \in Nat /\ DOMAIN cids = 1 .. N
  BY <1>1, ArrayFacts DEF Inv
<1>4. \A s \in Issued : s # None
  BY Room, SizeAssumption DEF Inv, Issued
<1>5. L!Active(cids) = Issued \ taken_back
  <2>1. L!Active(cids) = {cids[i].sequence : i \in {j \in 1 .. N : cids[j].state # "IDLE"}}
    BY <1>3 DEF L!Active
  <2> QED  BY <1>2, <2>1 DEF Content
<1>6. ASSUME NEW s \in Issued
      PROVE  {i \in L!Find(s) : cids[i].state # "IDLE"} = L!Find(s)
  BY <1>2, <1>3, <1>4 DEF L!Find, Content
<1>7. ASSUME NEW s \in Issued
      PROVE  L!Find(s) = {} <=> s \in taken_back
  <2>1. L!Find(s) = {i \in 1 .. N : cids[i].sequence = s}
    BY <1>3 DEF L!Find
  <2> QED  BY <1>2, <1>4, <2>1 DEF Content
<1> QED  BY <1>5, <1>6, <1>7

LEMMA TakeBackKeeps ==
  ASSUME Inv, NEW s \in given_back, TakeBack(s)
  PROVE  Inv'
<1>1. /\ UNCHANGED peer /\ ask' = ask /\ arrived' = arrived /\ given_back' = given_back
      /\ taken_back' = taken_back \union {s}
  BY DEF TakeBack
<1>2. PICK p \in Nat : /\ p = path_id /\ p >= 1 /\ IsFiniteSet(taken_back)
                       /\ Cardinality(taken_back) \in Nat
  BY Room DEF Inv
<1>3. s \in Issued /\ s \in Nat /\ s < p /\ s # None
  BY <1>2, SizeAssumption DEF Inv, Numbers, Issued
<1>4. PICK c \in Issued : c \notin given_back
  BY DEF Inv, Numbers
<1>5. L!Active(cids) # {s}
  BY <1>4, ActiveIs DEF Inv, Numbers
<1>6. Len(cids) # 1
  <2>1. SUFFICES ASSUME Len(cids) = 1 PROVE FALSE
    OBVIOUS
  <2>2. Issued = {0}
    BY <2>1 DEF Inv, Array, Issued
  <2> QED  BY <1>3, <1>4, <2>2
<1>7. PICK A : A = Issued \ taken_back
  OBVIOUS
<1>8. PICK N : N = Len(cids)
  OBVIOUS
<1>9. Sound(cids, N, marked, inflight, A)
  BY <1>7, <1>8 DEF Inv, Array
<1>10. /\ N \in Nat /\ DOMAIN cids = 1 .. N /\ marked \in Seq(L!Sequence)
       /\ Len(marked) \in Nat
  BY <1>8, ArrayFacts DEF Inv
<1>11. PICK at : at = {i \in L!Find(s) : cids[i].state # "IDLE"}
  OBVIOUS
<1>12. at = L!Find(s) /\ (at = {} <=> s \in taken_back)
  BY <1>3, <1>11, ActiveIs
<1>13. PICK kept : kept = L!RemoveFirst(marked, s)
  OBVIOUS
<1>14. ~(s >= path_id \/ (at # {} /\ L!Active(cids) = {s}))
  BY <1>2, <1>3, <1>5
<1>15. PICK new, q : new = cids' /\ q = marked'
  OBVIOUS
<1>16. /\ new = IF at = {} THEN cids
                ELSE L!Issue(L!Vacated(L!Min(at)), L!Behind(cids, L!Min(at)), path_id)
       /\ path_id' = IF at # {} /\ path_id < MaxPathId THEN path_id + 1 ELSE path_id
       /\ q = IF at # {} /\ path_id < MaxPathId THEN Append(kept, path_id) ELSE kept
       /\ error' = error /\ inflight' = inflight /\ lost' = lost
  BY <1>11, <1>13, <1>14, <1>15, Zenon DEF TakeBack, L!ReceiveRetire
<1>17. others' = (others \/ L!has_pending(new))
  BY <1>11, <1>14, <1>15, Zenon DEF TakeBack, L!ReceiveRetire
<1>18. MaxPathId \in Nat /\ p <= MaxPathId
  BY <1>2, SizeAssumption DEF Inv, Numbers
<1>19. PICK B : B = (Issued \ taken_back)'
  OBVIOUS
<1>20. Sound(new, N, q, inflight', B)
  <2>1. CASE at = {}
    <3>1. new = cids /\ q = kept /\ path_id' = path_id
      BY <1>16, <2>1
    <3>2. taken_back' = taken_back
      BY <1>1, <1>12, <2>1
    <3>3. B = A
      BY <1>7, <1>19, <3>1, <3>2 DEF Issued
    <3>4. \A i \in 1 .. N : cids[i].sequence # s
      BY <1>10, <1>12, <2>1 DEF L!Find
    <3>5. \A i \in 1 .. Len(marked) : marked[i] # s
      BY <1>9, <1>10, <3>4 DEF Sound, Queued
    <3>6. q = marked
      BY <1>10, <1>13, <3>1, <3>5, RemoveFirstIs
    <3> QED  BY <1>9, <1>16, <3>1, <3>3, <3>6
  <2>2. CASE at # {}
    <3>1. PICK x \in 1 .. N : x = L!Min(at) /\ cids[x].sequence = s
      BY <1>3, <1>8, <1>12, <2>2, FindIs DEF Inv
    <3>2. PICK vac, h : /\ vac = L!MoveBehind([cids EXCEPT ![x] = IdleCid], x)
                        /\ h = L!Behind(cids, x)
      OBVIOUS
    <3>3. PICK C : C = A \ {s}
      OBVIOUS
    <3>4. Sound(vac, N, kept, inflight, C) /\ h \in 1 .. N /\ vac[h] = IdleCid
      BY <1>3, <1>9, <1>13, <3>1, <3>2, <3>3, VacatedSound
    <3>5. new = L!Issue(vac, h, path_id)
      BY <1>16, <2>2, <3>1, <3>2 DEF L!Vacated, IdleCid
    <3>6. CASE path_id < MaxPathId
      <4>1. PICK id : id = path_id
        OBVIOUS
      <4>2. id \in L!Sequence /\ id \notin C /\ path_id' = path_id + 1
        BY <1>2, <1>7, <1>16, <1>18, <2>2, <3>3, <3>6, <4>1 DEF L!Sequence, Issued
      <4>3. new = L!do_mark_pending([vac EXCEPT ![h].sequence = id], h)
        BY <1>2, <1>18, <3>5, <3>6, <4>1 DEF L!Issue
      <4>4. q = Append(kept, id)
        BY <1>16, <2>2, <3>6, <4>1
      <4>5. Sound(new, N, q, inflight, C \union {id})
        BY <3>4, <4>2, <4>3, <4>4, IssuedSound
      <4>6. Issued' = Issued \union {id} /\ id \notin taken_back
        <5>1. Issued' = 0 .. p
          BY <1>2, <4>2 DEF Issued
        <5>2. Issued = 0 .. p - 1 /\ id = p
          BY <1>2, <4>1 DEF Issued
        <5>3. id \notin Issued
          BY <1>2, <5>2
        <5>4. 0 .. p = (0 .. p - 1) \union {p}
          BY <1>2
        <5> QED  BY <5>1, <5>2, <5>3, <5>4 DEF Inv, Numbers
      <4>7. id # s
        BY <1>2, <1>3, <4>1
      <4>8. B = C \union {id}
        BY <1>1, <1>7, <1>19, <3>3, <4>6, <4>7
      <4> QED  BY <1>16, <4>5, <4>8
    <3>7. CASE ~(path_id < MaxPathId)
      <4>1. path_id' = path_id /\ q = kept
        BY <1>16, <3>7
      <4>2. new = vac
        BY <1>2, <1>18, <3>5, <3>7 DEF L!Issue
      <4>3. B = C
        BY <1>1, <1>7, <1>19, <3>3, <4>1 DEF Issued
      <4> QED  BY <1>16, <3>4, <4>1, <4>2, <4>3
    <3> QED  BY <3>6, <3>7
  <2> QED  BY <2>1, <2>2
<1>21. others' \in BOOLEAN
  BY ONLY <1>17
<1>22. q # <<>> => others'
  <2>1. SUFFICES ASSUME q # <<>> PROVE others'
    OBVIOUS
  <2>2. q \in Seq(L!Sequence) /\ Len(q) \in 0 .. N
    BY <1>20, SoundFacts
  <2>3. Len(q) # 0
    BY <2>1, <2>2, EmptySeq
  <2>4. new[1].state = "PENDING"
    BY <1>10, <1>20, <2>2, <2>3 DEF Sound, Queued
  <2>5. L!has_pending(new)
    BY <2>4 DEF L!has_pending, L!IsPending
  <2> QED  BY ONLY <1>17, <2>5, Zenon
<1>23. Array'
  BY <1>6, <1>8, <1>15, <1>16, <1>19, <1>20, <1>21, <1>22, ArrayKept DEF Inv
<1>24. Issued \subseteq Issued'
  BY <1>2, <1>16 DEF Issued
<1>25. Numbers'
  <2>1. path_id' \in 1 .. MaxPathId
    BY <1>2, <1>16, <1>18
  <2>2. path_id' <= LocalSize + Cardinality(taken_back')
    <3>1. p <= LocalSize + Cardinality(taken_back)
      BY <1>2 DEF Inv, Numbers
    <3>2. CASE s \in taken_back
      <4>1. taken_back' = taken_back /\ path_id' = p
        BY <1>1, <1>2, <1>12, <1>16, <3>2
      <4> QED  BY <3>1, <4>1
    <3>3. CASE s \notin taken_back
      <4>1. Cardinality(taken_back') = Cardinality(taken_back) + 1
        BY <1>1, <1>2, <3>3, FS_AddElement
      <4>2. path_id' = p \/ path_id' = p + 1
        BY <1>2, <1>16
      <4> QED  BY <1>2, <3>1, <4>1, <4>2, SizeAssumption
    <3> QED  BY <3>2, <3>3
  <2>3. Issued' \ given_back' # {}
    BY <1>1, <1>4, <1>24
  <2>4. taken_back' \subseteq given_back'
    BY <1>1 DEF Inv, Numbers
  <2> QED  BY <1>1, <1>16, <1>24, <2>1, <2>2, <2>3, <2>4 DEF Inv, Numbers
<1>26. taken_back \subseteq taken_back'
  BY <1>1
<1> QED  BY <1>1, <1>23, <1>24, <1>25, <1>26, PeerKept DEF Inv

-----------------------------------------------------------------------------
(* Its peer *)

\* the CIDs in `out` have left the set, and each slot waits for another one
LeaveIn(set, u, out, gone, issued) ==
  /\ u = [slots |-> u.slots, largest |-> u.largest, retired |-> u.retired]
  /\ Holding(u.slots, u.largest, gone \union out, issued)
  /\ u.retired = set.retired \union out
  /\ R!InState(u.slots, "IN_USE") = R!InState(set.slots, "IN_USE") \ out
  /\ set.largest <= u.largest
  /\ \A T : 0 .. set.largest = DOMAIN set.slots \union set.retired \union T
              => 0 .. u.largest = DOMAIN u.slots \union u.retired \union T

IsCidSet(set) ==
  set = [slots |-> set.slots, largest |-> set.largest, retired |-> set.retired]

LEMMA NoneLeave ==
  ASSUME NEW set, IsCidSet(set), NEW gone, NEW issued, NEW prior,
         Holding(set.slots, set.largest, gone, issued)
  PROVE  LeaveIn(set, set, {}, gone, issued) /\ R!Unregistered(set, {}, prior) = set
<1>1. gone \union {} = gone /\ set.retired \union {} = set.retired
  OBVIOUS
<1>2. set.largest \in Nat /\ set.slots \in [DOMAIN set.slots -> SlotState]
  BY DEF Holding
<1>3. LeaveIn(set, set, {}, gone, issued)
  BY <1>1, <1>2 DEF LeaveIn, IsCidSet
<1>4. [s \in (DOMAIN set.slots \ {}) \union {} |->
         IF s \in {} THEN "UNAVAILABLE" ELSE set.slots[s]] = set.slots
  BY <1>2
<1>5. set.retired \union {} \union {} = set.retired
  OBVIOUS
<1>6. R!Unregistered(set, {}, prior)
        = [slots |-> [s \in (DOMAIN set.slots \ {}) \union {} |->
                        IF s \in {} THEN "UNAVAILABLE" ELSE set.slots[s]],
           largest |-> set.largest, retired |-> set.retired \union {} \union {}]
  BY DEF R!Unregistered
<1> QED  BY <1>3, <1>4, <1>5, <1>6 DEF IsCidSet

Reserved(held, out, n, k) ==
  [s \in (DOMAIN held \ out) \union (n + 1 .. n + k) |->
     IF s \in n + 1 .. n + k THEN "UNAVAILABLE" ELSE held[s]]

\* The slots after those of the CIDs in `out` have been reserved anew.
LEMMA SlotsReserved ==
  ASSUME NEW held, NEW n, NEW gone, NEW issued, Holding(held, n, gone, issued),
         NEW out, out \subseteq DOMAIN held, out \subseteq issued,
         NEW k \in Nat, k = Cardinality(out), NEW new, new = Reserved(held, out, n, k)
  PROVE  /\ Holding(new, n + k, gone \union out, issued)
         /\ R!InState(new, "IN_USE") = R!InState(held, "IN_USE") \ out
<1>1. PICK D : D = DOMAIN held
  OBVIOUS
<1>2. /\ n \in Nat /\ D \subseteq 0 .. n /\ Cardinality(D) = Slots
      /\ held \in [D -> SlotState] /\ Usable(held) \subseteq issued
      /\ gone \subseteq issued /\ gone \subseteq 0 .. n /\ D \intersect gone = {}
  BY <1>1 DEF Holding
<1>3. PICK E : E = n + 1 .. n + k
  OBVIOUS
<1>4. \A s \in E : s \in Nat /\ n < s /\ s <= n + k
  BY <1>2, <1>3
<1>5. E \intersect D = {} /\ E \intersect gone = {} /\ E \intersect out = {}
  BY <1>1, <1>2, <1>4
<1>6. PICK F : F = D \ out
  OBVIOUS
<1>7. DOMAIN new = F \union E
  BY <1>1, <1>3, <1>6 DEF Reserved
<1>8. /\ \A s \in E : new[s] = "UNAVAILABLE"
      /\ \A s \in F : new[s] = held[s]
  BY <1>1, <1>3, <1>5, <1>6 DEF Reserved
<1>9. \A s \in F : held[s] \in SlotState
  BY <1>2, <1>6
<1>10. new \in [DOMAIN new -> SlotState]
  <2>1. \A s \in DOMAIN new : new[s] \in SlotState
    BY <1>7, <1>8, <1>9 DEF SlotState
  <2> QED  BY <2>1 DEF Reserved
<1>11. R!InState(new, "IN_USE") = R!InState(held, "IN_USE") \ out
  BY <1>1, <1>6, <1>7, <1>8 DEF R!InState
<1>12. R!InState(new, "AVAILABLE") = R!InState(held, "AVAILABLE") \ out
  BY <1>1, <1>6, <1>7, <1>8 DEF R!InState
<1>13. Usable(new) \subseteq issued
  BY <1>2, <1>11, <1>12 DEF Usable
<1>14. Cardinality(F \union E) = Slots
  <2>1. IsFiniteSet(D) /\ D \intersect out = out
    BY <1>1, <1>2, NumbersFinite
  <2>2. Cardinality(F) = Slots - k
    BY <1>2, <1>6, <2>1, FS_Difference
  <2>3. Cardinality(E) = k
    <3>1. PICK a \in Int, b \in Int : a = n + 1 /\ b = n + k
      BY <1>2
    <3>2. Cardinality(a .. b) = IF a > b THEN 0 ELSE b - a + 1
      BY FS_Interval
    <3>3. (IF a > b THEN 0 ELSE b - a + 1) = k
      BY <1>2, <3>1
    <3> QED  BY <1>3, <3>1, <3>2, <3>3
  <2>4. PICK z \in Nat : z = n + k
    BY <1>2
  <2>5. F \subseteq 0 .. z /\ E \subseteq 0 .. z /\ F \intersect E = {}
    BY <1>2, <1>4, <1>5, <1>6, <2>4
  <2>6. Cardinality(F \union E) = Cardinality(F) + Cardinality(E)
    BY <2>5, ApartCount
  <2> QED  BY <2>2, <2>3, <2>6, SizeAssumption
<1>15. DOMAIN new \subseteq 0 .. n + k /\ gone \union out \subseteq 0 .. n + k
  BY <1>1, <1>2, <1>4, <1>6, <1>7
<1>16. DOMAIN new \intersect (gone \union out) = {}
  BY <1>2, <1>5, <1>6, <1>7
<1>17. n + k \in Nat
  BY <1>2
<1>18. Cardinality(DOMAIN new) = Slots
  BY <1>7, <1>14
<1>19. Holding(new, n + k, gone \union out, issued)
  BY ONLY <1>2, <1>10, <1>13, <1>15, <1>16, <1>17, <1>18, out \subseteq issued DEF Holding
<1> QED  BY <1>11, <1>19

\* do_unregister, of CIDs that are in slots and were issued.
LEMMA UnregisteredIs ==
  ASSUME NEW set, IsCidSet(set), NEW gone, NEW issued,
         Holding(set.slots, set.largest, gone, issued),
         NEW out, out \subseteq DOMAIN set.slots, out \subseteq issued,
         NEW prior \in Nat, prior <= set.largest + 1
  PROVE  LeaveIn(set, R!Unregistered(set, out, prior), out, gone, issued)
<1>1. CASE out = {}
  BY <1>1, NoneLeave
<1>2. CASE out # {}
  <2>1. PICK n \in Nat : n = set.largest
    BY DEF Holding
  <2>2. /\ DOMAIN set.slots \subseteq 0 .. n /\ out \subseteq 0 .. n
    BY <2>1 DEF Holding
  <2>3. PICK k \in Nat : k = Cardinality(out) /\ k >= 1
    <3>1. IsFiniteSet(out) /\ Cardinality(out) \in Nat
      BY <2>2, NumbersFinite
    <3>2. Cardinality(out) # 0
      BY <1>2, <3>1, FS_EmptySet
    <3> QED  BY <3>1, <3>2
  <2>4. R!Max({set.largest, prior - 1}) = n
    <3>1. PICK T : T = {set.largest, prior - 1}
      OBVIOUS
    <3>2. T \subseteq Int /\ n \in T /\ \A t \in T : t <= n
      BY <2>1, <3>1
    <3> QED  BY <3>1, <3>2, GreatestIs
  <2>5. n + 1 .. prior - 1 = {}
    BY <2>1
  <2>6. R!Max(n + 1 .. n + k) = n + k
    <3>1. PICK T : T = n + 1 .. n + k
      OBVIOUS
    <3>2. T \subseteq Int /\ n + k \in T /\ \A t \in T : t <= n + k
      BY <2>3, <3>1
    <3> QED  BY <3>1, <3>2, GreatestIs
  <2>7. PICK new : new = Reserved(set.slots, out, n, k)
    OBVIOUS
  <2>8. PICK u : u = [slots |-> new, largest |-> n + k, retired |-> set.retired \union out]
    OBVIOUS
  <2>9. R!Unregistered(set, out, prior) = u
    <3>1. R!Cardinality(out) = k
      BY <2>3, SameCount
    <3>2. set.retired \union out \union (n + 1 .. prior - 1) = set.retired \union out
      BY <2>5
    <3> QED  BY <1>2, <2>1, <2>4, <2>6, <2>7, <2>8, <3>1, <3>2 DEF R!Unregistered, Reserved
  <2>10. u.slots = new /\ u.largest = n + k /\ u.retired = set.retired \union out
    BY <2>8
  <2>11. /\ Holding(new, n + k, gone \union out, issued)
         /\ R!InState(new, "IN_USE") = R!InState(set.slots, "IN_USE") \ out
    <3>1. PICK held : held = set.slots
      OBVIOUS
    <3>2. Holding(held, n, gone, issued) /\ out \subseteq DOMAIN held
      BY <2>1, <3>1
    <3>3. new = Reserved(held, out, n, k)
      BY <2>7, <3>1
    <3>4. /\ Holding(new, n + k, gone \union out, issued)
          /\ R!InState(new, "IN_USE") = R!InState(held, "IN_USE") \ out
      BY ONLY <2>3, <3>2, <3>3, out \subseteq issued, SlotsReserved
    <3> QED  BY <3>1, <3>4
  <2>12. ASSUME NEW T, 0 .. n = DOMAIN set.slots \union set.retired \union T
         PROVE  0 .. n + k = DOMAIN new \union (set.retired \union out) \union T
    <3>1. PICK E : E = n + 1 .. n + k
      OBVIOUS
    <3>2. 0 .. n + k = (0 .. n) \union E
      BY <3>1
    <3>3. DOMAIN new = (DOMAIN set.slots \ out) \union E
      BY <2>7, <3>1 DEF Reserved
    <3> QED  BY <2>12, <3>2, <3>3
  <2>13. u = [slots |-> u.slots, largest |-> u.largest, retired |-> u.retired]
    BY <2>8, <2>10
  <2>14. set.largest <= u.largest
    BY <2>1, <2>10
  <2>15. \A T : 0 .. set.largest = DOMAIN set.slots \union set.retired \union T
                  => 0 .. u.largest = DOMAIN u.slots \union u.retired \union T
    BY <2>1, <2>10, <2>12
  <2>16. LeaveIn(set, u, out, gone, issued)
    BY ONLY <2>10, <2>11, <2>13, <2>14, <2>15 DEF LeaveIn
  <2> QED  BY <2>9, <2>16
<1> QED  BY <1>1, <1>2

\* the CIDs used are those of the paths, each of one path
Uses(map, used) ==
  /\ \A i, j \in R!Path : i # j /\ map[i].dcid # None => map[i].dcid # map[j].dcid
  /\ \A s : s \in used <=> s # None /\ \E i \in R!Path : map[i].dcid = s

LEMMA MatchingUses ==
  ASSUME NEW map, NEW held
  PROVE  Matching(map, held) <=> /\ map \in [R!Path -> PathRecord]
                                 /\ Uses(map, R!InState(held, "IN_USE"))
BY DEF Matching, Uses

LEMMA PathCid ==
  ASSUME NEW map, NEW held, Matching(map, held), NEW i \in R!Path, map[i].dcid # None
  PROVE  map[i].dcid \in R!InState(held, "IN_USE")
BY DEF Matching

\* The CIDs in `out` are taken away from their paths.
LEMMA DissociatedMatch ==
  ASSUME NEW map, NEW held, Matching(map, held), NEW out, NEW new,
         R!InState(new, "IN_USE") = R!InState(held, "IN_USE") \ out
  PROVE  Matching(R!Dissociated(map, out), new)
<1>1. PICK d : d = R!Dissociated(map, out)
  OBVIOUS
<1>2. map \in [R!Path -> PathRecord]
  BY DEF Matching
<1>3. \A i \in R!Path : [map[i] EXCEPT !.dcid = None] \in PathRecord
                        /\ [map[i] EXCEPT !.dcid = None].dcid = None
  BY <1>2 DEF PathRecord
<1>4. d \in [R!Path -> PathRecord]
  BY <1>1, <1>2, <1>3 DEF R!Dissociated
<1>5. \A i \in R!Path : d[i].dcid = IF map[i].dcid \in out THEN None ELSE map[i].dcid
  BY <1>1, <1>3 DEF R!Dissociated
<1>6. Uses(map, R!InState(held, "IN_USE"))
  BY MatchingUses
<1>7. Uses(d, R!InState(held, "IN_USE") \ out)
  <2>1. \A i, j \in R!Path : i # j /\ d[i].dcid # None => d[i].dcid # d[j].dcid
    BY <1>5, <1>6 DEF Uses
  <2>2. ASSUME NEW s
        PROVE  s \in R!InState(held, "IN_USE") \ out
                 <=> s # None /\ \E i \in R!Path : d[i].dcid = s
    BY <1>5, <1>6 DEF Uses
  <2> QED  BY ONLY <2>1, <2>2, Zenon DEF Uses
<1> QED  BY <1>1, <1>4, <1>7, MatchingUses

\* A path is replaced by one without a CID.
LEMMA RemovedMatch ==
  ASSUME NEW map, NEW held, Matching(map, held), NEW new, NEW i \in R!Path,
         R!InState(new, "IN_USE") = R!InState(held, "IN_USE") \ ({map[i].dcid} \ {None}),
         NEW path \in PathRecord, path.dcid = None
  PROVE  Matching([map EXCEPT ![i] = path], new)
<1>1. PICK d : d = [map EXCEPT ![i] = path]
  OBVIOUS
<1>2. map \in [R!Path -> PathRecord] /\ Uses(map, R!InState(held, "IN_USE"))
  BY MatchingUses
<1>3. /\ d \in [R!Path -> PathRecord] /\ d[i].dcid = None
      /\ \A j \in R!Path : j # i => d[j].dcid = map[j].dcid
  BY <1>1, <1>2
<1>4. Uses(d, R!InState(new, "IN_USE"))
  <2>1. \A j, k \in R!Path : j # k /\ d[j].dcid # None => d[j].dcid # d[k].dcid
    BY <1>2, <1>3 DEF Uses
  <2>2. ASSUME NEW s
        PROVE  s \in R!InState(new, "IN_USE")
                 <=> s # None /\ \E j \in R!Path : d[j].dcid = s
    BY <1>2, <1>3 DEF Uses
  <2> QED  BY ONLY <2>1, <2>2, Zenon DEF Uses
<1> QED  BY <1>1, <1>3, <1>4, MatchingUses

\* A path changes and keeps its CID, or has none before and after.
LEMMA SameMatch ==
  ASSUME NEW map, NEW held, Matching(map, held), NEW i \in R!Path,
         NEW path \in PathRecord, path.dcid = map[i].dcid
  PROVE  Matching([map EXCEPT ![i] = path], held)
<1>1. PICK d : d = [map EXCEPT ![i] = path]
  OBVIOUS
<1>2. map \in [R!Path -> PathRecord] /\ Uses(map, R!InState(held, "IN_USE"))
  BY MatchingUses
<1>3. d \in [R!Path -> PathRecord] /\ \A j \in R!Path : d[j].dcid = map[j].dcid
  BY <1>1, <1>2
<1>4. Uses(d, R!InState(held, "IN_USE"))
  BY <1>2, <1>3 DEF Uses
<1> QED  BY <1>1, <1>3, <1>4, MatchingUses

\* A path without a CID is given one.
LEMMA GivenMatch ==
  ASSUME NEW map, NEW held, Matching(map, held), NEW new, NEW i \in R!Path,
         map[i].dcid = None, NEW path \in PathRecord, path.dcid # None,
         path.dcid \notin R!InState(held, "IN_USE"),
         R!InState(new, "IN_USE") = R!InState(held, "IN_USE") \union {path.dcid}
  PROVE  Matching([map EXCEPT ![i] = path], new)
<1>1. PICK d : d = [map EXCEPT ![i] = path]
  OBVIOUS
<1>2. map \in [R!Path -> PathRecord] /\ Uses(map, R!InState(held, "IN_USE"))
  BY MatchingUses
<1>3. /\ d \in [R!Path -> PathRecord] /\ d[i].dcid = path.dcid
      /\ \A j \in R!Path : j # i => d[j].dcid = map[j].dcid
  BY <1>1, <1>2
<1>4. \A j \in R!Path : map[j].dcid # path.dcid
  BY <1>2 DEF Uses
<1>5. Uses(d, R!InState(new, "IN_USE"))
  <2>1. \A j, k \in R!Path : j # k /\ d[j].dcid # None => d[j].dcid # d[k].dcid
    BY <1>2, <1>3, <1>4 DEF Uses
  <2>2. ASSUME NEW s
        PROVE  s \in R!InState(new, "IN_USE")
                 <=> s # None /\ \E j \in R!Path : d[j].dcid = s
    BY <1>2, <1>3, <1>4 DEF Uses
  <2> QED  BY ONLY <2>1, <2>2, Zenon DEF Uses
<1> QED  BY <1>1, <1>3, <1>5, MatchingUses

\* A path takes the place of the primary one, whose CID is retired.
LEMMA PromotedMatch ==
  ASSUME NEW map, NEW held, Matching(map, held), NEW new, NEW i \in R!Path, i # 0,
         R!InState(new, "IN_USE") = R!InState(held, "IN_USE") \ ({map[0].dcid} \ {None}),
         NEW path \in PathRecord, path.dcid = map[i].dcid
  PROVE  Matching([map EXCEPT ![0] = path, ![i] = R!NoPath], new)
<1>1. PICK d : d = [map EXCEPT ![0] = path, ![i] = R!NoPath]
  OBVIOUS
<1>2. map \in [R!Path -> PathRecord] /\ Uses(map, R!InState(held, "IN_USE"))
  BY MatchingUses
<1>3. 0 \in R!Path /\ R!NoPath \in PathRecord /\ R!NoPath.dcid = None
  BY SizeAssumption DEF R!Path, R!NoPath, PathRecord, R!PathState
<1>4. /\ d \in [R!Path -> PathRecord] /\ d[i].dcid = None /\ d[0].dcid = map[i].dcid
      /\ \A j \in R!Path : j # i /\ j # 0 => d[j].dcid = map[j].dcid
  BY <1>1, <1>2, <1>3
<1>5. Uses(d, R!InState(new, "IN_USE"))
  <2>1. \A j, k \in R!Path : j # k /\ d[j].dcid # None => d[j].dcid # d[k].dcid
    BY <1>2, <1>3, <1>4 DEF Uses
  <2>2. ASSUME NEW s
        PROVE  s \in R!InState(new, "IN_USE")
                 <=> s # None /\ \E j \in R!Path : d[j].dcid = s
    <3>1. CASE s = map[i].dcid
      BY <1>2, <1>3, <1>4, <3>1 DEF Uses
    <3>2. CASE s # map[i].dcid
      BY <1>2, <1>3, <1>4, <3>2 DEF Uses
    <3> QED  BY <3>1, <3>2
  <2> QED  BY ONLY <2>1, <2>2, Zenon DEF Uses
<1> QED  BY <1>1, <1>4, <1>5, MatchingUses

\* The CID of a path that is given up leaves the set, if it has one.
LEMMA ReleasedIs ==
  ASSUME NEW set, IsCidSet(set), NEW gone, NEW issued,
         Holding(set.slots, set.largest, gone, issued),
         NEW map, Matching(map, set.slots), NEW i \in R!Path
  PROVE  LeaveIn(set, R!Released(set, map[i]), {map[i].dcid} \ {None}, gone, issued)
<1>1. CASE map[i].dcid = None
  <2>1. R!Released(set, map[i]) = set /\ {map[i].dcid} \ {None} = {}
    BY <1>1 DEF R!Released
  <2> QED  BY <2>1, NoneLeave
<1>2. CASE map[i].dcid # None
  <2>1. PICK out : out = {map[i].dcid}
    OBVIOUS
  <2>2. R!Released(set, map[i]) = R!Unregistered(set, out, 0) /\ out = {map[i].dcid} \ {None}
    BY <1>2, <2>1 DEF R!Released
  <2>3. map[i].dcid \in R!InState(set.slots, "IN_USE")
    BY <1>2, PathCid
  <2>4. out \subseteq DOMAIN set.slots /\ out \subseteq issued
    BY <2>1, <2>3 DEF Holding, Usable, R!InState
  <2>5. 0 \in Nat /\ 0 <= set.largest + 1
    BY DEF Holding
  <2> QED  BY <2>2, <2>4, <2>5, UnregisteredIs
<1> QED  BY <1>1, <1>2

\* A slot that changes from unavailable to available, or from available to in use.
LEMMA SlotChanged ==
  ASSUME NEW held, NEW n, NEW gone, NEW issued, Holding(held, n, gone, issued),
         NEW s \in issued, NEW state \in SlotState, NEW new,
         new = [t \in DOMAIN held |-> IF t = s THEN state ELSE held[t]]
  PROVE  /\ Holding(new, n, gone, issued) /\ DOMAIN new = DOMAIN held
         /\ state = "IN_USE" /\ s \in DOMAIN held =>
              R!InState(new, "IN_USE") = R!InState(held, "IN_USE") \union {s}
<1>1. DOMAIN new = DOMAIN held /\ new \in [DOMAIN new -> SlotState]
  BY DEF Holding
<1>2. Usable(new) \subseteq Usable(held) \union {s}
  BY <1>1 DEF Usable, R!InState
<1>3. Usable(new) \subseteq issued
  BY <1>2 DEF Holding
<1>4. Holding(new, n, gone, issued)
  BY <1>1, <1>3 DEF Holding
<1>5. state = "IN_USE" /\ s \in DOMAIN held =>
        R!InState(new, "IN_USE") = R!InState(held, "IN_USE") \union {s}
  BY <1>1 DEF R!InState
<1> QED  BY <1>1, <1>4, <1>5

\* do_register, of a CID that was issued.
LEMMA RegisteredIs ==
  ASSUME NEW set, IsCidSet(set), NEW gone, NEW issued,
         Holding(set.slots, set.largest, gone, issued), NEW s \in issued
  PROVE  LET u == R!Registered(set, s)
         IN  /\ Holding(u.slots, set.largest, gone, issued)
             /\ DOMAIN u.slots = DOMAIN set.slots
             /\ u.largest = set.largest /\ u.retired = set.retired
             /\ R!InState(u.slots, "IN_USE") = R!InState(set.slots, "IN_USE")
<1>1. PICK held : held = set.slots
  OBVIOUS
<1>2. held \in [DOMAIN held -> SlotState] /\ Holding(held, set.largest, gone, issued)
  BY <1>1 DEF Holding
<1>3. PICK new : new = [t \in DOMAIN held |->
                          IF t = s /\ held[t] = "UNAVAILABLE" THEN "AVAILABLE" ELSE held[t]]
  OBVIOUS
<1>4. PICK u : u = R!Registered(set, s)
  OBVIOUS
<1>5. u = [slots |-> new, largest |-> set.largest, retired |-> set.retired]
  BY <1>1, <1>3, <1>4 DEF R!Registered, IsCidSet
<1>6. Holding(new, set.largest, gone, issued)
  <2>1. CASE s \in DOMAIN held /\ held[s] = "UNAVAILABLE"
    <3>1. new = [t \in DOMAIN held |-> IF t = s THEN "AVAILABLE" ELSE held[t]]
      BY <1>3, <2>1
    <3>2. "AVAILABLE" \in SlotState
      BY DEF SlotState
    <3> QED  BY <1>2, <3>1, <3>2, SlotChanged
  <2>2. CASE ~(s \in DOMAIN held /\ held[s] = "UNAVAILABLE")
    <3>1. new = held
      BY <1>2, <1>3, <2>2
    <3> QED  BY <1>2, <3>1
  <2> QED  BY <2>1, <2>2
<1>7. R!InState(new, "IN_USE") = R!InState(held, "IN_USE")
  BY <1>3 DEF R!InState
<1>8. DOMAIN new = DOMAIN held
  BY <1>3
<1> QED  BY <1>1, <1>4, <1>5, <1>6, <1>7, <1>8

Marked(held, s) == [t \in DOMAIN held |-> IF t = s THEN "IN_USE" ELSE held[t]]

\* setup_path_dcid, of a path without a CID when one is available.
LEMMA GivenIs ==
  ASSUME NEW held, NEW n, NEW gone, NEW issued, Holding(held, n, gone, issued),
         NEW map, Matching(map, held), NEW i \in R!Path, map[i].dcid = None,
         NEW path \in PathRecord, path.dcid # None, path.dcid = R!DcidFor(held)
  PROVE  /\ Holding(Marked(held, path.dcid), n, gone, issued)
         /\ Matching([map EXCEPT ![i] = path], Marked(held, path.dcid))
<1>1. PICK s : s = path.dcid
  OBVIOUS
<1>2. R!InState(held, "AVAILABLE") # {} /\ s = R!Min(R!InState(held, "AVAILABLE"))
  BY <1>1 DEF R!DcidFor
<1>3. R!InState(held, "AVAILABLE") \subseteq Nat
  BY DEF Holding, R!InState
<1>4. s \in R!InState(held, "AVAILABLE")
  BY <1>2, <1>3, MinIs
<1>5. s \in DOMAIN held /\ s \in issued /\ s \notin R!InState(held, "IN_USE")
  BY <1>4 DEF Holding, Usable, R!InState
<1>6. PICK new : new = Marked(held, s)
  OBVIOUS
<1>7. new = [t \in DOMAIN held |-> IF t = s THEN "IN_USE" ELSE held[t]]
  BY <1>6 DEF Marked
<1>8. "IN_USE" \in SlotState
  BY DEF SlotState
<1>9. /\ Holding(new, n, gone, issued)
      /\ R!InState(new, "IN_USE") = R!InState(held, "IN_USE") \union {s}
  BY <1>5, <1>7, <1>8, SlotChanged
<1>10. Matching([map EXCEPT ![i] = path], new)
  BY <1>1, <1>5, <1>9, GivenMatch
<1> QED  BY <1>1, <1>6, <1>9, <1>10

\* A path that has a CID keeps it.
LEMMA MarkedSame ==
  ASSUME NEW held, NEW n, NEW gone, NEW issued, Holding(held, n, gone, issued), NEW s,
         s = None \/ s \in R!InState(held, "IN_USE")
  PROVE  Marked(held, s) = held
<1>1. held \in [DOMAIN held -> SlotState] /\ DOMAIN held \subseteq 0 .. n
  BY DEF Holding
<1>2. None \notin DOMAIN held
  BY <1>1, SizeAssumption DEF Holding
<1>3. \A t \in DOMAIN held : t = s => held[t] = "IN_USE"
  BY <1>2 DEF R!InState
<1> QED  BY <1>1, <1>3 DEF Marked

LEMMA PeerFacts ==
  ASSUME Peer
  PROVE  /\ IsCidSet(R!CidSet) /\ R!CidSet.slots = slots
         /\ R!CidSet.largest = largest_sequence_expected /\ R!CidSet.retired = retired
         /\ Holding(R!CidSet.slots, R!CidSet.largest, Gone, Issued)
         /\ Matching(paths, R!CidSet.slots) /\ paths \in [R!Path -> PathRecord]
         /\ 0 \in R!Path /\ R!NoPath \in PathRecord /\ R!NoPath.dcid = None
         /\ R!NewPath \in PathRecord /\ R!NewPath.dcid = None
<1>1. /\ R!CidSet.slots = slots /\ R!CidSet.largest = largest_sequence_expected
      /\ R!CidSet.retired = retired /\ IsCidSet(R!CidSet)
  BY DEF R!CidSet, IsCidSet
<1>2. /\ 0 \in R!Path /\ R!NoPath \in PathRecord /\ R!NoPath.dcid = None
      /\ R!NewPath \in PathRecord /\ R!NewPath.dcid = None
  BY SizeAssumption DEF R!Path, R!NoPath, R!NewPath, PathRecord, R!PathState
<1>3. paths \in [R!Path -> PathRecord]
  BY DEF Peer, Matching
<1> QED  BY <1>1, <1>2, <1>3 DEF Peer

\* The primary path has been given a CID.
LEMMA PrimaryIs ==
  ASSUME Peer, R!PrimaryDcid # None
  PROVE  LET w == R!WithPrimary
         IN  /\ IsCidSet(w) /\ w.largest = largest_sequence_expected /\ w.retired = retired
             /\ DOMAIN w.slots = DOMAIN slots
             /\ Holding(w.slots, w.largest, Gone, Issued)
             /\ Matching(R!PathsWithPrimary, w.slots)
             /\ \A i \in R!Path : i # 0 => R!PathsWithPrimary[i] = paths[i]
             /\ R!PrimaryDcid \in R!InState(w.slots, "IN_USE")
<1>1. PICK w : w = R!WithPrimary
  OBVIOUS
<1>2. PICK d : d = R!PrimaryDcid
  OBVIOUS
<1>3. w = [slots |-> Marked(slots, d), largest |-> largest_sequence_expected,
           retired |-> retired]
  BY <1>1, <1>2 DEF R!WithPrimary, R!CidSet, Marked
<1>4. /\ w.slots = Marked(slots, d) /\ w.largest = largest_sequence_expected
      /\ w.retired = retired /\ IsCidSet(w)
  BY <1>3 DEF IsCidSet
<1>5. DOMAIN w.slots = DOMAIN slots
  BY <1>4 DEF Marked
<1>6. PICK map : map = R!PathsWithPrimary
  OBVIOUS
<1>7. 0 \in R!Path /\ paths \in [R!Path -> PathRecord]
  BY PeerFacts
<1>8. PICK path : path = [paths[0] EXCEPT !.dcid = d]
  OBVIOUS
<1>9. map = [paths EXCEPT ![0] = path]
  BY <1>2, <1>6, <1>7, <1>8 DEF R!PathsWithPrimary
<1>10. \A i \in R!Path : i # 0 => map[i] = paths[i]
  BY <1>7, <1>9
<1>11. Holding(slots, largest_sequence_expected, Gone, Issued) /\ Matching(paths, slots)
  BY DEF Peer
<1>12. Holding(w.slots, w.largest, Gone, Issued) /\ Matching(map, w.slots)
  <2>1. CASE paths[0].dcid = None
    <3>1. d = R!DcidFor(slots)
      BY <1>2, <2>1 DEF R!PrimaryDcid
    <3>2. d \in Nat
      <4>1. R!InState(slots, "AVAILABLE") # {} /\ d = R!Min(R!InState(slots, "AVAILABLE"))
        BY <1>2, <3>1 DEF R!DcidFor
      <4>2. R!InState(slots, "AVAILABLE") \subseteq Nat
        BY <1>11 DEF Holding, R!InState
      <4> QED  BY <4>1, <4>2, MinIs
    <3>3. path \in PathRecord /\ path.dcid = d
      BY <1>7, <1>8, <3>2 DEF PathRecord
    <3> QED  BY <1>2, <1>4, <1>7, <1>9, <1>11, <2>1, <3>1, <3>3, GivenIs
  <2>2. CASE paths[0].dcid # None
    <3>1. d = paths[0].dcid
      BY <1>2, <2>2 DEF R!PrimaryDcid
    <3>2. d \in R!InState(slots, "IN_USE")
      BY <1>7, <1>11, <2>2, <3>1, PathCid
    <3>3. w.slots = slots
      BY <1>4, <1>11, <3>2, MarkedSame
    <3>4. path \in PathRecord /\ path.dcid = paths[0].dcid
      BY <1>7, <1>8, <3>1 DEF PathRecord
    <3>5. Matching(map, slots)
      BY <1>7, <1>9, <1>11, <3>4, SameMatch
    <3> QED  BY <1>4, <1>11, <3>3, <3>5
  <2> QED  BY <2>1, <2>2
<1>13. d \in R!InState(w.slots, "IN_USE")
  <2>1. map[0].dcid = d
    <3>1. map[0] = path
      BY <1>7, <1>9
    <3>2. paths[0] \in PathRecord
      BY <1>7
    <3>3. path.dcid = d
      BY <1>8, <3>2 DEF PathRecord
    <3> QED  BY <3>1, <3>3
  <2> QED  BY <1>2, <1>7, <1>12, <2>1, PathCid
<1> QED  BY <1>1, <1>2, <1>4, <1>5, <1>6, <1>10, <1>12, <1>13

\* What the peer does leaves the issuer as it is.
LEMMA IssuerKept ==
  ASSUME Inv, UNCHANGED <<issuer, ask, taken_back>>, arrived' \subseteq DOMAIN ask,
         given_back \subseteq given_back', given_back' \subseteq Issued,
         Issued \ given_back' # {}
  PROVE  Array' /\ Numbers' /\ Issued' = Issued
<1>1. /\ cids' = cids /\ path_id' = path_id /\ inflight' = inflight
      /\ lost' = lost /\ error' = error /\ marked' = marked /\ ask' = ask
      /\ taken_back' = taken_back
  BY DEF issuer
<1>2. others' = others
  BY Zenon DEF issuer
<1>3. Issued' = Issued
  BY <1>1 DEF Issued
<1>4. Array'
  BY <1>1, <1>2, <1>3 DEF Inv, Array
<1>5. Numbers'
  BY <1>1, <1>3 DEF Inv, Numbers
<1> QED  BY <1>3, <1>4, <1>5

\* What a step of the peer has to establish.
LEMMA PeerStep ==
  ASSUME Issued' = Issued, taken_back' = taken_back, NEW set, R!SetTo(set),
         Holding(set.slots, set.largest, Gone', Issued), Matching(paths', set.slots),
         r_error' \in {"none", "STATE_EXHAUSTION"}, r_others' \in BOOLEAN,
         r_error' = "none" => 0 .. set.largest = DOMAIN set.slots \union set.retired
                                                   \union (r_inflight' \union taken_back),
         set.retired # {} => r_others'
  PROVE  Peer'
<1>1. /\ slots' = set.slots /\ largest_sequence_expected' = set.largest
      /\ retired' = set.retired
  BY DEF R!SetTo
<1>2. Holding(slots, largest_sequence_expected, Gone, Issued)'
  BY <1>1
<1>3. Matching(paths, slots)'
  BY <1>1 DEF Matching
<1>4. NoRetirementForgotten'
  <2>1. r_error' = "none" =>
          0 .. largest_sequence_expected' = DOMAIN slots' \union retired'
                                              \union r_inflight' \union taken_back'
    BY <1>1
  <2>2. retired' # {} => r_others'
    BY <1>1
  <2> QED  BY <2>1, <2>2 DEF NoRetirementForgotten
<1> QED  BY <1>2, <1>3, <1>4 DEF Peer

LEMMA PathStepIssuer ==
  ASSUME Inv, UNCHANGED <<issuer, ask, given_back, taken_back>>, arrived' \subseteq DOMAIN ask
  PROVE  Array' /\ Numbers' /\ Issued' = Issued
BY IssuerKept DEF Inv, Numbers

\* A step in which the CIDs in `out` leave the set.
LEMMA LeaveStep ==
  ASSUME Inv, r_error = "none", UNCHANGED <<issuer, ask, given_back, taken_back>>,
         arrived' \subseteq DOMAIN ask, r_inflight' = r_inflight,
         NEW start, start.retired = retired, start.largest = largest_sequence_expected,
         DOMAIN start.slots = DOMAIN slots,
         NEW u, NEW out, LeaveIn(start, u, out, Gone, Issued),
         NEW set, R!SetTo(set), set.retired = u.retired, set.largest = u.largest,
         DOMAIN set.slots = DOMAIN u.slots,
         Holding(set.slots, set.largest, Gone \union out, Issued),
         Matching(paths', set.slots), r_error' \in {"none", "STATE_EXHAUSTION"},
         NEW b \in BOOLEAN, r_others' = (r_others \/ b), out # {} => b
  PROVE  Inv'
<1>1. set.retired = retired \union out
  BY DEF LeaveIn
<1>2. given_back' = given_back /\ retired' = set.retired
  BY DEF R!SetTo
<1>3. Gone' = Gone \union out
  BY <1>1, <1>2 DEF Gone
<1>4. PICK T : T = r_inflight \union taken_back
  OBVIOUS
<1>5. 0 .. set.largest = DOMAIN set.slots \union set.retired \union T
  <2>1. 0 .. largest_sequence_expected = DOMAIN slots \union retired \union T
    BY <1>4 DEF Inv, Peer, NoRetirementForgotten
  <2>2. 0 .. start.largest = DOMAIN start.slots \union start.retired \union T
    BY <2>1
  <2>3. 0 .. u.largest = DOMAIN u.slots \union u.retired \union T
    BY <2>2 DEF LeaveIn
  <2> QED  BY <2>3
<1>6. r_others' \in BOOLEAN
  OBVIOUS
<1>7. set.retired # {} => r_others'
  <2>1. retired # {} => r_others
    BY DEF Inv, Peer, NoRetirementForgotten
  <2>2. set.retired # {} => retired # {} \/ out # {}
    BY <1>1
  <2>3. out # {} => b
    OBVIOUS
  <2>4. r_others' = (r_others \/ b)
    OBVIOUS
  <2> QED  BY ONLY <2>1, <2>2, <2>3, <2>4, Zenon
<1>8. Array' /\ Numbers' /\ Issued' = Issued
  BY PathStepIssuer
<1>9. Peer'
  BY <1>3, <1>4, <1>5, <1>6, <1>7, <1>8, PeerStep
<1> QED  BY <1>8, <1>9 DEF Inv

LEMMA CloseIs ==
  ASSUME NEW set, R!Close(set)
  PROVE  r_error' \in {"none", "STATE_EXHAUSTION"}
BY DEF R!Close

LEMMA ArriveKeeps ==
  ASSUME Inv, NEW s \in DOMAIN ask, Arrive(s)
  PROVE  Inv'
<1>1. /\ UNCHANGED <<issuer, ask, given_back, taken_back>>
      /\ arrived' \subseteq DOMAIN ask /\ r_inflight' = r_inflight /\ r_error = "none"
  BY DEF Arrive, R!ReceiveNewConnectionId, R!Running, Inv, Numbers
<1>2. PICK a \in Nat : a = ask[s]
  BY DEF Inv, Numbers
<1>3. PICK n \in Nat : /\ n = largest_sequence_expected /\ path_id \in Nat
                       /\ path_id <= n + 1
  BY Room DEF Inv
<1>4. s \in Nat /\ s < path_id /\ s \in Issued /\ (a = 0 \/ a = s)
  BY <1>2, <1>3 DEF Inv, Numbers, Issued
<1>5. a <= n + 1 /\ s <= n
  BY <1>3, <1>4
<1>6. PICK out : out = {t \in DOMAIN slots : t < a}
  OBVIOUS
<1>7. out \subseteq DOMAIN slots /\ out \subseteq Issued
  <2>1. DOMAIN slots \subseteq 0 .. n
    BY <1>3 DEF Inv, Peer, Holding
  <2> QED  BY <1>3, <1>4, <1>6, <2>1 DEF Issued
<1>8. PICK u : u = R!PriorTo(R!CidSet, a)
  OBVIOUS
<1>9. u = R!Unregistered(R!CidSet, out, a)
  BY <1>6, <1>8, PeerFacts DEF R!PriorTo, Inv
<1>10. LeaveIn(R!CidSet, u, out, Gone, Issued)
  <2>1. /\ out \subseteq DOMAIN R!CidSet.slots /\ out \subseteq Issued
        /\ a <= R!CidSet.largest + 1
        /\ IsCidSet(R!CidSet) /\ Holding(R!CidSet.slots, R!CidSet.largest, Gone, Issued)
    BY <1>3, <1>5, <1>7, PeerFacts DEF Inv
  <2> QED  BY <1>9, <2>1, UnregisteredIs
<1>11. /\ u.retired = retired \union out /\ u.largest \in Nat /\ n <= u.largest
       /\ IsCidSet(u) /\ Holding(u.slots, u.largest, Gone \union out, Issued)
       /\ R!InState(u.slots, "IN_USE") = R!InState(slots, "IN_USE") \ out
  BY <1>3, <1>10, PeerFacts DEF LeaveIn, IsCidSet, Holding, Inv
<1>12. ~ R!BeyondLimit(u, s)
  BY <1>4, <1>5, <1>11 DEF R!BeyondLimit
<1>13. CASE R!Exhausted(u)
  <2>1. /\ slots' = slots /\ largest_sequence_expected' = largest_sequence_expected
        /\ retired' = retired /\ paths' = paths /\ r_error' = "STATE_EXHAUSTION"
    BY <1>2, <1>8, <1>13 DEF Arrive, R!ReceiveNewConnectionId
  <2>2. r_others' = r_others
    BY <1>2, <1>8, <1>13, Zenon DEF Arrive, R!ReceiveNewConnectionId
  <2>3. Gone' = Gone
    BY <1>1, <2>1 DEF Gone
  <2>4. R!SetTo(R!CidSet)
    BY <2>1, PeerFacts DEF R!SetTo, Inv
  <2>5. Matching(paths', R!CidSet.slots)
    BY <2>1, PeerFacts DEF Inv
  <2>6. Holding(R!CidSet.slots, R!CidSet.largest, Gone', Issued)
    BY <2>3, PeerFacts DEF Inv
  <2>7. r_others' \in BOOLEAN /\ (R!CidSet.retired # {} => r_others')
    BY <2>2, PeerFacts DEF Inv, Peer, NoRetirementForgotten
  <2>8. Array' /\ Numbers' /\ Issued' = Issued
    BY <1>1, PathStepIssuer
  <2>9. Peer'
    BY <1>1, <2>1, <2>4, <2>5, <2>6, <2>7, <2>8, PeerStep
  <2> QED  BY <2>8, <2>9 DEF Inv
<1>14. CASE ~ R!Exhausted(u)
  <2>1. PICK set : set = R!Registered(u, s)
    OBVIOUS
  <2>2. /\ R!SetTo(set) /\ paths' = R!Dissociated(paths, u.retired \ retired)
        /\ r_error' = r_error
    BY <1>2, <1>8, <1>12, <1>14, <2>1 DEF Arrive, R!ReceiveNewConnectionId
  <2>3. r_others' = (r_others \/ u.retired # retired)
    BY <1>2, <1>8, <1>12, <1>14, Zenon DEF Arrive, R!ReceiveNewConnectionId
  <2>4. /\ Holding(set.slots, u.largest, Gone \union out, Issued)
        /\ DOMAIN set.slots = DOMAIN u.slots
        /\ set.largest = u.largest /\ set.retired = u.retired
        /\ R!InState(set.slots, "IN_USE") = R!InState(u.slots, "IN_USE")
    BY <1>4, <1>11, <2>1, RegisteredIs
  <2>5. out \intersect retired = {}
    BY <1>7 DEF Inv, Peer, Holding, Gone
  <2>6. u.retired \ retired = out /\ (out # {} => u.retired # retired)
    BY <1>11, <2>5
  <2>7. Matching(paths', set.slots)
    <3>1. R!InState(set.slots, "IN_USE") = R!InState(slots, "IN_USE") \ out
      BY <1>11, <2>4
    <3>2. Matching(paths, slots)
      BY DEF Inv, Peer
    <3>3. Matching(R!Dissociated(paths, out), set.slots)
      BY <3>1, <3>2, DissociatedMatch
    <3> QED  BY <2>2, <2>6, <3>3
  <2>8. PICK b \in BOOLEAN : b = (u.retired # retired)
    OBVIOUS
  <2>9. r_others' = (r_others \/ b)
    BY <2>3, <2>8, Zenon
  <2>10. out # {} => b
    BY <2>6, <2>8
  <2>11. r_error' \in {"none", "STATE_EXHAUSTION"}
    BY <1>1, <2>2
  <2>12. Holding(set.slots, set.largest, Gone \union out, Issued)
    BY <2>4
  <2>13. /\ R!CidSet.retired = retired /\ R!CidSet.largest = largest_sequence_expected
         /\ DOMAIN R!CidSet.slots = DOMAIN slots
    BY PeerFacts DEF Inv
  <2> QED  BY <1>1, <1>10, <2>2, <2>4, <2>7, <2>9, <2>10, <2>11, <2>12, <2>13, LeaveStep
<1> QED  BY <1>13, <1>14

LEMMA OpenPathKeeps ==
  ASSUME Inv, NEW i \in R!Path, R!OpenPath(i),
         UNCHANGED <<issuer, ask, arrived, given_back, taken_back>>
  PROVE  Inv'
<1>1. PICK set, out : set = R!Released(R!CidSet, paths[i]) /\ out = {paths[i].dcid} \ {None}
  OBVIOUS
<1>2. /\ r_error = "none" /\ r_inflight' = r_inflight /\ R!SetTo(set) /\ R!Close(set)
      /\ paths' = [paths EXCEPT ![i] = R!NewPath]
  BY <1>1 DEF R!OpenPath, R!Running
<1>3. PICK b \in BOOLEAN : b = (paths[i].dcid # None)
  OBVIOUS
<1>4. r_others' = (r_others \/ b)
  BY <1>3, Zenon DEF R!OpenPath
<1>5. LeaveIn(R!CidSet, set, out, Gone, Issued)
  BY <1>1, ReleasedIs, PeerFacts DEF Inv
<1>6. /\ Holding(set.slots, set.largest, Gone \union out, Issued)
      /\ R!InState(set.slots, "IN_USE") = R!InState(slots, "IN_USE") \ out
  BY <1>5, PeerFacts DEF LeaveIn, Inv
<1>7. Matching(paths', set.slots)
  <2>1. Matching(paths, slots) /\ R!NewPath \in PathRecord /\ R!NewPath.dcid = None
    BY PeerFacts DEF Inv, Peer
  <2> QED  BY <1>1, <1>2, <1>6, <2>1, RemovedMatch
<1>8. r_error' \in {"none", "STATE_EXHAUSTION"}
  BY <1>2, CloseIs
<1>9. out # {} => b
  BY <1>1, <1>3
<1>10. /\ R!CidSet.retired = retired /\ R!CidSet.largest = largest_sequence_expected
       /\ DOMAIN R!CidSet.slots = DOMAIN slots
  BY PeerFacts DEF Inv
<1>11. arrived' \subseteq DOMAIN ask /\ UNCHANGED <<issuer, ask, given_back, taken_back>>
  BY DEF Inv, Numbers
<1> QED  BY <1>2, <1>4, <1>5, <1>6, <1>7, <1>8, <1>9, <1>10, <1>11, LeaveStep

LEMMA ReceiveOnPathKeeps ==
  ASSUME Inv, NEW i \in R!Path, NEW response \in BOOLEAN, NEW non_probing \in BOOLEAN,
         R!ReceiveOnPath(i, response, non_probing),
         UNCHANGED <<issuer, ask, arrived, given_back, taken_back>>
  PROVE  Inv'
<1>1. PICK path : path = [paths[i] EXCEPT !.state = IF response THEN "VALIDATED" ELSE @,
                                          !.probe_only = @ /\ ~ non_probing]
  OBVIOUS
<1>2. path \in PathRecord /\ path.dcid = paths[i].dcid
  <2>1. PICK r \in PathRecord : r = paths[i]
    BY PeerFacts DEF Inv
  <2>2. PICK p \in BOOLEAN : p = (r.probe_only /\ ~ non_probing)
    OBVIOUS
  <2>3. PICK st \in R!PathState : st = IF response THEN "VALIDATED" ELSE r.state
    BY DEF PathRecord, R!PathState
  <2>4. path = [r EXCEPT !.state = st, !.probe_only = p]
    BY ONLY <1>1, <2>1, <2>2, <2>3, Zenon
  <2> QED  BY <2>1, <2>4 DEF PathRecord
<1>3. PICK promote \in BOOLEAN : promote = (path.state = "VALIDATED" /\ ~ path.probe_only)
  OBVIOUS
<1>4. PICK set : set = IF promote THEN R!Released(R!CidSet, paths[0]) ELSE R!CidSet
  OBVIOUS
<1>5. /\ R!SetTo(set) /\ R!Close(set) /\ r_error = "none" /\ r_inflight' = r_inflight
      /\ i # 0
      /\ paths' = IF promote THEN [paths EXCEPT ![0] = path, ![i] = R!NoPath]
                  ELSE [paths EXCEPT ![i] = path]
  BY <1>1, <1>3, <1>4, Zenon DEF R!ReceiveOnPath, R!Running
<1>6. PICK b \in BOOLEAN : b = (promote /\ paths[0].dcid # None)
  OBVIOUS
<1>7. r_others' = (r_others \/ b)
  BY <1>1, <1>3, <1>6, Zenon DEF R!ReceiveOnPath
<1>8. PICK out : out = IF promote THEN {paths[0].dcid} \ {None} ELSE {}
  OBVIOUS
<1>9. LeaveIn(R!CidSet, set, out, Gone, Issued)
  <2>1. CASE promote
    BY <1>4, <1>8, <2>1, ReleasedIs, PeerFacts DEF Inv
  <2>2. CASE ~ promote
    BY <1>4, <1>8, <2>2, NoneLeave, PeerFacts DEF Inv
  <2> QED  BY <2>1, <2>2
<1>10. /\ Holding(set.slots, set.largest, Gone \union out, Issued)
       /\ R!InState(set.slots, "IN_USE") = R!InState(slots, "IN_USE") \ out
  BY <1>9, PeerFacts DEF LeaveIn, Inv
<1>11. Matching(paths', set.slots)
  <2>1. Matching(paths, slots)
    BY DEF Inv, Peer
  <2>2. CASE promote
    BY <1>2, <1>5, <1>8, <1>10, <2>1, <2>2, PromotedMatch
  <2>3. CASE ~ promote
    <3>1. set.slots = slots
      BY <1>4, <2>3, PeerFacts DEF Inv
    <3> QED  BY <1>2, <1>5, <2>1, <2>3, <3>1, SameMatch
  <2> QED  BY <2>2, <2>3
<1>12. r_error' \in {"none", "STATE_EXHAUSTION"}
  BY <1>5, CloseIs
<1>13. out # {} => b
  BY <1>6, <1>8
<1>14. /\ R!CidSet.retired = retired /\ R!CidSet.largest = largest_sequence_expected
       /\ DOMAIN R!CidSet.slots = DOMAIN slots
  BY PeerFacts DEF Inv
<1>15. arrived' \subseteq DOMAIN ask /\ UNCHANGED <<issuer, ask, given_back, taken_back>>
  BY DEF Inv, Numbers
<1> QED  BY <1>5, <1>7, <1>9, <1>10, <1>11, <1>12, <1>13, <1>14, <1>15, LeaveStep

LEMMA GiveUpPathKeeps ==
  ASSUME Inv, NEW i \in R!Path, R!GiveUpPath(i),
         UNCHANGED <<issuer, ask, arrived, given_back, taken_back>>
  PROVE  Inv'
<1>1. PICK w, map : w = R!WithPrimary /\ map = R!PathsWithPrimary
  OBVIOUS
<1>2. R!PrimaryDcid # None /\ i # 0
  BY DEF R!GiveUpPath
<1>3. /\ IsCidSet(w) /\ w.largest = largest_sequence_expected /\ w.retired = retired
      /\ DOMAIN w.slots = DOMAIN slots
      /\ Holding(w.slots, w.largest, Gone, Issued) /\ Matching(map, w.slots)
      /\ map[i] = paths[i]
  BY <1>1, <1>2, PrimaryIs DEF Inv
<1>4. PICK set, out : set = R!Released(w, map[i]) /\ out = {map[i].dcid} \ {None}
  OBVIOUS
<1>5. /\ r_error = "none" /\ r_inflight' = r_inflight /\ R!SetTo(set) /\ R!Close(set)
      /\ paths' = [map EXCEPT ![i] = R!NoPath]
  BY <1>1, <1>3, <1>4 DEF R!GiveUpPath, R!Running
<1>6. PICK b \in BOOLEAN : b = (paths[i].dcid # None)
  OBVIOUS
<1>7. r_others' = (r_others \/ b)
  BY <1>6, Zenon DEF R!GiveUpPath
<1>8. LeaveIn(w, set, out, Gone, Issued)
  BY <1>3, <1>4, ReleasedIs
<1>9. /\ Holding(set.slots, set.largest, Gone \union out, Issued)
      /\ R!InState(set.slots, "IN_USE") = R!InState(w.slots, "IN_USE") \ out
  BY <1>8 DEF LeaveIn
<1>10. Matching(paths', set.slots)
  <2>1. R!NoPath \in PathRecord /\ R!NoPath.dcid = None
    BY PeerFacts DEF Inv
  <2> QED  BY <1>3, <1>4, <1>5, <1>9, <2>1, RemovedMatch
<1>11. r_error' \in {"none", "STATE_EXHAUSTION"}
  BY <1>5, CloseIs
<1>12. out # {} => b
  BY <1>3, <1>4, <1>6
<1>13. arrived' \subseteq DOMAIN ask /\ UNCHANGED <<issuer, ask, given_back, taken_back>>
  BY DEF Inv, Numbers
<1> QED  BY <1>3, <1>5, <1>7, <1>8, <1>9, <1>10, <1>11, <1>12, <1>13, LeaveStep

LEMMA SendProbeKeeps ==
  ASSUME Inv, NEW i \in R!Path, R!SendProbe(i),
         UNCHANGED <<issuer, ask, arrived, given_back, taken_back>>
  PROVE  Inv'
<1>1. PICK w, map : w = R!WithPrimary /\ map = R!PathsWithPrimary
  OBVIOUS
<1>2. R!PrimaryDcid # None /\ i # 0
  BY DEF R!SendProbe
<1>3. /\ IsCidSet(w) /\ w.largest = largest_sequence_expected /\ w.retired = retired
      /\ DOMAIN w.slots = DOMAIN slots
      /\ Holding(w.slots, w.largest, Gone, Issued) /\ Matching(map, w.slots)
      /\ map[i] = paths[i]
  BY <1>1, <1>2, PrimaryIs DEF Inv
<1>4. PICK dcid : dcid = IF paths[i].dcid = None THEN R!DcidFor(w.slots) ELSE paths[i].dcid
  OBVIOUS
<1>5. PICK path : path = [paths[i] EXCEPT !.dcid = dcid,
                                          !.state = IF @ = "NEW" THEN "PROBED" ELSE @]
  OBVIOUS
<1>6. PICK held, set : held = Marked(w.slots, dcid) /\ set = [w EXCEPT !.slots = held]
  OBVIOUS
<1>7. /\ r_error = "none" /\ r_inflight' = r_inflight /\ r_error' = r_error
      /\ R!SetTo(set)
      /\ paths' = [map EXCEPT ![i] = IF dcid = None THEN R!NoPath ELSE path]
  BY <1>1, <1>4, <1>5, <1>6 DEF R!SendProbe, R!Running, Marked
<1>8. r_others' = r_others
  BY Zenon DEF R!SendProbe
<1>9. set.slots = held /\ set.largest = w.largest /\ set.retired = w.retired
  BY <1>3, <1>6 DEF IsCidSet
<1>10. Holding(held, w.largest, Gone, Issued) /\ Matching(paths', held)
  <2>1. PICK r \in PathRecord : r = paths[i]
    BY PeerFacts DEF Inv
  <2>2. dcid \in Nat \union {None} => path \in PathRecord /\ path.dcid = dcid
    BY <1>5, <2>1 DEF PathRecord, R!PathState
  <2>3. CASE dcid = None
    <3>1. paths[i].dcid = None
      BY <1>4, <2>3
    <3>2. held = w.slots
      BY <1>3, <1>6, <2>3, MarkedSame
    <3>3. R!NoPath \in PathRecord /\ R!NoPath.dcid = None
      BY PeerFacts DEF Inv
    <3>4. Matching([map EXCEPT ![i] = R!NoPath], w.slots)
      BY <1>3, <3>1, <3>3, SameMatch
    <3> QED  BY <1>3, <1>7, <2>3, <3>2, <3>4
  <2>4. CASE dcid # None /\ paths[i].dcid # None
    <3>1. dcid = map[i].dcid
      BY <1>3, <1>4, <2>4
    <3>2. dcid \in R!InState(w.slots, "IN_USE")
      BY <1>3, <2>4, <3>1, PathCid
    <3>3. held = w.slots
      BY <1>3, <1>6, <3>2, MarkedSame
    <3>4. dcid \in Nat \union {None}
      BY <1>3, <2>1, <3>1 DEF PathRecord
    <3>5. Matching([map EXCEPT ![i] = path], w.slots)
      BY <1>3, <2>2, <3>1, <3>4, SameMatch
    <3> QED  BY <1>3, <1>7, <2>4, <3>3, <3>5
  <2>5. CASE dcid # None /\ paths[i].dcid = None
    <3>1. dcid = R!DcidFor(w.slots)
      BY <1>4, <2>5
    <3>2. dcid \in Nat
      <4>1. /\ R!InState(w.slots, "AVAILABLE") # {}
            /\ dcid = R!Min(R!InState(w.slots, "AVAILABLE"))
        BY <2>5, <3>1 DEF R!DcidFor
      <4>2. R!InState(w.slots, "AVAILABLE") \subseteq Nat
        BY <1>3 DEF Holding, R!InState
      <4> QED  BY <4>1, <4>2, MinIs
    <3>3. /\ Holding(Marked(w.slots, path.dcid), w.largest, Gone, Issued)
          /\ Matching([map EXCEPT ![i] = path], Marked(w.slots, path.dcid))
      BY <1>3, <2>2, <2>5, <3>1, <3>2, GivenIs
    <3> QED  BY <1>6, <1>7, <2>2, <2>5, <3>2, <3>3
  <2> QED  BY <2>3, <2>4, <2>5
<1>11. DOMAIN held = DOMAIN slots
  BY <1>3, <1>6 DEF Marked
<1>12. arrived' \subseteq DOMAIN ask /\ UNCHANGED <<issuer, ask, given_back, taken_back>>
  BY DEF Inv, Numbers
<1>13. Array' /\ Numbers' /\ Issued' = Issued
  BY <1>12, PathStepIssuer
<1>14. Gone' = Gone
  BY <1>3, <1>7, <1>9 DEF Gone, R!SetTo
<1>15. 0 .. set.largest = DOMAIN set.slots \union set.retired
                            \union (r_inflight' \union taken_back)
  BY <1>3, <1>7, <1>9, <1>11 DEF Inv, Peer, NoRetirementForgotten
<1>16. r_others' \in BOOLEAN /\ (set.retired # {} => r_others')
  BY <1>3, <1>8, <1>9 DEF Inv, Peer, NoRetirementForgotten
<1>17. Holding(set.slots, set.largest, Gone', Issued) /\ Matching(paths', set.slots)
  BY <1>9, <1>10, <1>14
<1>18. r_error' \in {"none", "STATE_EXHAUSTION"}
  BY <1>7
<1>19. Peer'
  BY <1>7, <1>12, <1>13, <1>15, <1>16, <1>17, <1>18, PeerStep
<1> QED  BY <1>13, <1>19 DEF Inv

LEMMA SendRetireKeeps ==
  ASSUME Inv, SendRetire
  PROVE  Inv'
<1>1. PICK sent \in SUBSET retired : R!SendRetire(sent) /\ given_back' = given_back \union sent
  BY DEF SendRetire
<1>2. UNCHANGED <<issuer, ask, taken_back>> /\ arrived' \subseteq DOMAIN ask
  BY DEF SendRetire, Inv, Numbers
<1>3. PICK w, map : w = R!WithPrimary /\ map = R!PathsWithPrimary
  OBVIOUS
<1>4. R!PrimaryDcid # None
  BY <1>1 DEF R!SendRetire
<1>5. /\ IsCidSet(w) /\ w.largest = largest_sequence_expected /\ w.retired = retired
      /\ DOMAIN w.slots = DOMAIN slots
      /\ Holding(w.slots, w.largest, Gone, Issued) /\ Matching(map, w.slots)
      /\ R!PrimaryDcid \in R!InState(w.slots, "IN_USE")
  BY <1>3, <1>4, PrimaryIs DEF Inv
<1>6. PICK set : set = [w EXCEPT !.retired = @ \ sent]
  OBVIOUS
<1>7. /\ r_error = "none" /\ r_inflight' = r_inflight \union sent /\ r_error' = r_error
      /\ R!SetTo(set) /\ paths' = map
  BY <1>1, <1>3, <1>6 DEF R!SendRetire, R!Running
<1>8. r_others' = (r_others /\ sent # retired)
  BY <1>1, Zenon DEF R!SendRetire, R!FlowsAfterSend
<1>9. set.slots = w.slots /\ set.largest = w.largest /\ set.retired = retired \ sent
  BY <1>5, <1>6 DEF IsCidSet
<1>10. Gone' = Gone
  BY <1>1, <1>7, <1>9 DEF Gone, R!SetTo
<1>11. given_back \subseteq given_back' /\ given_back' \subseteq Issued
  BY <1>1 DEF Inv, Peer, Holding, Gone
<1>12. Issued \ given_back' # {}
  <2>1. R!PrimaryDcid \in Issued
    BY <1>5 DEF Holding, Usable
  <2>2. R!PrimaryDcid \in DOMAIN w.slots
    BY <1>5 DEF R!InState
  <2>3. R!PrimaryDcid \notin Gone
    BY <1>5, <2>2 DEF Holding
  <2> QED  BY <1>1, <2>1, <2>3 DEF Gone
<1>13. Array' /\ Numbers' /\ Issued' = Issued
  BY <1>2, <1>11, <1>12, IssuerKept
<1>14. 0 .. set.largest = DOMAIN set.slots \union set.retired
                            \union (r_inflight' \union taken_back)
  <2>1. 0 .. largest_sequence_expected = DOMAIN slots \union retired \union r_inflight
                                           \union taken_back
    BY <1>7 DEF Inv, Peer, NoRetirementForgotten
  <2> QED  BY <1>5, <1>7, <1>9, <2>1
<1>15. r_others' \in BOOLEAN
  BY <1>8
<1>16. set.retired # {} => r_others'
  <2>1. retired # {} => r_others
    BY DEF Inv, Peer, NoRetirementForgotten
  <2>2. set.retired # {} => retired # {} /\ sent # retired
    BY <1>9
  <2> QED  BY ONLY <1>8, <2>1, <2>2, Zenon
<1>17. Holding(set.slots, set.largest, Gone', Issued) /\ Matching(paths', set.slots)
  BY <1>5, <1>7, <1>9, <1>10
<1>18. r_error' \in {"none", "STATE_EXHAUSTION"}
  BY <1>7
<1>19. Peer'
  BY <1>2, <1>7, <1>13, <1>14, <1>15, <1>16, <1>17, <1>18, PeerStep
<1> QED  BY <1>13, <1>19 DEF Inv

\* Fewer sequence numbers to be told apart from those in slots.
LEMMA HoldingLess ==
  ASSUME NEW held, NEW n, NEW gone, NEW issued, Holding(held, n, gone, issued),
         NEW less, less \subseteq gone
  PROVE  Holding(held, n, less, issued)
BY DEF Holding

LEMMA RetireStepKeeps ==
  ASSUME Inv, RetireStep
  PROVE  Inv'
<1>1. PICK s \in r_inflight : (s \in taken_back /\ R!RetireAcked(s)) \/ R!RetireLost(s)
  BY DEF RetireStep
<1>2. /\ UNCHANGED <<issuer, ask, given_back, taken_back>>
      /\ arrived' \subseteq DOMAIN ask
  BY DEF RetireStep, Inv, Numbers
<1>3. Array' /\ Numbers' /\ Issued' = Issued
  BY <1>2, PathStepIssuer
<1>4. /\ IsCidSet(R!CidSet) /\ R!CidSet.slots = slots
      /\ R!CidSet.largest = largest_sequence_expected /\ R!CidSet.retired = retired
      /\ Holding(slots, largest_sequence_expected, Gone, Issued) /\ Matching(paths, slots)
  BY PeerFacts DEF Inv, Peer
<1>5. /\ r_error = "none" /\ r_inflight' = r_inflight \ {s} /\ paths' = paths
  BY <1>1 DEF R!RetireAcked, R!RetireLost, R!Running
<1>6. 0 .. largest_sequence_expected = DOMAIN slots \union retired \union r_inflight
                                         \union taken_back
  BY <1>5 DEF Inv, Peer, NoRetirementForgotten
<1>7. r_others \in BOOLEAN /\ (retired # {} => r_others)
  BY DEF Inv, Peer, NoRetirementForgotten
<1>8. CASE s \in taken_back /\ R!RetireAcked(s)
  <2>1. /\ slots' = slots /\ largest_sequence_expected' = largest_sequence_expected
        /\ retired' = retired /\ r_error' = r_error
    BY <1>8 DEF R!RetireAcked
  <2>2. r_others' = r_others
    BY <1>8, Zenon DEF R!RetireAcked
  <2>3. R!SetTo(R!CidSet)
    BY <1>4, <2>1 DEF R!SetTo
  <2>4. Gone' \subseteq Gone
    BY <1>2, <1>5, <2>1 DEF Gone
  <2>5. Holding(R!CidSet.slots, R!CidSet.largest, Gone', Issued)
    BY <1>4, <2>4, HoldingLess
  <2>6. Matching(paths', R!CidSet.slots)
    BY <1>4, <1>5
  <2>7. 0 .. R!CidSet.largest = DOMAIN R!CidSet.slots \union R!CidSet.retired
                                  \union (r_inflight' \union taken_back)
    BY <1>4, <1>5, <1>6, <1>8
  <2>8. r_others' \in BOOLEAN /\ (R!CidSet.retired # {} => r_others')
    BY <1>4, <1>7, <2>2
  <2>9. r_error' \in {"none", "STATE_EXHAUSTION"}
    BY <1>5, <2>1
  <2>10. Peer'
    BY <1>2, <1>3, <2>3, <2>5, <2>6, <2>7, <2>8, <2>9, PeerStep
  <2> QED  BY <1>3, <2>10 DEF Inv
<1>9. CASE R!RetireLost(s)
  <2>1. PICK more : more = R!Requeued(R!CidSet, s)
    OBVIOUS
  <2>2. PICK set : set = IF R!Exhausted(more) THEN R!CidSet ELSE more
    OBVIOUS
  <2>3. R!SetTo(set) /\ R!Close(more)
    BY <1>9, <2>1, <2>2 DEF R!RetireLost
  <2>4. r_others' = (r_others \/ ~ R!Exhausted(more))
    BY <1>9, <2>1, Zenon DEF R!RetireLost
  <2>5. more.slots = slots /\ more.retired = retired \union {s}
        /\ more.largest = largest_sequence_expected
    BY <1>4, <2>1 DEF R!Requeued, IsCidSet
  <2>6. set.slots = slots /\ set.largest = largest_sequence_expected
        /\ set.retired = IF R!Exhausted(more) THEN retired ELSE retired \union {s}
    BY <1>4, <2>2, <2>5
  <2>7. Gone' \subseteq Gone
    BY <1>2, <1>5, <2>3, <2>6 DEF Gone, R!SetTo
  <2>8. Holding(set.slots, set.largest, Gone', Issued) /\ Matching(paths', set.slots)
    BY <1>4, <1>5, <2>6, <2>7, HoldingLess
  <2>9. r_error' \in {"none", "STATE_EXHAUSTION"}
    BY <2>3, CloseIs
  <2>10. r_error' = "none" => ~ R!Exhausted(more)
    BY <2>3 DEF R!Close
  <2>11. r_error' = "none" => 0 .. set.largest = DOMAIN set.slots \union set.retired
                                                   \union (r_inflight' \union taken_back)
    BY <1>5, <1>6, <2>6, <2>10
  <2>12. r_others' \in BOOLEAN
    BY <2>4
  <2>13. set.retired # {} => r_others'
    <3>1. set.retired = retired \/ ~ R!Exhausted(more)
      BY <2>6
    <3> QED  BY ONLY <1>7, <2>4, <3>1, Zenon
  <2>14. Peer'
    BY <1>2, <1>3, <2>3, <2>8, <2>9, <2>11, <2>12, <2>13, PeerStep
  <2> QED  BY <1>3, <2>14 DEF Inv
<1> QED  BY <1>1, <1>8, <1>9

-----------------------------------------------------------------------------
(* The specification *)

LEMMA InvInit == Init => Inv
<1>1. SUFFICES ASSUME Init PROVE Inv
  OBVIOUS
<1>2. PICK c : c = [state |-> "DELIVERED", sequence |-> 0]
  OBVIOUS
<1>3. /\ cids = <<c>> /\ path_id = 1 /\ inflight = {} /\ lost = {} /\ error = "none"
      /\ marked = <<>> /\ ask = <<>> /\ arrived = {} /\ given_back = {} /\ taken_back = {}
      /\ retired = {} /\ r_inflight = {} /\ r_error = "none"
      /\ slots = [s \in 0 .. Slots - 1 |-> IF s = 0 THEN "IN_USE" ELSE "UNAVAILABLE"]
      /\ largest_sequence_expected = Slots - 1
      /\ paths = [i \in R!Path |->
                    IF i = 0 THEN [state |-> "VALIDATED", probe_only |-> FALSE, dcid |-> 0]
                    ELSE R!NoPath]
  BY <1>1, <1>2 DEF Init, L!Init, R!Init
<1>4. others = FALSE /\ r_others = FALSE
  BY <1>1, Zenon DEF Init, L!Init, R!Init
<1>5. Issued = {0} /\ Issued \ taken_back = {0}
  BY <1>3 DEF Issued
<1>6. Array
  <2>1. Len(cids) = 1 /\ cids[1] = c /\ cids \in [1 .. 1 -> Cid]
    <3>1. c \in Cid
      BY <1>2, SizeAssumption DEF Cid, L!State, L!Sequence
    <3> QED  BY <1>3, <3>1
  <2>2. \A i \in 1 .. 1 : cids[i].state = "DELIVERED" /\ cids[i].sequence = 0
    BY <1>2, <2>1
  <2>3. Queued(cids, 1, marked)
    <3>1. marked \in Seq(L!Sequence) /\ Len(marked) = 0
      BY <1>3
    <3> QED  BY <2>2, <3>1 DEF Queued
  <2>4. Content(cids, 1, {0}) /\ Flying(cids, 1, inflight)
    BY <2>2, SizeAssumption DEF Content, Flying
  <2>5. Sound(cids, Len(cids), marked, inflight, Issued \ taken_back)
    BY <1>5, <2>1, <2>3, <2>4 DEF Sound
  <2> QED  BY <1>2, <1>3, <1>4, <2>1, <2>5 DEF Array
<1>7. Numbers
  <2>1. Cardinality({}) = 0
    BY FS_EmptySet
  <2>2. DOMAIN ask = {} /\ ask \in [{} -> 0 .. RetireLimit]
    BY <1>3
  <2> QED  BY <1>3, <1>5, <2>1, <2>2, SizeAssumption DEF Numbers
<1>8. Peer
  <2>1. /\ DOMAIN slots = 0 .. Slots - 1 /\ largest_sequence_expected \in Nat
        /\ slots \in [DOMAIN slots -> SlotState]
    BY <1>3, SizeAssumption DEF SlotState
  <2>2. Cardinality(DOMAIN slots) = Slots
    <3>1. PICK b \in Int : b = Slots - 1
      BY SizeAssumption
    <3>2. Cardinality(0 .. b) = IF 0 > b THEN 0 ELSE b - 0 + 1
      BY FS_Interval
    <3> QED  BY <2>1, <3>1, <3>2, SizeAssumption
  <2>3. R!InState(slots, "IN_USE") = {0} /\ R!InState(slots, "AVAILABLE") = {}
    BY <1>3, SizeAssumption DEF R!InState
  <2>4. Gone = {}
    BY <1>3 DEF Gone
  <2>5. Holding(slots, largest_sequence_expected, Gone, Issued)
    BY <1>3, <1>5, <2>1, <2>2, <2>3, <2>4 DEF Holding, Usable
  <2>6. PICK p : p = [state |-> "VALIDATED", probe_only |-> FALSE, dcid |-> 0]
    OBVIOUS
  <2>7. /\ p \in PathRecord /\ p.dcid = 0 /\ R!NoPath \in PathRecord /\ R!NoPath.dcid = None
    BY <2>6 DEF PathRecord, R!PathState, R!NoPath
  <2>8. paths = [i \in R!Path |-> IF i = 0 THEN p ELSE R!NoPath] /\ 0 \in R!Path
    BY <1>3, <2>6, SizeAssumption DEF R!Path
  <2>9. \A i \in R!Path : paths[i].dcid = IF i = 0 THEN 0 ELSE None
    BY <2>7, <2>8
  <2>10. Uses(paths, R!InState(slots, "IN_USE"))
    BY <2>3, <2>8, <2>9, SizeAssumption DEF Uses
  <2>11. Matching(paths, slots)
    BY <2>7, <2>8, <2>10, MatchingUses
  <2>12. NoRetirementForgotten
    BY <1>3, <2>1 DEF NoRetirementForgotten
  <2> QED  BY <1>3, <1>4, <2>5, <2>11, <2>12 DEF Peer
<1> QED  BY <1>6, <1>7, <1>8 DEF Inv

LEMMA StutterKeeps ==
  ASSUME Inv, UNCHANGED vars
  PROVE  Inv'
<1>1. /\ UNCHANGED <<issuer, ask, given_back, taken_back>> /\ UNCHANGED peer
      /\ arrived' \subseteq DOMAIN ask
  BY DEF vars, Inv, Numbers
<1>2. Array' /\ Numbers' /\ Issued' = Issued
  BY <1>1, PathStepIssuer
<1> QED  BY <1>1, <1>2, PeerKept DEF Inv

LEMMA InvNext == Inv /\ [Next]_vars => Inv'
<1>1. SUFFICES ASSUME Inv, [Next]_vars PROVE Inv'
  OBVIOUS
<1>2. CASE SendNewConnectionIds
  BY <1>1, <1>2, SendKeeps
<1>3. CASE IssuerStep
  <2>1. UNCHANGED <<peer, ask, arrived, given_back, taken_back>>
    BY <1>3 DEF IssuerStep
  <2>2. CASE L!SetSize
    BY <1>1, <2>1, <2>2, SetSizeKeeps
  <2>3. CASE \E s \in arrived : L!Acked(s)
    BY <1>1, <2>1, <2>3, AckedKeeps
  <2>4. CASE \E s \in inflight, keep \in BOOLEAN : L!Lost(s, keep)
    BY <1>1, <2>1, <2>4, LostKeeps
  <2>5. CASE \E s \in lost : L!Expire(s)
    BY <1>1, <2>1, <2>5, ExpireKeeps
  <2> QED  BY <1>3, <2>2, <2>3, <2>4, <2>5 DEF IssuerStep
<1>4. CASE \E s \in given_back : TakeBack(s)
  BY <1>1, <1>4, TakeBackKeeps
<1>5. CASE \E s \in DOMAIN ask : Arrive(s)
  BY <1>1, <1>5, ArriveKeeps
<1>6. CASE PathStep
  <2>1. UNCHANGED <<issuer, ask, arrived, given_back, taken_back>>
    BY <1>6 DEF PathStep
  <2>2. PICK i \in R!Path :
          \/ R!OpenPath(i)
          \/ \E response, non_probing \in BOOLEAN :
               R!ReceiveOnPath(i, response, non_probing)
          \/ R!SendProbe(i)
          \/ R!GiveUpPath(i)
    BY <1>6 DEF PathStep
  <2>3. CASE R!OpenPath(i)
    BY <1>1, <2>1, <2>3, OpenPathKeeps
  <2>4. CASE \E response, non_probing \in BOOLEAN :
               R!ReceiveOnPath(i, response, non_probing)
    BY <1>1, <2>1, <2>4, ReceiveOnPathKeeps
  <2>5. CASE R!SendProbe(i)
    BY <1>1, <2>1, <2>5, SendProbeKeeps
  <2>6. CASE R!GiveUpPath(i)
    BY <1>1, <2>1, <2>6, GiveUpPathKeeps
  <2> QED  BY <2>2, <2>3, <2>4, <2>5, <2>6
<1>7. CASE SendRetire
  BY <1>1, <1>7, SendRetireKeeps
<1>8. CASE RetireStep
  BY <1>1, <1>8, RetireStepKeeps
<1>9. CASE UNCHANGED vars
  BY <1>1, <1>9, StutterKeeps
<1> QED  BY <1>1, <1>2, <1>3, <1>4, <1>5, <1>6, <1>7, <1>8, <1>9 DEF Next

\* Inv holds in every state, whatever is lost, repeated and reordered on the way
\* and whatever the sizes (local_cid.c, remote_cid.c).
THEOREM Invariance == Spec => []Inv
BY InvInit, InvNext, PTL DEF Spec

\* The two endpoints keep their types, and what arrives was sent: the issuer's
\* array keeps its length, each of the peer's slots one sequence number
\* (quicly_local_cid_set_t, quicly_remote_cid_set_t).
THEOREM TypesKept == Spec => []TypeOK
<1>1. Inv => TypeOK
  <2> SUFFICES ASSUME Inv PROVE TypeOK
    OBVIOUS
  <2>1. Issued \subseteq L!Sequence
    BY SizeAssumption DEF Inv, Numbers, Issued, L!Sequence
  <2>2. L!TypeOK
    <3>1. \A i \in DOMAIN cids : cids[i] \in [state : L!State, sequence : L!Sequence \union {None}]
      BY ArrayFacts DEF Inv, Cid
    <3>2. inflight \subseteq L!Sequence /\ lost \subseteq L!Sequence
      BY <2>1 DEF Inv, Numbers
    <3>3. marked \in Seq(L!Sequence)
      BY ArrayFacts DEF Inv
    <3>4. Len(cids) \in {1, LocalSize} /\ error = "none" /\ path_id \in 1 .. MaxPathId
      BY DEF Inv, Array, Numbers
    <3>5. others \in BOOLEAN
      BY DEF Inv, Array
    <3> QED  BY ONLY <3>1, <3>2, <3>3, <3>4, <3>5 DEF L!TypeOK
  <2>3. R!TypeOK
    <3>1. /\ largest_sequence_expected \in Nat
          /\ DOMAIN slots \subseteq 0 .. largest_sequence_expected
          /\ \A s \in DOMAIN slots : slots[s] \in {"UNAVAILABLE", "IN_USE", "AVAILABLE"}
      BY DEF Inv, Peer, Holding, SlotState
    <3>2. R!Cardinality(DOMAIN slots) = Slots
      BY SameCount DEF Inv, Peer, Holding
    <3>3. /\ retired \subseteq 0 .. largest_sequence_expected
          /\ r_inflight \subseteq 0 .. largest_sequence_expected
      BY DEF Inv, Peer, Holding, Gone
    <3>4. \A i \in R!Path : /\ paths[i].state \in R!PathState
                            /\ paths[i].probe_only \in BOOLEAN
                            /\ paths[i].dcid = None \/ paths[i].dcid \in Nat
      BY DEF Inv, Peer, Matching, PathRecord
    <3>5. r_others \in BOOLEAN /\ r_error \in {"none", "STATE_EXHAUSTION"}
      BY DEF Inv, Peer
    <3> QED  BY ONLY <3>1, <3>2, <3>3, <3>4, <3>5 DEF R!TypeOK
  <2> QED  BY <2>1, <2>2, <2>3 DEF TypeOK, Inv, Numbers
<1> QED  BY <1>1, Invariance, PTL

\* Neither endpoint accuses the other of breaking the protocol, and at most
\* LocalSize of the CIDs that are being given back are news to the issuer
\* (quicly_local_cid_retire, quicly_remote_cid_register).
THEOREM NoneAccused == Spec => []NoFalseAccusation
<1>1. Inv => NoFalseAccusation
  <2> SUFFICES ASSUME Inv PROVE NoFalseAccusation
    OBVIOUS
  <2>1. PICK p \in Nat : /\ p = path_id /\ p >= 1 /\ IsFiniteSet(taken_back)
                         /\ Cardinality(taken_back) \in Nat
    BY Room DEF Inv
  <2>2. PICK b \in Nat : b = p - 1 /\ Issued = 0 .. b
    BY <2>1 DEF Issued
  <2>3. IsFiniteSet(Issued) /\ Cardinality(Issued) = p
    <3>1. 0 \in Int /\ b \in Int
      OBVIOUS
    <3>2. /\ IsFiniteSet(0 .. b)
          /\ Cardinality(0 .. b) = IF 0 > b THEN 0 ELSE b - 0 + 1
      BY <3>1, FS_Interval
    <3> QED  BY <2>1, <2>2, <3>2
  <2>4. Issued \intersect taken_back = taken_back
    BY DEF Inv, Numbers
  <2>5. /\ IsFiniteSet(Issued \ taken_back)
        /\ Cardinality(Issued \ taken_back) = p - Cardinality(taken_back)
    BY <2>3, <2>4, FS_Difference
  <2>6. PICK S : S = (retired \union r_inflight) \ taken_back
    OBVIOUS
  <2>7. S \subseteq Issued \ taken_back
    BY <2>6 DEF Inv, Peer, Holding, Gone
  <2>8. Cardinality(S) <= Cardinality(Issued \ taken_back) /\ Cardinality(S) \in Nat
    BY <2>5, <2>7, FS_Subset, FS_CardinalityType
  <2>9. p <= LocalSize + Cardinality(taken_back)
    BY <2>1 DEF Inv, Numbers
  <2>10. Cardinality(S) <= LocalSize
    BY <2>1, <2>5, <2>8, <2>9, SizeAssumption
  <2>11. error = "none" /\ r_error # "CONNECTION_ID_LIMIT"
    BY DEF Inv, Array, Peer
  <2> QED  BY <2>6, <2>10, <2>11 DEF NoFalseAccusation
<1> QED  BY <1>1, Invariance, PTL

\* Nothing that one endpoint owes the other is forgotten: CIDs to be conveyed
\* keep their places at the front of the issuer's array, those let go of are
\* given back (quicly_local_cid_on_lost, quicly_remote_cid_push_retired).
THEOREM AllRemembered == Spec => []NothingForgotten
<1>1. Inv => NothingForgotten
  <2> SUFFICES ASSUME Inv PROVE NothingForgotten
    OBVIOUS
  <2>1. PICK N : N = Len(cids)
    OBVIOUS
  <2>2. /\ N \in Nat /\ DOMAIN cids = 1 .. N /\ marked \in Seq(L!Sequence)
        /\ Len(marked) \in Nat /\ L!PendingOf(cids) = 1 .. Len(marked)
    BY <2>1, ArrayFacts DEF Inv
  <2>3. Queued(cids, N, marked) /\ Flying(cids, N, inflight)
    BY <2>1 DEF Inv, Array, Sound
  <2>4. PendingInFront
    <3>1. DOMAIN marked = 1 .. Len(marked)
      BY <2>2
    <3> QED  BY <2>2, <2>3, <3>1 DEF PendingInFront, L!PendingInFront, Queued
  <2>5. NoCidForgotten
    <3>1. ASSUME NEW i \in 1 .. N, cids[i].state = "PENDING" PROVE others
      <4>1. i <= Len(marked)
        BY <2>3, <3>1 DEF Queued
      <4>2. marked # <<>>
        BY <2>2, <3>1, <4>1, EmptySeq
      <4> QED  BY <4>2 DEF Inv, Array
    <3>2. ASSUME NEW i \in 1 .. N, cids[i].state = "INFLIGHT"
          PROVE  cids[i].sequence \in inflight
      BY <2>3, <3>2 DEF Flying
    <3> QED  BY <2>2, <3>1, <3>2 DEF NoCidForgotten, L!NoCidForgotten
  <2> QED  BY <2>4, <2>5 DEF NothingForgotten, Inv, Peer
<1> QED  BY <1>1, Invariance, PTL

\* Each path of the peer has a CID of its own that the issuer still answers to,
\* and so has every path that will be given one (setup_path_dcid,
\* dissociate_cid, do_delete_path).
THEOREM PathsServed == Spec => []PathsAndCids
<1>1. Inv => PathsAndCids
  <2> SUFFICES ASSUME Inv PROVE PathsAndCids
    OBVIOUS
  <2>1. PathsHoldCids
    <3>1. Uses(paths, R!InState(slots, "IN_USE"))
      BY MatchingUses DEF Inv, Peer
    <3>2. {paths[i].dcid : i \in R!Path} \ {None} = R!InState(slots, "IN_USE")
      BY <3>1 DEF Uses
    <3> QED  BY <3>1, <3>2 DEF PathsHoldCids, R!PathsHoldCids, Uses
  <2>2. UsableIsActive
    <3>1. Usable(slots) \subseteq Issued /\ Usable(slots) \subseteq DOMAIN slots
      BY DEF Inv, Peer, Holding, Usable, R!InState
    <3>2. DOMAIN slots \intersect taken_back = {}
      BY DEF Inv, Peer, Numbers, Holding, Gone
    <3> QED  BY <3>1, <3>2, ActiveIs DEF UsableIsActive, Usable
  <2> QED  BY <2>1, <2>2 DEF PathsAndCids
<1> QED  BY <1>1, Invariance, PTL
=============================================================================
