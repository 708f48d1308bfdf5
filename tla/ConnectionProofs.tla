-------------------------- MODULE ConnectionProofs --------------------------
(***************************************************************************)
(* The streams of a connection and its end, for any setting.               *)
(*                                                                         *)
(* Stream limits: Inv is the inductive invariant.  Beside the properties   *)
(* it says that a never knows of a limit that b has not committed to       *)
(* (Numbers), that streams beyond the limit are neither scheduled nor sent *)
(* (Admitted), that frames under way stay true until they arrive, and that *)
(* b takes no limit for acknowledged that a does not have (Truth).         *)
(*                                                                         *)
(* Closing: ClosingInv is the inductive invariant.  Beside the properties  *)
(* it says why an endpoint is told and when (Closed), what its timers      *)
(* stand for (Timed), that an answer is owed at most once per power of two *)
(* (BackedOff), and that what is under way tells the reason of the         *)
(* endpoint that sent it (Carries).                                        *)
(*                                                                         *)
(* Credit: CreditInv is the inductive invariant.  Beside the properties it *)
(* says what each endpoint knows of the other's limits (Known), that no    *)
(* frame under way claims more than that (FramesKnown), what the states of *)
(* a BLOCKED frame stand for, stopped or not (SaysSo), and that lowered    *)
(* windows keep what was announced covered (Covered).  The operators of    *)
(* the scheduler and of do_send keep it for all streams but the one they   *)
(* are working on (SenderInv, ReceiverInv).                                *)
(***************************************************************************)
EXTENDS StreamLimits, FiniteSetTheorems, SequenceTheorems, WellFoundedInduction,
        TLAPS

CONSTANTS MaxIdle, ThreePto, FourPto, KeySets, Errors(_, _), MaxNow, MaxStreams, MaxReceived,
          Streams, CreditSettings, MaxCopies

VARIABLES now, conn, packets, d_set, d_s, d_r, d_net, d_arrived

CC == INSTANCE ConnClose WITH net <- packets
D == INSTANCE DataCredit WITH Settings <- CreditSettings, set <- d_set, s <- d_s,
       r <- d_r, net <- d_net, arrived <- d_arrived

-----------------------------------------------------------------------------
(* The limit on streams *)

\* The limit that a knows is one that b has committed to.
Numbers ==
  /\ a.count \in Nat /\ a.count <= b.sender.committed
  /\ Concurrency <= b.sender.committed
  /\ a.ready => Concurrency <= a.count
  /\ b.open \subseteq 0 .. b.next - 1

\* Streams are scheduled and sent only within the limit, and while the frame of
\* one is under way it is not scheduled again.
Admitted ==
  /\ \A id \in a.linked : /\ id < a.count /\ id < a.next
                          /\ Frame("STREAM", id) \notin net
  /\ \A id \in a.inflight : id < a.count /\ id < a.next
  /\ \A m \in net : m.kind = "STREAM" => m.v \in Ids /\ m.v < a.count /\ m.v < a.next

\* What frames say is true, whenever they arrive: no limit is beyond the one that
\* b has committed to, and a has reached the limit at which it says it is blocked.
Truth ==
  /\ \A m \in net : /\ m.kind = "MAX_STREAMS" => m.v <= b.sender.committed
                    /\ m.kind = "STREAMS_BLOCKED" => m.v <= a.count
  /\ \A m \in arrived : m.kind = "MAX_STREAMS" => m.v <= a.count
  /\ \A x \in b.sentmap : x.frame.kind = "MAX_STREAMS"
  /\ b.sender.acked <= Concurrency \/ b.sender.acked <= a.count

\* LimitUnderway, before a is ready as well: it knows of Concurrency then.
Announced ==
  Running /\ a.count < b.sender.committed /\ Concurrency < b.sender.committed =>
    \/ Entry(Frame("MAX_STREAMS", b.sender.committed), TRUE) \in b.sentmap
    \/ b.sender.lost /\ b.pending

Inv ==
  /\ TypeOK
  /\ WaitBeyondLimit
  /\ OpenedIsUnderway
  /\ SignalsPending
  /\ StreamsCounted
  /\ Numbers
  /\ Admitted
  /\ Truth
  /\ Announced
-----------------------------------------------------------------------------
(* Types *)

Opener ==
  [next : 0 .. MaxOpened, count : Limits,
   waiting : Seq(Ids), linked : SUBSET Ids,
   inflight : SUBSET Ids, sender : MaxSenders(Limits), pending : BOOLEAN, ready : BOOLEAN,
   sentmap : SUBSET [frame : Frames, live : BOOLEAN]]

Accepter ==
  [next : 0 .. MaxOpened, num : 0 .. MaxOpened, open : SUBSET Ids,
   sender : MaxSenders(Limits), pending : BOOLEAN,
   sentmap : SUBSET [frame : Frames, live : BOOLEAN],
   error : {"none", "STREAM_LIMIT", "callback"}]

\* TypeOK, by the records of the two endpoints.
LEMMA TypesAre ==
  TypeOK <=> /\ set \in Settings /\ a \in Opener /\ b \in Accepter
             /\ net \subseteq Frames /\ arrived \subseteq Frames
BY DEF TypeOK, Opener, Accepter

\* The numbers of the setting.
LEMMA SettingsAre ==
  ASSUME SettingsAssumption, TypeOK
  PROVE  /\ Concurrency \in Nat \ {0} /\ MaxOpened \in Nat
         /\ set.remembered \in 0 .. Concurrency
BY DEF SettingsAssumption, TypeOK, Concurrency, MaxOpened

\* the types are those of the setting
LEMMA TypesStay ==
  ASSUME set' = set
  PROVE  /\ Opener' = Opener /\ Accepter' = Accepter /\ Frames' = Frames
         /\ Concurrency' = Concurrency /\ MaxOpened' = MaxOpened /\ Ids' = Ids
         /\ Limits' = Limits
BY DEF Opener, Accepter, Frames, Concurrency, MaxOpened, Ids, Limits

\* The operations of maxsender.h keep to the values they are given.
LEMMA MaxSenderTypes ==
  ASSUME NEW V, NEW m \in MaxSenders(V), NEW v \in V
  PROVE  /\ MaxSenderBlocked(m, v) \in MaxSenders(V)
         /\ MaxSenderRecord(m, v) \in MaxSenders(V)
         /\ MaxSenderAcked(m, v) \in MaxSenders(V)
         /\ MaxSenderLost(m, v) \in MaxSenders(V)
BY DEF MaxSenders, MaxSenderBlocked, MaxSenderRecord, MaxSenderAcked, MaxSenderLost,
       MaxSenderNeedsResend

-----------------------------------------------------------------------------
(* The streams that wait *)

\* those from the limit c on, n opened
Wait(n, c) == [i \in 1 .. n - c |-> c + i - 1]

\* Such a list, read from its start.
LEMMA WaitIs ==
  ASSUME NEW n \in Nat, NEW c \in Nat
  PROVE  /\ DOMAIN Wait(n, c) = 1 .. n - c
         /\ \A i \in 1 .. n - c : Wait(n, c)[i] = c + i - 1
         /\ Wait(n, c) \in Seq(0 .. n - 1)
         /\ Len(Wait(n, c)) = IF n > c THEN n - c ELSE 0
         /\ Wait(n, c) = <<>> <=> n <= c
<1>1. PICK k \in Nat : k = (IF n > c THEN n - c ELSE 0) /\ 1 .. n - c = 1 .. k
  <2>1. CASE n > c
    <3>1. n - c \in Nat
      BY <2>1
    <3> QED  BY <2>1, <3>1
  <2>2. CASE ~(n > c)
    <3>1. 1 .. n - c = 1 .. 0
      BY <2>2
    <3> QED  BY <2>2, <3>1
  <2> QED  BY <2>1, <2>2
<1>2. Wait(n, c) = [i \in 1 .. k |-> c + i - 1]
  BY <1>1 DEF Wait
<1>3. \A i \in 1 .. k : c + i - 1 \in 0 .. n - 1
  BY <1>1
<1>4. Wait(n, c) \in Seq(0 .. n - 1) /\ Len(Wait(n, c)) = k
  BY <1>2, <1>3
<1>5. Wait(n, c) = <<>> <=> k = 0
  BY <1>4
<1> QED  BY <1>1, <1>2, <1>4, <1>5

\* A stream waits when it is opened and beyond the limit.
LEMMA BlockedIs ==
  ASSUME NEW n \in Nat, NEW c \in Nat, NEW e, e.waiting = Wait(n, c), NEW id \in Int
  PROVE  Blocked(e, id) <=> c <= id /\ id < n
<1>1. DOMAIN e.waiting = 1 .. n - c /\ \A i \in 1 .. n - c : e.waiting[i] = c + i - 1
  BY WaitIs
<1>2. ASSUME c <= id, id < n PROVE Blocked(e, id)
  <2>1. PICK i \in 1 .. n - c : i = id - c + 1
    BY <1>2
  <2>2. e.waiting[i] = id
    BY <1>1, <2>1
  <2> QED  BY <1>1, <2>2 DEF Blocked
<1>3. ASSUME Blocked(e, id) PROVE c <= id /\ id < n
  <2>1. PICK i \in 1 .. n - c : e.waiting[i] = id
    BY <1>1, <1>3 DEF Blocked
  <2> QED  BY <1>1, <2>1
<1> QED  BY <1>2, <1>3

\* One more waits.
LEMMA WaitOneMore ==
  ASSUME NEW n \in Nat, NEW c \in Nat, c <= n
  PROVE  Append(Wait(n, c), n) = Wait(n + 1, c)
<1>1. PICK k \in Nat : k = n - c
  OBVIOUS
<1>2. Wait(n, c) \in Seq(Nat) /\ Len(Wait(n, c)) = k
      /\ \A i \in 1 .. k : Wait(n, c)[i] = c + i - 1
  <2>1. Wait(n, c) = [i \in 1 .. k |-> c + i - 1]
    BY <1>1 DEF Wait
  <2> QED  BY <2>1
<1>3. Wait(n + 1, c) = [i \in 1 .. k + 1 |-> c + i - 1]
  BY <1>1 DEF Wait
<1>4. PICK q : q = Append(Wait(n, c), n)
  OBVIOUS
<1>5. /\ Len(q) = k + 1 /\ DOMAIN q = 1 .. k + 1
      /\ \A i \in 1 .. k : q[i] = c + i - 1
      /\ q[k + 1] = n
  BY <1>2, <1>4
<1>6. \A i \in 1 .. k + 1 : q[i] = c + i - 1
  BY <1>1, <1>5
<1>7. q = [i \in 1 .. k + 1 |-> c + i - 1]
  <2>1. q \in Seq(Nat)
    BY <1>2, <1>4, AppendProperties
  <2>2. q = [i \in 1 .. Len(q) |-> q[i]]
    BY <2>1
  <2> QED  BY <1>5, <1>6, <2>2
<1> QED  BY <1>3, <1>4, <1>7

\* open_blocked_streams, once the limit has been raised from c: it admits those
\* that are within the new limit, and these only.
LEMMA OpenBlockedIs ==
  ASSUME SettingsAssumption, TypeOK, NEW e \in Opener, e.count \in Nat,
         NEW c \in Nat, c <= e.count, e.waiting = Wait(e.next, c)
  PROVE  LET f == OpenBlockedStreams(e)
             admitted == {id \in Ids : c <= id /\ id < e.count /\ id < e.next}
         IN  /\ f = [e EXCEPT !.waiting = Wait(e.next, e.count),
                              !.linked = e.linked \cup admitted]
             /\ f \in Opener
<1>1. PICK n \in Nat : n = e.next /\ n <= MaxOpened
  BY SettingsAre DEF Opener
<1>2. PICK d \in Nat : d = e.count
  OBVIOUS
<1>3. PICK q : q = e.waiting
  OBVIOUS
<1>4. PICK len \in Nat : len = Len(Wait(n, c)) /\ len = IF n > c THEN n - c ELSE 0
  <2>1. (IF n > c THEN n - c ELSE 0) \in Nat
    OBVIOUS
  <2> QED  BY <2>1, WaitIs
<1>5. /\ DOMAIN q = 1 .. len /\ Len(q) = len /\ q \in Seq(0 .. n - 1)
      /\ \A i \in 1 .. len : q[i] = c + i - 1
  <2>1. 1 .. n - c = 1 .. len
    BY <1>4
  <2>2. q = Wait(n, c)
    BY <1>1, <1>3
  <2>3. /\ DOMAIN q = 1 .. n - c /\ \A i \in 1 .. n - c : q[i] = c + i - 1
        /\ q \in Seq(0 .. n - 1)
    BY <2>2, WaitIs
  <2> QED  BY <1>4, <2>1, <2>2, <2>3
<1>6. PICK k \in Nat : k = (IF n <= c THEN 0 ELSE IF d < n THEN d - c ELSE n - c)
  BY <1>2
<1>7. k <= len /\ \A i \in 1 .. len : c + i - 1 < d <=> i <= k
  BY <1>2, <1>4, <1>6
<1>8. {i \in DOMAIN q : q[i] < d} = 1 .. k
  <2>1. \A i \in 1 .. len : q[i] < d <=> i <= k
    BY <1>5, <1>7
  <2>2. {i \in 1 .. len : q[i] < d} = {i \in 1 .. len : i <= k}
    BY <2>1
  <2>3. {i \in 1 .. len : i <= k} = 1 .. k
    BY <1>7
  <2> QED  BY <1>5, <2>2, <2>3
<1>9. Cardinality(1 .. k) = k
  <2>1. 1 \in Int /\ k \in Int
    OBVIOUS
  <2>2. Cardinality(1 .. k) = IF 1 > k THEN 0 ELSE k - 1 + 1
    BY <2>1, FS_Interval
  <2> QED  BY <2>2
<1>10. SubSeq(q, k + 1, len) = Wait(n, d)
  <2>1. PICK w : w = SubSeq(q, k + 1, len)
    OBVIOUS
  <2>2. /\ w \in Seq(Nat)
        /\ Len(w) = len - k
        /\ \A i \in 1 .. len - k : w[i] = q[k + i]
    <3>1. \A i \in k + 1 .. len : q[i] \in Nat
      BY <1>5
    <3>2. k + 1 \in Int /\ len \in Int
      OBVIOUS
    <3>3. /\ w \in Seq(Nat)
          /\ Len(w) = IF k + 1 <= len THEN len - (k + 1) + 1 ELSE 0
          /\ \A i \in 1 .. len - (k + 1) + 1 : w[i] = q[(k + 1) + i - 1]
      BY <2>1, <3>1, <3>2, SubSeqProperties
    <3>4. /\ len - (k + 1) + 1 = len - k
          /\ (IF k + 1 <= len THEN len - (k + 1) + 1 ELSE 0) = len - k
          /\ \A i \in Int : (k + 1) + i - 1 = k + i
      BY <1>7
    <3> QED  BY <3>3, <3>4
  <2>3. \A i \in 1 .. len - k : w[i] = d + i - 1
    <3>1. ASSUME NEW i \in 1 .. len - k PROVE w[i] = d + i - 1
      <4>1. w[i] = q[k + i] /\ k + i \in 1 .. len
        BY <1>7, <2>2
      <4>2. w[i] = c + (k + i) - 1
        BY <1>5, <4>1
      <4>3. c + k = d
        BY <1>2, <1>4, <1>6, <3>1
      <4> QED  BY <4>2, <4>3
    <3> QED  BY <3>1
  <2>4. 1 .. n - d = 1 .. len - k
    BY <1>2, <1>4, <1>6
  <2>5. w = [i \in 1 .. len - k |-> w[i]]
    BY <2>2
  <2>6. w = [i \in 1 .. n - d |-> d + i - 1]
    BY <2>3, <2>4, <2>5
  <2> QED  BY <2>1, <2>6 DEF Wait
<1>11. {q[i] : i \in 1 .. k} = {id \in Ids : c <= id /\ id < d /\ id < n}
  <2>1. ASSUME NEW i \in 1 .. k
        PROVE  q[i] \in Ids /\ c <= q[i] /\ q[i] < d /\ q[i] < n
    <3>1. i \in 1 .. len /\ c + i - 1 < d /\ c + i - 1 < n
      BY <1>4, <1>6, <1>7
    <3>2. q[i] = c + i - 1
      BY <1>5, <3>1
    <3> QED  BY <1>1, <3>1, <3>2, SettingsAre DEF Ids
  <2>2. ASSUME NEW id \in Ids, c <= id, id < d, id < n
        PROVE  \E i \in 1 .. k : q[i] = id
    <3>1. PICK i \in Int : i = id - c + 1
      BY SettingsAre DEF Ids
    <3>2. i \in 1 .. k /\ i \in 1 .. len /\ c + i - 1 = id
      BY <1>2, <1>4, <1>6, <2>2, <3>1, SettingsAre DEF Ids
    <3> QED  BY <1>5, <3>2
  <2> QED  BY <2>1, <2>2
<1>12. PICK f : f = OpenBlockedStreams(e)
  OBVIOUS
<1>13. f = [e EXCEPT !.waiting = Wait(n, d),
                     !.linked = e.linked \cup {id \in Ids : c <= id /\ id < d /\ id < n}]
  <2>1. PICK admitted : admitted = {i \in DOMAIN q : q[i] < d}
    OBVIOUS
  <2>2. f = [e EXCEPT !.waiting = SubSeq(q, Cardinality(admitted) + 1, Len(q)),
                      !.linked = e.linked \cup {q[i] : i \in admitted}]
    BY <1>2, <1>3, <1>12, <2>1 DEF OpenBlockedStreams, Opener
  <2>3. admitted = 1 .. k /\ Cardinality(admitted) = k
    BY <1>8, <1>9, <2>1
  <2> QED  BY <1>5, <1>10, <1>11, <2>2, <2>3
<1>14. Wait(n, d) \in Seq(Ids)
  <2>1. 0 .. n - 1 \subseteq Ids
    BY <1>1, SettingsAre DEF Ids
  <2>2. Wait(n, d) \in Seq(0 .. n - 1)
    BY WaitIs
  <2> QED  BY <2>1, <2>2
<1>15. f \in Opener
  BY <1>13, <1>14 DEF Opener
<1> QED  BY <1>1, <1>2, <1>12, <1>13, <1>15
-----------------------------------------------------------------------------
(* The limit is raised at a *)

\* update_max_streams and open_blocked_streams: a with the limit d
Raised(d) ==
  [a EXCEPT !.count = d, !.waiting = Wait(a.next, d),
            !.linked = a.linked \cup {id \in Ids : a.count <= id /\ id < d /\ id < a.next}]

\* handle_max_streams_frame and update_traffic_key_cb raise the limit, or leave it.
LEMMA Raising ==
  ASSUME SettingsAssumption, Inv, NEW v \in Limits, v <= b.sender.committed
  PROVE  \E d \in Nat :
           /\ d = IF a.count < v THEN v ELSE a.count
           /\ d \in Limits /\ a.count <= d /\ v <= d /\ d <= b.sender.committed
           /\ OpenBlockedStreams(UpdateMaxStreams(a, v)) = Raised(d)
           /\ Raised(d) \in Opener
<1> USE SettingsAssumption
<1>1. /\ TypeOK /\ a \in Opener /\ a.count \in Nat /\ a.count \in Limits
      /\ a.count <= b.sender.committed /\ a.waiting = Wait(a.next, a.count)
  BY TypesAre DEF Inv, Numbers, WaitBeyondLimit, Wait, Opener
<1>2. Limits \subseteq Int
  BY <1>1, SettingsAre DEF Limits
<1>3. PICK d \in Nat : d = IF a.count < v THEN v ELSE a.count
  BY <1>1, <1>2
<1>4. d \in Limits /\ a.count <= d /\ v <= d /\ d <= b.sender.committed
  BY <1>1, <1>2, <1>3
<1>5. PICK e : e = [a EXCEPT !.count = d]
  OBVIOUS
<1>6. UpdateMaxStreams(a, v) = e
  BY <1>1, <1>3, <1>5 DEF UpdateMaxStreams, Opener
<1>7. e \in Opener /\ e.count = d /\ e.waiting = Wait(e.next, a.count) /\ e.next = a.next
      /\ e.linked = a.linked
  BY <1>1, <1>4, <1>5 DEF Opener
<1>8. /\ OpenBlockedStreams(e)
           = [e EXCEPT !.waiting = Wait(e.next, e.count),
                       !.linked = e.linked \cup {id \in Ids : a.count <= id /\ id < e.count
                                                             /\ id < e.next}]
      /\ OpenBlockedStreams(e) \in Opener
  BY <1>1, <1>4, <1>7, OpenBlockedIs
<1>9. OpenBlockedStreams(e) = Raised(d)
  BY <1>1, <1>5, <1>7, <1>8 DEF Raised, Opener
<1> QED  BY <1>3, <1>4, <1>6, <1>8, <1>9

-----------------------------------------------------------------------------
(* What every action starts from and has to establish *)

\* What the invariant says of the numbers, once and for all.
LEMMA Facts ==
  ASSUME SettingsAssumption, Inv
  PROVE  /\ Concurrency \in Nat \ {0} /\ MaxOpened \in Nat
         /\ Ids \subseteq Nat /\ Limits \subseteq Int
         /\ \A i \in Nat : i < MaxOpened => i \in Ids
         /\ a \in Opener /\ b \in Accepter /\ net \subseteq Frames /\ arrived \subseteq Frames
         /\ a.next \in Nat /\ a.next <= MaxOpened /\ a.count \in Nat /\ a.count \in Limits
         /\ b.next \in Nat /\ b.next <= MaxOpened /\ b.num \in Nat
         /\ b.sender \in MaxSenders(Limits)
         /\ b.sender.committed \in Int /\ b.sender.acked \in Int
         /\ a.waiting = Wait(a.next, a.count)
         /\ a.waiting = <<>> <=> a.next <= a.count
         /\ \A id \in Int : Blocked(a, id) <=> a.count <= id /\ id < a.next
         /\ a.linked \subseteq Nat /\ a.inflight \subseteq Nat
<1>1. /\ a \in Opener /\ b \in Accepter /\ net \subseteq Frames /\ arrived \subseteq Frames
      /\ Concurrency \in Nat \ {0} /\ MaxOpened \in Nat
  BY TypesAre, SettingsAre DEF Inv
<1>2. Ids \subseteq Nat /\ Limits \subseteq Int /\ \A i \in Nat : i < MaxOpened => i \in Ids
  BY <1>1 DEF Ids, Limits
<1>3. /\ a.next \in Nat /\ a.next <= MaxOpened /\ a.count \in Nat /\ a.count \in Limits
  BY <1>1 DEF Inv, Numbers, Opener
<1>4. /\ b.next \in Nat /\ b.next <= MaxOpened /\ b.num \in Nat
      /\ b.sender \in MaxSenders(Limits)
  BY <1>1 DEF Accepter
<1>5. b.sender.committed \in Int /\ b.sender.acked \in Int
  BY <1>2, <1>4 DEF MaxSenders
<1>6. a.waiting = Wait(a.next, a.count)
  BY DEF Inv, WaitBeyondLimit, Wait
<1>7. a.waiting = <<>> <=> a.next <= a.count
  BY <1>3, <1>6, WaitIs
<1>8. \A id \in Int : Blocked(a, id) <=> a.count <= id /\ id < a.next
  BY <1>3, <1>6, BlockedIs
<1>9. a.linked \subseteq Nat /\ a.inflight \subseteq Nat
  BY <1>1, <1>2 DEF Opener
<1> QED  BY <1>1, <1>2, <1>3, <1>4, <1>5, <1>6, <1>7, <1>8, <1>9

\* OpenedIsUnderway, told by the limit
Underway ==
  Running => \A id \in 0 .. a.next - 1 :
    id < a.count => id \in a.linked \/ id \in a.inflight \/ id < b.next

\* OpenedIsUnderway says as much.
LEMMA UnderwayBefore ==
  ASSUME SettingsAssumption, Inv
  PROVE  Underway
<1>1. ASSUME Running, NEW id \in 0 .. a.next - 1, id < a.count
      PROVE  id \in a.linked \/ id \in a.inflight \/ id < b.next
  <2>1. a.next \in Nat /\ a.count \in Nat
    BY Facts
  <2>2. ~Blocked(a, id)
    BY <1>1, <2>1, Facts
  <2> QED  BY <1>1, <2>2 DEF Inv, OpenedIsUnderway
<1> QED  BY <1>1 DEF Underway

\* It is enough to show Underway, which does not look at the list.
LEMMA InvKept ==
  ASSUME SettingsAssumption, Inv, set' = set, a' \in Opener, b' \in Accepter,
         net' \subseteq Frames, arrived' \subseteq Frames,
         a'.waiting = Wait(a'.next, a'.count), Underway',
         SignalsPending', StreamsCounted', Numbers', Admitted', Truth', Announced'
  PROVE  Inv'
<1>1. TypeOK'
  <2>1. set' \in Settings
    BY TypesAre DEF Inv
  <2> QED  BY <2>1, TypesStay DEF TypeOK, Opener, Accepter
<1>2. WaitBeyondLimit'
  BY DEF WaitBeyondLimit, Wait
<1>3. OpenedIsUnderway'
  <2>1. ASSUME Running', NEW id \in 0 .. a'.next - 1
        PROVE  \/ Blocked(a', id) \/ id \in a'.linked \/ id \in a'.inflight \/ id < b'.next
    <3>1. a'.next \in Nat /\ a'.count \in Nat
      BY Facts DEF Opener, Numbers
    <3>2. CASE id < a'.count
      BY <2>1, <3>2 DEF Underway
    <3>3. CASE a'.count <= id
      <4>1. Blocked(a', id) <=> a'.count <= id /\ id < a'.next
        BY <3>1, BlockedIs
      <4> QED  BY <3>1, <3>3, <4>1
    <3> QED  BY <3>1, <3>2, <3>3
  <2> QED  BY <2>1 DEF OpenedIsUnderway, Blocked
<1> QED  BY <1>1, <1>2, <1>3 DEF Inv

\* The handshake is still going on, and a knows what it remembers.
LEMMA InitInv ==
  ASSUME SettingsAssumption, Init
  PROVE  Inv
<1>1. /\ Concurrency \in Nat \ {0} /\ MaxOpened \in Nat /\ set.remembered \in 0 .. Concurrency
  BY DEF SettingsAssumption, Init, Concurrency, MaxOpened
<1>2. -1 \in Limits /\ Concurrency \in Limits /\ set.remembered \in Limits
  BY <1>1 DEF Limits
<1>3. TypeOK
  <2>1. <<>> \in Seq(Ids)
    OBVIOUS
  <2>2. /\ MaxSenderInit(-1) \in MaxSenders(Limits)
        /\ MaxSenderInit(Concurrency) \in MaxSenders(Limits)
    BY <1>2 DEF MaxSenderInit, MaxSenders
  <2> QED  BY <1>1, <1>2, <2>1, <2>2 DEF Init, TypeOK
<1>4. WaitBeyondLimit
  <2>1. 0 \in Nat /\ set.remembered \in Nat /\ 0 <= set.remembered
    BY <1>1
  <2>2. Wait(0, set.remembered) = <<>>
    BY <2>1, WaitIs
  <2> QED  BY <2>2 DEF Init, WaitBeyondLimit, Wait
<1>5. OpenedIsUnderway
  BY DEF Init, OpenedIsUnderway
<1>6. b.sender = MaxSenderInit(Concurrency) /\ b.sender.committed = Concurrency
      /\ b.sender.acked = Concurrency /\ ~b.sender.lost /\ ~b.sender.remote_blocked
  BY DEF Init, MaxSenderInit
<1>7. SignalsPending
  <2>1. (Concurrency * 768) \div 1024 < Concurrency
    BY <1>1
  <2>2. b.next = 0 /\ b.num = 0
    BY DEF Init
  <2>3. ~ShouldSendMaxStreams(b)
    BY <1>1, <1>6, <2>1, <2>2 DEF ShouldSendMaxStreams, MaxSenderShouldSendMax
  <2> QED  BY <2>3 DEF Init, SignalsPending
<1>8. StreamsCounted
  BY <1>1, <1>6, FS_EmptySet DEF Init, StreamsCounted
<1>9. Numbers
  BY <1>1, <1>6 DEF Init, Numbers
<1>10. Admitted /\ Truth /\ Announced
  BY <1>1, <1>6 DEF Init, Admitted, Truth, Announced
<1> QED  BY <1>3, <1>4, <1>5, <1>7, <1>8, <1>9, <1>10 DEF Inv

-----------------------------------------------------------------------------
(* The steps of a *)

\* A stream is opened: within the limit it is scheduled, beyond it, it waits.
LEMMA OpenStreamInv ==
  ASSUME SettingsAssumption, Inv, OpenStream
  PROVE  Inv'
<1> USE SettingsAssumption
<1>1. PICK n \in Nat, c \in Nat : n = a.next /\ c = a.count
  BY Facts
<1>2. n < MaxOpened /\ set' = set /\ b' = b /\ net' = net /\ arrived' = arrived /\ n \in Ids
  BY <1>1, Facts DEF OpenStream
<1>3. /\ n + 1 \in 0 .. MaxOpened
      /\ a'.next = n + 1 /\ a'.count = c /\ a'.waiting = Wait(n + 1, c)
      /\ a'.linked = (IF c <= n THEN a.linked ELSE a.linked \cup {n})
      /\ a'.inflight = a.inflight /\ a'.ready = a.ready /\ a'.sender = a.sender
      /\ a'.pending = (a.pending \/ (c <= n /\ a.ready))
      /\ a' \in Opener
  <2>1. PICK e : e = [a EXCEPT !.next = @ + 1,
                               !.waiting = IF a.next >= a.count THEN Append(@, a.next) ELSE @,
                               !.pending = @ \/ (a.next >= a.count /\ a.ready)]
    OBVIOUS
  <2>2. a' = Sched(e, n)
    BY <1>1, <2>1 DEF OpenStream
  <2>3. e.waiting = Wait(n + 1, c)
    <3>1. CASE c <= n
      <4>1. Append(Wait(n, c), n) = Wait(n + 1, c)
        BY <3>1, WaitOneMore
      <4> QED  BY <1>1, <2>1, <3>1, <4>1, Facts DEF Opener
    <3>2. CASE n < c
      <4>1. e.waiting = Wait(n, c)
        BY <1>1, <2>1, <3>2, Facts DEF Opener
      <4>2. Wait(n, c) = <<>> /\ Wait(n + 1, c) = <<>>
        BY <3>2, WaitIs
      <4> QED  BY <4>1, <4>2
    <3> QED  BY <3>1, <3>2
  <2>4. Blocked(e, n) <=> c <= n
    <3>1. n + 1 \in Nat /\ n \in Int
      OBVIOUS
    <3>2. Blocked(e, n) <=> c <= n /\ n < n + 1
      BY <2>3, <3>1, BlockedIs
    <3> QED  BY <3>2
  <2>5. Wait(n + 1, c) \in Seq(Ids)
    <3>1. n + 1 \in Nat
      OBVIOUS
    <3>2. Wait(n + 1, c) \in Seq(0 .. (n + 1) - 1)
      BY <3>1, WaitIs
    <3>3. 0 .. (n + 1) - 1 \subseteq Ids
      BY <1>2, Facts DEF Ids
    <3> QED  BY <3>2, <3>3
  <2>6. n + 1 \in 0 .. MaxOpened
    BY <1>2, Facts
  <2>7. /\ e \in Opener /\ e.next = n + 1 /\ e.count = c /\ e.linked = a.linked
        /\ e.inflight = a.inflight /\ e.ready = a.ready /\ e.sender = a.sender
        /\ e.pending = (a.pending \/ (c <= n /\ a.ready))
    <3>1. /\ a \in Opener /\ a.pending \in BOOLEAN /\ a.ready \in BOOLEAN
      BY Facts DEF Opener
    <3>2. /\ e.next = n + 1 /\ e.count = c /\ e.linked = a.linked
          /\ e.inflight = a.inflight /\ e.ready = a.ready /\ e.sender = a.sender
          /\ e.sentmap = a.sentmap
      BY <1>1, <2>1, <3>1 DEF Opener
    <3>3. e.pending = (a.pending \/ (c <= n /\ a.ready))
      BY <1>1, <2>1, <3>1 DEF Opener
    <3>4. e \in Opener
      <4>1. e = [a EXCEPT !.next = n + 1, !.waiting = Wait(n + 1, c),
                          !.pending = a.pending \/ (c <= n /\ a.ready)]
        BY <1>1, <2>1, <2>3, <3>1 DEF Opener
      <4> QED  BY <2>5, <2>6, <3>1, <4>1 DEF Opener
    <3> QED  BY <3>2, <3>3, <3>4
  <2>8. CASE c <= n
    BY <2>2, <2>3, <2>4, <2>6, <2>7, <2>8 DEF Sched
  <2>9. CASE n < c
    <3>1. a' = [e EXCEPT !.linked = @ \cup {n}]
      BY <2>2, <2>4, <2>9 DEF Sched
    <3> QED  BY <1>2, <2>3, <2>6, <2>7, <2>9, <3>1 DEF Opener
  <2> QED  BY <2>8, <2>9
<1>4. Underway'
  <2>1. ASSUME Running', NEW id \in 0 .. n, id < c
        PROVE  id \in a'.linked \/ id \in a'.inflight \/ id < b'.next
    <3>1. CASE id = n
      BY <1>3, <2>1, <3>1
    <3>2. CASE id \in 0 .. n - 1
      BY <1>1, <1>2, <1>3, <2>1, <3>2, UnderwayBefore DEF Underway, Running
    <3> QED  BY <3>1, <3>2
  <2> QED  BY <1>3, <2>1 DEF Underway
<1>5. SignalsPending'
  <2>1. a'.waiting = <<>> <=> n + 1 <= c
    <3>1. n + 1 \in Nat
      OBVIOUS
    <3> QED  BY <1>3, <3>1, WaitIs
  <2>2. SignalsPending
    BY DEF Inv
  <2>3. Running' /\ ShouldSendMaxStreams(b)' => b'.pending
    BY <1>2, <2>2, TypesStay DEF SignalsPending, Running, ShouldSendMaxStreams
  <2>4. a'.ready /\ SendsBlocked(a') => a'.pending \/ a'.linked # {}
    BY <1>1, <1>3, <2>1 DEF SendsBlocked
  <2> QED  BY <2>3, <2>4 DEF SignalsPending, ShouldSendMaxStreams
<1>6. StreamsCounted'
  BY <1>2, TypesStay DEF Inv, StreamsCounted
<1>7. Numbers'
  BY <1>1, <1>2, <1>3, TypesStay DEF Inv, Numbers
<1>8. Admitted'
  <2>1. Frame("STREAM", n) \notin net
    BY <1>1 DEF Inv, Admitted, Frame
  <2>2. a.linked \subseteq Nat /\ a.inflight \subseteq Nat
    BY Facts
  <2>3. Admitted
    BY DEF Inv
  <2>4. \A id \in a'.linked : id < c /\ id < n + 1 /\ Frame("STREAM", id) \notin net
    BY <1>1, <1>3, <2>1, <2>2, <2>3 DEF Admitted
  <2>5. \A id \in a'.inflight : id < c /\ id < n + 1
    BY <1>1, <1>3, <2>2, <2>3 DEF Admitted
  <2>6. \A m \in net : m.kind = "STREAM" => m.v \in Ids /\ m.v < c /\ m.v < n + 1
    BY <1>1, <2>3, Facts DEF Admitted
  <2> QED  BY <1>2, <1>3, <2>4, <2>5, <2>6, TypesStay DEF Admitted, Frame
<1>9. Truth'
  BY <1>1, <1>2, <1>3, TypesStay DEF Inv, Truth
<1>10. Announced'
  BY <1>1, <1>2, <1>3, TypesStay DEF Inv, Announced, Running
<1> QED  BY <1>2, <1>3, <1>4, <1>5, <1>6, <1>7, <1>8, <1>9, <1>10, Facts, InvKept

\* Frames, by their parts.
LEMMA FramesAre ==
  ASSUME SettingsAssumption, Inv, NEW m \in Frames
  PROVE  /\ m.kind \in {"STREAM", "STREAMS_BLOCKED", "MAX_STREAMS"}
         /\ m.v \in Limits /\ m.v \in Int /\ m = Frame(m.kind, m.v)
<1>1. Limits \subseteq Int
  BY Facts
<1> QED  BY <1>1 DEF Frames, Frame

\* the limit is raised to d
LEMMA RaisedInv ==
  ASSUME SettingsAssumption, Inv,
         NEW d \in Nat, d \in Limits, a.count <= d, d <= b.sender.committed, Raised(d) \in Opener,
         NEW p \in BOOLEAN, NEW r \in BOOLEAN, r => Concurrency <= d,
         a' = [Raised(d) EXCEPT !.pending = p, !.ready = r],
         r /\ SendsBlocked(a') => p \/ a'.linked # {},
         set' = set, b' = b, net' \subseteq net, arrived' \subseteq Frames,
         \A m \in arrived' : m.kind = "MAX_STREAMS" => m.v <= d
  PROVE  Inv'
<1>1. PICK n \in Nat, c \in Nat : n = a.next /\ c = a.count /\ c <= d
  BY Facts
<1>2. PICK more : more = {id \in Ids : c <= id /\ id < d /\ id < n}
  OBVIOUS
<1>3. /\ a'.next = n /\ a'.count = d /\ a'.waiting = Wait(n, d)
      /\ a'.linked = a.linked \cup more /\ a'.inflight = a.inflight
      /\ a'.pending = p /\ a'.ready = r /\ a' \in Opener
  <2>1. a \in Opener
    BY Facts
  <2>2. a' = [a EXCEPT !.count = d, !.waiting = Wait(n, d), !.linked = a.linked \cup more,
                       !.pending = p, !.ready = r]
    BY <1>1, <1>2, <2>1 DEF Raised, Opener
  <2>3. a' \in Opener
    BY DEF Opener
  <2> QED  BY <1>1, <2>1, <2>2, <2>3 DEF Opener
<1>4. Underway'
  <2>1. ASSUME Running', NEW id \in 0 .. n - 1, id < d
        PROVE  id \in a'.linked \/ id \in a'.inflight \/ id < b'.next
    <3>1. CASE c <= id
      <4>1. id \in Ids
        BY <1>1, Facts
      <4>2. id \in more
        BY <1>2, <2>1, <3>1, <4>1
      <4> QED  BY <1>3, <4>2
    <3>2. CASE id < c
      BY <1>1, <1>3, <2>1, <3>2, UnderwayBefore DEF Underway, Running
    <3> QED  BY <3>1, <3>2
  <2> QED  BY <1>3, <2>1 DEF Underway
<1>5. SignalsPending'
  <2>1. SignalsPending
    BY DEF Inv
  <2>2. Running' /\ ShouldSendMaxStreams(b)' => b'.pending
    BY <2>1, TypesStay DEF SignalsPending, Running, ShouldSendMaxStreams
  <2> QED  BY <1>3, <2>2 DEF SignalsPending, ShouldSendMaxStreams
<1>6. StreamsCounted'
  BY TypesStay DEF Inv, StreamsCounted
<1>7. Numbers'
  BY <1>3, TypesStay DEF Inv, Numbers
<1>8. Admitted'
  <2>1. a.linked \subseteq Nat /\ a.inflight \subseteq Nat /\ Ids \subseteq Nat
    BY Facts
  <2>2. Admitted
    BY DEF Inv
  <2>3. \A id \in more : id < d /\ id < n /\ Frame("STREAM", id) \notin net
    <3>1. ASSUME NEW id \in more, Frame("STREAM", id) \in net PROVE FALSE
      <4>1. id < c
        BY <1>1, <2>2, <3>1 DEF Admitted, Frame
      <4> QED  BY <1>2, <2>1, <4>1
    <3> QED  BY <1>2, <3>1
  <2>4. \A id \in a.linked : id < d /\ id < n /\ Frame("STREAM", id) \notin net
    BY <1>1, <2>1, <2>2 DEF Admitted
  <2>5. \A id \in a.inflight : id < d /\ id < n
    BY <1>1, <2>1, <2>2 DEF Admitted
  <2>6. \A m \in net : m.kind = "STREAM" => m.v \in Ids /\ m.v < d /\ m.v < n
    BY <1>1, <2>1, <2>2 DEF Admitted
  <2> QED  BY <1>3, <2>3, <2>4, <2>5, <2>6, TypesStay DEF Admitted, Frame
<1>9. Truth'
  <2>1. Truth /\ Concurrency \in Nat /\ b.sender.acked \in Int
    BY Facts DEF Inv
  <2>2. \A m \in net' : /\ m.kind = "MAX_STREAMS" => m.v <= b.sender.committed
                        /\ m.kind = "STREAMS_BLOCKED" => m.v <= d
    <3>1. ASSUME NEW m \in net PROVE m.v \in Int
      <4>1. m \in Frames
        BY Facts
      <4> QED  BY <4>1, FramesAre
    <3> QED  BY <1>1, <2>1, <3>1 DEF Truth
  <2>3. b.sender.acked <= Concurrency \/ b.sender.acked <= d
    BY <1>1, <2>1 DEF Truth
  <2> QED  BY <1>3, <2>1, <2>2, <2>3, TypesStay DEF Truth
<1>10. Announced'
  <2>1. ASSUME Running, d < b.sender.committed, Concurrency < b.sender.committed
        PROVE  \/ Entry(Frame("MAX_STREAMS", b.sender.committed), TRUE) \in b.sentmap
               \/ b.sender.lost /\ b.pending
    <3>1. a.count < b.sender.committed
      BY <1>1, <2>1, Facts
    <3> QED  BY <2>1, <3>1 DEF Inv, Announced
  <2> QED  BY <1>3, <2>1, TypesStay DEF Announced, Running
<1>11. net' \subseteq Frames
  BY Facts
<1> QED  BY <1>3, <1>4, <1>5, <1>6, <1>7, <1>8, <1>9, <1>10, <1>11, Facts, InvKept

\* The 1-RTT key comes, with the limit of the transport parameters.
LEMMA KeyAvailableInv ==
  ASSUME SettingsAssumption, Inv, KeyAvailable
  PROVE  Inv'
<1> USE SettingsAssumption
<1>1. set' = set /\ b' = b /\ net' = net /\ arrived' = arrived /\ net' \subseteq net
  BY DEF KeyAvailable
<1>2. Concurrency \in Limits /\ Concurrency <= b.sender.committed
  <2>1. Concurrency \in Nat /\ MaxOpened \in Nat
    BY Facts
  <2> QED  BY <2>1 DEF Inv, Numbers, Limits
<1>3. PICK d \in Nat :
        /\ d \in Limits /\ a.count <= d /\ Concurrency <= d /\ d <= b.sender.committed
        /\ OpenBlockedStreams(UpdateMaxStreams(a, Concurrency)) = Raised(d)
        /\ Raised(d) \in Opener
  BY <1>2, Raising
<1>4. PICK p : p = (a.pending \/ Raised(d).waiting # <<>>)
  OBVIOUS
<1>5. p \in BOOLEAN /\ Raised(d).pending = a.pending
  <2>1. a \in Opener
    BY Facts
  <2> QED  BY <1>4, <2>1 DEF Raised, Opener
<1>6. a' = [Raised(d) EXCEPT !.pending = p, !.ready = TRUE]
  <2>1. a' = Ready(Raised(d))
    BY <1>3 DEF KeyAvailable
  <2> QED  BY <1>3, <1>4, <1>5, <2>1 DEF Ready, Opener
<1>7. a'.waiting = Raised(d).waiting
  BY <1>3, <1>6 DEF Opener
<1>8. SendsBlocked(a') => p
  BY <1>4, <1>7 DEF SendsBlocked
<1>9. arrived' \subseteq Frames
  BY <1>1, Facts
<1>10. \A m \in arrived' : m.kind = "MAX_STREAMS" => m.v <= d
  <2>1. ASSUME NEW m \in arrived, m.kind = "MAX_STREAMS" PROVE m.v <= d
    <3>1. m \in Frames /\ a.count \in Nat
      BY Facts
    <3>2. m.v \in Int
      BY <3>1, FramesAre
    <3>3. m.v <= a.count
      BY <2>1 DEF Inv, Truth
    <3> QED  BY <1>3, <3>1, <3>2, <3>3
  <2> QED  BY <1>1, <2>1
<1>11. TRUE \in BOOLEAN
  OBVIOUS
<1> QED  BY <1>1, <1>3, <1>5, <1>6, <1>8, <1>9, <1>10, <1>11, RaisedInv

\* the limit stays as it is
LEMMA SameLimitInv ==
  ASSUME SettingsAssumption, Inv, set' = set, b' = b, a' \in Opener,
         a'.next = a.next, a'.count = a.count, a'.waiting = a.waiting, a'.ready = a.ready,
         a.linked \cup a.inflight \subseteq a'.linked \cup a'.inflight, Admitted',
         net' \subseteq Frames, arrived' \subseteq arrived,
         \A m \in net' : \/ m.kind = "STREAM" \/ m \in net
                         \/ m = Frame("STREAMS_BLOCKED", a.count),
         a'.ready /\ SendsBlocked(a') => a'.pending \/ a'.linked # {}
  PROVE  Inv'
<1>1. Underway'
  <2>1. ASSUME Running', NEW id \in 0 .. a.next - 1, id < a.count
        PROVE  id \in a'.linked \/ id \in a'.inflight \/ id < b'.next
    BY <2>1, UnderwayBefore DEF Underway, Running
  <2> QED  BY <2>1 DEF Underway
<1>2. SignalsPending'
  <2>1. SignalsPending
    BY DEF Inv
  <2>2. Running' /\ ShouldSendMaxStreams(b)' => b'.pending
    BY <2>1, TypesStay DEF SignalsPending, Running, ShouldSendMaxStreams
  <2> QED  BY <2>2 DEF SignalsPending, ShouldSendMaxStreams
<1>3. StreamsCounted'
  BY TypesStay DEF Inv, StreamsCounted
<1>4. Numbers'
  BY TypesStay DEF Inv, Numbers
<1>5. Truth'
  <2>1. Truth
    BY DEF Inv
  <2>2. \A m \in net' : /\ m.kind = "MAX_STREAMS" => m.v <= b.sender.committed
                        /\ m.kind = "STREAMS_BLOCKED" => m.v <= a.count
    <3>1. a.count <= a.count
      BY Facts
    <3> QED  BY <2>1, <3>1 DEF Truth, Frame
  <2> QED  BY <2>1, <2>2, TypesStay DEF Truth
<1>6. Announced'
  BY TypesStay DEF Inv, Announced, Running
<1>7. a'.waiting = Wait(a'.next, a'.count) /\ arrived' \subseteq Frames
  BY Facts
<1> QED  BY <1>1, <1>2, <1>3, <1>4, <1>5, <1>6, <1>7, Facts, InvKept

\* a sends streams, and STREAMS_BLOCKED if it has to.
LEMMA SendAInv ==
  ASSUME SettingsAssumption, Inv, NEW ids \in SUBSET Ids, SendA(ids)
  PROVE  Inv'
<1>1. set' = set /\ b' = b /\ arrived' = arrived /\ ids \subseteq a.linked /\ a.ready
  BY DEF SendA
<1>2. PICK more : more = IF SendsBlocked(a) THEN {Frame("STREAMS_BLOCKED", a.count)} ELSE {}
  OBVIOUS
<1>3. net' = (net \cup {Frame("STREAM", id) : id \in ids}) \cup more
  BY <1>2 DEF SendA
<1>4. PICK e : e = SendStreamsBlocked(a)
  OBVIOUS
<1>5. a' = [e EXCEPT !.pending = FALSE, !.linked = @ \ ids, !.inflight = @ \cup ids]
  BY <1>4 DEF SendA
<1>6. /\ e \in Opener /\ e.next = a.next /\ e.count = a.count /\ e.waiting = a.waiting
      /\ e.ready = a.ready /\ e.linked = a.linked /\ e.inflight = a.inflight
      /\ ~SendsBlocked(e)
  <2>1. CASE ~SendsBlocked(a)
    BY <1>4, <2>1, Facts DEF SendStreamsBlocked
  <2>2. CASE SendsBlocked(a)
    <3>1. a \in Opener /\ a.count \in Limits /\ a.sender \in MaxSenders(Limits) /\ a.count \in Nat
      BY Facts DEF Opener
    <3>2. PICK s : s = MaxSenderRecord(a.sender, a.count)
      OBVIOUS
    <3>3. s \in MaxSenders(Limits)
      BY <3>1, <3>2, MaxSenderTypes
    <3>4. s.committed = a.count /\ ~s.lost
      BY <3>1, <3>2 DEF MaxSenderRecord, MaxSenders
    <3>5. PICK x : x = Entry(Frame("STREAMS_BLOCKED", a.count), TRUE)
      OBVIOUS
    <3>6. x \in [frame : Frames, live : BOOLEAN]
      BY <3>1, <3>5 DEF Entry, Frames
    <3>7. e = [a EXCEPT !.sender = s, !.sentmap = a.sentmap \cup {x}]
      BY <1>4, <2>2, <3>1, <3>2, <3>5 DEF SendStreamsBlocked, Emit, Opener
    <3>8. /\ e \in Opener /\ e.next = a.next /\ e.count = a.count /\ e.waiting = a.waiting
          /\ e.ready = a.ready /\ e.linked = a.linked /\ e.inflight = a.inflight
          /\ e.sender = s
      BY <3>1, <3>3, <3>6, <3>7 DEF Opener
    <3>9. ~SendsBlocked(e)
      BY <3>1, <3>4, <3>8 DEF SendsBlocked, MaxSenderShouldSendBlocked
    <3> QED  BY <3>8, <3>9
  <2> QED  BY <2>1, <2>2
<1>7. /\ a' \in Opener /\ a'.next = a.next /\ a'.count = a.count /\ a'.waiting = a.waiting
      /\ a'.ready = a.ready /\ a'.linked = a.linked \ ids
      /\ a'.inflight = a.inflight \cup ids /\ a'.sender = e.sender
  BY <1>5, <1>6 DEF Opener
<1>8. ~SendsBlocked(a')
  BY <1>6, <1>7 DEF SendsBlocked
<1>9. Admitted'
  <2>1. Admitted
    BY DEF Inv
  <2>2. ASSUME NEW id \in a'.linked PROVE Frame("STREAM", id) \notin net'
    <3>1. id \in a.linked /\ id \notin ids
      BY <1>7, <2>2
    <3>2. Frame("STREAM", id) \notin net /\ Frame("STREAM", id) \notin more
      BY <1>2, <2>1, <3>1 DEF Admitted, Frame
    <3>3. \A i \in ids : Frame("STREAM", i) # Frame("STREAM", id)
      BY <3>1 DEF Frame
    <3> QED  BY <1>3, <3>2, <3>3
  <2>3. \A id \in a'.linked : id < a.count /\ id < a.next
    BY <1>7, <2>1 DEF Admitted
  <2>4. \A id \in a'.inflight : id < a.count /\ id < a.next
    BY <1>1, <1>7, <2>1 DEF Admitted
  <2>5. ASSUME NEW m \in net', m.kind = "STREAM"
        PROVE  m.v \in Ids /\ m.v < a.count /\ m.v < a.next
    <3>1. CASE m \in net
      BY <2>1, <2>5, <3>1 DEF Admitted
    <3>2. CASE m \in more
      BY <1>2, <2>5, <3>2 DEF Frame
    <3>3. CASE m \in {Frame("STREAM", id) : id \in ids}
      BY <1>1, <2>1, <3>3 DEF Admitted, Frame
    <3> QED  BY <1>3, <2>5, <3>1, <3>2, <3>3
  <2> QED  BY <1>1, <1>7, <2>2, <2>3, <2>4, <2>5, TypesStay DEF Admitted, Frame
<1>10. net' \subseteq Frames
  <2>1. net \subseteq Frames /\ a.count \in Limits /\ Concurrency \in Nat /\ MaxOpened \in Nat
    BY Facts
  <2>2. Ids \subseteq Limits
    BY <2>1 DEF Ids, Limits
  <2>3. {Frame("STREAM", id) : id \in ids} \subseteq Frames
    BY <2>2 DEF Frames
  <2>4. more \subseteq Frames
    BY <1>2, <2>1 DEF Frames
  <2> QED  BY <1>3, <2>1, <2>3, <2>4
<1>11. \A m \in net' : \/ m.kind = "STREAM" \/ m \in net
                       \/ m = Frame("STREAMS_BLOCKED", a.count)
  BY <1>2, <1>3 DEF Frame
<1>12. /\ a.linked \cup a.inflight \subseteq a'.linked \cup a'.inflight
       /\ arrived' \subseteq arrived
  BY <1>1, <1>7
<1> QED  BY <1>1, <1>7, <1>8, <1>9, <1>10, <1>11, <1>12, SameLimitInv

\* Forget keeps only what had arrived
LEMMA Forgotten ==
  ASSUME Forget
  PROVE  arrived' \subseteq arrived
BY DEF Forget

\* STREAMS_BLOCKED is acknowledged.
LEMMA AckAInv ==
  ASSUME SettingsAssumption, Inv, set' = set, b' = b, net' = net, Forget,
         NEW x \in a.sentmap, a' = Acked(Without(a, x), x)
  PROVE  Inv'
<1>1. a \in Opener /\ a.sender \in MaxSenders(Limits) /\ a.pending \in BOOLEAN
      /\ a.sentmap \in SUBSET [frame : Frames, live : BOOLEAN]
  BY Facts DEF Opener
<1>2. x.frame \in Frames
  BY <1>1
<1>3. x.frame.v \in Limits
  BY <1>2, FramesAre
<1>4. PICK s : s = MaxSenderAcked(a.sender, x.frame.v)
  OBVIOUS
<1>5. s \in MaxSenders(Limits)
  BY <1>1, <1>3, <1>4, MaxSenderTypes
<1>6. s.committed = a.sender.committed /\ (s.lost => a.sender.lost)
  BY <1>1, <1>4 DEF MaxSenderAcked, MaxSenders
<1>7. a' = [a EXCEPT !.sender = s, !.pending = a.pending, !.sentmap = a.sentmap \ {x}]
  BY <1>1, <1>4 DEF Acked, Without, Opener
<1>8. a' \in Opener /\ a'.next = a.next /\ a'.count = a.count /\ a'.waiting = a.waiting
      /\ a'.ready = a.ready /\ a'.linked = a.linked /\ a'.inflight = a.inflight
      /\ a'.sender = s /\ a'.pending = a.pending
  BY <1>1, <1>5, <1>7 DEF Opener
<1>9. Admitted'
  BY <1>8, TypesStay DEF Inv, Admitted, Frame
<1>10. net' \subseteq Frames
  BY Facts
<1>11. ASSUME a'.ready, SendsBlocked(a') PROVE a'.pending \/ a'.linked # {}
  <2>1. SendsBlocked(a)
    BY <1>6, <1>8, <1>11 DEF SendsBlocked, MaxSenderShouldSendBlocked
  <2> QED  BY <1>8, <1>11, <2>1 DEF Inv, SignalsPending
<1> QED  BY <1>8, <1>9, <1>10, <1>11, Forgotten, SameLimitInv

\* STREAMS_BLOCKED is lost: it is sent again only if there is still need to.
LEMMA LossAInv ==
  ASSUME SettingsAssumption, Inv, set' = set, b' = b, net' = net, Forget,
         NEW x \in a.sentmap, NEW e \in GivenUp(a, x), a' = LostA(e, x)
  PROVE  Inv'
<1>1. a \in Opener /\ a.sender \in MaxSenders(Limits) /\ a.pending \in BOOLEAN
      /\ a.sentmap \in SUBSET [frame : Frames, live : BOOLEAN]
  BY Facts DEF Opener
<1>2. x.frame \in Frames
  BY <1>1
<1>3. x.frame.v \in Limits
  BY <1>2, FramesAre
<1>4. PICK q \in SUBSET [frame : Frames, live : BOOLEAN] : e = [a EXCEPT !.sentmap = q]
  <2>1. e = Without(a, x) \/ e = [a EXCEPT !.sentmap = (@ \ {x}) \cup {Entry(x.frame, FALSE)}]
    BY DEF GivenUp
  <2>2. a.sentmap \ {x} \in SUBSET [frame : Frames, live : BOOLEAN]
    BY <1>1
  <2>3. (a.sentmap \ {x}) \cup {Entry(x.frame, FALSE)} \in SUBSET [frame : Frames, live : BOOLEAN]
    <3>1. Entry(x.frame, FALSE) \in [frame : Frames, live : BOOLEAN]
      BY <1>2 DEF Entry
    <3> QED  BY <1>1, <3>1
  <2>4. CASE e = Without(a, x)
    BY <1>1, <2>2, <2>4 DEF Without, Opener
  <2>5. CASE e = [a EXCEPT !.sentmap = (@ \ {x}) \cup {Entry(x.frame, FALSE)}]
    BY <1>1, <2>3, <2>5 DEF Opener
  <2> QED  BY <2>1, <2>4, <2>5
<1>5. PICK s : s = MaxSenderLost(a.sender, x.frame.v)
  OBVIOUS
<1>6. s \in MaxSenders(Limits)
  BY <1>1, <1>3, <1>5, MaxSenderTypes
<1>7. PICK again : again = MaxSenderNeedsResend(a.sender, x.frame.v)
  OBVIOUS
<1>8. again \in BOOLEAN /\ (~again => s = a.sender)
  BY <1>5, <1>7 DEF MaxSenderLost, MaxSenderNeedsResend
<1>9. PICK p : p = (a.pending \/ (again /\ a.waiting # <<>>))
  OBVIOUS
<1>10. p \in BOOLEAN
  BY <1>9
<1>11. a' = [a EXCEPT !.sender = s, !.pending = p, !.sentmap = q]
  <2>1. e.sender = a.sender /\ e.waiting = a.waiting /\ e.pending = a.pending
    BY <1>1, <1>4 DEF Opener
  <2>2. a' = [e EXCEPT !.sender = s, !.pending = p]
    BY <1>1, <1>4, <1>5, <1>7, <1>9, <2>1 DEF LostA, Opener
  <2> QED  BY <1>1, <1>4, <2>2 DEF Opener
<1>12. /\ a' \in Opener /\ a'.next = a.next /\ a'.count = a.count /\ a'.waiting = a.waiting
       /\ a'.ready = a.ready /\ a'.linked = a.linked /\ a'.inflight = a.inflight
       /\ a'.sender = s /\ a'.pending = p
  BY <1>1, <1>4, <1>6, <1>10, <1>11 DEF Opener
<1>13. Admitted'
  BY <1>12, TypesStay DEF Inv, Admitted, Frame
<1>14. net' \subseteq Frames
  BY Facts
<1>15. ASSUME a'.ready, SendsBlocked(a') PROVE a'.pending \/ a'.linked # {}
  <2>1. a.waiting # <<>>
    BY <1>12, <1>15 DEF SendsBlocked
  <2>2. CASE again
    BY <1>9, <1>12, <2>1, <2>2
  <2>3. CASE ~again
    <3>1. SendsBlocked(a)
      BY <1>8, <1>12, <1>15, <2>3 DEF SendsBlocked
    <3>2. a.pending \/ a.linked # {}
      BY <1>12, <1>15, <3>1 DEF Inv, SignalsPending
    <3> QED  BY <1>9, <1>12, <3>2
  <2> QED  BY <1>8, <2>2, <2>3
<1> QED  BY <1>12, <1>13, <1>14, <1>15, Forgotten, SameLimitInv

\* The frame of a stream is lost: the limit has been above it ever since.
LEMMA LossStreamInv ==
  ASSUME SettingsAssumption, Inv, set' = set, b' = b, net' = net, Forget,
         NEW id \in a.inflight, Frame("STREAM", id) \notin net,
         a' = Sched([a EXCEPT !.inflight = @ \ {id}], id)
  PROVE  Inv'
<1>1. a \in Opener /\ id \in Ids /\ id \in Nat /\ a.next \in Nat /\ a.count \in Nat
  BY Facts DEF Opener
<1>2. Admitted /\ id < a.count /\ id < a.next
  BY DEF Inv, Admitted
<1>3. PICK e : e = [a EXCEPT !.inflight = @ \ {id}]
  OBVIOUS
<1>4. e \in Opener /\ e.waiting = a.waiting /\ e.linked = a.linked
  BY <1>1, <1>3 DEF Opener
<1>5. ~Blocked(e, id)
  <2>1. ~Blocked(a, id)
    BY <1>1, <1>2, Facts
  <2> QED  BY <1>4, <2>1 DEF Blocked
<1>6. a' = [e EXCEPT !.linked = @ \cup {id}]
  BY <1>3, <1>5 DEF Sched
<1>7. /\ a' \in Opener /\ a'.next = a.next /\ a'.count = a.count /\ a'.waiting = a.waiting
      /\ a'.ready = a.ready /\ a'.linked = a.linked \cup {id} /\ a'.inflight = a.inflight \ {id}
  <2>1. a' = [a EXCEPT !.inflight = a.inflight \ {id}, !.linked = a.linked \cup {id}]
    BY <1>1, <1>3, <1>4, <1>6 DEF Opener
  <2>2. a.linked \cup {id} \subseteq Ids /\ a.inflight \ {id} \subseteq Ids
    BY <1>1 DEF Opener
  <2> QED  BY <1>1, <2>1, <2>2 DEF Opener
<1>8. Admitted'
  BY <1>2, <1>7, TypesStay DEF Admitted, Frame
<1>9. net' \subseteq Frames /\ a'.linked # {}
  BY <1>7, Facts
<1>10. a.linked \cup a.inflight \subseteq a'.linked \cup a'.inflight
  BY <1>7
<1> QED  BY <1>7, <1>8, <1>9, <1>10, Forgotten, SameLimitInv

-----------------------------------------------------------------------------
(* The steps of b *)

\* a loses no more than streams in flight that b knows by now
LEMMA AccepterInv ==
  ASSUME SettingsAssumption, Inv, set' = set, b' \in Accepter,
         NEW F, F \subseteq a.inflight, a' = [a EXCEPT !.inflight = F],
         Running' => Running, Running' => \A id \in a.inflight \ F : id < b'.next,
         b.next <= b'.next,
         net' \subseteq Frames, arrived' \subseteq Frames,
         \A m \in net' : m \in net \/ m.kind = "MAX_STREAMS",
         Running' /\ ShouldSendMaxStreams(b') => b'.pending,
         StreamsCounted', a.count <= b'.sender.committed, Concurrency <= b'.sender.committed,
         b'.open \subseteq 0 .. b'.next - 1,
         Truth', Announced'
  PROVE  Inv'
<1>1. a \in Opener /\ b.next \in Nat /\ b'.next \in Nat
  BY Facts DEF Accepter
<1>2. /\ a' \in Opener /\ a'.next = a.next /\ a'.count = a.count /\ a'.waiting = a.waiting
      /\ a'.ready = a.ready /\ a'.linked = a.linked /\ a'.inflight = F
      /\ a'.pending = a.pending /\ a'.sender = a.sender
  BY <1>1 DEF Opener
<1>3. Underway'
  <2>1. ASSUME Running', NEW id \in 0 .. a.next - 1, id < a.count
        PROVE  id \in a'.linked \/ id \in a'.inflight \/ id < b'.next
    <3>1. id \in a.linked \/ id \in a.inflight \/ id < b.next
      BY <2>1, UnderwayBefore DEF Underway
    <3>2. CASE id \in a.inflight
      BY <1>2, <2>1, <3>2
    <3>3. CASE id < b.next
      <4>1. id \in Int
        BY Facts
      <4> QED  BY <1>1, <3>3, <4>1
    <3> QED  BY <1>2, <3>1, <3>2, <3>3
  <2> QED  BY <1>2, <2>1 DEF Underway
<1>4. SignalsPending'
  <2>1. a'.ready /\ SendsBlocked(a') => a'.pending \/ a'.linked # {}
    <3>1. SendsBlocked(a') => SendsBlocked(a)
      BY <1>2 DEF SendsBlocked
    <3> QED  BY <1>2, <3>1 DEF Inv, SignalsPending
  <2>2. (Running /\ ShouldSendMaxStreams(b) => b.pending)'
    BY TypesStay DEF Running, ShouldSendMaxStreams
  <2> QED  BY <2>1, <2>2 DEF SignalsPending
<1>5. Numbers'
  BY <1>2, TypesStay DEF Inv, Numbers
<1>6. Admitted'
  <2>1. Admitted
    BY DEF Inv
  <2>2. ASSUME NEW id \in a.linked PROVE Frame("STREAM", id) \notin net'
    BY <2>1 DEF Admitted, Frame
  <2>3. \A m \in net' : m.kind = "STREAM" => m \in net
    OBVIOUS
  <2> QED  BY <1>2, <2>1, <2>2, <2>3, TypesStay DEF Admitted, Frame
<1>7. a'.waiting = Wait(a'.next, a'.count)
  BY <1>2, Facts
<1> QED  BY <1>2, <1>3, <1>4, <1>5, <1>6, <1>7, InvKept

\* after Reconsider the flag is set whenever MAX_STREAMS is to be sent
LEMMA ReconsiderIs ==
  ASSUME NEW e \in Accepter
  PROVE  /\ Reconsider(e) \in Accepter
         /\ ShouldSendMaxStreams(Reconsider(e)) => Reconsider(e).pending
         /\ e.pending => Reconsider(e).pending
         /\ Reconsider(e).next = e.next /\ Reconsider(e).num = e.num
         /\ Reconsider(e).open = e.open /\ Reconsider(e).sender = e.sender
         /\ Reconsider(e).sentmap = e.sentmap /\ Reconsider(e).error = e.error
<1>1. PICK p : p = (e.pending \/ ShouldSendMaxStreams(e))
  OBVIOUS
<1>2. p \in BOOLEAN
  BY <1>1
<1>3. PICK f : f = Reconsider(e)
  OBVIOUS
<1>4. f = [e EXCEPT !.pending = p]
  BY <1>1, <1>3 DEF Reconsider, Accepter
<1>5. /\ f \in Accepter /\ f.pending = p /\ f.next = e.next /\ f.num = e.num
      /\ f.open = e.open /\ f.sender = e.sender /\ f.sentmap = e.sentmap /\ f.error = e.error
  BY <1>2, <1>4 DEF Accepter
<1>6. ShouldSendMaxStreams(f) => ShouldSendMaxStreams(e)
  BY <1>5 DEF ShouldSendMaxStreams
<1> QED  BY <1>1, <1>3, <1>5, <1>6

\* a, left alone.
LEMMA SameOpener ==
  ASSUME SettingsAssumption, Inv
  PROVE  a = [a EXCEPT !.inflight = a.inflight]
BY Facts DEF Opener

\* sender and sentmap stay
LEMMA TruthKept ==
  ASSUME Inv, set' = set, b'.sender = b.sender, b'.sentmap = b.sentmap,
         a'.count = a.count, net' \subseteq net, arrived' \subseteq arrived
  PROVE  Truth'
BY TypesStay DEF Inv, Truth

\* Neither is Announced disturbed then.
LEMMA AnnouncedKept ==
  ASSUME Inv, set' = set, b'.sender = b.sender, b'.sentmap = b.sentmap,
         b.pending => b'.pending, a'.count = a.count, Running' => Running
  PROVE  Announced'
<1>1. ASSUME Running', a.count < b.sender.committed, Concurrency < b.sender.committed
      PROVE  \/ Entry(Frame("MAX_STREAMS", b.sender.committed), TRUE) \in b.sentmap
             \/ b.sender.lost /\ b'.pending
  BY <1>1 DEF Inv, Announced
<1> QED  BY <1>1, TypesStay DEF Announced

\* A stream of b is destroyed, which makes room for one more.
LEMMA CloseBInv ==
  ASSUME SettingsAssumption, Inv, NEW id \in Ids, CloseB(id)
  PROVE  Inv'
<1>1. /\ set' = set /\ a' = a /\ net' = net /\ arrived' = arrived
      /\ id \in b.open /\ Running
  BY DEF CloseB
<1>2. PICK e : e = [b EXCEPT !.open = @ \ {id}, !.num = @ - 1]
  OBVIOUS
<1>3. b' = Reconsider(e)
  BY <1>2 DEF CloseB
<1>4. b \in Accepter /\ b.num \in Nat /\ b.num <= MaxOpened /\ MaxOpened \in Nat /\ b.next \in Nat
      /\ b.sender.committed \in Int /\ Concurrency \in Nat
  BY Facts DEF Accepter
<1>5. /\ IsFiniteSet(b.open) /\ b.num = Cardinality(b.open)
      /\ b.sender.committed <= b.next - b.num + Concurrency /\ b.error # "STREAM_LIMIT"
  <2>1. 0 \in Int /\ MaxOpened - 1 \in Int
    BY <1>4
  <2>2. IsFiniteSet(Ids)
    BY <2>1, FS_Interval DEF Ids
  <2>3. b.open \subseteq Ids
    BY <1>4 DEF Accepter
  <2>4. IsFiniteSet(b.open)
    BY <2>2, <2>3, FS_Subset
  <2> QED  BY <2>4 DEF Inv, StreamsCounted
<1>6. Cardinality(b.open \ {id}) = b.num - 1 /\ b.num - 1 \in Nat
  <2>1. Cardinality(b.open \ {id}) = Cardinality(b.open) - 1
    BY <1>1, <1>5, FS_RemoveElement
  <2>2. IsFiniteSet(b.open \ {id})
    BY <1>5, FS_Subset
  <2>3. Cardinality(b.open \ {id}) \in Nat
    BY <2>2, FS_CardinalityType
  <2> QED  BY <1>5, <2>1, <2>3
<1>7. /\ e \in Accepter /\ e.next = b.next /\ e.num = b.num - 1 /\ e.open = b.open \ {id}
      /\ e.sender = b.sender /\ e.pending = b.pending /\ e.sentmap = b.sentmap
      /\ e.error = b.error
  <2>1. b.num - 1 \in 0 .. MaxOpened
    BY <1>4, <1>6
  <2> QED  BY <1>2, <1>4, <2>1 DEF Accepter
<1>8. /\ b' \in Accepter /\ b'.next = b.next /\ b'.num = b.num - 1 /\ b'.open = b.open \ {id}
      /\ b'.sender = b.sender /\ b'.sentmap = b.sentmap /\ b'.error = b.error
      /\ ShouldSendMaxStreams(b') => b'.pending
      /\ b.pending => b'.pending
  BY <1>3, <1>7, ReconsiderIs
<1>9. StreamsCounted'
  <2>1. b.sender.committed <= b.next - (b.num - 1) + Concurrency
    BY <1>4, <1>5
  <2> QED  BY <1>1, <1>5, <1>6, <1>8, <2>1, TypesStay DEF StreamsCounted
<1>10. Truth' /\ Announced'
  BY <1>1, <1>8, TruthKept, AnnouncedKept DEF Running
<1>11. /\ a.count <= b'.sender.committed /\ Concurrency <= b'.sender.committed
       /\ b'.open \subseteq 0 .. b'.next - 1 /\ b.next <= b'.next
  BY <1>4, <1>8 DEF Inv, Numbers
<1>12. a' = [a EXCEPT !.inflight = a.inflight] /\ net' \subseteq Frames /\ arrived' \subseteq Frames
  BY <1>1, SameOpener, Facts
<1> QED  BY <1>1, <1>8, <1>9, <1>10, <1>11, <1>12, AccepterInv DEF Running

\* b sends MAX_STREAMS, or sees that it need not: afterwards there is no reason to.
LEMMA SendMaxStreamsInv ==
  ASSUME SettingsAssumption, Inv, SendMaxStreams
  PROVE  Inv'
<1>1. set' = set /\ a' = a /\ arrived' = arrived /\ Running
  BY DEF SendMaxStreams
<1>2. /\ b \in Accepter /\ b.num \in Nat /\ b.num <= MaxOpened /\ MaxOpened \in Nat
      /\ b.next \in Nat /\ b.next <= MaxOpened /\ b.sender \in MaxSenders(Limits)
      /\ b.sender.committed \in Int /\ Concurrency \in Nat \ {0} /\ a.count \in Nat
      /\ b.sender.acked \in Int
  BY Facts DEF Accepter
<1>3. /\ b.num = Cardinality(b.open) /\ b.error # "STREAM_LIMIT"
      /\ b.sender.committed <= b.next - b.num + Concurrency
      /\ a.count <= b.sender.committed /\ Concurrency <= b.sender.committed
      /\ b.open \subseteq 0 .. b.next - 1
  BY DEF Inv, StreamsCounted, Numbers
<1>4. a' = [a EXCEPT !.inflight = a.inflight] /\ arrived' \subseteq Frames /\ net \subseteq Frames
  BY <1>1, SameOpener, Facts
<1>5. CASE ~ShouldSendMaxStreams(b)
  <2>1. b' = [b EXCEPT !.pending = FALSE] /\ net' = net
    BY <1>5 DEF SendMaxStreams
  <2>2. /\ b' \in Accepter /\ b'.next = b.next /\ b'.num = b.num /\ b'.open = b.open
        /\ b'.sender = b.sender /\ b'.sentmap = b.sentmap /\ b'.error = b.error
    BY <1>2, <2>1 DEF Accepter
  <2>3. ~ShouldSendMaxStreams(b')
    BY <1>5, <2>2 DEF ShouldSendMaxStreams
  <2>4. StreamsCounted'
    BY <1>1, <1>3, <2>2, TypesStay DEF StreamsCounted
  <2>5. Truth'
    BY <1>1, <2>1, <2>2, TruthKept
  <2>6. Announced'
    <3>1. ~b.sender.lost
      BY <1>5 DEF ShouldSendMaxStreams, MaxSenderShouldSendMax
    <3>2. ASSUME a.count < b.sender.committed, Concurrency < b.sender.committed
          PROVE  Entry(Frame("MAX_STREAMS", b.sender.committed), TRUE) \in b.sentmap
      BY <1>1, <3>1, <3>2 DEF Inv, Announced
    <3> QED  BY <1>1, <2>2, <3>2, TypesStay DEF Announced
  <2>7. b.next <= b'.next /\ b'.open \subseteq 0 .. b'.next - 1
    BY <1>2, <1>3, <2>2
  <2> QED  BY <1>1, <1>3, <1>4, <2>1, <2>2, <2>3, <2>4, <2>5, <2>6, <2>7, AccepterInv DEF Running
<1>6. CASE ShouldSendMaxStreams(b)
  <2>1. PICK v \in Int : v = b.next + Concurrency - b.num
    BY <1>2
  <2>2. PICK f : f = Frame("MAX_STREAMS", v)
    OBVIOUS
  <2>3. PICK s : s = MaxSenderRecord(b.sender, v)
    OBVIOUS
  <2>4. /\ b' = Emit([b EXCEPT !.pending = FALSE, !.sender = MaxSenderRecord(@, v)], f)
        /\ net' = net \cup {f}
    BY <1>6, <2>1, <2>2 DEF SendMaxStreams, NewCount
  <2>5. v \in Limits /\ b.sender.committed <= v
    BY <1>2, <1>3, <2>1 DEF Limits
  <2>6. f \in Frames /\ f.kind = "MAX_STREAMS" /\ f.v = v
    BY <2>2, <2>5 DEF Frames, Frame
  <2>7. s \in MaxSenders(Limits)
    BY <1>2, <2>3, <2>5, MaxSenderTypes
  <2>8. s.committed = v /\ ~s.lost /\ s.acked = b.sender.acked
    BY <1>2, <2>1, <2>3 DEF MaxSenderRecord, MaxSenders
  <2>9. b' = [b EXCEPT !.pending = FALSE, !.sender = s, !.sentmap = b.sentmap \cup {Entry(f, TRUE)}]
    BY <1>2, <2>3, <2>4 DEF Emit, Accepter
  <2>10. Entry(f, TRUE) \in [frame : Frames, live : BOOLEAN] /\ Entry(f, TRUE).frame = f
    BY <2>6 DEF Entry
  <2>11. /\ b' \in Accepter /\ b'.next = b.next /\ b'.num = b.num /\ b'.open = b.open
         /\ b'.sender = s /\ b'.sentmap = b.sentmap \cup {Entry(f, TRUE)} /\ b'.error = b.error
    BY <1>2, <2>7, <2>9, <2>10 DEF Accepter
  <2>12. ~ShouldSendMaxStreams(b')
    <3>1. PICK w \in Int : w = (Concurrency * 768) \div 1024 /\ w < Concurrency
      BY <1>2
    <3>2. /\ ~(b.next - b.num + Concurrency > v)
          /\ ~(v <= b.next - b.num + w)
      BY <1>2, <2>1, <3>1
    <3> QED  BY <2>8, <2>11, <3>1, <3>2 DEF ShouldSendMaxStreams, MaxSenderShouldSendMax
  <2>13. StreamsCounted'
    <3>1. v <= b.next - b.num + Concurrency
      BY <1>2, <2>1
    <3> QED  BY <1>1, <1>3, <2>8, <2>11, <3>1, TypesStay DEF StreamsCounted
  <2>14. Truth'
    <3>1. Truth
      BY DEF Inv
    <3>2. \A m \in net' : /\ m.kind = "MAX_STREAMS" => m.v <= v
                          /\ m.kind = "STREAMS_BLOCKED" => m.v <= a.count
      <4>1. ASSUME NEW m \in net, m.kind = "MAX_STREAMS" PROVE m.v <= v
        <5>1. m.v \in Int
          BY <1>4, FramesAre
        <5>2. m.v <= b.sender.committed
          BY <3>1, <4>1 DEF Truth
        <5> QED  BY <1>2, <2>5, <5>1, <5>2
      <4>2. ASSUME NEW m \in net, m.kind = "STREAMS_BLOCKED" PROVE m.v <= a.count
        BY <3>1, <4>2 DEF Truth
      <4>3. f.v <= v
        BY <2>6
      <4> QED  BY <2>4, <2>6, <4>1, <4>2, <4>3
    <3>3. \A x \in b'.sentmap : x.frame.kind = "MAX_STREAMS"
      BY <2>6, <2>10, <2>11, <3>1 DEF Truth
    <3> QED  BY <1>1, <2>8, <2>11, <3>1, <3>2, <3>3, TypesStay DEF Truth
  <2>15. Announced'
    <3>1. Entry(Frame("MAX_STREAMS", b'.sender.committed), TRUE) \in b'.sentmap
      BY <2>2, <2>8, <2>11
    <3> QED  BY <3>1 DEF Announced, Entry, Frame
  <2>16. /\ a.count <= b'.sender.committed /\ Concurrency <= b'.sender.committed
         /\ b.next <= b'.next /\ b'.open \subseteq 0 .. b'.next - 1
    BY <1>2, <1>3, <2>5, <2>8, <2>11
  <2>17. net' \subseteq Frames /\ \A m \in net' : m \in net \/ m.kind = "MAX_STREAMS"
    BY <1>4, <2>4, <2>6
  <2> QED  BY <1>1, <1>4, <2>11, <2>12, <2>13, <2>14, <2>15, <2>16, <2>17, AccepterInv DEF Running
<1> QED  BY <1>5, <1>6

\* b learns what becomes of a MAX_STREAMS frame
LEMMA AnsweredInv ==
  ASSUME SettingsAssumption, Inv, set' = set, a' = a, net' \subseteq net, arrived' \subseteq Frames,
         \A m \in arrived' : m.kind = "MAX_STREAMS" => m \in arrived,
         NEW s \in MaxSenders(Limits), NEW p \in BOOLEAN,
         NEW q \in SUBSET [frame : Frames, live : BOOLEAN],
         b' = [b EXCEPT !.sender = s, !.pending = p, !.sentmap = q],
         s.committed = b.sender.committed, b.pending => p,
         s.acked <= Concurrency \/ s.acked <= a.count,
         Running /\ ShouldSendMaxStreams(b') => p,
         \A x \in q : x.frame.kind = "MAX_STREAMS",
         Announced'
  PROVE  Inv'
<1>1. b \in Accepter /\ b.next \in Nat /\ net \subseteq Frames
  BY Facts
<1>2. /\ b' \in Accepter /\ b'.next = b.next /\ b'.num = b.num /\ b'.open = b.open
      /\ b'.sender = s /\ b'.sentmap = q /\ b'.error = b.error /\ b'.pending = p
  BY <1>1 DEF Accepter
<1>3. StreamsCounted'
  BY <1>2, TypesStay DEF Inv, StreamsCounted
<1>4. Truth'
  BY <1>2, TypesStay DEF Inv, Truth
<1>5. /\ a.count <= b'.sender.committed /\ Concurrency <= b'.sender.committed
      /\ b.next <= b'.next /\ b'.open \subseteq 0 .. b'.next - 1
  BY <1>1, <1>2 DEF Inv, Numbers
<1>6. a' = [a EXCEPT !.inflight = a.inflight]
  BY SameOpener
<1> QED  BY <1>1, <1>2, <1>3, <1>4, <1>5, <1>6, AccepterInv DEF Running

\* An acknowledgement gives no reason to send.
LEMMA LessToSend ==
  ASSUME NEW m, NEW s, s.committed = m.committed, s.lost => m.lost,
         s.remote_blocked = m.remote_blocked, NEW from, NEW consumed, NEW window, NEW ratio,
         MaxSenderShouldSendMax(s, from, consumed, window, ratio)
  PROVE  MaxSenderShouldSendMax(m, from, consumed, window, ratio)
BY DEF MaxSenderShouldSendMax

\* MAX_STREAMS is acknowledged: a has that limit, so a later one is still under way.
LEMMA AckBInv ==
  ASSUME SettingsAssumption, Inv, set' = set, a' = a, net' = net, Forget,
         NEW x \in b.sentmap, x.frame \in arrived, b' = Acked(Without(b, x), x)
  PROVE  Inv'
<1>1. /\ b \in Accepter /\ b.sender \in MaxSenders(Limits) /\ b.pending \in BOOLEAN
      /\ b.sentmap \in SUBSET [frame : Frames, live : BOOLEAN]
      /\ b.sender.committed \in Int /\ b.sender.acked \in Int
      /\ a.count \in Nat /\ Concurrency \in Nat /\ arrived \subseteq Frames
  BY Facts DEF Accepter
<1>2. PICK v \in Limits : v = x.frame.v /\ v \in Int
  BY <1>1, FramesAre
<1>3. v <= a.count
  BY <1>2 DEF Inv, Truth
<1>4. PICK s : s = MaxSenderAcked(b.sender, v)
  OBVIOUS
<1>5. s \in MaxSenders(Limits)
  BY <1>1, <1>2, <1>4, MaxSenderTypes
<1>6. /\ s.committed = b.sender.committed /\ s.remote_blocked = b.sender.remote_blocked
      /\ s.acked = (IF b.sender.acked < v THEN v ELSE b.sender.acked)
      /\ s.lost = (b.sender.lost /\ s.acked # b.sender.committed)
  BY <1>1, <1>4 DEF MaxSenderAcked, MaxSenders
<1>7. s.acked <= Concurrency \/ s.acked <= a.count
  BY <1>1, <1>2, <1>3, <1>6 DEF Inv, Truth
<1>8. b' = [b EXCEPT !.sender = s, !.pending = b.pending, !.sentmap = b.sentmap \ {x}]
  BY <1>1, <1>2, <1>4 DEF Acked, Without, Accepter
<1>9. /\ b'.next = b.next /\ b'.num = b.num /\ b'.sender = s /\ b'.error = b.error
      /\ b'.sentmap = b.sentmap \ {x} /\ b'.pending = b.pending
  BY <1>1, <1>8 DEF Accepter
<1>10. Running /\ ShouldSendMaxStreams(b') => b.pending
  <2>1. ASSUME ShouldSendMaxStreams(b') PROVE ShouldSendMaxStreams(b)
    <3>1. s.lost => b.sender.lost
      BY <1>6
    <3>2. MaxSenderShouldSendMax(s, b.next - b.num, b.next, Concurrency, 768)
      BY <1>9, <2>1 DEF ShouldSendMaxStreams
    <3> QED  BY <1>6, <3>1, <3>2, LessToSend DEF ShouldSendMaxStreams
  <2> QED  BY <2>1 DEF Inv, SignalsPending
<1>11. Announced'
  <2>1. ASSUME Running, a.count < b.sender.committed, Concurrency < b.sender.committed
        PROVE  \/ Entry(Frame("MAX_STREAMS", b.sender.committed), TRUE) \in b'.sentmap
               \/ s.lost /\ b.pending
    <3>1. s.acked # b.sender.committed
      <4>1. s.acked \in Int
        BY <1>1, <1>2, <1>6
      <4> QED  BY <1>1, <1>7, <2>1, <4>1
    <3>2. CASE b.sender.lost /\ b.pending
      BY <1>6, <3>1, <3>2
    <3>3. CASE Entry(Frame("MAX_STREAMS", b.sender.committed), TRUE) \in b.sentmap
      <4>1. v # b.sender.committed
        BY <1>1, <1>2, <1>3, <2>1
      <4>2. x # Entry(Frame("MAX_STREAMS", b.sender.committed), TRUE)
        BY <1>2, <4>1 DEF Entry, Frame
      <4> QED  BY <1>9, <3>3, <4>2
    <3> QED  BY <2>1, <3>2, <3>3 DEF Inv, Announced
  <2> QED  BY <1>6, <1>9, <2>1, TypesStay DEF Announced, Running
<1>12. /\ \A y \in b.sentmap \ {x} : y.frame.kind = "MAX_STREAMS"
       /\ b.sentmap \ {x} \in SUBSET [frame : Frames, live : BOOLEAN]
  BY <1>1 DEF Inv, Truth
<1>13. /\ arrived' \subseteq Frames /\ net' \subseteq net
       /\ \A m \in arrived' : m.kind = "MAX_STREAMS" => m \in arrived
  BY <1>1, Forgotten
<1> QED  BY <1>1, <1>5, <1>6, <1>7, <1>8, <1>10, <1>11, <1>12, <1>13, AnsweredInv

\* MAX_STREAMS is lost: the latest is sent again, unless a has it.
LEMMA LossBInv ==
  ASSUME SettingsAssumption, Inv, set' = set, a' = a, net' = net, Forget,
         NEW x \in b.sentmap, NEW e \in GivenUp(b, x), b' = LostB(e, x)
  PROVE  Inv'
<1>1. /\ b \in Accepter /\ b.sender \in MaxSenders(Limits) /\ b.pending \in BOOLEAN
      /\ b.sentmap \in SUBSET [frame : Frames, live : BOOLEAN]
      /\ b.sender.committed \in Int /\ b.sender.acked \in Int
      /\ a.count \in Nat /\ Concurrency \in Nat /\ arrived \subseteq Frames
  BY Facts DEF Accepter
<1>2. PICK v \in Limits : v = x.frame.v
  BY <1>1, FramesAre
<1>3. \A y \in b.sentmap : y.frame.kind = "MAX_STREAMS"
  BY DEF Inv, Truth
<1>4. PICK q \in SUBSET [frame : Frames, live : BOOLEAN] :
        /\ e = [b EXCEPT !.sentmap = q]
        /\ b.sentmap \ {x} \subseteq q
        /\ \A y \in q : y.frame.kind = "MAX_STREAMS"
  <2>1. e = Without(b, x) \/ e = [b EXCEPT !.sentmap = (@ \ {x}) \cup {Entry(x.frame, FALSE)}]
    BY DEF GivenUp
  <2>2. b.sentmap \ {x} \in SUBSET [frame : Frames, live : BOOLEAN]
    BY <1>1
  <2>3. PICK y : y = Entry(x.frame, FALSE)
    OBVIOUS
  <2>4. y \in [frame : Frames, live : BOOLEAN] /\ y.frame.kind = "MAX_STREAMS"
    <3>1. x.frame \in Frames /\ x.frame.kind = "MAX_STREAMS"
      BY <1>1, <1>3
    <3> QED  BY <2>3, <3>1 DEF Entry
  <2>5. (b.sentmap \ {x}) \cup {y} \in SUBSET [frame : Frames, live : BOOLEAN]
    BY <2>2, <2>4
  <2>6. CASE e = Without(b, x)
    BY <1>1, <1>3, <2>2, <2>6 DEF Without, Accepter
  <2>7. CASE e = [b EXCEPT !.sentmap = (@ \ {x}) \cup {Entry(x.frame, FALSE)}]
    BY <1>1, <1>3, <2>3, <2>4, <2>5, <2>7 DEF Accepter
  <2> QED  BY <2>1, <2>6, <2>7
<1>5. PICK s : s = MaxSenderLost(b.sender, v)
  OBVIOUS
<1>6. s \in MaxSenders(Limits)
  BY <1>1, <1>2, <1>5, MaxSenderTypes
<1>7. PICK again : again = (v = b.sender.committed /\ b.sender.acked # b.sender.committed)
  OBVIOUS
<1>8. /\ again \in BOOLEAN /\ (~again => s = b.sender)
      /\ s.committed = b.sender.committed /\ s.acked = b.sender.acked
      /\ (again \/ b.sender.lost => s.lost)
  BY <1>1, <1>5, <1>7 DEF MaxSenderLost, MaxSenderNeedsResend, MaxSenders
<1>9. PICK p : p = (b.pending \/ again)
  OBVIOUS
<1>10. p \in BOOLEAN
  BY <1>9
<1>11. b' = [b EXCEPT !.sender = s, !.pending = p, !.sentmap = q]
  <2>1. e.sender = b.sender /\ e.pending = b.pending
    BY <1>1, <1>4 DEF Accepter
  <2>2. b' = [e EXCEPT !.sender = s, !.pending = p]
    BY <1>1, <1>2, <1>4, <1>5, <1>7, <1>9, <2>1 DEF LostB, MaxSenderNeedsResend, Accepter
  <2> QED  BY <1>1, <1>4, <2>2 DEF Accepter
<1>12. /\ b'.next = b.next /\ b'.num = b.num /\ b'.sender = s /\ b'.error = b.error
       /\ b'.sentmap = q /\ b'.pending = p
  BY <1>1, <1>11 DEF Accepter
<1>13. Running /\ ShouldSendMaxStreams(b') => p
  <2>1. CASE again
    BY <1>9, <2>1
  <2>2. CASE ~again
    <3>1. ShouldSendMaxStreams(b') => ShouldSendMaxStreams(b)
      BY <1>8, <1>12, <2>2 DEF ShouldSendMaxStreams
    <3> QED  BY <1>9, <3>1 DEF Inv, SignalsPending
  <2> QED  BY <1>8, <2>1, <2>2
<1>14. s.acked <= Concurrency \/ s.acked <= a.count
  BY <1>8 DEF Inv, Truth
<1>15. Announced'
  <2>1. ASSUME Running, a.count < b.sender.committed, Concurrency < b.sender.committed
        PROVE  \/ Entry(Frame("MAX_STREAMS", b.sender.committed), TRUE) \in q
               \/ s.lost /\ p
    <3>1. b.sender.acked # b.sender.committed
      BY <1>1, <1>8, <1>14, <2>1
    <3>2. CASE b.sender.lost /\ b.pending
      BY <1>8, <1>9, <3>2
    <3>3. CASE Entry(Frame("MAX_STREAMS", b.sender.committed), TRUE) \in b.sentmap
      <4>1. CASE x = Entry(Frame("MAX_STREAMS", b.sender.committed), TRUE)
        <5>1. v = b.sender.committed
          BY <1>2, <4>1 DEF Entry, Frame
        <5>2. again
          BY <1>7, <3>1, <5>1
        <5> QED  BY <1>8, <1>9, <5>2
      <4>2. CASE x # Entry(Frame("MAX_STREAMS", b.sender.committed), TRUE)
        BY <1>4, <3>3, <4>2
      <4> QED  BY <4>1, <4>2
    <3> QED  BY <2>1, <3>2, <3>3 DEF Inv, Announced
  <2> QED  BY <1>8, <1>12, <2>1, TypesStay DEF Announced, Running
<1>16. /\ arrived' \subseteq Frames /\ net' \subseteq net /\ (b.pending => p)
       /\ \A m \in arrived' : m.kind = "MAX_STREAMS" => m \in arrived
  BY <1>1, <1>9, Forgotten
<1> QED  BY <1>4, <1>6, <1>8, <1>10, <1>11, <1>13, <1>14, <1>15, <1>16, AnsweredInv

-----------------------------------------------------------------------------
(* Frames arrive *)

\* the streams up to i are there, whatever becomes of the rest of b
LEMMA Accepting ==
  ASSUME SettingsAssumption, Inv, NEW i \in Ids, b.next <= i,
         NEW error \in {"none", "STREAM_LIMIT", "callback"}
  PROVE  LET e == [b EXCEPT !.next = i + 1, !.num = b.num + i + 1 - b.next,
                            !.open = b.open \cup (b.next .. i), !.error = error]
         IN  /\ e \in Accepter /\ e.next = i + 1 /\ e.num = b.num + i + 1 - b.next
             /\ e.num = Cardinality(e.open) /\ e.open \subseteq 0 .. i
             /\ b.sender.committed <= e.next - e.num + Concurrency
             /\ e.sender = b.sender /\ e.pending = b.pending /\ e.sentmap = b.sentmap
             /\ e.error = error
<1>1. /\ b \in Accepter /\ b.num \in Nat /\ MaxOpened \in Nat /\ b.next \in Nat
      /\ b.sender.committed \in Int /\ Concurrency \in Nat /\ i \in Nat /\ i < MaxOpened
  BY Facts DEF Ids
<1>2. /\ b.open \subseteq 0 .. b.next - 1 /\ b.num = Cardinality(b.open)
      /\ b.sender.committed <= b.next - b.num + Concurrency
  BY DEF Inv, Numbers, StreamsCounted
<1>3. IsFiniteSet(b.open) /\ b.num <= b.next
  <2>1. 0 \in Int /\ b.next - 1 \in Int
    BY <1>1
  <2>2. /\ IsFiniteSet(0 .. b.next - 1)
        /\ Cardinality(0 .. b.next - 1) = IF 0 > b.next - 1 THEN 0 ELSE b.next - 1 - 0 + 1
    BY <2>1, FS_Interval
  <2>3. IsFiniteSet(b.open) /\ Cardinality(b.open) <= Cardinality(0 .. b.next - 1)
    BY <1>2, <2>2, FS_Subset
  <2>4. (IF 0 > b.next - 1 THEN 0 ELSE b.next - 1 - 0 + 1) = b.next
    BY <1>1
  <2> QED  BY <1>2, <2>2, <2>3, <2>4
<1>4. IsFiniteSet(b.next .. i) /\ Cardinality(b.next .. i) = i + 1 - b.next
  <2>1. b.next \in Int /\ i \in Int
    BY <1>1
  <2>2. /\ IsFiniteSet(b.next .. i)
        /\ Cardinality(b.next .. i) = IF b.next > i THEN 0 ELSE i - b.next + 1
    BY <2>1, FS_Interval
  <2>3. (IF b.next > i THEN 0 ELSE i - b.next + 1) = i + 1 - b.next
    BY <1>1
  <2> QED  BY <2>2, <2>3
<1>5. PICK open : open = b.open \cup (b.next .. i)
  OBVIOUS
<1>6. Cardinality(open) = b.num + i + 1 - b.next
  <2>1. b.open \cap (b.next .. i) = {}
    BY <1>1, <1>2
  <2>2. Cardinality(open) = Cardinality(b.open) + Cardinality(b.next .. i)
                            - Cardinality(b.open \cap (b.next .. i))
    BY <1>3, <1>4, <1>5, FS_Union
  <2>3. Cardinality(b.open \cap (b.next .. i)) = 0
    BY <2>1, FS_EmptySet
  <2>4. Cardinality(open) = b.num + (i + 1 - b.next) - 0
    BY <1>2, <1>4, <2>2, <2>3
  <2> QED  BY <1>1, <2>4
<1>7. /\ open \subseteq 0 .. i /\ open \subseteq Ids
      /\ i + 1 \in 0 .. MaxOpened /\ b.num + i + 1 - b.next \in 0 .. MaxOpened
      /\ b.sender.committed <= (i + 1) - (b.num + i + 1 - b.next) + Concurrency
  <2>1. open \subseteq 0 .. i
    BY <1>1, <1>2, <1>5
  <2>2. 0 .. i \subseteq Ids
    BY <1>1 DEF Ids
  <2>3. i + 1 \in 0 .. MaxOpened /\ b.num + i + 1 - b.next \in 0 .. MaxOpened
    BY <1>1, <1>3
  <2>4. b.sender.committed <= (i + 1) - (b.num + i + 1 - b.next) + Concurrency
    BY <1>1, <1>2
  <2> QED  BY <2>1, <2>2, <2>3, <2>4
<1>8. PICK e : e = [b EXCEPT !.next = i + 1, !.num = b.num + i + 1 - b.next,
                             !.open = b.open \cup (b.next .. i), !.error = error]
  OBVIOUS
<1>9. /\ e.next = i + 1 /\ e.num = b.num + i + 1 - b.next /\ e.open = open
      /\ e.sender = b.sender /\ e.pending = b.pending /\ e.sentmap = b.sentmap
      /\ e.error = error
  BY <1>1, <1>5, <1>8 DEF Accepter
<1>10. e \in Accepter
  BY <1>1, <1>5, <1>7, <1>8 DEF Accepter
<1> QED  BY <1>6, <1>7, <1>8, <1>9, <1>10

\* A stream arrives at b, which cannot be beyond the limit.
LEMMA StreamArrives ==
  ASSUME SettingsAssumption, Inv, NEW m \in net, m.kind = "STREAM", Arrive(m)
  PROVE  Inv'
<1>1. PICK v \in Ids : v = m.v /\ v \in Nat /\ v < a.count /\ m = Frame("STREAM", v)
  <2>1. m \in Frames /\ Ids \subseteq Nat
    BY Facts
  <2>2. m = Frame("STREAM", m.v)
    BY <2>1, FramesAre
  <2> QED  BY <2>1, <2>2 DEF Inv, Admitted
<1>2. /\ set' = set /\ Running /\ net' = net \ {m} /\ b' \in ReceiveStream(v)
      /\ a' = [a EXCEPT !.inflight = @ \ {v}, !.linked = @ \ {v}]
      /\ arrived' \subseteq arrived \cup {m}
  BY <1>1 DEF Arrive
<1>3. PICK F : F = a.inflight \ {v} /\ F \subseteq a.inflight
  OBVIOUS
<1>4. a' = [a EXCEPT !.inflight = F] /\ a'.count = a.count
  <2>1. v \notin a.linked
    BY <1>1 DEF Inv, Admitted
  <2>2. a.linked \ {v} = a.linked
    BY <2>1
  <2>3. a \in Opener
    BY Facts
  <2> QED  BY <1>2, <1>3, <2>2, <2>3 DEF Opener
<1>5. /\ b \in Accepter /\ b.next \in Nat /\ b.sender.committed \in Int /\ a.count \in Nat
      /\ net \subseteq Frames /\ arrived \subseteq Frames
  BY Facts
<1>6. /\ a.count <= b.sender.committed /\ Concurrency <= b.sender.committed
      /\ b.open \subseteq 0 .. b.next - 1 /\ b.num = Cardinality(b.open)
      /\ b.sender.committed <= b.next - b.num + Concurrency /\ b.error = "none"
  BY <1>2 DEF Inv, Numbers, StreamsCounted, Running
<1>7. /\ b' \in Accepter /\ b'.num = Cardinality(b'.open)
      /\ b'.open \subseteq 0 .. b'.next - 1
      /\ b.sender.committed <= b'.next - b'.num + Concurrency
      /\ b'.sender = b.sender /\ b'.sentmap = b.sentmap
      /\ b'.error # "STREAM_LIMIT" /\ b.next <= b'.next
      /\ b.pending => b'.pending
      /\ b'.error = "none" => v < b'.next
      /\ b'.error = "none" /\ ShouldSendMaxStreams(b') => b'.pending
  <2>1. CASE b' = b /\ v < b.next
    BY <1>2, <1>5, <1>6, <2>1 DEF Inv, SignalsPending
  <2>2. CASE b.next <= v /\ b' = AcceptUpTo(b, v)
    <3>1. PICK e : e = [b EXCEPT !.next = v + 1, !.num = b.num + v + 1 - b.next,
                                 !.open = b.open \cup (b.next .. v), !.error = "none"]
      OBVIOUS
    <3>2. /\ e \in Accepter /\ e.next = v + 1 /\ e.num = b.num + v + 1 - b.next
          /\ e.num = Cardinality(e.open) /\ e.open \subseteq 0 .. v
          /\ b.sender.committed <= e.next - e.num + Concurrency
          /\ e.sender = b.sender /\ e.pending = b.pending /\ e.sentmap = b.sentmap
          /\ e.error = "none"
      BY <2>2, <3>1, Accepting
    <3>3. b' = Reconsider(e)
      <4>1. e = [b EXCEPT !.next = v + 1, !.num = @ + v + 1 - b.next,
                          !.open = @ \cup b.next .. v]
        BY <1>5, <1>6, <3>1 DEF Accepter
      <4> QED  BY <2>2, <4>1 DEF AcceptUpTo
    <3>4. /\ b' \in Accepter
          /\ ShouldSendMaxStreams(b') => b'.pending
          /\ e.pending => b'.pending
          /\ b'.next = e.next /\ b'.num = e.num /\ b'.open = e.open
          /\ b'.sender = e.sender /\ b'.sentmap = e.sentmap /\ b'.error = e.error
      BY <3>2, <3>3, ReconsiderIs
    <3>5. v < b'.next /\ b.next <= b'.next /\ b'.next - 1 = v
      <4>1. b'.next = v + 1
        BY <3>2, <3>4
      <4>2. v \in Nat /\ b.next \in Nat /\ b.next <= v
        BY <1>1, <1>5, <2>2
      <4> QED  BY <4>1, <4>2
    <3>6. b'.open \subseteq 0 .. b'.next - 1
      BY <3>2, <3>4, <3>5
    <3>7. b.pending => b'.pending
      BY <3>2, <3>4
    <3>8. /\ b'.num = Cardinality(b'.open) /\ b'.sender = b.sender /\ b'.sentmap = b.sentmap
          /\ b.sender.committed <= b'.next - b'.num + Concurrency /\ b'.error # "STREAM_LIMIT"
      BY <3>2, <3>4
    <3> QED  BY <3>4, <3>5, <3>6, <3>7, <3>8
  <2>3. CASE b.next <= v /\ \E i \in b.next .. v : b' = CallbackFails(b, i)
    <3>1. PICK i \in b.next .. v : b' = CallbackFails(b, i)
      BY <2>3
    <3>2. i \in Ids /\ b.next <= i /\ i \in Nat /\ b.next <= i + 1 /\ i + 1 - 1 = i
      <4>1. MaxOpened \in Nat
        BY Facts
      <4> QED  BY <1>1, <1>5, <3>1, <4>1 DEF Ids
    <3>3. PICK e : e = [b EXCEPT !.next = i + 1, !.num = b.num + i + 1 - b.next,
                                 !.open = b.open \cup (b.next .. i), !.error = "callback"]
      OBVIOUS
    <3>4. /\ e \in Accepter /\ e.next = i + 1 /\ e.num = b.num + i + 1 - b.next
          /\ e.num = Cardinality(e.open) /\ e.open \subseteq 0 .. i
          /\ b.sender.committed <= e.next - e.num + Concurrency
          /\ e.sender = b.sender /\ e.pending = b.pending /\ e.sentmap = b.sentmap
          /\ e.error = "callback"
      BY <3>2, <3>3, Accepting
    <3>5. b' = e
      BY <1>5, <3>1, <3>3 DEF CallbackFails, Accepter
    <3> QED  BY <3>2, <3>4, <3>5
  <2>4. v \in b.open => v < b.next
    BY <1>5, <1>6
  <2>5. ~(v >= b.sender.committed)
    BY <1>1, <1>5, <1>6
  <2> QED  BY <1>1, <1>2, <1>5, <2>1, <2>2, <2>3, <2>4, <2>5 DEF ReceiveStream
<1>8. StreamsCounted'
  BY <1>2, <1>7, TypesStay DEF StreamsCounted
<1>9. Truth'
  <2>1. m.kind # "MAX_STREAMS"
    OBVIOUS
  <2> QED  BY <1>2, <1>4, <1>7, <2>1, TypesStay DEF Inv, Truth
<1>10. Announced'
  BY <1>2, <1>4, <1>7, AnnouncedKept
<1>11. net' \subseteq Frames /\ arrived' \subseteq Frames /\ \A n \in net' : n \in net
  BY <1>2, <1>5
<1>12. Running' => \A id \in a.inflight \ F : id < b'.next
  BY <1>3, <1>7 DEF Running
<1>13. Running' /\ ShouldSendMaxStreams(b') => b'.pending
  BY <1>7 DEF Running
<1> QED  BY <1>2, <1>3, <1>4, <1>6, <1>7, <1>8, <1>9, <1>10, <1>11, <1>12, <1>13, AccepterInv

\* STREAMS_BLOCKED arrives at b: at the latest limit it says that a has this one.
LEMMA StreamsBlockedArrives ==
  ASSUME SettingsAssumption, Inv, NEW m \in net, m.kind = "STREAMS_BLOCKED", Arrive(m)
  PROVE  Inv'
<1>1. /\ b \in Accepter /\ b.sender \in MaxSenders(Limits) /\ b.pending \in BOOLEAN
      /\ b.sentmap \in SUBSET [frame : Frames, live : BOOLEAN]
      /\ b.sender.committed \in Int /\ b.sender.acked \in Int
      /\ a.count \in Nat /\ net \subseteq Frames /\ arrived \subseteq Frames
  BY Facts DEF Accepter
<1>2. PICK v \in Limits : v = m.v /\ v \in Int
  BY <1>1, FramesAre
<1>3. v <= a.count /\ a.count <= b.sender.committed
  BY <1>2 DEF Inv, Truth, Numbers
<1>4. /\ set' = set /\ Running /\ net' = net \ {m} /\ a' = a
      /\ b' = ReceiveStreamsBlocked(v) /\ arrived' \subseteq arrived \cup {m}
  BY <1>2 DEF Arrive
<1>5. PICK s : s = MaxSenderBlocked(b.sender, v)
  OBVIOUS
<1>6. s \in MaxSenders(Limits)
  BY <1>1, <1>2, <1>5, MaxSenderTypes
<1>7. PICK e : e = [b EXCEPT !.sender = s]
  OBVIOUS
<1>8. /\ e \in Accepter /\ e.next = b.next /\ e.num = b.num /\ e.open = b.open /\ e.sender = s
      /\ e.sentmap = b.sentmap /\ e.pending = b.pending /\ e.error = b.error
  BY <1>1, <1>6, <1>7 DEF Accepter
<1>9. b' = Reconsider(e)
  BY <1>1, <1>4, <1>5, <1>7 DEF ReceiveStreamsBlocked, Accepter
<1>10. PICK p : p = (b.pending \/ ShouldSendMaxStreams(e))
  OBVIOUS
<1>11. p \in BOOLEAN /\ (b.pending => p)
  BY <1>10
<1>12. b' = [b EXCEPT !.sender = s, !.pending = p, !.sentmap = b.sentmap]
  <2>1. b' = [e EXCEPT !.pending = p]
    BY <1>8, <1>9, <1>10 DEF Reconsider, Accepter
  <2> QED  BY <1>1, <1>7, <2>1 DEF Accepter
<1>13. /\ b'.sender = s /\ b'.sentmap = b.sentmap /\ b'.pending = p /\ b'.error = b.error
  BY <1>1, <1>12 DEF Accepter
<1>14. Running /\ ShouldSendMaxStreams(b') => p
  BY <1>8, <1>9, <1>13, ReconsiderIs
<1>15. \/ s = b.sender
       \/ /\ v = b.sender.committed /\ s.committed = b.sender.committed
          /\ s.acked = b.sender.committed
  BY <1>1, <1>5 DEF MaxSenderBlocked, MaxSenders
<1>16. /\ s.committed = b.sender.committed
       /\ s.acked <= Concurrency \/ s.acked <= a.count
  BY <1>1, <1>2, <1>3, <1>15 DEF Inv, Truth
<1>17. Announced'
  <2>1. ASSUME Running, a.count < b.sender.committed, Concurrency < b.sender.committed
        PROVE  \/ Entry(Frame("MAX_STREAMS", b.sender.committed), TRUE) \in b.sentmap
               \/ s.lost /\ p
    <3>1. v # b.sender.committed
      BY <1>1, <1>2, <1>3, <2>1
    <3>2. s = b.sender
      BY <1>15, <3>1
    <3> QED  BY <1>11, <2>1, <3>2 DEF Inv, Announced
  <2> QED  BY <1>4, <1>13, <1>16, <2>1, TypesStay DEF Announced
<1>18. /\ arrived' \subseteq Frames /\ net' \subseteq net
       /\ \A n \in arrived' : n.kind = "MAX_STREAMS" => n \in arrived
  BY <1>1, <1>4
<1>19. \A x \in b.sentmap : x.frame.kind = "MAX_STREAMS"
  BY DEF Inv, Truth
<1> QED  BY <1>1, <1>4, <1>6, <1>11, <1>12, <1>14, <1>16, <1>17, <1>18, <1>19, AnsweredInv

\* MAX_STREAMS arrives at a: what it admits is scheduled, or nothing is new.
LEMMA MaxStreamsArrives ==
  ASSUME SettingsAssumption, Inv, NEW m \in net, m.kind = "MAX_STREAMS", Arrive(m)
  PROVE  Inv'
<1>1. /\ a \in Opener /\ a.pending \in BOOLEAN /\ a.ready \in BOOLEAN /\ a.count \in Nat
      /\ a.next \in Nat /\ net \subseteq Frames /\ arrived \subseteq Frames
      /\ b.sender.committed \in Int /\ Concurrency \in Nat
  BY Facts DEF Opener
<1>2. PICK v \in Limits : v = m.v /\ v \in Int
  BY <1>1, FramesAre
<1>3. /\ set' = set /\ b' = b /\ net' = net \ {m} /\ net' \subseteq net
      /\ a' = OpenBlockedStreams(UpdateMaxStreams(a, v)) /\ arrived' \subseteq arrived \cup {m}
  BY <1>2 DEF Arrive, ReceiveMaxStreams
<1>4. v <= b.sender.committed
  BY <1>2 DEF Inv, Truth
<1>5. PICK d \in Nat :
        /\ d = IF a.count < v THEN v ELSE a.count
        /\ d \in Limits /\ a.count <= d /\ v <= d /\ d <= b.sender.committed
        /\ a' = Raised(d) /\ Raised(d) \in Opener
  BY <1>3, <1>4, Raising
<1>6. /\ a'.next = a.next /\ a'.count = d /\ a'.waiting = Wait(a.next, d)
      /\ a'.linked = a.linked \cup {id \in Ids : a.count <= id /\ id < d /\ id < a.next}
      /\ a'.ready = a.ready /\ a'.pending = a.pending /\ a'.sender = a.sender
      /\ a' = [Raised(d) EXCEPT !.pending = a.pending, !.ready = a.ready]
  BY <1>1, <1>5 DEF Raised, Opener
<1>7. a.ready => Concurrency <= d
  BY <1>1, <1>5 DEF Inv, Numbers
<1>8. ASSUME a.ready, SendsBlocked(a') PROVE a.pending \/ a'.linked # {}
  <2>1. a'.waiting # <<>>
    BY <1>8 DEF SendsBlocked
  <2>2. ~(a.next <= d)
    BY <1>1, <1>6, <2>1, WaitIs
  <2>3. CASE a.count < d
    <3>1. a.count \in Ids
      BY <1>1, <2>2, <2>3, Facts
    <3>2. a.count \in a'.linked
      BY <1>1, <1>6, <2>2, <2>3, <3>1
    <3> QED  BY <3>2
  <2>4. CASE a.count = d
    <3>1. a'.waiting = a.waiting
      BY <1>6, <2>4, Facts
    <3>2. SendsBlocked(a)
      BY <1>6, <1>8, <2>4, <3>1 DEF SendsBlocked
    <3>3. a.pending \/ a.linked # {}
      BY <1>8, <3>2 DEF Inv, SignalsPending
    <3> QED  BY <1>6, <3>3
  <2> QED  BY <1>1, <1>5, <2>3, <2>4
<1>9. \A n \in arrived' : n.kind = "MAX_STREAMS" => n.v <= d
  <2>1. ASSUME NEW n \in arrived, n.kind = "MAX_STREAMS" PROVE n.v <= d
    <3>1. n.v \in Int
      BY <1>1, FramesAre
    <3>2. n.v <= a.count
      BY <2>1 DEF Inv, Truth
    <3> QED  BY <1>1, <1>5, <3>1, <3>2
  <2> QED  BY <1>2, <1>3, <1>5, <2>1
<1>10. arrived' \subseteq Frames
  BY <1>1, <1>3
<1> QED  BY <1>1, <1>3, <1>5, <1>6, <1>7, <1>8, <1>9, <1>10, RaisedInv

\* Any frame arrives.
LEMMA ArriveInv ==
  ASSUME SettingsAssumption, Inv, NEW m \in net, Arrive(m)
  PROVE  Inv'
<1>1. m \in Frames
  BY Facts
<1>2. m.kind \in {"STREAM", "STREAMS_BLOCKED", "MAX_STREAMS"}
  BY <1>1, FramesAre
<1> QED  BY <1>2, StreamArrives, StreamsBlockedArrives, MaxStreamsArrives

\* frames are dropped, or nothing happens
LEMMA DropInv ==
  ASSUME SettingsAssumption, Inv, set' = set, a' = a, b' = b, arrived' = arrived,
         net' \subseteq net
  PROVE  Inv'
<1>1. a \in Opener /\ net' \subseteq Frames
  BY Facts
<1>2. Admitted'
  BY TypesStay DEF Inv, Admitted, Frame
<1>3. a'.ready /\ SendsBlocked(a') => a'.pending \/ a'.linked # {}
  BY DEF Inv, SignalsPending
<1> QED  BY <1>1, <1>2, <1>3, SameLimitInv

\* A frame of either endpoint is acknowledged.
LEMMA AckInv ==
  ASSUME SettingsAssumption, Inv, Ack
  PROVE  Inv'
<1>1. Forget /\ set' = set /\ net' = net
  BY DEF Ack
<1>2. CASE \E x \in a.sentmap : /\ x.frame \in arrived
                                /\ a' = Acked(Without(a, x), x) /\ UNCHANGED b
  BY <1>1, <1>2, AckAInv
<1>3. CASE \E x \in b.sentmap : /\ x.frame \in arrived
                                /\ b' = Acked(Without(b, x), x) /\ UNCHANGED a
  BY <1>1, <1>3, AckBInv
<1> QED  BY <1>2, <1>3 DEF Ack

\* A frame of either endpoint is deemed lost.
LEMMA LossInv ==
  ASSUME SettingsAssumption, Inv, Loss
  PROVE  Inv'
<1>1. Forget /\ set' = set /\ net' = net
  BY DEF Loss
<1>2. CASE \E x \in a.sentmap : /\ x.live /\ UNCHANGED b
                                /\ \E e \in GivenUp(a, x) : a' = LostA(e, x)
  BY <1>1, <1>2, LossAInv
<1>3. CASE \E x \in b.sentmap : /\ x.live /\ UNCHANGED a
                                /\ \E e \in GivenUp(b, x) : b' = LostB(e, x)
  BY <1>1, <1>3, LossBInv
<1>4. CASE \E id \in a.inflight :
             /\ Frame("STREAM", id) \notin net
             /\ a' = Sched([a EXCEPT !.inflight = @ \ {id}], id) /\ UNCHANGED b
  BY <1>1, <1>4, LossStreamInv
<1> QED  BY <1>2, <1>3, <1>4 DEF Loss

\* Every step keeps the invariant.
LEMMA NextInv ==
  ASSUME SettingsAssumption, Inv, [Next]_vars
  PROVE  Inv'
<1>1. CASE UNCHANGED vars
  BY <1>1, DropInv DEF vars
<1>2. CASE Next
  <2>1. CASE OpenStream
    BY <2>1, OpenStreamInv
  <2>2. CASE KeyAvailable
    BY <2>2, KeyAvailableInv
  <2>3. CASE SendMaxStreams
    BY <2>3, SendMaxStreamsInv
  <2>4. CASE Ack
    BY <2>4, AckInv
  <2>5. CASE Loss
    BY <2>5, LossInv
  <2>6. CASE Drop
    BY <2>6, DropInv DEF Drop
  <2>7. CASE \E id \in Ids : CloseB(id)
    BY <2>7, CloseBInv
  <2>8. CASE \E ids \in SUBSET Ids : SendA(ids)
    BY <2>8, SendAInv
  <2>9. CASE \E m \in net : Arrive(m)
    BY <2>9, ArriveInv
  <2> QED  BY <1>2, <2>1, <2>2, <2>3, <2>4, <2>5, <2>6, <2>7, <2>8, <2>9 DEF Next
<1> QED  BY <1>1, <1>2

\* Once a is ready, Announced is LimitUnderway.
LEMMA UnderwayIsAnnounced ==
  ASSUME SettingsAssumption, Inv
  PROVE  LimitUnderway
<1>1. ASSUME Running, a.ready, a.count < b.sender.committed
      PROVE  \/ Entry(Frame("MAX_STREAMS", b.sender.committed), TRUE) \in b.sentmap
             \/ b.sender.lost /\ b.pending
  <2>1. Concurrency < b.sender.committed
    <3>1. Concurrency <= a.count
      BY <1>1 DEF Inv, Numbers
    <3> QED  BY <1>1, <3>1, Facts
  <2> QED  BY <1>1, <2>1 DEF Inv, Announced
<1> QED  BY <1>1 DEF LimitUnderway

\* Streams are neither stranded nor refused (quicly_open_stream, open_blocked_streams,
\* quicly_get_or_open_stream, on_ack_max_streams, quicly_maxsender_*): whatever is lost,
\* late or out of order, those that wait are the ones beyond the limit, the others are on
\* their way, a raised limit is under way until the opener has it, each side has reason
\* to send what the other waits for, and b counts its streams, for any concurrency and
\* number of streams.
THEOREM LimitsAreKept ==
  ASSUME SettingsAssumption
  PROVE  Spec => [](TypeOK /\ WaitBeyondLimit /\ OpenedIsUnderway /\ LimitUnderway
                    /\ SignalsPending /\ StreamsCounted)
<1>1. Init => Inv
  BY InitInv
<1>2. Inv /\ [Next]_vars => Inv'
  BY NextInv
<1>3. Inv => TypeOK /\ WaitBeyondLimit /\ OpenedIsUnderway /\ LimitUnderway
             /\ SignalsPending /\ StreamsCounted
  BY UnderwayIsAnnounced DEF Inv
<1> QED  BY <1>1, <1>2, <1>3, PTL DEF Spec

-----------------------------------------------------------------------------
(* How a connection ends *)

ErrorNames ==
  CC!ErrorClasses \cup {"unset", "peer_alert", "application_error",
                        "protocol_violation", CC!StatelessReset}

Conns(e) ==
  [state : {"CONNECTED", "CLOSING", "DRAINING", "FREED"},
   send_ack_at : 0 .. CC!Never, idle_at : 0 .. CC!Never,
   should_rearm_on_send : BOOLEAN,
   reason : [err : ErrorNames, is_remote : BOOLEAN],
   received : 0 .. MaxReceived[e], end_closing : 0 .. CC!Never,
   keys : SUBSET CC!Epochs, streams : 0 .. MaxStreams[e],
   told : {0, 1}, closes : Nat, active_at : 0 .. CC!Never]

Packets ==
  [to : CC!Endpoints, epoch : CC!Epochs,
   kind : {"data", "transport_close", "application_close", "reset"},
   err : ErrorNames]

\* what an endpoint c has been told, and why
Closed(c) ==
  /\ c.told = (IF c.reason.err = "unset" THEN 0 ELSE 1)
  /\ c.reason.err = "unset" => ~c.reason.is_remote
  /\ c.reason.err # "unset" /\ ~c.reason.is_remote => c.reason.err \in CC!ErrorClasses
  /\ c.state = "CONNECTED" => c.reason.err = "unset"
  /\ CC!IsClosing(c) => c.reason.err # "unset"
  /\ c.state = "DRAINING" => c.reason.is_remote
  /\ c.state = "CLOSING" => ~c.reason.is_remote
  /\ c.state = "FREED" => c.streams = 0

\* its timer while it is closing, at the time t
Timed(c, t) ==
  /\ CC!IsClosing(c) => /\ c.end_closing <= t
                        /\ c.send_ack_at <= c.end_closing + FourPto
  /\ c.state = "FREED" /\ c.told = 1 => t >= c.end_closing + FourPto

\* an answer is due
Due(c) == IF c.state = "CLOSING" /\ c.send_ack_at < c.end_closing + FourPto
          THEN 1 ELSE 0
BackedOff(c) ==
  /\ c.state = "CONNECTED" => c.closes = 0
  /\ c.closes + Due(c) <= 1 + Cardinality(CC!PowersUpTo(c.received))

\* the idle timer of the endpoint e
Periods(e, keys) ==
  ({MaxIdle[e]} \cup (IF keys = {CC!OneRtt} THEN {MaxIdle[CC!Peer(e)]} ELSE {})) \ {0}
Idles(e, c) ==
  /\ Periods(e, c.keys) = {} => c.idle_at = CC!Never
  /\ c.idle_at # CC!Never =>
       c.idle_at \in {c.active_at + CC!Greater(p, ThreePto) :
                        p \in {MaxIdle[x] : x \in CC!Endpoints} \ {0}}

Sound(e, c, t) ==
  c \in Conns(e) /\ Closed(c) /\ Timed(c, t) /\ BackedOff(c) /\ Idles(e, c)

\* the reason r of an endpoint is what `err` tells of it
Tells(err, r) == ~r.is_remote /\ r.err \in CC!ErrorClasses /\ r.err = CC!Meant(err)
Agrees(c, d) ==
  c.reason.is_remote /\ c.reason.err # CC!StatelessReset => Tells(c.reason.err, d.reason)
Carries(m, d) ==
  /\ m.kind = "application_close" => m.epoch = CC!OneRtt
  /\ m.kind \in {"transport_close", "application_close"} =>
       /\ Tells(m.err, d.reason)
       /\ m.err \notin {"unset", "peer_alert", CC!StatelessReset}

ClosingInv ==
  /\ now \in 0 .. MaxNow /\ DOMAIN conn = CC!Endpoints /\ conn = [e \in CC!Endpoints |-> conn[e]]
  /\ packets \subseteq Packets
  /\ \A e \in CC!Endpoints : Sound(e, conn[e], now) /\ Agrees(conn[e], conn[CC!Peer(e)])
  /\ \A m \in packets : Carries(m, conn[CC!Peer(m.to)])

-----------------------------------------------------------------------------
(* What the operations on an endpoint do *)

\* The numbers of a setting.
LEMMA TimeoutsAre ==
  ASSUME CC!ClosingAssumption
  PROVE  /\ CC!Never \in Nat /\ MaxNow \in Nat
         /\ ThreePto \in Nat /\ MaxNow + ThreePto < CC!Never
         /\ FourPto \in Nat /\ MaxNow + FourPto < CC!Never
         /\ \A e \in CC!Endpoints : /\ MaxIdle[e] \in Nat /\ MaxNow + MaxIdle[e] < CC!Never
                                    /\ MaxStreams[e] \in Nat /\ MaxReceived[e] \in Nat
                                    /\ CC!Peer(e) \in CC!Endpoints /\ CC!Peer(e) # e
                                    /\ CC!Peer(CC!Peer(e)) = e
BY DEF CC!ClosingAssumption, CC!Never, CC!Endpoints, CC!Client, CC!Server, CC!Peer

\* ConnClose has the cardinality of FiniteSets.
LEMMA CardinalityIs ==
  \A S : CC!Cardinality(S) = Cardinality(S)
BY DEF CC!Cardinality, Cardinality

\* One power of two more, or none.
LEMMA Powers ==
  ASSUME NEW n \in Nat
  PROVE  /\ IsFiniteSet(CC!PowersUpTo(n)) /\ Cardinality(CC!PowersUpTo(n)) \in Nat
         /\ Cardinality(CC!PowersUpTo(n)) <= Cardinality(CC!PowersUpTo(n + 1))
         /\ CC!Answers(n + 1) =>
              Cardinality(CC!PowersUpTo(n)) + 1 <= Cardinality(CC!PowersUpTo(n + 1))
<1> DEFINE P == CC!PowersUpTo(n)
<1> DEFINE Q == CC!PowersUpTo(n + 1)
<1>1. IsFiniteSet(P) /\ IsFiniteSet(Q)
  <2>1. IsFiniteSet(0 .. n) /\ IsFiniteSet(0 .. n + 1)
    BY FS_Interval
  <2>2. P \subseteq 0 .. n /\ Q \subseteq 0 .. n + 1
    BY DEF CC!PowersUpTo
  <2> QED  BY <2>1, <2>2, FS_Subset
<1>2. P \subseteq Q
  BY DEF CC!PowersUpTo
<1>3. Cardinality(P) \in Nat /\ Cardinality(Q) \in Nat
  BY <1>1, FS_CardinalityType
<1>4. Cardinality(P) <= Cardinality(Q)
  BY <1>1, <1>2, FS_Subset
<1>5. ASSUME CC!Answers(n + 1) PROVE Cardinality(P) + 1 <= Cardinality(Q)
  <2>1. PICK k \in 0 .. n + 1 : n + 1 = 2 ^ k
    BY <1>5 DEF CC!Answers
  <2>2. k \in Q
    <3>1. 2 ^ k \in 1 .. n + 1
      BY <2>1
    <3> QED  BY <3>1 DEF CC!PowersUpTo
  <2>3. k \notin P
    <3>1. 2 ^ k \notin 1 .. n
      BY <2>1
    <3> QED  BY <3>1 DEF CC!PowersUpTo
  <2>4. P \cup {k} \subseteq Q
    BY <1>2, <2>2
  <2>5. IsFiniteSet(P \cup {k}) /\ Cardinality(P \cup {k}) = Cardinality(P) + 1
    BY <1>1, <2>3, FS_AddElement
  <2>6. Cardinality(P \cup {k}) <= Cardinality(Q)
    BY <1>1, <2>4, FS_Subset
  <2> QED  BY <2>5, <2>6
<1> QED  BY <1>1, <1>3, <1>4, <1>5

\* The idle period is one of those that the endpoints have set.
LEMMA Period ==
  ASSUME CC!ClosingAssumption, NEW e \in CC!Endpoints, CC!IdlePeriods(e) # {}
  PROVE  CC!IdlePeriod(e) \in {MaxIdle[x] : x \in CC!Endpoints} \ {0}
<1>1. \A p \in CC!IdlePeriods(e) : p \in Nat /\ p \in {MaxIdle[x] : x \in CC!Endpoints} \ {0}
  BY TimeoutsAre DEF CC!IdlePeriods
<1>2. \E p \in CC!IdlePeriods(e) : \A q \in CC!IdlePeriods(e) : p <= q
  <2>1. PICK p, r : CC!IdlePeriods(e) \subseteq {p, r}
    BY DEF CC!IdlePeriods
  <2> QED  BY <1>1, <2>1
<1>3. CC!IdlePeriod(e) \in CC!IdlePeriods(e)
  BY <1>2 DEF CC!IdlePeriod
<1> QED  BY <1>1, <1>3

\* What is left alone of the endpoint: its keys, and a reason once it has one.
Keeps(c, d) == d.keys = c.keys /\ (c.reason.err # "unset" => d.reason = c.reason)

\* The idle timer of an endpoint that is active now, by a packet received or by the
\* first one sent after it.
Active(e, c, rearm) ==
  IF CC!IdlePeriods(e) = {} THEN [c EXCEPT !.active_at = now]
  ELSE [c EXCEPT !.idle_at = now + CC!Greater(CC!IdlePeriod(e), ThreePto),
                 !.should_rearm_on_send = rearm, !.active_at = now]

LEMMA Rearmed ==
  ASSUME CC!ClosingAssumption, NEW e \in CC!Endpoints, NEW c, now \in 0 .. MaxNow,
         Sound(e, c, now), c.state = "CONNECTED", c.keys = conn[e].keys,
         NEW rearm \in BOOLEAN, NEW d, d = Active(e, c, rearm)
  PROVE  Sound(e, d, now) /\ Keeps(c, d) /\ d.reason = c.reason
<1>1. c \in Conns(e) /\ CC!Never \in Nat /\ ThreePto \in Nat /\ MaxNow \in Nat
      /\ now \in 0 .. CC!Never
  BY TimeoutsAre DEF Sound
<1>2. CC!IdlePeriods(e) = Periods(e, c.keys)
  BY DEF CC!IdlePeriods, Periods
<1>3. CASE CC!IdlePeriods(e) = {}
  <2>1. d = [c EXCEPT !.active_at = now]
    BY <1>3 DEF Active
  <2>2. d \in Conns(e)
    BY <1>1, <2>1 DEF Conns
  <2>3. /\ d.state = c.state /\ d.reason = c.reason /\ d.keys = c.keys /\ d.told = c.told
        /\ d.streams = c.streams /\ d.end_closing = c.end_closing /\ d.closes = c.closes
        /\ d.received = c.received /\ d.send_ack_at = c.send_ack_at /\ d.idle_at = c.idle_at
    BY <1>1, <2>1 DEF Conns
  <2>4. Closed(d) /\ Timed(d, now) /\ BackedOff(d)
    BY <2>3 DEF Sound, Closed, Timed, BackedOff, Due, CC!IsClosing
  <2>5. Idles(e, d)
    BY <1>2, <1>3, <2>3 DEF Sound, Idles
  <2> QED  BY <2>2, <2>3, <2>4, <2>5 DEF Sound, Keeps
<1>4. CASE CC!IdlePeriods(e) # {}
  <2>1. PICK p \in {MaxIdle[x] : x \in CC!Endpoints} \ {0} : p = CC!IdlePeriod(e)
    BY <1>4, Period
  <2>2. p \in Nat /\ MaxNow + p < CC!Never /\ MaxNow + ThreePto < CC!Never
    BY <2>1, TimeoutsAre
  <2>3. now + CC!Greater(p, ThreePto) \in 0 .. CC!Never
    BY <1>1, <2>2 DEF CC!Greater
  <2>4. d = [c EXCEPT !.idle_at = now + CC!Greater(p, ThreePto),
                      !.should_rearm_on_send = rearm, !.active_at = now]
    BY <1>4, <2>1 DEF Active
  <2>5. d \in Conns(e)
    BY <1>1, <2>3, <2>4 DEF Conns
  <2>6. /\ d.state = c.state /\ d.reason = c.reason /\ d.keys = c.keys /\ d.told = c.told
        /\ d.streams = c.streams /\ d.end_closing = c.end_closing /\ d.closes = c.closes
        /\ d.received = c.received /\ d.send_ack_at = c.send_ack_at
        /\ d.idle_at = now + CC!Greater(p, ThreePto) /\ d.active_at = now
    BY <1>1, <2>4 DEF Conns
  <2>7. Closed(d) /\ Timed(d, now) /\ BackedOff(d)
    BY <2>6 DEF Sound, Closed, Timed, BackedOff, Due, CC!IsClosing
  <2>8. Idles(e, d)
    BY <1>2, <1>4, <2>1, <2>6 DEF Idles
  <2> QED  BY <2>5, <2>6, <2>7, <2>8 DEF Sound, Keeps
<1> QED  BY <1>3, <1>4

\* An endpoint that closes, of its own accord or because of its peer: told once.
LEMMA Closes ==
  ASSUME CC!ClosingAssumption, NEW e \in CC!Endpoints, NEW c, now \in 0 .. MaxNow,
         Sound(e, c, now), c.state = "CONNECTED",
         NEW d \in Conns(e), d.told = 1, d.reason.err # "unset",
         \/ d.state = "DRAINING" /\ d.reason.is_remote
         \/ d.state = "CLOSING" /\ ~d.reason.is_remote /\ d.reason.err \in CC!ErrorClasses,
         d.end_closing = now /\ d.send_ack_at <= now + FourPto,
         d.keys = c.keys /\ d.closes = c.closes /\ d.received = c.received,
         d.idle_at = c.idle_at /\ d.active_at = c.active_at
  PROVE  Sound(e, d, now) /\ Keeps(c, d) /\ CC!IsClosing(d)
<1>1. c \in Conns(e) /\ FourPto \in Nat
  BY TimeoutsAre DEF Sound
<1>2. c.reason.err = "unset" /\ c.closes = 0 /\ c.received \in Nat
  BY <1>1, TimeoutsAre DEF Sound, Closed, BackedOff, Conns
<1>3. CC!IsClosing(d)
  BY DEF CC!IsClosing
<1>4. Closed(d)
  BY <1>3 DEF Closed
<1>5. Timed(d, now)
  BY <1>1, <1>3 DEF Timed, CC!IsClosing
<1>6. BackedOff(d)
  <2>1. d.state # "CONNECTED" /\ Due(d) \in {0, 1}
    BY DEF Due
  <2>2. Cardinality(CC!PowersUpTo(c.received)) \in Nat
    BY <1>2, Powers
  <2> QED  BY <1>2, <2>1, <2>2 DEF BackedOff
<1>7. Idles(e, d)
  BY DEF Sound, Idles
<1> QED  BY <1>2, <1>3, <1>4, <1>5, <1>6, <1>7 DEF Sound, Keeps

\* initiate_close and handle_close of an endpoint that is not closing, and of one
\* that is.
LEMMA Initiates ==
  ASSUME CC!ClosingAssumption, NEW e \in CC!Endpoints, NEW c, now \in 0 .. MaxNow,
         Sound(e, c, now), c.state # "FREED", NEW err \in CC!ErrorClasses
  PROVE  LET d == CC!InitiateClose(c, err)
         IN  /\ Sound(e, d, now) /\ Keeps(c, d) /\ CC!IsClosing(d)
             /\ IF CC!IsClosing(c) THEN d = c ELSE ~d.reason.is_remote
<1>1. CASE CC!IsClosing(c)
  BY <1>1 DEF CC!InitiateClose, Keeps
<1>2. CASE ~CC!IsClosing(c)
  <2>1. c.state = "CONNECTED" /\ c \in Conns(e) /\ c.told = 0
    BY <1>2 DEF CC!IsClosing, Sound, Closed, Conns
  <2>2. now \in 0 .. CC!Never /\ 0 \in 0 .. CC!Never /\ 0 <= now + FourPto
    BY TimeoutsAre
  <2>3. PICK r : r = [err |-> err, is_remote |-> FALSE]
    OBVIOUS
  <2>4. r \in [err : ErrorNames, is_remote : BOOLEAN] /\ r.err # "unset" /\ ~r.is_remote
        /\ r.err \in CC!ErrorClasses
    BY <2>3 DEF ErrorNames, CC!ErrorClasses
  <2>5. PICK x : x = [c EXCEPT !.state = "CLOSING", !.end_closing = now, !.send_ack_at = 0]
    OBVIOUS
  <2>6. CC!EnterClose(c, TRUE, FALSE) = x
    BY <2>5 DEF CC!EnterClose
  <2>7. x \in Conns(e) /\ x.told = 0
    BY <2>1, <2>2, <2>5 DEF Conns
  <2>8. PICK d : d = CC!InitiateClose(c, err)
    OBVIOUS
  <2>9. d = [x EXCEPT !.reason = r, !.told = x.told + 1]
    BY <1>2, <2>3, <2>6, <2>8 DEF CC!InitiateClose, CC!SetConnectionClose, CC!Reason
  <2>10. d \in Conns(e) /\ d.told = 1
    <3>1. PICK one \in {0, 1} : one = x.told + 1 /\ one = 1
      BY <2>7
    <3>2. d = [x EXCEPT !.reason = r, !.told = one]
      BY <2>9, <3>1
    <3> QED  BY <2>4, <2>7, <3>1, <3>2 DEF Conns
  <2>11. /\ d.state = "CLOSING" /\ d.reason = r /\ d.end_closing = now /\ d.send_ack_at = 0
         /\ d.keys = c.keys /\ d.closes = c.closes /\ d.received = c.received
         /\ d.idle_at = c.idle_at /\ d.active_at = c.active_at
    BY <2>1, <2>5, <2>7, <2>9 DEF Conns
  <2>12. Sound(e, d, now) /\ Keeps(c, d) /\ CC!IsClosing(d)
    BY <2>1, <2>2, <2>4, <2>10, <2>11, Closes
  <2> QED  BY <1>2, <2>4, <2>8, <2>11, <2>12
<1> QED  BY <1>1, <1>2

LEMMA Handles ==
  ASSUME CC!ClosingAssumption, NEW e \in CC!Endpoints, NEW c, now \in 0 .. MaxNow,
         Sound(e, c, now), c.state # "FREED", NEW err \in ErrorNames, err # "unset"
  PROVE  LET d == CC!InitiateClose(CC!HandleClose(c, err), "internal")
         IN  /\ Sound(e, d, now) /\ Keeps(c, d)
             /\ IF CC!IsClosing(c) THEN d = c
                ELSE /\ d.reason.is_remote
                     /\ d.reason.err = IF err = "alert" THEN "peer_alert" ELSE err
<1>1. CASE CC!IsClosing(c)
  BY <1>1 DEF CC!InitiateClose, CC!HandleClose, Keeps
<1>2. CASE ~CC!IsClosing(c)
  <2>1. c.state = "CONNECTED" /\ c \in Conns(e) /\ c.told = 0
    BY <1>2 DEF CC!IsClosing, Sound, Closed, Conns
  <2>2. now \in 0 .. CC!Never
    BY TimeoutsAre
  <2>3. PICK r : r = [err |-> IF err = "alert" THEN "peer_alert" ELSE err,
                      is_remote |-> TRUE]
    OBVIOUS
  <2>4. r \in [err : ErrorNames, is_remote : BOOLEAN] /\ r.err # "unset" /\ r.is_remote
        /\ r.err = IF err = "alert" THEN "peer_alert" ELSE err
    BY <2>3 DEF ErrorNames
  <2>5. PICK at : at = IF err = CC!StatelessReset THEN 0 ELSE now + FourPto
    OBVIOUS
  <2>6. at \in 0 .. CC!Never /\ at <= now + FourPto
    BY <2>5, TimeoutsAre
  <2>7. PICK x : x = [c EXCEPT !.state = "DRAINING", !.end_closing = now, !.send_ack_at = at]
    OBVIOUS
  <2>8. CC!EnterClose(c, FALSE, err # CC!StatelessReset) = x
    BY <2>5, <2>7 DEF CC!EnterClose
  <2>9. x \in Conns(e) /\ x.told = 0
    BY <2>1, <2>2, <2>6, <2>7 DEF Conns
  <2>10. PICK y : y = CC!SetConnectionClose(x, err, TRUE)
    OBVIOUS
  <2>11. y = [x EXCEPT !.reason = r, !.told = x.told + 1]
    BY <2>3, <2>10 DEF CC!SetConnectionClose, CC!Reason
  <2>12. y \in Conns(e) /\ y.told = 1
    <3>1. PICK one \in {0, 1} : one = x.told + 1 /\ one = 1
      BY <2>9
    <3>2. y = [x EXCEPT !.reason = r, !.told = one]
      BY <2>11, <3>1
    <3> QED  BY <2>4, <2>9, <3>1, <3>2 DEF Conns
  <2>13. PICK d : d = CC!HandleClose(c, err)
    OBVIOUS
  <2>14. d = [y EXCEPT !.streams = 0]
    BY <1>2, <2>8, <2>10, <2>13 DEF CC!HandleClose
  <2>15. 0 \in 0 .. MaxStreams[e]
    BY TimeoutsAre
  <2>16. d \in Conns(e) /\ d.told = 1
    BY <2>12, <2>14, <2>15 DEF Conns
  <2>17. /\ d.state = "DRAINING" /\ d.reason = r /\ d.end_closing = now /\ d.send_ack_at = at
         /\ d.keys = c.keys /\ d.closes = c.closes /\ d.received = c.received
         /\ d.idle_at = c.idle_at /\ d.active_at = c.active_at
    BY <2>1, <2>7, <2>9, <2>11, <2>12, <2>14 DEF Conns
  <2>18. Sound(e, d, now) /\ Keeps(c, d) /\ CC!IsClosing(d)
    BY <2>1, <2>4, <2>6, <2>16, <2>17, Closes
  <2>19. CC!InitiateClose(d, "internal") = d
    BY <2>18 DEF CC!InitiateClose
  <2> QED  BY <1>2, <2>4, <2>13, <2>17, <2>18, <2>19
<1> QED  BY <1>1, <1>2

\* An endpoint that is freed: after four probe timeouts, or without a word.
LEMMA Frees ==
  ASSUME CC!ClosingAssumption, NEW e \in CC!Endpoints, NEW c, now \in 0 .. MaxNow,
         Sound(e, c, now),
         \/ c.state = "CONNECTED"
         \/ CC!IsClosing(c) /\ CC!EntryExpired(c),
         NEW d, d = [c EXCEPT !.streams = 0, !.state = "FREED"]
  PROVE  Sound(e, d, now) /\ Keeps(c, d) /\ d.reason = c.reason
<1>1. c \in Conns(e) /\ 0 \in 0 .. MaxStreams[e]
  BY TimeoutsAre DEF Sound
<1>2. d \in Conns(e)
  BY <1>1 DEF Conns
<1>3. /\ d.state = "FREED" /\ d.streams = 0 /\ d.reason = c.reason /\ d.told = c.told
      /\ d.end_closing = c.end_closing /\ d.send_ack_at = c.send_ack_at
      /\ d.keys = c.keys /\ d.closes = c.closes /\ d.received = c.received
      /\ d.idle_at = c.idle_at /\ d.active_at = c.active_at
  BY <1>1 DEF Conns
<1>4. Closed(d)
  BY <1>3 DEF Sound, Closed, CC!IsClosing
<1>5. Timed(d, now)
  <2>1. CASE c.state = "CONNECTED"
    BY <1>3, <2>1 DEF Sound, Closed, Timed, CC!IsClosing
  <2>2. CASE CC!IsClosing(c) /\ CC!EntryExpired(c)
    BY <1>3, <2>2 DEF Timed, CC!IsClosing, CC!EntryExpired
  <2> QED  BY <2>1, <2>2
<1>6. BackedOff(d)
  <2>1. c.closes \in Nat /\ Due(c) \in {0, 1} /\ Due(d) = 0
    BY <1>1, <1>3 DEF Due, Conns
  <2>2. c.received \in Nat
    BY <1>1, TimeoutsAre DEF Conns
  <2>3. Cardinality(CC!PowersUpTo(c.received)) \in Nat
    BY <2>2, Powers
  <2> QED  BY <1>3, <2>1, <2>3 DEF Sound, BackedOff
<1>7. Idles(e, d)
  BY <1>3 DEF Sound, Idles
<1> QED  BY <1>2, <1>3, <1>4, <1>5, <1>6, <1>7 DEF Sound, Keeps

\* An endpoint that is closing sends, before its time is over: what was due is not
\* due again.
LEMMA Sends ==
  ASSUME CC!ClosingAssumption, NEW e \in CC!Endpoints, NEW c, now \in 0 .. MaxNow,
         Sound(e, c, now), CC!IsClosing(c), c.send_ack_at <= now, ~CC!EntryExpired(c)
  PROVE  /\ Sound(e, CC!SendClosed(c), now) /\ Keeps(c, CC!SendClosed(c))
         /\ CC!SendClosed(c).reason = c.reason
<1>1. /\ c \in Conns(e) /\ 0 \in 0 .. MaxStreams[e] /\ FourPto \in Nat
      /\ CC!Never \in Nat /\ MaxNow + FourPto < CC!Never
  BY TimeoutsAre DEF Sound
<1>2. c.end_closing \in Nat /\ c.end_closing <= now
  BY <1>1 DEF Sound, Timed, Conns
<1>3. now < c.end_closing + FourPto
  BY <1>1, <1>2 DEF CC!EntryExpired
<1>4. PICK at : at = c.end_closing + FourPto
  OBVIOUS
<1>5. at \in 0 .. CC!Never /\ at = CC!Greater(c.end_closing + FourPto, now + 1)
  <2>1. MaxNow \in Nat /\ now \in Nat /\ at \in Nat /\ at <= now + FourPto /\ now < at
    BY <1>1, <1>2, <1>3, <1>4, TimeoutsAre
  <2>2. at \in 0 .. CC!Never
    BY <1>1, <2>1
  <2>3. ~(at > now + 1) => at = now + 1
    BY <2>1
  <2> QED  BY <1>4, <2>2, <2>3 DEF CC!Greater
<1>6. PICK n : n = IF CC!RepliesWithClose(c) THEN 0 ELSE c.streams
  OBVIOUS
<1>7. PICK k : k = IF CC!RepliesWithClose(c) THEN c.closes + 1 ELSE c.closes
  OBVIOUS
<1>8. n \in 0 .. MaxStreams[e] /\ c.closes \in Nat /\ k \in Nat
  <2>1. c.streams \in 0 .. MaxStreams[e] /\ c.closes \in Nat
    BY <1>1 DEF Conns
  <2> QED  BY <1>1, <1>6, <1>7, <2>1
<1>9. PICK d : d = CC!SendClosed(c)
  OBVIOUS
<1>10. d = [c EXCEPT !.streams = n, !.closes = k, !.send_ack_at = at]
  BY <1>5, <1>6, <1>7, <1>9 DEF CC!SendClosed
<1>11. d \in Conns(e)
  BY <1>1, <1>5, <1>8, <1>10 DEF Conns
<1>12. /\ d.state = c.state /\ d.reason = c.reason /\ d.told = c.told /\ d.streams = n
       /\ d.end_closing = c.end_closing /\ d.send_ack_at = at
       /\ d.keys = c.keys /\ d.closes = k /\ d.received = c.received
       /\ d.idle_at = c.idle_at /\ d.active_at = c.active_at
  BY <1>1, <1>10 DEF Conns
<1>13. Closed(d)
  BY <1>12 DEF Sound, Closed, CC!IsClosing
<1>14. Timed(d, now)
  BY <1>1, <1>2, <1>4, <1>12 DEF Sound, Timed, CC!IsClosing
<1>15. BackedOff(d)
  <2>1. Due(d) = 0 /\ d.state # "CONNECTED"
    BY <1>1, <1>2, <1>4, <1>12 DEF Due, CC!IsClosing
  <2>2. k <= c.closes + Due(c)
    <3>1. CC!RepliesWithClose(c) => Due(c) = 1
      BY <1>1, <1>2, <1>3 DEF CC!RepliesWithClose, Due, Conns
    <3>2. Due(c) \in {0, 1}
      BY DEF Due
    <3> QED  BY <1>7, <1>8, <3>1, <3>2
  <2>3. c.received \in Nat
    BY <1>1, TimeoutsAre DEF Conns
  <2>4. Cardinality(CC!PowersUpTo(c.received)) \in Nat /\ Due(c) \in {0, 1}
    BY <2>3, Powers DEF Due
  <2> QED  BY <1>8, <1>12, <2>1, <2>2, <2>4 DEF Sound, BackedOff
<1>16. Idles(e, d)
  BY <1>12 DEF Sound, Idles
<1> QED  BY <1>9, <1>11, <1>12, <1>13, <1>14, <1>15, <1>16 DEF Sound, Keeps

\* A packet that arrives at a closing endpoint.
LEMMA Answering ==
  ASSUME CC!ClosingAssumption, NEW e \in CC!Endpoints, NEW c, now \in 0 .. MaxNow,
         Sound(e, c, now), c.state = "CLOSING", c.received < MaxReceived[e],
         NEW d, d = [c EXCEPT !.received = @ + 1,
                              !.send_ack_at = IF CC!Answers(c.received + 1) THEN 0 ELSE @]
  PROVE  Sound(e, d, now) /\ Keeps(c, d) /\ d.reason = c.reason
<1>1. /\ c \in Conns(e) /\ FourPto \in Nat /\ CC!Never \in Nat /\ MaxReceived[e] \in Nat
  BY TimeoutsAre DEF Sound
<1>2. PICK at : at = IF CC!Answers(c.received + 1) THEN 0 ELSE c.send_ack_at
  OBVIOUS
<1>3. PICK n : n = c.received + 1
  OBVIOUS
<1>4. at \in 0 .. CC!Never /\ at <= c.send_ack_at /\ c.received \in Nat /\ n \in 0 .. MaxReceived[e]
  BY <1>1, <1>2, <1>3 DEF Conns
<1>5. d = [c EXCEPT !.received = n, !.send_ack_at = at]
  BY <1>2, <1>3
<1>6. d \in Conns(e)
  BY <1>1, <1>4, <1>5 DEF Conns
<1>7. /\ d.state = c.state /\ d.reason = c.reason /\ d.told = c.told /\ d.streams = c.streams
      /\ d.end_closing = c.end_closing /\ d.send_ack_at = at
      /\ d.keys = c.keys /\ d.closes = c.closes /\ d.received = n
      /\ d.idle_at = c.idle_at /\ d.active_at = c.active_at
  BY <1>1, <1>5 DEF Conns
<1>8. Closed(d)
  BY <1>7 DEF Sound, Closed, CC!IsClosing
<1>9. Timed(d, now)
  <2>1. c.send_ack_at \in Nat /\ c.end_closing \in Nat
    BY <1>1 DEF Conns
  <2> QED  BY <1>1, <1>4, <1>7, <2>1 DEF Sound, Timed, CC!IsClosing
<1>10. BackedOff(d)
  <2>1. c.closes \in Nat /\ Due(c) \in {0, 1} /\ Due(d) \in {0, 1}
    BY <1>1 DEF Due, Conns
  <2>2. /\ Cardinality(CC!PowersUpTo(c.received)) \in Nat
        /\ Cardinality(CC!PowersUpTo(n)) \in Nat
        /\ Cardinality(CC!PowersUpTo(c.received)) <= Cardinality(CC!PowersUpTo(n))
        /\ CC!Answers(n) =>
             Cardinality(CC!PowersUpTo(c.received)) + 1 <= Cardinality(CC!PowersUpTo(n))
    BY <1>3, <1>4, Powers
  <2>3. c.closes + Due(c) <= 1 + Cardinality(CC!PowersUpTo(c.received))
    BY DEF Sound, BackedOff
  <2>4. ~CC!Answers(n) => Due(d) = Due(c)
    BY <1>2, <1>3, <1>7 DEF Due
  <2>5. d.closes + Due(d) <= 1 + Cardinality(CC!PowersUpTo(n))
    BY <1>7, <2>1, <2>2, <2>3, <2>4
  <2> QED  BY <1>7, <2>5 DEF BackedOff
<1>11. Idles(e, d)
  BY <1>7 DEF Sound, Idles
<1> QED  BY <1>6, <1>7, <1>8, <1>9, <1>10, <1>11 DEF Sound, Keeps

\* A stream is opened.
LEMMA Opens ==
  ASSUME CC!ClosingAssumption, NEW e \in CC!Endpoints, NEW c, now \in 0 .. MaxNow,
         Sound(e, c, now), c.state # "FREED", c.streams < MaxStreams[e],
         NEW d, d = [c EXCEPT !.streams = @ + 1]
  PROVE  Sound(e, d, now) /\ Keeps(c, d) /\ d.reason = c.reason
<1>1. c \in Conns(e) /\ MaxStreams[e] \in Nat
  BY TimeoutsAre DEF Sound
<1>2. PICK n : n = c.streams + 1
  OBVIOUS
<1>3. n \in 0 .. MaxStreams[e]
  BY <1>1, <1>2 DEF Conns
<1>4. d = [c EXCEPT !.streams = n]
  BY <1>2
<1>5. d \in Conns(e)
  BY <1>1, <1>3, <1>4 DEF Conns
<1>6. /\ d.state = c.state /\ d.reason = c.reason /\ d.told = c.told
      /\ d.end_closing = c.end_closing /\ d.send_ack_at = c.send_ack_at
      /\ d.keys = c.keys /\ d.closes = c.closes /\ d.received = c.received
      /\ d.idle_at = c.idle_at /\ d.active_at = c.active_at
  BY <1>1, <1>4 DEF Conns
<1>7. Closed(d)
  BY <1>6 DEF Sound, Closed, CC!IsClosing
<1>8. Timed(d, now) /\ BackedOff(d) /\ Idles(e, d)
  BY <1>6 DEF Sound, Timed, BackedOff, Due, Idles, CC!IsClosing
<1> QED  BY <1>5, <1>6, <1>7, <1>8 DEF Sound, Keeps

\* The clock advances.
LEMMA Ages ==
  ASSUME CC!ClosingAssumption, NEW e \in CC!Endpoints, NEW c, NEW t \in Nat, Sound(e, c, t)
  PROVE  Sound(e, c, t + 1)
<1>1. c \in Conns(e) /\ FourPto \in Nat /\ CC!Never \in Nat
  BY TimeoutsAre DEF Sound
<1>2. c.end_closing \in Nat /\ c.send_ack_at \in Nat
  BY <1>1 DEF Conns
<1>3. Timed(c, t + 1)
  BY <1>1, <1>2 DEF Sound, Timed
<1> QED  BY <1>3 DEF Sound

-----------------------------------------------------------------------------
(* What the endpoints tell each other *)

\* A reason that is told does not change, so that what was said of it stays true.
LEMMA StillTells ==
  ASSUME NEW c, NEW d, Keeps(c, d), NEW err, Tells(err, c.reason)
  PROVE  Tells(err, d.reason)
<1>1. c.reason.err # "unset"
  BY DEF Tells, CC!ErrorClasses
<1> QED  BY <1>1 DEF Keeps

\* One endpoint takes a step that leaves the network alone.
LEMMA OneSteps ==
  ASSUME CC!ClosingAssumption, ClosingInv, NEW e \in CC!Endpoints, NEW d,
         conn' = [conn EXCEPT ![e] = d], now' = now, packets' \subseteq Packets,
         \A m \in packets' \ packets : Carries(m, conn[CC!Peer(m.to)]),
         Sound(e, d, now), Keeps(conn[e], d),
         Agrees(d, conn[CC!Peer(e)])
  PROVE  ClosingInv'
<1>1. /\ CC!Peer(e) \in CC!Endpoints /\ CC!Peer(e) # e /\ CC!Peer(CC!Peer(e)) = e
      /\ CC!Endpoints = {e, CC!Peer(e)}
  BY DEF CC!Endpoints, CC!Peer, CC!Client, CC!Server
<1>2. conn'[e] = d /\ conn'[CC!Peer(e)] = conn[CC!Peer(e)] /\ DOMAIN conn' = CC!Endpoints
      /\ conn' = [x \in CC!Endpoints |-> conn'[x]]
  BY <1>1 DEF ClosingInv
<1>3. \A x \in CC!Endpoints : Keeps(conn[x], conn'[x])
  BY <1>1, <1>2 DEF Keeps
<1>4. \A x \in CC!Endpoints : Sound(x, conn'[x], now')
  BY <1>1, <1>2 DEF ClosingInv
<1>5. \A x \in CC!Endpoints : Agrees(conn'[x], conn'[CC!Peer(x)])
  <2>1. Agrees(conn'[e], conn'[CC!Peer(e)])
    BY <1>2
  <2>2. Agrees(conn'[CC!Peer(e)], conn'[e])
    <3>1. Agrees(conn[CC!Peer(e)], conn[e])
      BY <1>1 DEF ClosingInv
    <3>2. ASSUME NEW err, Tells(err, conn[e].reason) PROVE Tells(err, conn'[e].reason)
      BY <1>3, <3>2, StillTells
    <3> QED  BY <1>2, <3>1, <3>2 DEF Agrees
  <2> QED  BY <1>1, <2>1, <2>2
<1>6. \A m \in packets' : Carries(m, conn'[CC!Peer(m.to)])
  <2> SUFFICES ASSUME NEW m \in packets' PROVE Carries(m, conn'[CC!Peer(m.to)])
    OBVIOUS
  <2>1. CC!Peer(m.to) \in CC!Endpoints
    BY DEF Packets, CC!Peer, CC!Endpoints
  <2>2. Carries(m, conn[CC!Peer(m.to)])
    BY DEF ClosingInv
  <2>3. ASSUME NEW err, Tells(err, conn[CC!Peer(m.to)].reason)
        PROVE  Tells(err, conn'[CC!Peer(m.to)].reason)
    BY <1>3, <2>1, <2>3, StillTells
  <2> QED  BY <2>2, <2>3 DEF Carries
<1>7. now' \in 0 .. MaxNow
  BY DEF ClosingInv
<1> QED  BY <1>2, <1>4, <1>5, <1>6, <1>7 DEF ClosingInv

\* ... and keeps the reason that it has.
LEMMA OneStepsOn ==
  ASSUME CC!ClosingAssumption, ClosingInv, NEW e \in CC!Endpoints, NEW d,
         conn' = [conn EXCEPT ![e] = d], now' = now, packets' \subseteq Packets,
         \A m \in packets' \ packets : Carries(m, conn[CC!Peer(m.to)]),
         Sound(e, d, now), Keeps(conn[e], d), d.reason = conn[e].reason
  PROVE  ClosingInv'
<1>1. Agrees(conn[e], conn[CC!Peer(e)])
  BY DEF ClosingInv
<1>2. Agrees(d, conn[CC!Peer(e)])
  BY <1>1 DEF Agrees
<1> QED  BY <1>2, OneSteps

\* What an endpoint closes with, and what it says of it.
LEMMA Says ==
  ASSUME NEW c, Closed(c), c.state = "CLOSING", NEW to \in CC!Endpoints, NEW epoch \in CC!Epochs
  PROVE  LET m == CC!Conveyed(to, c.reason.err, epoch)
         IN  m \in Packets /\ m.to = to /\ Carries(m, c)
<1>1. c.reason.err \in CC!ErrorClasses /\ ~c.reason.is_remote
  BY DEF Closed, CC!IsClosing
<1>2. PICK err : err = c.reason.err
  OBVIOUS
<1>3. PICK m : m = CC!Conveyed(to, err, epoch)
  OBVIOUS
<1>4. CASE err = "application" /\ epoch = CC!OneRtt
  <2>1. m = [to |-> to, epoch |-> CC!OneRtt, kind |-> "application_close", err |-> "application"]
    BY <1>3, <1>4 DEF CC!Conveyed, CC!Concealed, CC!Close
  <2>2. m \in Packets
    BY <1>4, <2>1 DEF Packets, ErrorNames, CC!ErrorClasses
  <2>3. m.to = to /\ m.epoch = CC!OneRtt /\ m.err = "application"
    BY <2>1
  <2>4. CC!Meant(m.err) = "application"
    BY <2>3 DEF CC!Meant
  <2>5. Tells(m.err, c.reason)
    BY <1>1, <1>2, <1>4, <2>4 DEF Tells
  <2>6. Carries(m, c)
    BY <2>3, <2>5 DEF Carries, CC!StatelessReset
  <2> QED  BY <1>2, <1>3, <2>2, <2>3, <2>6
<1>5. CASE ~(err = "application" /\ epoch = CC!OneRtt)
  <2>1. PICK w : w = IF err = "exhaustion" THEN "protocol_violation"
                     ELSE IF err = "application" THEN "application_error" ELSE err
    OBVIOUS
  <2>2. m = [to |-> to, epoch |-> epoch, kind |-> "transport_close", err |-> w]
    BY <1>3, <1>5, <2>1 DEF CC!Conveyed, CC!Concealed, CC!Close
  <2>3. w \in ErrorNames /\ w \notin {"unset", "peer_alert", CC!StatelessReset} /\ CC!Meant(w) = err
    BY <1>1, <1>2, <2>1 DEF ErrorNames, CC!ErrorClasses, CC!Meant, CC!StatelessReset
  <2>4. m \in Packets /\ m.to = to /\ m.kind = "transport_close" /\ m.err = w
    BY <2>2, <2>3 DEF Packets
  <2>5. Tells(w, c.reason)
    BY <1>1, <1>2, <2>3 DEF Tells
  <2>6. Carries(m, c)
    BY <2>3, <2>4, <2>5 DEF Carries
  <2> QED  BY <1>2, <1>3, <2>4, <2>6
<1> QED  BY <1>4, <1>5

-----------------------------------------------------------------------------
(* Inv is inductive *)

LEMMA ClosingInitInv == ASSUME CC!ClosingAssumption, CC!Init PROVE ClosingInv
<1>1. PICK keys \in KeySets : conn = [e \in CC!Endpoints |-> CC!NewConn(keys[e])]
  BY DEF CC!Init
<1>2. ASSUME NEW e \in CC!Endpoints PROVE Sound(e, conn[e], now) /\ ~conn[e].reason.is_remote
  <2>1. PICK c : c = CC!NewConn(keys[e])
    OBVIOUS
  <2>2. conn[e] = c /\ now = 0
    BY <1>1, <1>2, <2>1 DEF CC!Init
  <2>3. keys[e] \subseteq CC!Epochs
    BY <1>2 DEF CC!ClosingAssumption
  <2>4. CC!Never \in 0 .. CC!Never /\ 0 \in 0 .. MaxReceived[e] /\ 0 \in 0 .. MaxStreams[e]
    BY <1>2, TimeoutsAre
  <2>5. c \in Conns(e)
    BY <2>1, <2>3, <2>4 DEF CC!NewConn, Conns, CC!NoReason, ErrorNames
  <2>6. /\ c.state = "CONNECTED" /\ c.told = 0 /\ c.reason.err = "unset" /\ ~c.reason.is_remote
        /\ c.closes = 0 /\ c.received = 0 /\ c.idle_at = CC!Never
    BY <2>1 DEF CC!NewConn, CC!NoReason
  <2>7. Closed(c) /\ Timed(c, now) /\ Idles(e, c)
    BY <2>6 DEF Closed, Timed, Idles, CC!IsClosing
  <2>8. BackedOff(c)
    <3>1. Cardinality(CC!PowersUpTo(0)) \in Nat /\ Due(c) = 0
      BY <2>6, Powers DEF Due
    <3> QED  BY <2>6, <3>1 DEF BackedOff
  <2> QED  BY <2>2, <2>5, <2>6, <2>7, <2>8 DEF Sound
<1>3. packets = {} /\ now \in 0 .. MaxNow /\ DOMAIN conn = CC!Endpoints
      /\ conn = [e \in CC!Endpoints |-> conn[e]]
  BY <1>1, TimeoutsAre DEF CC!Init
<1> QED  BY <1>2, <1>3 DEF ClosingInv, Agrees

LEMMA ClosingStepInv ==
  ASSUME CC!ClosingAssumption, ClosingInv, [CC!Next]_(CC!vars)
  PROVE  ClosingInv'
<1>1. CASE UNCHANGED CC!vars
  BY <1>1 DEF ClosingInv, CC!vars
<1>2. CASE CC!Tick
  <2>1. now \in Nat /\ now' = now + 1 /\ now' \in 0 .. MaxNow
    BY <1>2, TimeoutsAre DEF CC!Tick, ClosingInv
  <2>2. \A e \in CC!Endpoints : Sound(e, conn[e], now')
    BY <2>1, Ages DEF ClosingInv
  <2> QED  BY <1>2, <2>1, <2>2 DEF CC!Tick, ClosingInv
<1>3. ASSUME NEW e \in CC!Endpoints, CC!SendWhenClosing(e) PROVE ClosingInv'
  <2> DEFINE c == conn[e]
  <2>1. Sound(e, c, now) /\ now \in 0 .. MaxNow /\ CC!IsClosing(c) /\ c.send_ack_at <= now
    BY <1>3 DEF ClosingInv, CC!SendWhenClosing
  <2>2. CASE CC!EntryExpired(c)
    <3>1. PICK d : d = [c EXCEPT !.streams = 0, !.state = "FREED"]
      OBVIOUS
    <3>2. conn' = [conn EXCEPT ![e] = d] /\ now' = now /\ packets' = packets
      BY <1>3, <2>2, <3>1 DEF CC!SendWhenClosing, CC!Freed
    <3>3. Sound(e, d, now) /\ Keeps(c, d) /\ d.reason = c.reason
      BY <1>3, <2>1, <2>2, <3>1, Frees
    <3>4. packets' \subseteq Packets /\ packets' \ packets = {}
      BY <3>2 DEF ClosingInv
    <3> QED  BY <1>3, <3>2, <3>3, <3>4, OneStepsOn
  <2>3. CASE ~CC!EntryExpired(c)
    <3>1. PICK d : d = CC!SendClosed(c)
      OBVIOUS
    <3>2. conn' = [conn EXCEPT ![e] = d] /\ now' = now
      BY <1>3, <2>3, <3>1 DEF CC!SendWhenClosing
    <3>3. Sound(e, d, now) /\ Keeps(c, d) /\ d.reason = c.reason
      BY <1>3, <2>1, <2>3, <3>1, Sends
    <3>4. \A m \in packets' \ packets : m \in Packets /\ Carries(m, conn[CC!Peer(m.to)])
      <4> SUFFICES ASSUME NEW m \in packets' \ packets
                   PROVE  m \in Packets /\ Carries(m, conn[CC!Peer(m.to)])
        OBVIOUS
      <4>1. /\ CC!RepliesWithClose(c)
            /\ \E epoch \in c.keys : m = CC!Conveyed(CC!Peer(e), c.reason.err, epoch)
        BY <1>3, <2>3 DEF CC!SendWhenClosing
      <4>2. PICK epoch \in c.keys : m = CC!Conveyed(CC!Peer(e), c.reason.err, epoch)
        BY <4>1
      <4>3. epoch \in CC!Epochs
        BY <2>1 DEF Sound, Conns
      <4>4. c.state = "CLOSING" /\ Closed(c)
        BY <2>1, <4>1 DEF CC!RepliesWithClose, Sound
      <4>5. CC!Peer(e) \in CC!Endpoints /\ CC!Peer(CC!Peer(e)) = e
        BY <1>3, TimeoutsAre
      <4>6. m \in Packets /\ m.to = CC!Peer(e) /\ Carries(m, c)
        BY <4>2, <4>3, <4>4, <4>5, Says
      <4> QED  BY <4>5, <4>6
    <3>5. packets' \subseteq Packets
      BY <3>4 DEF ClosingInv
    <3> QED  BY <1>3, <3>2, <3>3, <3>4, <3>5, OneStepsOn
  <2> QED  BY <2>2, <2>3
<1>4. ASSUME NEW e \in CC!Endpoints, CC!SendData(e) PROVE ClosingInv'
  <2> DEFINE c == conn[e]
  <2>1. Sound(e, c, now) /\ now \in 0 .. MaxNow /\ c.state = "CONNECTED"
    BY <1>4 DEF ClosingInv, CC!SendData
  <2>2. CASE c.idle_at <= now
    <3>1. PICK d : d = [c EXCEPT !.streams = 0, !.state = "FREED"]
      OBVIOUS
    <3>2. conn' = [conn EXCEPT ![e] = d] /\ now' = now /\ packets' = packets
      BY <1>4, <2>2, <3>1 DEF CC!SendData, CC!CloseNow
    <3>3. Sound(e, d, now) /\ Keeps(c, d) /\ d.reason = c.reason
      BY <1>4, <2>1, <3>1, Frees
    <3>4. packets' \subseteq Packets /\ packets' \ packets = {}
      BY <3>2 DEF ClosingInv
    <3> QED  BY <1>4, <3>2, <3>3, <3>4, OneStepsOn
  <2>3. CASE ~(c.idle_at <= now)
    <3>1. PICK d : d = CC!Sent(e, c)
      OBVIOUS
    <3>2. conn' = [conn EXCEPT ![e] = d] /\ now' = now
          /\ packets' = packets \cup {CC!Data(CC!Peer(e), CC!LastEpoch(c.keys))}
      BY <1>4, <2>3, <3>1 DEF CC!SendData
    <3>3. Sound(e, d, now) /\ Keeps(c, d) /\ d.reason = c.reason
      <4>1. c \in Conns(e)
        BY <2>1 DEF Sound
      <4>2. CASE ~c.should_rearm_on_send
        <5>1. d = c
          BY <3>1, <4>1, <4>2 DEF CC!Sent, CC!UpdateIdleTimeout, Conns
        <5> QED  BY <2>1, <5>1 DEF Keeps
      <4>3. CASE c.should_rearm_on_send
        <5>1. d = Active(e, c, FALSE)
          BY <3>1, <4>1, <4>3 DEF CC!Sent, CC!UpdateIdleTimeout, Active, Conns
        <5> QED  BY <1>4, <2>1, <5>1, Rearmed
      <4> QED  BY <4>2, <4>3
    <3>4. \A m \in packets' \ packets : m \in Packets /\ Carries(m, conn[CC!Peer(m.to)])
      BY <1>4, <3>2, TimeoutsAre
         DEF CC!Data, Packets, Carries, CC!LastEpoch, CC!Epochs, CC!OneRtt, CC!Initial,
             ErrorNames, CC!ErrorClasses
    <3>5. packets' \subseteq Packets
      BY <3>4 DEF ClosingInv
    <3> QED  BY <1>4, <3>2, <3>3, <3>4, <3>5, OneStepsOn
  <2> QED  BY <2>2, <2>3
<1>5. ASSUME NEW e \in CC!Endpoints, CC!OpenStream(e) PROVE ClosingInv'
  <2> DEFINE c == conn[e]
  <2>1. Sound(e, c, now) /\ now \in 0 .. MaxNow /\ c.state # "FREED" /\ c.streams < MaxStreams[e]
    BY <1>5 DEF ClosingInv, CC!OpenStream
  <2>2. PICK d : d = [c EXCEPT !.streams = @ + 1]
    OBVIOUS
  <2>3. conn' = [conn EXCEPT ![e] = d] /\ now' = now /\ packets' = packets
    BY <1>5, <2>2 DEF CC!OpenStream
  <2>4. Sound(e, d, now) /\ Keeps(c, d) /\ d.reason = c.reason
    BY <1>5, <2>1, <2>2, Opens
  <2>5. packets' \subseteq Packets /\ packets' \ packets = {}
    BY <2>3 DEF ClosingInv
  <2> QED  BY <1>5, <2>3, <2>4, <2>5, OneStepsOn
<1>6. ASSUME NEW e \in CC!Endpoints, NEW err \in Errors(e, conn[e].keys), CC!QuiclyClose(e, err)
      PROVE  ClosingInv'
  <2> DEFINE c == conn[e]
  <2>1. Sound(e, c, now) /\ now \in 0 .. MaxNow /\ c.state # "FREED" /\ err \in CC!ErrorClasses
    BY <1>6 DEF ClosingInv, CC!QuiclyClose, CC!ErrorClasses
  <2>2. PICK d : d = CC!InitiateClose(c, err)
    OBVIOUS
  <2>3. conn' = [conn EXCEPT ![e] = d] /\ now' = now /\ packets' = packets
    BY <1>6, <2>2 DEF CC!QuiclyClose
  <2>4. Sound(e, d, now) /\ Keeps(c, d) /\ (IF CC!IsClosing(c) THEN d = c ELSE ~d.reason.is_remote)
    BY <1>6, <2>1, <2>2, Initiates
  <2>5. packets' \subseteq Packets /\ packets' \ packets = {}
    BY <2>3 DEF ClosingInv
  <2>6. Agrees(d, conn[CC!Peer(e)])
    BY <1>6, <2>4 DEF ClosingInv, Agrees
  <2> QED  BY <1>6, <2>3, <2>4, <2>5, <2>6, OneSteps
<1>7. ASSUME NEW e \in CC!Endpoints, NEW m \in packets, CC!ReceiveData(e, m) PROVE ClosingInv'
  <2> DEFINE c == conn[e]
  <2>1. Sound(e, c, now) /\ now \in 0 .. MaxNow /\ c.state = "CONNECTED"
        /\ now' = now /\ packets' \subseteq Packets /\ packets' \ packets = {}
    BY <1>7 DEF ClosingInv, CC!ReceiveData
  <2>2. CASE conn' = [conn EXCEPT ![e] = CC!Processed(e, @)]
    <3>1. c \in Conns(e)
      BY <2>1 DEF Sound
    <3>2. CC!Processed(e, c) = Active(e, c, TRUE)
      BY <3>1 DEF CC!Processed, CC!UpdateIdleTimeout, Active, Conns
    <3>3. PICK d : d = Active(e, c, TRUE)
      OBVIOUS
    <3>4. Sound(e, d, now) /\ Keeps(c, d) /\ d.reason = c.reason
      BY <1>7, <2>1, <3>3, Rearmed
    <3>5. conn' = [conn EXCEPT ![e] = d]
      BY <2>2, <3>2, <3>3
    <3> QED  BY <1>7, <2>1, <3>4, <3>5, OneStepsOn
  <2>3. ASSUME NEW err \in Errors(e, c.keys),
               conn' = [conn EXCEPT ![e] = CC!InitiateClose(CC!InitiateClose(@, err), "internal")]
        PROVE  ClosingInv'
    <3>1. err \in CC!ErrorClasses
      BY <1>7, <2>1 DEF CC!ClosingAssumption, Sound, Conns
    <3>2. PICK d : d = CC!InitiateClose(c, err)
      OBVIOUS
    <3>3. Sound(e, d, now) /\ Keeps(c, d) /\ CC!IsClosing(d) /\ ~d.reason.is_remote
      BY <1>7, <2>1, <3>1, <3>2, Initiates DEF CC!IsClosing
    <3>4. conn' = [conn EXCEPT ![e] = d]
      BY <2>3, <3>2, <3>3 DEF CC!InitiateClose
    <3>5. Agrees(d, conn[CC!Peer(e)])
      BY <3>3 DEF Agrees
    <3> QED  BY <1>7, <2>1, <3>3, <3>4, <3>5, OneSteps
  <2> QED  BY <1>7, <2>2, <2>3 DEF CC!ReceiveData
<1>8. ASSUME NEW e \in CC!Endpoints, NEW m \in packets, CC!ReceiveClose(e, m) PROVE ClosingInv'
  <2> DEFINE c == conn[e]
  <2>1. Sound(e, c, now) /\ now \in 0 .. MaxNow /\ c.state = "CONNECTED" /\ c.state # "FREED"
        /\ ~CC!IsClosing(c) /\ now' = now /\ packets' \subseteq Packets /\ packets' \ packets = {}
    BY <1>8 DEF ClosingInv, CC!ReceiveClose, CC!IsClosing
  <2>2. /\ m.to = e /\ m.kind \in {"transport_close", "application_close"}
        /\ (m.kind = "application_close" => m.epoch = CC!OneRtt)
        /\ Tells(m.err, conn[CC!Peer(e)].reason)
        /\ m.err \notin {"unset", "peer_alert", CC!StatelessReset} /\ m.err \in ErrorNames
    BY <1>8 DEF ClosingInv, CC!ReceiveClose, Carries, Packets
  <2>3. PICK d : d = CC!InitiateClose(CC!HandleClose(c, m.err), "internal")
    OBVIOUS
  <2>4. conn' = [conn EXCEPT ![e] = d]
    BY <1>8, <2>2, <2>3 DEF CC!ReceiveClose
  <2>5. /\ Sound(e, d, now) /\ Keeps(c, d) /\ d.reason.is_remote
        /\ d.reason.err = IF m.err = "alert" THEN "peer_alert" ELSE m.err
    BY <1>8, <2>1, <2>2, <2>3, Handles
  <2>6. Agrees(d, conn[CC!Peer(e)])
    <3>1. CC!Meant(d.reason.err) = CC!Meant(m.err)
      BY <2>5 DEF CC!Meant
    <3> QED  BY <2>2, <3>1 DEF Agrees, Tells
  <2> QED  BY <1>8, <2>1, <2>4, <2>5, <2>6, OneSteps
<1>9. ASSUME NEW e \in CC!Endpoints, NEW m \in packets, CC!ReceiveReset(e, m) PROVE ClosingInv'
  <2> DEFINE c == conn[e]
  <2>1. Sound(e, c, now) /\ now \in 0 .. MaxNow /\ c.state # "FREED"
        /\ now' = now /\ packets' \subseteq Packets /\ packets' \ packets = {}
    BY <1>9 DEF ClosingInv, CC!ReceiveReset
  <2>2. /\ CC!StatelessReset \in ErrorNames
        /\ CC!StatelessReset # "unset" /\ CC!StatelessReset # "alert"
    BY DEF ErrorNames, CC!StatelessReset
  <2>3. PICK d : d = CC!InitiateClose(CC!HandleClose(c, CC!StatelessReset), "internal")
    OBVIOUS
  <2>4. conn' = [conn EXCEPT ![e] = d]
    BY <1>9, <2>3 DEF CC!ReceiveReset
  <2>5. /\ Sound(e, d, now) /\ Keeps(c, d)
        /\ d = c \/ d.reason.err = CC!StatelessReset
    BY <1>9, <2>1, <2>2, <2>3, Handles
  <2>6. Agrees(d, conn[CC!Peer(e)])
    BY <1>9, <2>5 DEF ClosingInv, Agrees
  <2> QED  BY <1>9, <2>1, <2>4, <2>5, <2>6, OneSteps
<1>10. ASSUME NEW e \in CC!Endpoints, NEW m \in packets, CC!ReceiveWhenClosing(e, m)
       PROVE  ClosingInv'
  <2> DEFINE c == conn[e]
  <2>1. Sound(e, c, now) /\ now \in 0 .. MaxNow /\ c.state = "CLOSING"
        /\ c.received < MaxReceived[e]
        /\ now' = now /\ packets' \subseteq Packets /\ packets' \ packets = {}
    BY <1>10 DEF ClosingInv, CC!ReceiveWhenClosing
  <2>2. PICK d : d = [c EXCEPT !.received = @ + 1,
                               !.send_ack_at = IF CC!Answers(c.received + 1) THEN 0 ELSE @]
    OBVIOUS
  <2>3. conn' = [conn EXCEPT ![e] = d]
    BY <1>10, <2>2 DEF CC!ReceiveWhenClosing, ClosingInv
  <2>4. Sound(e, d, now) /\ Keeps(c, d) /\ d.reason = c.reason
    BY <1>10, <2>1, <2>2, Answering
  <2> QED  BY <1>10, <2>1, <2>3, <2>4, OneStepsOn
<1>11. ASSUME NEW e \in CC!Endpoints, NEW m \in packets, CC!ReceiveWhenFreed(e, m) PROVE ClosingInv'
  <2>1. CC!ResetPacket(CC!Peer(e)) \in Packets
    BY <1>11, TimeoutsAre DEF CC!ResetPacket, Packets, CC!Epochs, ErrorNames, CC!ErrorClasses
  <2>2. CC!ResetPacket(CC!Peer(e)).kind = "reset"
    BY DEF CC!ResetPacket
  <2>3. \A n \in packets' : n \in Packets /\ Carries(n, conn[CC!Peer(n.to)])
    BY <1>11, <2>1, <2>2 DEF ClosingInv, CC!ReceiveWhenFreed, Carries
  <2> QED  BY <1>11, <2>3 DEF ClosingInv, CC!ReceiveWhenFreed
<1> QED
  BY <1>1, <1>2, <1>3, <1>4, <1>5, <1>6, <1>7, <1>8, <1>9, <1>10, <1>11 DEF CC!Next

LEMMA ClosingInvImplies == ASSUME CC!ClosingAssumption, ClosingInv PROVE CC!ClosesInOrder
<1>1. ASSUME NEW e \in CC!Endpoints
      PROVE  conn[e] \in Conns(e) /\ Closed(conn[e]) /\ Timed(conn[e], now)
             /\ BackedOff(conn[e]) /\ Idles(e, conn[e]) /\ Agrees(conn[e], conn[CC!Peer(e)])
  BY <1>1 DEF ClosingInv, Sound
<1>2. CC!TypeOK
  BY <1>1 DEF CC!TypeOK, Conns, ClosingInv
<1>3. CC!ToldOnce
  <2> SUFFICES ASSUME NEW e \in CC!Endpoints
               PROVE  /\ conn[e].told = (IF conn[e].reason = CC!NoReason THEN 0 ELSE 1)
                      /\ CC!IsClosing(conn[e]) => conn[e].told = 1
                      /\ conn[e].state = "DRAINING" => conn[e].reason.is_remote
                      /\ conn[e].state = "CLOSING" => ~conn[e].reason.is_remote
    BY DEF CC!ToldOnce
  <2>1. conn[e].reason = CC!NoReason <=> conn[e].reason.err = "unset"
    <3>1. PICK r \in [err : ErrorNames, is_remote : BOOLEAN] : r = conn[e].reason
      BY <1>1 DEF Conns
    <3>2. r.err = "unset" => ~r.is_remote
      BY <1>1, <3>1 DEF Closed
    <3>3. r.err = "unset" /\ ~r.is_remote => r = [err |-> "unset", is_remote |-> FALSE]
      OBVIOUS
    <3> QED  BY <3>1, <3>2, <3>3 DEF CC!NoReason
  <2> QED  BY <1>1, <2>1 DEF Closed
<1>4. CC!NoStreamLeft
  BY <1>1 DEF CC!NoStreamLeft, Closed
<1>5. CC!WaitsAndEnds
  BY <1>1 DEF CC!WaitsAndEnds, Timed
<1>6. CC!AnswersBackOff
  <2> SUFFICES ASSUME NEW e \in CC!Endpoints
               PROVE  conn[e].closes <= 1 + Cardinality(CC!PowersUpTo(conn[e].received))
    BY CardinalityIs DEF CC!AnswersBackOff
  <2>1. conn[e].closes \in Nat /\ Due(conn[e]) \in {0, 1} /\ conn[e].received \in Nat
    BY <1>1, TimeoutsAre DEF Conns, Due
  <2>2. Cardinality(CC!PowersUpTo(conn[e].received)) \in Nat
    BY <2>1, Powers
  <2>3. conn[e].closes + Due(conn[e]) <= 1 + Cardinality(CC!PowersUpTo(conn[e].received))
    BY <1>1 DEF BackedOff
  <2> QED  BY <2>1, <2>2, <2>3
<1>7. CC!ErrorsConveyed
  BY <1>1 DEF CC!ErrorsConveyed, Agrees, Tells, ClosingInv, Carries
<1>8. CC!IdleSince
  BY <1>1 DEF CC!IdleSince, Idles
<1> QED  BY <1>2, <1>3, <1>4, <1>5, <1>6, <1>7, <1>8 DEF CC!ClosesInOrder

\* Both ends may close at once, repeatedly and with anything under way: each
\* application is told once and truly, the timers of closing, draining and idling
\* fire neither early nor never, and two closing ends fall silent (initiate_close,
\* handle_close, enter_close, do_send_closed, update_idle_timeout), whatever the
\* timeouts, keys and errors and however many packets there are.
THEOREM CloseIsOrderly == ASSUME CC!ClosingAssumption PROVE CC!Spec => []CC!ClosesInOrder
<1>1. CC!Init => ClosingInv
  BY ClosingInitInv
<1>2. ClosingInv /\ [CC!Next]_(CC!vars) => ClosingInv'
  BY ClosingStepInv
<1>3. ClosingInv => CC!ClosesInOrder
  BY ClosingInvImplies
<1> QED  BY <1>1, <1>2, <1>3, PTL DEF CC!Spec

-----------------------------------------------------------------------------
(* Credit for the data of streams *)

\* DataCredit has the cardinality of FiniteSets.
LEMMA CreditCardinalityIs ==
  \A S : D!Cardinality(S) = Cardinality(S)
BY DEF D!Cardinality, Cardinality

\* Every set of natural numbers has a least element.
LEMMA LeastExists ==
  ASSUME NEW T, T \subseteq Nat, T # {}
  PROVE  \E m \in T : \A k \in T : m <= k
<1>1. \E m \in T : \A k \in T : ~(k < m)
  <2>1. PICK R : R = OpToRel(<, Nat)
    OBVIOUS
  <2>2. IsWellFoundedOn(R, Nat)
    BY <2>1, NatLessThanWellFounded
  <2>3. PICK m \in T : \A k \in T : ~(<<k, m>> \in R)
    BY <2>2, WFMin
  <2>4. \A k \in T : <<k, m>> \in R <=> k < m
    BY <2>1 DEF OpToRel
  <2> QED  BY <2>3, <2>4
<1> QED  BY <1>1

-----------------------------------------------------------------------------
(* Credit: lists in which a stream is at most once *)

Apart(p, q) == \A x \in Streams : ~(D!Contains(p, x) /\ D!Contains(q, x))
Once(p) == p \in Seq(Streams) /\ D!IsInjective(p)

\* quicly_linklist_insert at the end.
LEMMA Appended ==
  ASSUME NEW q, Once(q), NEW x \in Streams, ~D!Contains(q, x)
  PROVE  /\ Once(Append(q, x))
         /\ \A y \in Streams : D!Contains(Append(q, x), y) <=> D!Contains(q, y) \/ y = x
<1>1. PICK w : w = Append(q, x)
  OBVIOUS
<1>2. PICK n \in Nat : n = Len(q) /\ DOMAIN q = 1 .. n
  BY DEF Once
<1>3. /\ w \in Seq(Streams) /\ Len(w) = n + 1 /\ DOMAIN w = 1 .. n + 1
      /\ w[n + 1] = x /\ \A i \in 1 .. n : w[i] = q[i]
  BY <1>1, <1>2 DEF Once
<1>4. \A i \in 1 .. n : q[i] # x
  BY <1>2 DEF D!Contains
<1>5. D!IsInjective(w)
  <2>1. \A i, j \in 1 .. n : w[i] = w[j] => i = j
    BY <1>2, <1>3 DEF Once, D!IsInjective
  <2>2. \A i \in 1 .. n + 1 : i \in 1 .. n \/ i = n + 1
    OBVIOUS
  <2> QED  BY <1>3, <1>4, <2>1, <2>2 DEF D!IsInjective
<1>6. ASSUME NEW y \in Streams PROVE D!Contains(w, y) <=> D!Contains(q, y) \/ y = x
  BY <1>2, <1>3 DEF D!Contains
<1> QED  BY <1>1, <1>3, <1>5, <1>6 DEF Once

\* quicly_linklist_insert_list: two lists that share no stream.
LEMMA Joined ==
  ASSUME NEW p, NEW q, Once(p), Once(q), Apart(p, q)
  PROVE  /\ Once(p \o q)
         /\ \A x \in Streams : D!Contains(p \o q, x) <=> D!Contains(p, x) \/ D!Contains(q, x)
<1>1. PICK w : w = p \o q
  OBVIOUS
<1>2. PICK n \in Nat : n = Len(p) /\ DOMAIN p = 1 .. n
  BY DEF Once
<1>3. PICK k \in Nat : k = Len(q) /\ DOMAIN q = 1 .. k
  BY DEF Once
<1>4. /\ w \in Seq(Streams) /\ Len(w) = n + k /\ DOMAIN w = 1 .. n + k
      /\ \A i \in 1 .. n : w[i] = p[i] /\ p[i] \in Streams
      /\ \A i \in n + 1 .. n + k : w[i] = q[i - n] /\ i - n \in 1 .. k
      /\ \A i \in 1 .. k : w[i + n] = q[i] /\ i + n \in n + 1 .. n + k
  BY <1>1, <1>2, <1>3 DEF Once
<1>5. \A i \in 1 .. n, j \in 1 .. k : p[i] # q[j]
  BY <1>2, <1>3, <1>4 DEF Apart, D!Contains
<1>6. D!IsInjective(w)
  <2>1. \A i, j \in 1 .. n : w[i] = w[j] => i = j
    <3>1. \A i, j \in 1 .. n : p[i] = p[j] => i = j
      BY <1>2 DEF Once, D!IsInjective
    <3>2. \A i \in 1 .. n : w[i] = p[i]
      BY <1>4
    <3> QED  BY <3>1, <3>2
  <2>2. \A i, j \in n + 1 .. n + k : w[i] = w[j] => i = j
    <3>1. ASSUME NEW i \in n + 1 .. n + k, NEW j \in n + 1 .. n + k, w[i] = w[j]
          PROVE  i = j
      <4>1. \A ac, bl \in 1 .. k : q[ac] = q[bl] => ac = bl
        BY <1>3 DEF Once, D!IsInjective
      <4>2. PICK ac \in 1 .. k : ac = i - n /\ q[ac] = w[i]
        BY <1>4
      <4>3. PICK bl \in 1 .. k : bl = j - n /\ q[bl] = w[j]
        BY <1>4
      <4>4. ac = bl
        BY <3>1, <4>1, <4>2, <4>3
      <4> QED  BY <4>2, <4>3, <4>4
    <3> QED  BY <3>1
  <2>3. \A i \in 1 .. n, j \in n + 1 .. n + k : w[i] # w[j]
    BY <1>4, <1>5
  <2>4. \A i \in 1 .. n + k : i \in 1 .. n \/ i \in n + 1 .. n + k
    OBVIOUS
  <2> QED  BY <1>4, <2>1, <2>2, <2>3, <2>4 DEF D!IsInjective
<1>7. ASSUME NEW x \in Streams
      PROVE  D!Contains(w, x) <=> D!Contains(p, x) \/ D!Contains(q, x)
  <2>1. D!Contains(w, x) => D!Contains(p, x) \/ D!Contains(q, x)
    <3>1. SUFFICES ASSUME NEW i \in 1 .. n + k, w[i] = x
                   PROVE  D!Contains(p, x) \/ D!Contains(q, x)
      BY <1>4 DEF D!Contains
    <3>2. CASE i \in 1 .. n
      BY <1>2, <1>4, <3>1, <3>2 DEF D!Contains
    <3>3. CASE i \in n + 1 .. n + k
      BY <1>3, <1>4, <3>1, <3>3 DEF D!Contains
    <3> QED  BY <3>2, <3>3
  <2>2. D!Contains(p, x) => D!Contains(w, x)
    <3>1. SUFFICES ASSUME NEW i \in 1 .. n, p[i] = x PROVE D!Contains(w, x)
      BY <1>2 DEF D!Contains
    <3>2. i \in 1 .. Len(w) /\ w[i] = x
      BY <1>4, <3>1
    <3> QED  BY <3>2 DEF D!Contains
  <2>3. D!Contains(q, x) => D!Contains(w, x)
    <3>1. SUFFICES ASSUME NEW i \in 1 .. k, q[i] = x PROVE D!Contains(w, x)
      BY <1>3 DEF D!Contains
    <3>2. i + n \in 1 .. Len(w) /\ w[i + n] = x
      BY <1>4, <3>1
    <3> QED  BY <3>2 DEF D!Contains
  <2> QED  BY <2>1, <2>2, <2>3
<1> QED  BY <1>1, <1>4, <1>6, <1>7 DEF Once

\* A list cut in two.
LEMMA Cut ==
  ASSUME NEW q, Once(q), NEW n \in Nat, NEW k \in Nat, n <= k, k <= Len(q)
  PROVE  LET p == SubSeq(q, n + 1, k)
         IN  /\ Once(p) /\ Len(p) = k - n
             /\ \A i \in 1 .. k - n : p[i] = q[n + i]
             /\ \A x \in Streams :
                  D!Contains(p, x) <=> \E i \in n + 1 .. k : q[i] = x
<1>1. PICK p : p = SubSeq(q, n + 1, k)
  OBVIOUS
<1>2. PICK len \in Nat : len = Len(q) /\ DOMAIN q = 1 .. len
  BY DEF Once
<1>3. \A i \in n + 1 .. k : i \in 1 .. len /\ q[i] \in Streams
  BY <1>2 DEF Once
<1>4. /\ p \in Seq(Streams)
      /\ Len(p) = k - n
      /\ \A i \in 1 .. k - n : p[i] = q[n + i] /\ n + i \in n + 1 .. k
  <2>1. n + 1 \in Int /\ k \in Int
    OBVIOUS
  <2>2. /\ p \in Seq(Streams)
        /\ Len(p) = IF n + 1 <= k THEN k - (n + 1) + 1 ELSE 0
        /\ \A i \in 1 .. k - (n + 1) + 1 : p[i] = q[(n + 1) + i - 1]
    BY <1>1, <1>3, <2>1, SubSeqProperties
  <2>3. /\ k - (n + 1) + 1 = k - n
        /\ (IF n + 1 <= k THEN k - (n + 1) + 1 ELSE 0) = k - n
        /\ \A i \in Int : (n + 1) + i - 1 = n + i
    OBVIOUS
  <2> QED  BY <2>2, <2>3
<1>5. DOMAIN p = 1 .. k - n
  BY <1>4
<1>6. D!IsInjective(p)
  <2>1. SUFFICES ASSUME NEW i \in 1 .. k - n, NEW j \in 1 .. k - n, p[i] = p[j]
                 PROVE  i = j
    BY <1>5 DEF D!IsInjective
  <2>2. q[n + i] = q[n + j] /\ n + i \in 1 .. len /\ n + j \in 1 .. len
    BY <1>3, <1>4, <2>1
  <2>3. n + i = n + j
    BY <1>2, <2>2 DEF Once, D!IsInjective
  <2> QED  BY <2>3
<1>7. ASSUME NEW x \in Streams
      PROVE  D!Contains(p, x) <=> \E i \in n + 1 .. k : q[i] = x
  <2>1. D!Contains(p, x) => \E i \in n + 1 .. k : q[i] = x
    BY <1>4 DEF D!Contains
  <2>2. ASSUME NEW i \in n + 1 .. k, q[i] = x PROVE D!Contains(p, x)
    <3>1. i - n \in 1 .. k - n /\ n + (i - n) = i
      OBVIOUS
    <3>2. i - n \in 1 .. Len(p) /\ p[i - n] = x
      BY <1>4, <2>2, <3>1
    <3> QED  BY <3>2 DEF D!Contains
  <2> QED  BY <2>1, <2>2
<1> QED  BY <1>1, <1>4, <1>6, <1>7 DEF Once

\* The first stream of a list and the rest of it.
LEMMA Detached ==
  ASSUME NEW q, Once(q), q # <<>>
  PROVE  /\ Once(Tail(q)) /\ Head(q) \in Streams /\ ~D!Contains(Tail(q), Head(q))
         /\ \A x \in Streams : D!Contains(q, x) <=> x = Head(q) \/ D!Contains(Tail(q), x)
<1>1. PICK w : w = Tail(q)
  OBVIOUS
<1>2. PICK n \in Nat : n = Len(q) /\ DOMAIN q = 1 .. n /\ n > 0
  BY DEF Once
<1>3. /\ w \in Seq(Streams) /\ Len(w) = n - 1 /\ DOMAIN w = 1 .. n - 1
      /\ \A i \in 1 .. n - 1 : w[i] = q[i + 1] /\ i + 1 \in 2 .. n
      /\ Head(q) = q[1] /\ Head(q) \in Streams
  BY <1>1, <1>2 DEF Once
<1>4. \A i, j \in 1 .. n : q[i] = q[j] => i = j
  BY <1>2 DEF Once, D!IsInjective
<1>5. D!IsInjective(w)
  <2>1. SUFFICES ASSUME NEW i \in 1 .. n - 1, NEW j \in 1 .. n - 1, w[i] = w[j]
                 PROVE  i = j
    BY <1>3 DEF D!IsInjective
  <2>2. i + 1 = j + 1
    BY <1>3, <1>4, <2>1
  <2> QED  BY <2>2
<1>6. \A i \in 1 .. n - 1 : w[i] # q[1]
  <2>1. SUFFICES ASSUME NEW i \in 1 .. n - 1, w[i] = q[1] PROVE FALSE
    OBVIOUS
  <2>2. i + 1 = 1
    BY <1>2, <1>3, <1>4, <2>1
  <2> QED  BY <2>2
<1>7. ASSUME NEW x \in Streams
      PROVE  D!Contains(q, x) <=> x = Head(q) \/ D!Contains(w, x)
  <2>1. ASSUME NEW i \in 1 .. n, q[i] = x PROVE x = q[1] \/ D!Contains(w, x)
    <3>1. CASE i = 1
      BY <2>1, <3>1
    <3>2. CASE i # 1
      <4>1. i - 1 \in 1 .. n - 1 /\ (i - 1) + 1 = i
        BY <3>2
      <4>2. i - 1 \in 1 .. Len(w) /\ w[i - 1] = x
        BY <1>3, <2>1, <4>1
      <4> QED  BY <4>2 DEF D!Contains
    <3> QED  BY <3>1, <3>2
  <2>2. ASSUME NEW i \in 1 .. n - 1, w[i] = x PROVE \E j \in 1 .. n : q[j] = x
    BY <1>3, <2>2
  <2>3. 1 \in 1 .. n
    BY <1>2
  <2> QED  BY <1>2, <1>3, <2>1, <2>2, <2>3 DEF D!Contains
<1> QED  BY <1>1, <1>3, <1>5, <1>6, <1>7 DEF Once, D!Contains

\* quicly_linklist_unlink.
LEMMA UnlinkedIs ==
  ASSUME NEW q, Once(q), NEW x \in Streams
  PROVE  /\ Once(D!Unlinked(q, x))
         /\ \A y \in Streams : D!Contains(D!Unlinked(q, x), y) <=> D!Contains(q, y) /\ y # x
         /\ q = <<>> => D!Unlinked(q, x) = <<>>
<1>1. CASE ~D!Contains(q, x)
  BY <1>1 DEF D!Unlinked
<1>2. CASE D!Contains(q, x)
  <2>1. PICK n \in Nat : n = Len(q) /\ DOMAIN q = 1 .. n
    BY DEF Once
  <2>2. PICK i \in 1 .. n : i = (CHOOSE j \in DOMAIN q : q[j] = x) /\ q[i] = x
    <3>1. \E j \in DOMAIN q : q[j] = x
      BY <1>2, <2>1 DEF D!Contains
    <3>2. PICK i : i = (CHOOSE j \in DOMAIN q : q[j] = x)
      OBVIOUS
    <3>3. i \in DOMAIN q /\ q[i] = x
      BY <3>1, <3>2
    <3> QED  BY <2>1, <3>2, <3>3
  <2>3. PICK u \in Nat, v \in Nat : u = i - 1 /\ v = i /\ u <= n /\ v <= n /\ u + 1 = i
    OBVIOUS
  <2>4. PICK z \in Nat : z = 0
    OBVIOUS
  <2>5. PICK p : p = SubSeq(q, z + 1, u)
    OBVIOUS
  <2>6. PICK w : w = SubSeq(q, v + 1, n)
    OBVIOUS
  <2>7. D!Unlinked(q, x) = p \o w
    <3>1. i - 1 = u /\ i + 1 = v + 1 /\ 1 = z + 1
      BY <2>3, <2>4
    <3> QED  BY <1>2, <2>1, <2>2, <2>5, <2>6, <3>1 DEF D!Unlinked, D!RemoveAt
  <2>8. /\ Once(p)
        /\ \A y \in Streams : D!Contains(p, y) <=> \E j \in 1 .. u : q[j] = y
    <3>1. z <= u /\ z + 1 = 1 /\ u <= Len(q)
      BY <2>1, <2>3, <2>4
    <3>2. /\ Once(p)
          /\ \A y \in Streams : D!Contains(p, y) <=> \E j \in z + 1 .. u : q[j] = y
      BY <2>5, <3>1, Cut
    <3> QED  BY <3>1, <3>2
  <2>9. /\ Once(w)
        /\ \A y \in Streams : D!Contains(w, y) <=> \E j \in v + 1 .. n : q[j] = y
    <3>1. v <= n /\ n <= Len(q)
      BY <2>1, <2>3
    <3> QED  BY <2>6, <3>1, Cut
  <2>10. \A j, k \in 1 .. n : q[j] = q[k] => j = k
    BY <2>1 DEF Once, D!IsInjective
  <2>11. Apart(p, w)
    <3>1. SUFFICES ASSUME NEW y \in Streams, NEW j \in 1 .. u, NEW k \in v + 1 .. n,
                          q[j] = y, q[k] = y
                   PROVE  FALSE
      BY <2>8, <2>9 DEF Apart
    <3>2. j \in 1 .. n /\ k \in 1 .. n /\ j # k
      BY <2>3
    <3> QED  BY <2>10, <3>1, <3>2
  <2>12. ASSUME NEW y \in Streams PROVE D!Contains(p \o w, y) <=> D!Contains(q, y) /\ y # x
    <3>1. D!Contains(p \o w, y) <=> D!Contains(p, y) \/ D!Contains(w, y)
      BY <2>8, <2>9, <2>11, Joined
    <3>2. D!Contains(q, y) <=> \E j \in 1 .. n : q[j] = y
      BY <2>1 DEF D!Contains
    <3>3. \A j \in 1 .. n : q[j] = x <=> j = i
      BY <2>2, <2>10
    <3>4. \A j \in 1 .. n : j # i <=> j \in 1 .. u \/ j \in v + 1 .. n
      BY <2>3
    <3>5. (\E j \in 1 .. n : q[j] = y /\ j # i) <=> D!Contains(p, y) \/ D!Contains(w, y)
      <4>1. \A j : j \in 1 .. u \/ j \in v + 1 .. n => j \in 1 .. n /\ j # i
        BY <2>3
      <4> QED  BY <2>8, <2>9, <3>4, <4>1
    <3> QED  BY <3>1, <3>2, <3>3, <3>5
  <2>13. q # <<>>
    BY <1>2 DEF D!Contains
  <2> QED  BY <2>7, <2>8, <2>9, <2>11, <2>12, <2>13, Joined
<1> QED  BY <1>1, <1>2
-----------------------------------------------------------------------------
(* Credit: the inductive invariant *)

\* a frame of the flow f is to be sent: OTHERS_BIT, or the stream is linked
FrameDue(e, f) == IF f = D!Conn THEN e.others ELSE f \in e.control

\* what stops the flow f (BlockedIsSaid)
Stopped(e, f) ==
  IF f = D!Conn THEN D!IsBlocked(e) /\ e.waiting # <<>>
  ELSE D!Pending(e, f) /\ ~D!CanSendAtStream(e, f)

WithinLimits(e) ==
  /\ e.data_sent <= e.limit[D!Conn]
  /\ \A id \in Streams : e.sent[id] <= e.limit[id]

\* the lists, the streams of X aside
Lists(e, X) ==
  /\ Once(e.active) /\ Once(e.waiting) /\ Apart(e.active, e.waiting)
  /\ \A id \in Streams \ X : D!CanSendAtStream(e, id) <=> D!Linked(e, id)

\* what the states of the BLOCKED frames mean, whether the flow is stopped or not
BlockedFrames(e) ==
  \A x \in e.sentmap : x.frame.kind = D!BlockedAt /\ x.frame.v <= e.limit[x.frame.on]
SaysSo(e) ==
  \A f \in D!Flows :
    /\ e.blocked[f] = "SEND" => FrameDue(e, f)
    /\ e.blocked[f] = "UNACKED" =>
         D!Entry(D!Frame(D!BlockedAt, f, e.limit[f]), TRUE) \in e.sentmap

StoppedSays(e, X) == \A f \in D!Flows \ X : Stopped(e, f) => e.blocked[f] # "NONE"

SenderInv(e, X) ==
  /\ e \in D!SenderStates
  /\ WithinLimits(e) /\ Lists(e, X) /\ BlockedFrames(e) /\ SaysSo(e) /\ StoppedSays(e, X)

\* what has been announced is covered by what has been consumed
Covered(e) ==
  /\ e.max[D!Conn].committed <= e.bytes_shifted + D!ConnLimit0
  /\ \A id \in Streams : /\ e.max[id].committed <= e.read[id] + D!StreamLimit0
                         /\ e.window[id] \in 1 .. D!StreamLimit0
RaiseFrames(e) ==
  \A x \in e.sentmap : x.frame.kind = D!Raise /\ x.frame.v <= e.max[x.frame.on].committed
\* the flows whose limit is due are scheduled, those of X aside
Announces(e, X) == \A f \in D!Flows \ X : D!ShouldSendMax(e, f) => FrameDue(e, f)

ReceiverInv(e, X) ==
  /\ e \in D!ReceiverStates
  /\ Covered(e) /\ RaiseFrames(e) /\ Announces(e, X)

\* what each of the endpoints knows of the other, of the flow f
Known(f) ==
  /\ d_r.max[f].acked <= d_s.limit[f] /\ d_s.limit[f] <= d_r.max[f].committed
  /\ d_s.limit[f] < d_r.max[f].committed =>
       \/ D!Entry(D!Frame(D!Raise, f, d_r.max[f].committed), TRUE) \in d_r.sentmap
       \/ d_r.max[f].lost
  /\ d_s.blocked[f] = "ACKED" /\ d_r.max[f].committed = d_s.limit[f] => d_r.max[f].remote_blocked

\* what the frames under way and those that have arrived say is no news
FramesKnown ==
  /\ \A m \in d_net : IF m.kind = D!Raise THEN m.v <= d_r.max[m.on].committed
                      ELSE m.v <= d_s.limit[m.on]
  /\ \A m \in d_arrived :
       /\ m.v <= d_s.limit[m.on]
       /\ m.kind = D!BlockedAt /\ m.v = d_r.max[m.on].committed => d_r.max[m.on].remote_blocked

CreditInv ==
  /\ D!TypeOK
  /\ SenderInv(d_s, {}) /\ ReceiverInv(d_r, {})
  /\ (\A f \in D!Flows : Known(f)) /\ FramesKnown

\* what decides whether a stream can send is the same in both
SameData(e, g) ==
  /\ g.written = e.written /\ g.sent = e.sent /\ g.data_sent = e.data_sent
  /\ g.again = e.again /\ g.limit = e.limit
SameLists(e, g) == g.active = e.active /\ g.waiting = e.waiting

\* what a stage of do_send leaves as it is, or adds
Onward(e, g) ==
  /\ g.limit = e.limit
  /\ \A f \in D!Flows : g.blocked[f] = "ACKED" => e.blocked[f] = "ACKED"
  /\ \A m \in g.out : m \in e.out \/ (m.kind = D!BlockedAt /\ m.v <= e.limit[m.on])

\* One stage after the other.
LEMMA OnwardTwice ==
  ASSUME NEW e, NEW g, NEW h, Onward(e, g), Onward(g, h)
  PROVE  Onward(e, h)
BY DEF Onward

\* Nothing else decides what can be sent.
LEMMA SameView ==
  ASSUME NEW e, NEW g, SameData(e, g)
  PROVE  /\ D!IsBlocked(g) <=> D!IsBlocked(e)
         /\ WithinLimits(g) <=> WithinLimits(e)
         /\ \A id \in Streams : /\ D!Pending(g, id) <=> D!Pending(e, id)
                                /\ D!CanSendAtStream(g, id) <=> D!CanSendAtStream(e, id)
                                /\ D!CanSendAtConn(g, id) <=> D!CanSendAtConn(e, id)
BY DEF SameData, D!IsBlocked, WithinLimits, D!Pending, D!PendingStart, D!CanSendAtStream,
       D!CanSendAtConn

\* Nor, with the lists, what is stopped.
LEMMA SameStopped ==
  ASSUME NEW e, NEW g, SameData(e, g), SameLists(e, g), NEW X
  PROVE  /\ \A f \in D!Flows : Stopped(g, f) <=> Stopped(e, f)
         /\ Lists(g, X) <=> Lists(e, X)
<1>1. \A id \in Streams : D!Linked(g, id) <=> D!Linked(e, id)
  BY DEF SameLists, D!Linked
<1>2. \A f \in D!Flows : f # D!Conn => f \in Streams
  BY DEF D!Flows
<1>3. \A f \in D!Flows : Stopped(g, f) <=> Stopped(e, f)
  BY <1>2, SameView DEF SameLists, Stopped
<1>4. Lists(g, X) <=> Lists(e, X)
  BY <1>1, SameView DEF SameLists, Lists
<1> QED  BY <1>3, <1>4

\* quicly_is_blocked.
LEMMA NoteConnIs ==
  ASSUME D!NamesAssumption, NEW e, NEW X, SenderInv(e, X)
  PROVE  LET g == D!NoteConnBlocked(e)
         IN  /\ SenderInv(g, X) /\ SameData(e, g) /\ SameLists(e, g) /\ Onward(e, g)
             /\ g.out = e.out
             /\ D!IsBlocked(g) => g.blocked[D!Conn] # "NONE"
<1>1. PICK g : g = D!NoteConnBlocked(e)
  OBVIOUS
<1>2. e \in D!SenderStates /\ D!Conn \in D!Flows
  BY DEF SenderInv, D!Flows
<1>3. CASE ~(D!IsBlocked(e) /\ e.blocked[D!Conn] = "NONE")
  <2>1. g = e
    BY <1>1, <1>3 DEF D!NoteConnBlocked
  <2> QED  BY <1>1, <1>3, <2>1 DEF SameData, SameLists, Onward
<1>4. CASE D!IsBlocked(e) /\ e.blocked[D!Conn] = "NONE"
  <2>1. g = [e EXCEPT !.blocked[D!Conn] = "SEND", !.others = TRUE]
    BY <1>1, <1>4 DEF D!NoteConnBlocked
  <2>2. /\ g \in D!SenderStates /\ SameData(e, g) /\ SameLists(e, g)
        /\ g.others = TRUE /\ g.blocked[D!Conn] = "SEND" /\ g.control = e.control
        /\ g.sentmap = e.sentmap /\ g.out = e.out
        /\ \A f \in D!Flows : f # D!Conn => g.blocked[f] = e.blocked[f]
    BY <1>2, <2>1 DEF D!SenderStates, SameData, SameLists
  <2>3. Onward(e, g)
    BY <2>2 DEF Onward, SameData
  <2>4. WithinLimits(g) /\ Lists(g, X)
    BY <2>2, SameView, SameStopped DEF SenderInv
  <2>5. BlockedFrames(g)
    BY <2>2 DEF SenderInv, BlockedFrames, SameData
  <2>6. SaysSo(g)
    <3>1. SUFFICES ASSUME NEW f \in D!Flows
                   PROVE  /\ g.blocked[f] = "SEND" => FrameDue(g, f)
                          /\ g.blocked[f] = "UNACKED" =>
                               D!Entry(D!Frame(D!BlockedAt, f, g.limit[f]), TRUE) \in g.sentmap
      BY DEF SaysSo
    <3>2. CASE f = D!Conn
      BY <2>2, <3>2 DEF FrameDue
    <3>3. CASE f # D!Conn
      BY <2>2, <3>3 DEF FrameDue, SenderInv, SaysSo, SameData
    <3> QED  BY <3>2, <3>3
  <2>7. StoppedSays(g, X)
    BY <2>2, SameStopped DEF SenderInv, StoppedSays
  <2> QED  BY <1>1, <2>2, <2>3, <2>4, <2>5, <2>6, <2>7 DEF SenderInv
<1> QED  BY <1>3, <1>4

\* quicly_stream_can_send at the stream's level, when it cannot.
LEMMA NoteStreamIs ==
  ASSUME D!NamesAssumption, NEW e, NEW id \in Streams, SenderInv(e, {id}),
         ~D!CanSendAtStream(e, id)
  PROVE  LET g == D!NoteStreamBlocked(e, id)
         IN  /\ SenderInv(g, {id}) /\ SameData(e, g) /\ SameLists(e, g) /\ Onward(e, g)
             /\ g.out = e.out /\ StoppedSays(g, {})
<1>1. PICK g : g = D!NoteStreamBlocked(e, id)
  OBVIOUS
<1>2. e \in D!SenderStates /\ id \in D!Flows /\ id # D!Conn
  BY DEF SenderInv, D!Flows, D!NamesAssumption
<1>3. \A f \in D!Flows : f # id => f \in D!Flows \ {id}
  OBVIOUS
<1>4. CASE ~(D!Pending(e, id) /\ e.blocked[id] = "NONE")
  <2>1. g = e
    BY <1>1, <1>4 DEF D!NoteStreamBlocked
  <2>2. StoppedSays(e, {})
    BY <1>2, <1>3, <1>4 DEF StoppedSays, SenderInv, Stopped
  <2> QED  BY <1>1, <2>1, <2>2 DEF SameData, SameLists, Onward
<1>5. CASE D!Pending(e, id) /\ e.blocked[id] = "NONE"
  <2>1. g = [e EXCEPT !.blocked[id] = "SEND", !.control = e.control \cup {id}]
    BY <1>1, <1>2, <1>5 DEF D!NoteStreamBlocked, D!SenderStates
  <2>2. /\ g \in D!SenderStates /\ SameData(e, g) /\ SameLists(e, g)
        /\ g.others = e.others /\ g.blocked[id] = "SEND" /\ id \in g.control
        /\ e.control \subseteq g.control
        /\ g.sentmap = e.sentmap /\ g.out = e.out
        /\ \A f \in D!Flows : f # id => g.blocked[f] = e.blocked[f]
    BY <1>2, <2>1 DEF D!SenderStates, SameData, SameLists
  <2>3. Onward(e, g)
    BY <2>2 DEF Onward, SameData
  <2>4. WithinLimits(g) /\ Lists(g, {id})
    BY <2>2, SameView, SameStopped DEF SenderInv
  <2>5. BlockedFrames(g)
    BY <2>2 DEF SenderInv, BlockedFrames, SameData
  <2>6. SaysSo(g)
    <3>1. SUFFICES ASSUME NEW f \in D!Flows
                   PROVE  /\ g.blocked[f] = "SEND" => FrameDue(g, f)
                          /\ g.blocked[f] = "UNACKED" =>
                               D!Entry(D!Frame(D!BlockedAt, f, g.limit[f]), TRUE) \in g.sentmap
      BY DEF SaysSo
    <3>2. CASE f = id
      BY <1>2, <2>2, <3>2 DEF FrameDue
    <3>3. CASE f # id
      BY <2>2, <3>3 DEF FrameDue, SenderInv, SaysSo, SameData
    <3> QED  BY <3>2, <3>3
  <2>7. StoppedSays(g, {})
    BY <1>3, <2>2, SameStopped DEF SenderInv, StoppedSays
  <2>8. StoppedSays(g, {id})
    BY <2>7 DEF StoppedSays
  <2> QED  BY <1>1, <2>2, <2>3, <2>4, <2>5, <2>6, <2>7, <2>8 DEF SenderInv
<1> QED  BY <1>4, <1>5

\* Nothing but the lists is different, and they are right: so is all of it.
LEMMA Relisted ==
  ASSUME D!NamesAssumption, NEW e, NEW g, NEW X, NEW Y \in SUBSET Streams, SenderInv(e, Y),
         g \in D!SenderStates, SameData(e, g), Lists(g, X),
         g.blocked = e.blocked, g.control = e.control, g.others = e.others,
         g.sentmap = e.sentmap, g.out = e.out,
         D!IsBlocked(e) /\ g.waiting # <<>> => e.blocked[D!Conn] # "NONE",
         \A id \in Y : Stopped(e, id) => e.blocked[id] # "NONE"
  PROVE  SenderInv(g, X) /\ StoppedSays(g, {}) /\ Onward(e, g)
<1>1. WithinLimits(g)
  BY SameView DEF SenderInv
<1>2. BlockedFrames(g)
  BY DEF SenderInv, BlockedFrames, SameData
<1>3. SaysSo(g)
  BY DEF SenderInv, SaysSo, SameData, FrameDue
<1>4. StoppedSays(g, {})
  <2>1. SUFFICES ASSUME NEW f \in D!Flows, Stopped(g, f) PROVE g.blocked[f] # "NONE"
    BY DEF StoppedSays
  <2>2. CASE f = D!Conn
    BY <2>1, <2>2, SameView DEF Stopped
  <2>3. CASE f # D!Conn
    <3>1. f \in Streams
      BY <2>3 DEF D!Flows
    <3>2. Stopped(e, f)
      BY <2>1, <2>3, <3>1, SameView DEF Stopped
    <3>3. e.blocked[f] # "NONE"
      BY <3>2 DEF SenderInv, StoppedSays
    <3> QED  BY <3>3
  <2> QED  BY <2>2, <2>3
<1>5. StoppedSays(g, X)
  BY <1>4 DEF StoppedSays
<1>6. Onward(e, g)
  BY DEF Onward, SameData
<1> QED  BY <1>1, <1>2, <1>3, <1>4, <1>5, <1>6 DEF SenderInv

\* link_stream, for a stream that can send.
LEMMA LinkStreamIs ==
  ASSUME D!NamesAssumption, NEW e, NEW id \in Streams, SenderInv(e, {id}),
         D!CanSendAtStream(e, id), D!IsBlocked(e) => e.blocked[D!Conn] # "NONE"
  PROVE  LET g == D!LinkStream(e, id, D!IsBlocked(e))
         IN  SenderInv(g, {}) /\ SameData(e, g) /\ Onward(e, g) /\ g.out = e.out
<1>1. PICK g : g = D!LinkStream(e, id, D!IsBlocked(e))
  OBVIOUS
<1>2. /\ e \in D!SenderStates /\ Once(e.active) /\ Once(e.waiting)
      /\ Apart(e.active, e.waiting)
      /\ \A x \in Streams : x # id => (D!CanSendAtStream(e, x) <=> D!Linked(e, x))
  BY DEF SenderInv, Lists
<1>3. ~Stopped(e, id)
  BY DEF Stopped, D!NamesAssumption
<1>4. CASE D!Linked(e, id)
  <2>1. g = e
    BY <1>1, <1>4 DEF D!LinkStream
  <2>2. Lists(e, {})
    BY <1>2, <1>4 DEF Lists
  <2>3. SameData(e, e)
    BY DEF SameData
  <2> QED  BY <1>1, <1>2, <1>3, <2>1, <2>2, <2>3, Relisted
<1>5. CASE ~D!Linked(e, id) /\ D!IsBlocked(e) /\ ~D!CanSendAtConn(e, id)
  <2>1. PICK w : w = Append(e.waiting, id)
    OBVIOUS
  <2>2. g = [e EXCEPT !.waiting = w]
    BY <1>1, <1>2, <1>5, <2>1 DEF D!LinkStream, D!SenderStates
  <2>3. /\ Once(w)
        /\ \A x \in Streams : D!Contains(w, x) <=> D!Contains(e.waiting, x) \/ x = id
    BY <1>2, <1>5, <2>1, Appended DEF D!Linked
  <2>4. /\ g \in D!SenderStates /\ SameData(e, g) /\ g.active = e.active /\ g.waiting = w
        /\ g.blocked = e.blocked /\ g.control = e.control /\ g.others = e.others
        /\ g.sentmap = e.sentmap /\ g.out = e.out
    BY <1>2, <2>2, <2>3 DEF D!SenderStates, SameData, Once
  <2>5. Lists(g, {})
    <3>1. Apart(g.active, g.waiting)
      BY <1>2, <1>5, <2>3, <2>4 DEF Apart, D!Linked
    <3>2. \A x \in Streams : D!Linked(g, x) <=> D!Linked(e, x) \/ x = id
      BY <2>3, <2>4 DEF D!Linked
    <3>3. \A x \in Streams : D!CanSendAtStream(g, x) <=> D!Linked(g, x)
      BY <1>2, <2>4, <3>2, SameView
    <3> QED  BY <1>2, <2>3, <2>4, <3>1, <3>3 DEF Lists
  <2> QED  BY <1>1, <1>3, <2>4, <2>5, Relisted
<1>6. CASE ~D!Linked(e, id) /\ ~(D!IsBlocked(e) /\ ~D!CanSendAtConn(e, id))
  <2>1. PICK w : w = Append(e.active, id)
    OBVIOUS
  <2>2. g = [e EXCEPT !.active = w]
    BY <1>1, <1>2, <1>6, <2>1 DEF D!LinkStream, D!SenderStates
  <2>3. /\ Once(w)
        /\ \A x \in Streams : D!Contains(w, x) <=> D!Contains(e.active, x) \/ x = id
    BY <1>2, <1>6, <2>1, Appended DEF D!Linked
  <2>4. /\ g \in D!SenderStates /\ SameData(e, g) /\ g.waiting = e.waiting /\ g.active = w
        /\ g.blocked = e.blocked /\ g.control = e.control /\ g.others = e.others
        /\ g.sentmap = e.sentmap /\ g.out = e.out
    BY <1>2, <2>2, <2>3 DEF D!SenderStates, SameData, Once
  <2>5. Lists(g, {})
    <3>1. Apart(g.active, g.waiting)
      BY <1>2, <1>6, <2>3, <2>4 DEF Apart, D!Linked
    <3>2. \A x \in Streams : D!Linked(g, x) <=> D!Linked(e, x) \/ x = id
      BY <2>3, <2>4 DEF D!Linked
    <3>3. \A x \in Streams : D!CanSendAtStream(g, x) <=> D!Linked(g, x)
      BY <1>2, <2>4, <3>2, SameView
    <3> QED  BY <1>2, <2>3, <2>4, <3>1, <3>3 DEF Lists
  <2> QED  BY <1>1, <1>3, <2>4, <2>5, Relisted
<1> QED  BY <1>4, <1>5, <1>6

\* quicly_linklist_unlink, of a stream that cannot send.
LEMMA UnlinkIs ==
  ASSUME D!NamesAssumption, NEW e, NEW id \in Streams, SenderInv(e, {id}),
         StoppedSays(e, {}), ~D!CanSendAtStream(e, id)
  PROVE  LET g == D!Unlink(e, id)
         IN  SenderInv(g, {}) /\ SameData(e, g) /\ Onward(e, g) /\ g.out = e.out
<1>1. PICK g : g = D!Unlink(e, id)
  OBVIOUS
<1>2. /\ e \in D!SenderStates /\ Once(e.active) /\ Once(e.waiting)
      /\ Apart(e.active, e.waiting)
      /\ \A x \in Streams : x # id => (D!CanSendAtStream(e, x) <=> D!Linked(e, x))
  BY DEF SenderInv, Lists
<1>3. PICK p : p = D!Unlinked(e.active, id)
  OBVIOUS
<1>4. PICK q : q = D!Unlinked(e.waiting, id)
  OBVIOUS
<1>5. /\ Once(p) /\ Once(q) /\ (e.waiting = <<>> => q = <<>>)
      /\ \A x \in Streams : D!Contains(p, x) <=> D!Contains(e.active, x) /\ x # id
      /\ \A x \in Streams : D!Contains(q, x) <=> D!Contains(e.waiting, x) /\ x # id
  BY <1>2, <1>3, <1>4, UnlinkedIs
<1>6. g = [e EXCEPT !.active = p, !.waiting = q]
  BY <1>1, <1>2, <1>3, <1>4 DEF D!Unlink, D!SenderStates
<1>7. /\ g \in D!SenderStates /\ SameData(e, g) /\ g.active = p /\ g.waiting = q
      /\ g.blocked = e.blocked /\ g.control = e.control /\ g.others = e.others
      /\ g.sentmap = e.sentmap /\ g.out = e.out
  BY <1>2, <1>5, <1>6 DEF D!SenderStates, SameData, Once
<1>8. Lists(g, {})
  <2>1. Apart(p, q)
    BY <1>2, <1>5 DEF Apart
  <2>2. \A x \in Streams : D!Linked(g, x) <=> D!Linked(e, x) /\ x # id
    BY <1>5, <1>7 DEF D!Linked
  <2>3. \A x \in Streams : D!CanSendAtStream(g, x) <=> D!Linked(g, x)
    BY <1>2, <1>7, <2>2, SameView
  <2> QED  BY <1>5, <1>7, <2>1, <2>3 DEF Lists
<1>9. /\ D!IsBlocked(e) /\ g.waiting # <<>> => e.blocked[D!Conn] # "NONE"
      /\ Stopped(e, id) => e.blocked[id] # "NONE"
  <2>1. D!Conn \in D!Flows /\ id \in D!Flows
    BY DEF D!Flows
  <2>2. D!IsBlocked(e) /\ e.waiting # <<>> => e.blocked[D!Conn] # "NONE"
    BY <2>1 DEF StoppedSays, Stopped
  <2> QED  BY <1>5, <1>7, <2>1, <2>2 DEF StoppedSays
<1> QED  BY <1>1, <1>7, <1>8, <1>9, Relisted

\* default_stream_scheduler_update_state: whatever has changed of the stream.
LEMMA ReschedIs ==
  ASSUME D!NamesAssumption, NEW e, NEW id \in Streams, SenderInv(e, {id})
  PROVE  LET g == D!Resched(e, id)
         IN  SenderInv(g, {}) /\ SameData(e, g) /\ Onward(e, g) /\ g.out = e.out
<1>1. CASE D!CanSendAtStream(e, id)
  <2>1. PICK n : n = D!NoteConnBlocked(e)
    OBVIOUS
  <2>2. /\ SenderInv(n, {id}) /\ SameData(e, n) /\ Onward(e, n) /\ n.out = e.out
        /\ D!IsBlocked(n) => n.blocked[D!Conn] # "NONE"
    BY <2>1, NoteConnIs
  <2>3. (D!IsBlocked(n) <=> D!IsBlocked(e)) /\ D!CanSendAtStream(n, id)
    BY <1>1, <2>2, SameView
  <2>4. PICK g : g = D!LinkStream(n, id, D!IsBlocked(n))
    OBVIOUS
  <2>5. SenderInv(g, {}) /\ SameData(n, g) /\ Onward(n, g) /\ g.out = n.out
    BY <2>2, <2>3, <2>4, LinkStreamIs
  <2>6. D!Resched(e, id) = g
    BY <1>1, <2>1, <2>3, <2>4 DEF D!Resched, D!LinkStream
  <2> QED  BY <2>2, <2>5, <2>6, OnwardTwice DEF SameData
<1>2. CASE ~D!CanSendAtStream(e, id)
  <2>1. PICK n : n = D!NoteStreamBlocked(e, id)
    OBVIOUS
  <2>2. /\ SenderInv(n, {id}) /\ SameData(e, n) /\ Onward(e, n) /\ n.out = e.out /\ StoppedSays(n, {})
    BY <1>2, <2>1, NoteStreamIs
  <2>3. ~D!CanSendAtStream(n, id)
    BY <1>2, <2>2, SameView
  <2>4. PICK g : g = D!Unlink(n, id)
    OBVIOUS
  <2>5. SenderInv(g, {}) /\ SameData(n, g) /\ Onward(n, g) /\ g.out = n.out
    BY <2>2, <2>3, <2>4, UnlinkIs
  <2>6. D!Resched(e, id) = g
    BY <1>2, <2>1, <2>4 DEF D!Resched
  <2> QED  BY <2>2, <2>5, <2>6, OnwardTwice DEF SameData
<1> QED  BY <1>1, <1>2

\* the end of the loop of default_stream_scheduler_do_send.
LEMMA RelinkedIs ==
  ASSUME D!NamesAssumption, NEW e, NEW id \in Streams, SenderInv(e, {id}),
         ~D!Linked(e, id), D!IsBlocked(e) => e.blocked[D!Conn] # "NONE"
  PROVE  LET g == D!Relinked(e, id)
         IN  SenderInv(g, {}) /\ SameData(e, g) /\ Onward(e, g)
<1>1. CASE D!CanSendAtStream(e, id)
  BY <1>1, LinkStreamIs DEF D!Relinked
<1>2. CASE ~D!CanSendAtStream(e, id)
  <2>1. PICK g : g = D!NoteStreamBlocked(e, id)
    OBVIOUS
  <2>2. /\ SenderInv(g, {id}) /\ SameData(e, g) /\ SameLists(e, g) /\ Onward(e, g)
        /\ StoppedSays(g, {})
    BY <1>2, <2>1, NoteStreamIs
  <2>3. ~D!CanSendAtStream(g, id) /\ ~D!Linked(g, id)
    BY <1>2, <2>2, SameView DEF D!Linked, SameLists
  <2>4. Lists(g, {})
    BY <2>2, <2>3 DEF SenderInv, Lists
  <2>5. SenderInv(g, {})
    BY <2>2, <2>4 DEF SenderInv
  <2> QED  BY <1>2, <2>1, <2>2, <2>5 DEF D!Relinked
<1> QED  BY <1>1, <1>2

\* default_stream_scheduler_do_send, when the connection is not blocked.
LEMMA MergeIs ==
  ASSUME D!NamesAssumption, NEW e, SenderInv(e, {}), ~D!IsBlocked(e)
  PROVE  SenderInv(D!Merge(e), {}) /\ SameData(e, D!Merge(e)) /\ Onward(e, D!Merge(e))
<1>1. PICK g : g = D!Merge(e)
  OBVIOUS
<1>2. /\ e \in D!SenderStates /\ Once(e.active) /\ Once(e.waiting)
      /\ Apart(e.active, e.waiting) /\ Apart(e.waiting, e.active)
      /\ \A x \in Streams : D!CanSendAtStream(e, x) <=> D!Linked(e, x)
  BY DEF SenderInv, Lists, Apart
<1>3. PICK w : w = e.waiting \o e.active
  OBVIOUS
<1>4. /\ Once(w)
      /\ \A x \in Streams : D!Contains(w, x) <=> D!Contains(e.waiting, x) \/ D!Contains(e.active, x)
  BY <1>2, <1>3, Joined
<1>5. PICK z \in Seq(Streams) : z = <<>>
  <2>1. <<>> \in Seq(Streams)
    BY EmptySeq
  <2> QED  BY <2>1
<1>6. g = [e EXCEPT !.active = w, !.waiting = z]
  BY <1>1, <1>2, <1>3, <1>5 DEF D!Merge, D!SenderStates
<1>7. /\ g \in D!SenderStates /\ SameData(e, g) /\ g.active = w /\ g.waiting = z
      /\ g.blocked = e.blocked /\ g.control = e.control /\ g.others = e.others
      /\ g.sentmap = e.sentmap /\ g.out = e.out
  BY <1>2, <1>4, <1>6 DEF D!SenderStates, SameData, Once
<1>8. Lists(g, {})
  <2>1. Once(z)
    BY <1>5 DEF Once, D!IsInjective
  <2>2. \A x \in Streams : ~D!Contains(z, x)
    BY <1>5 DEF D!Contains
  <2>3. \A x \in Streams : D!Linked(g, x) <=> D!Linked(e, x)
    BY <1>4, <1>7, <2>2 DEF D!Linked
  <2>4. Apart(g.active, g.waiting)
    BY <1>7, <2>2 DEF Apart
  <2>5. \A x \in Streams : D!CanSendAtStream(g, x) <=> D!Linked(g, x)
    BY <1>2, <1>7, <2>3, SameView
  <2> QED  BY <1>4, <1>7, <2>1, <2>4, <2>5 DEF Lists
<1>9. PICK Y \in SUBSET Streams : Y = {}
  OBVIOUS
<1>10. SenderInv(g, {}) /\ Onward(e, g)
  BY <1>7, <1>8, <1>9, Relisted
<1> QED  BY <1>1, <1>7, <1>10

\* How many streams in front of the list the connection's limit holds back.
LEMMA FrontIs ==
  ASSUME NEW e, NEW q \in Seq(Streams)
  PROVE  LET front == {i \in DOMAIN q : \A j \in 1 .. i : ~D!CanSendAtConn(e, q[j])}
         IN  \E n \in Nat : /\ n = Cardinality(front) /\ n <= Len(q)
                            /\ n < Len(q) => D!CanSendAtConn(e, q[n + 1])
<1>1. PICK front : front = {i \in DOMAIN q : \A j \in 1 .. i : ~D!CanSendAtConn(e, q[j])}
  OBVIOUS
<1>2. PICK len \in Nat : len = Len(q) /\ DOMAIN q = 1 .. len
  OBVIOUS
<1>3. PICK n \in Nat : /\ front = 1 .. n /\ n <= len
                       /\ n < len => D!CanSendAtConn(e, q[n + 1])
  <2>1. CASE \A i \in 1 .. len : ~D!CanSendAtConn(e, q[i])
    <3>1. front = 1 .. len
      <4>1. \A i \in 1 .. len : \A j \in 1 .. i : j \in 1 .. len
        OBVIOUS
      <4> QED  BY <1>1, <1>2, <2>1, <4>1
    <3> QED  BY <3>1
  <2>2. CASE \E i \in 1 .. len : D!CanSendAtConn(e, q[i])
    <3>1. PICK T : T = {i \in 1 .. len : D!CanSendAtConn(e, q[i])}
      OBVIOUS
    <3>2. T \subseteq Nat /\ T # {}
      BY <2>2, <3>1
    <3>3. PICK m \in T : \A k \in T : m <= k
      BY <3>2, LeastExists
    <3>4. m \in 1 .. len /\ D!CanSendAtConn(e, q[m])
      BY <3>1
    <3>5. PICK n \in Nat : n = m - 1
      BY <3>4
    <3>6. \A j \in 1 .. n : ~D!CanSendAtConn(e, q[j])
      <4>1. \A j \in 1 .. n : j \in 1 .. len /\ ~(m <= j)
        BY <3>4, <3>5
      <4> QED  BY <3>1, <3>3, <4>1
    <3>7. front = 1 .. n
      <4>1. \A i \in 1 .. n : i \in 1 .. len /\ \A j \in 1 .. i : j \in 1 .. n
        BY <3>4, <3>5
      <4>2. \A i \in 1 .. len : i \notin 1 .. n => m \in 1 .. i
        BY <3>4, <3>5
      <4>3. \A i \in 1 .. n : i \in front
        BY <1>1, <1>2, <3>6, <4>1
      <4>4. \A i \in front : i \in 1 .. n
        BY <1>1, <1>2, <3>4, <4>2
      <4> QED  BY <4>3, <4>4
    <3>8. n <= len /\ n + 1 = m
      BY <3>4, <3>5
    <3> QED  BY <3>4, <3>7, <3>8
  <2> QED  BY <2>1, <2>2
<1>4. Cardinality(1 .. n) = n
  <2>1. 1 \in Int /\ n \in Int
    OBVIOUS
  <2>2. Cardinality(1 .. n) = IF 1 > n THEN 0 ELSE n - 1 + 1
    BY <2>1, FS_Interval
  <2> QED  BY <2>2
<1> QED  BY <1>1, <1>2, <1>3, <1>4

\* ... which go to the list that waits.
LEMMA MoveWaitingIs ==
  ASSUME D!NamesAssumption, NEW e, SenderInv(e, {}),
         D!IsBlocked(e) => e.blocked[D!Conn] # "NONE"
  PROVE  LET g == D!MoveWaiting(e)
         IN  /\ SenderInv(g, {}) /\ Onward(e, g)
             /\ D!IsBlocked(g) /\ g.active # <<>> => D!CanSendAtConn(g, Head(g.active))
<1>1. CASE ~D!IsBlocked(e)
  <2>1. D!MoveWaiting(e) = e
    BY <1>1 DEF D!MoveWaiting
  <2> QED  BY <1>1, <2>1 DEF Onward
<1>2. CASE D!IsBlocked(e)
  <2>1. /\ e \in D!SenderStates /\ Once(e.active) /\ Once(e.waiting)
        /\ Apart(e.active, e.waiting)
        /\ \A x \in Streams : D!CanSendAtStream(e, x) <=> D!Linked(e, x)
    BY DEF SenderInv, Lists
  <2>2. PICK q : q = e.active
    OBVIOUS
  <2>3. PICK front : front = {i \in DOMAIN q : \A j \in 1 .. i : ~D!CanSendAtConn(e, q[j])}
    OBVIOUS
  <2>4. q \in Seq(Streams) /\ Once(q) /\ Len(q) \in Nat
    BY <2>1, <2>2 DEF Once
  <2>5. PICK n \in Nat : /\ n = Cardinality(front) /\ n <= Len(q)
                         /\ n < Len(q) => D!CanSendAtConn(e, q[n + 1])
    BY <2>3, <2>4, FrontIs
  <2>6. PICK ac : ac = SubSeq(q, n + 1, Len(q))
    OBVIOUS
  <2>7. PICK z \in Nat : z = 0
    OBVIOUS
  <2>8. PICK p : p = SubSeq(q, z + 1, n)
    OBVIOUS
  <2>9. /\ Once(ac) /\ Len(ac) = Len(q) - n
        /\ \A i \in 1 .. Len(q) - n : ac[i] = q[n + i]
        /\ \A x \in Streams : D!Contains(ac, x) <=> \E i \in n + 1 .. Len(q) : q[i] = x
    <3>1. PICK len \in Nat : len = Len(q) /\ n <= len /\ len <= Len(q)
      BY <2>4, <2>5
    <3>2. /\ Once(SubSeq(q, n + 1, len)) /\ Len(SubSeq(q, n + 1, len)) = len - n
          /\ \A i \in 1 .. len - n : SubSeq(q, n + 1, len)[i] = q[n + i]
          /\ \A x \in Streams :
               D!Contains(SubSeq(q, n + 1, len), x) <=> \E i \in n + 1 .. len : q[i] = x
      BY <2>4, <3>1, Cut
    <3> QED  BY <2>6, <3>1, <3>2
  <2>10. /\ Once(p)
         /\ \A x \in Streams : D!Contains(p, x) <=> \E i \in 1 .. n : q[i] = x
    <3>1. z <= n /\ n <= Len(q) /\ z + 1 = 1
      BY <2>5, <2>7
    <3>2. /\ Once(p)
          /\ \A x \in Streams : D!Contains(p, x) <=> \E i \in z + 1 .. n : q[i] = x
      BY <2>4, <2>8, <3>1, Cut
    <3> QED  BY <3>1, <3>2
  <2>11. PICK w : w = e.waiting \o p
    OBVIOUS
  <2>12. /\ \A x \in Streams : D!Contains(q, x) <=> D!Contains(p, x) \/ D!Contains(ac, x)
         /\ Apart(ac, p)
    <3>1. \A i \in 1 .. Len(q) : i \in 1 .. n \/ i \in n + 1 .. Len(q)
      BY <2>4, <2>5
    <3>2. /\ \A i \in 1 .. n : i \in 1 .. Len(q)
          /\ \A i \in n + 1 .. Len(q) : i \in 1 .. Len(q) /\ i \notin 1 .. n
      BY <2>4, <2>5
    <3>3. \A i, j \in 1 .. Len(q) : q[i] = q[j] => i = j
      BY <2>4 DEF Once, D!IsInjective
    <3>4. \A x \in Streams : D!Contains(q, x) <=> D!Contains(p, x) \/ D!Contains(ac, x)
      BY <2>9, <2>10, <3>1, <3>2 DEF D!Contains
    <3>5. Apart(ac, p)
      BY <2>9, <2>10, <3>2, <3>3 DEF Apart
    <3> QED  BY <3>4, <3>5
  <2>13. /\ Once(w) /\ Apart(ac, w)
         /\ \A x \in Streams : D!Contains(w, x) <=> D!Contains(e.waiting, x) \/ D!Contains(p, x)
    <3>1. Apart(e.waiting, p) /\ Apart(ac, e.waiting)
      BY <2>1, <2>2, <2>12 DEF Apart
    <3>2. /\ Once(w)
          /\ \A x \in Streams : D!Contains(w, x) <=> D!Contains(e.waiting, x) \/ D!Contains(p, x)
      BY <2>1, <2>10, <2>11, <3>1, Joined
    <3> QED  BY <2>12, <3>1, <3>2 DEF Apart
  <2>14. PICK g : g = D!MoveWaiting(e)
    OBVIOUS
  <2>15. g = [e EXCEPT !.active = ac, !.waiting = w]
    <3>1. z + 1 = 1
      BY <2>7
    <3>2. n = D!Cardinality(front)
      BY <2>5, CreditCardinalityIs
    <3> QED  BY <1>2, <2>1, <2>2, <2>3, <2>6, <2>8, <2>11, <2>14, <3>1, <3>2
             DEF D!MoveWaiting, D!SenderStates
  <2>16. /\ g \in D!SenderStates /\ SameData(e, g) /\ g.active = ac /\ g.waiting = w
         /\ g.blocked = e.blocked /\ g.control = e.control /\ g.others = e.others
         /\ g.sentmap = e.sentmap /\ g.out = e.out
    BY <2>1, <2>9, <2>13, <2>15 DEF D!SenderStates, SameData, Once
  <2>17. Lists(g, {})
    <3>1. \A x \in Streams : D!Linked(g, x) <=> D!Linked(e, x)
      BY <2>2, <2>12, <2>13, <2>16 DEF D!Linked
    <3>2. \A x \in Streams : D!CanSendAtStream(g, x) <=> D!Linked(g, x)
      BY <2>1, <2>16, <3>1, SameView
    <3> QED  BY <2>9, <2>13, <2>16, <3>2 DEF Lists
  <2>18. PICK Y \in SUBSET Streams : Y = {}
    OBVIOUS
  <2>19. SenderInv(g, {}) /\ Onward(e, g)
    BY <2>16, <2>17, <2>18, Relisted
  <2>20. g.active # <<>> => D!CanSendAtConn(g, Head(g.active))
    <3>1. SUFFICES ASSUME ac # <<>> PROVE D!CanSendAtConn(g, Head(ac))
      BY <2>16
    <3>2. Len(ac) > 0 /\ Head(ac) = ac[1]
      BY <2>9, <3>1 DEF Once
    <3>3. n < Len(q) /\ ac[1] = q[n + 1] /\ n + 1 \in 1 .. Len(q)
      BY <2>4, <2>5, <2>9, <3>2
    <3>4. q[n + 1] \in Streams
      BY <2>4, <3>3
    <3> QED  BY <2>5, <2>16, <3>2, <3>3, <3>4, SameView
  <2> QED  BY <2>14, <2>19, <2>20
<1> QED  BY <1>1, <1>2

\* quicly_send_stream: the stream at the front is taken off the list and sends.
LEMMA SendStreamIs ==
  ASSUME D!NamesAssumption, NEW e, SenderInv(e, {}), e.active # <<>>,
         D!IsBlocked(e) => D!CanSendAtConn(e, Head(e.active))
  PROVE  LET id == Head(e.active)
             bl  == D!SendStream([e EXCEPT !.active = Tail(e.active)], id)
         IN  id \in Streams /\ SenderInv(bl, {id, D!Conn}) /\ ~D!Linked(bl, id) /\ Onward(e, bl)
<1>1. /\ e \in D!SenderStates /\ Once(e.active) /\ Once(e.waiting)
      /\ Apart(e.active, e.waiting)
      /\ \A x \in Streams : D!CanSendAtStream(e, x) <=> D!Linked(e, x)
  BY DEF SenderInv, Lists
<1>2. PICK id : id = Head(e.active)
  OBVIOUS
<1>3. PICK w : w = Tail(e.active)
  OBVIOUS
<1>4. /\ Once(w) /\ id \in Streams /\ ~D!Contains(w, id)
      /\ \A x \in Streams : D!Contains(e.active, x) <=> x = id \/ D!Contains(w, x)
  BY <1>1, <1>2, <1>3, Detached
<1>5. PICK ac : ac = [e EXCEPT !.active = w]
  OBVIOUS
<1>6. /\ ac \in D!SenderStates /\ SameData(e, ac) /\ ac.active = w /\ ac.waiting = e.waiting
      /\ ac.blocked = e.blocked /\ ac.control = e.control /\ ac.others = e.others
      /\ ac.sentmap = e.sentmap /\ ac.out = e.out
  BY <1>1, <1>4, <1>5 DEF D!SenderStates, SameData, Once
<1>7. PICK bl : bl = D!SendStream(ac, id)
  OBVIOUS
<1>8. D!CanSendAtStream(e, id) /\ id # D!Conn
  BY <1>1, <1>4 DEF D!Linked, D!NamesAssumption
<1>9. /\ bl \in D!SenderStates /\ WithinLimits(bl)
      /\ bl.limit = e.limit /\ bl.written = e.written
      /\ bl.active = w /\ bl.waiting = e.waiting
      /\ bl.blocked = e.blocked /\ bl.control = e.control /\ bl.others = e.others
      /\ bl.sentmap = e.sentmap /\ bl.out = e.out
      /\ \A x \in Streams : x # id => /\ bl.sent[x] = e.sent[x]
                                      /\ x \in bl.again <=> x \in e.again
  <2>1. CASE id \in ac.again
    <3>1. bl = [ac EXCEPT !.again = ac.again \ {id}]
      BY <1>6, <1>7, <2>1 DEF D!SendStream, D!SenderStates
    <3>2. /\ bl \in D!SenderStates /\ bl.limit = ac.limit /\ bl.written = ac.written
          /\ bl.sent = ac.sent /\ bl.data_sent = ac.data_sent
          /\ bl.active = ac.active /\ bl.waiting = ac.waiting
          /\ bl.blocked = ac.blocked /\ bl.control = ac.control /\ bl.others = ac.others
          /\ bl.sentmap = ac.sentmap /\ bl.out = ac.out /\ bl.again = ac.again \ {id}
      BY <1>6, <3>1 DEF D!SenderStates
    <3>3. WithinLimits(bl)
      BY <1>6, <3>2 DEF SenderInv, WithinLimits, SameData
    <3> QED  BY <1>6, <3>2, <3>3 DEF SameData
  <2>2. CASE id \notin ac.again
    <3>1. ac.data_sent \in Nat /\ ac.sent \in [Streams -> Nat]
      BY <1>6 DEF D!SenderStates
    <3>2. bl = [ac EXCEPT !.sent = [ac.sent EXCEPT ![id] = ac.sent[id] + 1],
                          !.data_sent = ac.data_sent + 1]
      BY <1>4, <1>6, <1>7, <2>2 DEF D!SendStream, D!SenderStates
    <3>3. /\ [ac.sent EXCEPT ![id] = ac.sent[id] + 1] \in [Streams -> Nat]
          /\ ac.data_sent + 1 \in Nat
      BY <1>4, <3>1
    <3>4. /\ bl \in D!SenderStates /\ bl.limit = ac.limit /\ bl.written = ac.written
          /\ bl.sent = [ac.sent EXCEPT ![id] = ac.sent[id] + 1]
          /\ bl.data_sent = ac.data_sent + 1 /\ bl.again = ac.again
          /\ bl.active = ac.active /\ bl.waiting = ac.waiting
          /\ bl.blocked = ac.blocked /\ bl.control = ac.control /\ bl.others = ac.others
          /\ bl.sentmap = ac.sentmap /\ bl.out = ac.out
      BY <1>6, <3>2, <3>3 DEF D!SenderStates
    <3>5. \A x \in Streams : x # id => bl.sent[x] = ac.sent[x]
      BY <3>1, <3>4
    <3>6. id \notin e.again /\ e.sent[id] < e.limit[id]
      BY <1>6, <1>8, <2>2 DEF SameData, D!CanSendAtStream, D!PendingStart
    <3>7. ~D!IsBlocked(e)
      <4>1. e.sent[id] \in Nat
        BY <1>1, <1>4 DEF D!SenderStates
      <4>2. ~D!CanSendAtConn(e, id)
        BY <3>6, <4>1 DEF D!CanSendAtConn, D!PendingStart
      <4> QED  BY <1>2, <4>2
    <3>8. WithinLimits(bl)
      <4>1. /\ e.limit \in [D!Flows -> Nat] /\ e.data_sent \in Nat
            /\ D!Conn \in D!Flows /\ id \in D!Flows
        BY <1>1, <1>4 DEF D!SenderStates, D!Flows
      <4>2. e.limit[D!Conn] \in Nat /\ e.limit[id] \in Nat /\ e.sent[id] \in Nat
        BY <1>1, <1>4, <4>1 DEF D!SenderStates
      <4>3. bl.data_sent <= bl.limit[D!Conn]
        BY <1>6, <3>4, <3>7, <4>1, <4>2 DEF SameData, D!IsBlocked
      <4>4. bl.sent[id] <= bl.limit[id]
        BY <1>4, <1>6, <3>1, <3>4, <3>6, <4>2 DEF SameData
      <4>5. \A x \in Streams : x # id => bl.sent[x] <= bl.limit[x]
        BY <1>6, <3>4, <3>5 DEF SenderInv, WithinLimits, SameData
      <4> QED  BY <4>3, <4>4, <4>5 DEF WithinLimits
    <3> QED  BY <1>6, <3>4, <3>5, <3>8 DEF SameData
  <2> QED  BY <2>1, <2>2
<1>10. \A x \in Streams : x # id => /\ D!Pending(bl, x) <=> D!Pending(e, x)
                                    /\ D!CanSendAtStream(bl, x) <=> D!CanSendAtStream(e, x)
  BY <1>9 DEF D!Pending, D!PendingStart, D!CanSendAtStream
<1>11. Lists(bl, {id, D!Conn}) /\ ~D!Linked(bl, id)
  <2>1. Apart(bl.active, bl.waiting)
    BY <1>1, <1>4, <1>9 DEF Apart
  <2>2. \A x \in Streams : x # id => (D!Linked(bl, x) <=> D!Linked(e, x))
    BY <1>4, <1>9 DEF D!Linked
  <2>3. ~D!Linked(bl, id)
    BY <1>1, <1>4, <1>9 DEF D!Linked, Apart
  <2>4. \A x \in Streams \ {id, D!Conn} : D!CanSendAtStream(bl, x) <=> D!Linked(bl, x)
    BY <1>1, <1>10, <2>2
  <2> QED  BY <1>1, <1>4, <1>9, <2>1, <2>3, <2>4 DEF Lists
<1>12. BlockedFrames(bl)
  BY <1>9 DEF SenderInv, BlockedFrames
<1>13. SaysSo(bl)
  BY <1>9 DEF SenderInv, SaysSo, FrameDue
<1>14. StoppedSays(bl, {id, D!Conn})
  <2>1. SUFFICES ASSUME NEW f \in D!Flows, f # id, f # D!Conn, Stopped(bl, f)
                 PROVE  bl.blocked[f] # "NONE"
    BY DEF StoppedSays
  <2>2. f \in Streams
    BY <2>1 DEF D!Flows
  <2>3. Stopped(e, f)
    BY <1>10, <2>1, <2>2 DEF Stopped
  <2> QED  BY <1>9, <2>3 DEF SenderInv, StoppedSays
<1>15. Onward(e, bl)
  BY <1>9 DEF Onward
<1> QED  BY <1>2, <1>3, <1>4, <1>5, <1>7, <1>9, <1>11, <1>12, <1>13, <1>14, <1>15
         DEF SenderInv

\* one stream of the loop of default_stream_scheduler_do_send.
LEMMA SendFirstIs ==
  ASSUME D!NamesAssumption, NEW e, SenderInv(e, {}),
         D!IsBlocked(e) /\ e.active # <<>> => D!CanSendAtConn(e, Head(e.active))
  PROVE  SenderInv(D!SendFirst(e), {}) /\ Onward(e, D!SendFirst(e))
<1>1. CASE e.active = <<>>
  BY <1>1 DEF D!SendFirst, Onward
<1>2. CASE e.active # <<>>
  <2>1. PICK id : id = Head(e.active)
    OBVIOUS
  <2>2. PICK bl : bl = D!SendStream([e EXCEPT !.active = Tail(e.active)], id)
    OBVIOUS
  <2>3. id \in Streams /\ SenderInv(bl, {id, D!Conn}) /\ ~D!Linked(bl, id) /\ Onward(e, bl)
    BY <1>2, <2>1, <2>2, SendStreamIs
  <2>4. PICK c : c = D!NoteConnBlocked(bl)
    OBVIOUS
  <2>5. /\ SenderInv(c, {id, D!Conn}) /\ SameLists(bl, c) /\ Onward(bl, c)
        /\ D!IsBlocked(c) => c.blocked[D!Conn] # "NONE"
    BY <2>3, <2>4, NoteConnIs
  <2>6. SenderInv(c, {id}) /\ ~D!Linked(c, id)
    <3>1. \A x \in Streams \ {id} : x \in Streams \ {id, D!Conn}
      BY DEF D!NamesAssumption
    <3>2. Lists(c, {id})
      BY <2>5, <3>1 DEF SenderInv, Lists
    <3>3. StoppedSays(c, {id})
      <4>1. SUFFICES ASSUME NEW f \in D!Flows \ {id}, Stopped(c, f) PROVE c.blocked[f] # "NONE"
        BY DEF StoppedSays
      <4>2. CASE f = D!Conn
        BY <2>5, <4>1, <4>2 DEF Stopped
      <4>3. CASE f # D!Conn
        BY <2>5, <4>1, <4>3 DEF SenderInv, StoppedSays
      <4> QED  BY <4>2, <4>3
    <3> QED  BY <2>3, <2>5, <3>2, <3>3 DEF SenderInv, SameLists, D!Linked
  <2>7. PICK g : g = D!Relinked(c, id)
    OBVIOUS
  <2>8. SenderInv(g, {}) /\ Onward(c, g)
    BY <2>3, <2>5, <2>6, <2>7, RelinkedIs
  <2>9. D!SendFirst(e) = g
    <3>1. [e EXCEPT !.active = Tail(@)] = [e EXCEPT !.active = Tail(e.active)]
      BY DEF SenderInv, D!SenderStates
    <3> QED  BY <1>2, <2>1, <2>2, <2>4, <2>7, <3>1 DEF D!SendFirst
  <2>10. Onward(e, c)
    BY <2>3, <2>5, OnwardTwice
  <2> QED  BY <2>8, <2>9, <2>10, OnwardTwice
<1> QED  BY <1>1, <1>2

\* default_stream_scheduler_do_send.
LEMMA SchedulerDoSendIs ==
  ASSUME D!NamesAssumption, NEW e, SenderInv(e, {})
  PROVE  SenderInv(D!SchedulerDoSend(e), {}) /\ Onward(e, D!SchedulerDoSend(e))
<1>1. PICK n : n = IF D!IsBlocked(e) THEN D!NoteConnBlocked(e) ELSE D!Merge(e)
  OBVIOUS
<1>2. /\ SenderInv(n, {}) /\ Onward(e, n)
      /\ D!IsBlocked(n) => n.blocked[D!Conn] # "NONE"
  <2>1. CASE D!IsBlocked(e)
    BY <1>1, <2>1, NoteConnIs
  <2>2. CASE ~D!IsBlocked(e)
    <3>1. n = D!Merge(e)
      BY <1>1, <2>2
    <3>2. SenderInv(n, {}) /\ SameData(e, n) /\ Onward(e, n)
      BY <2>2, <3>1, MergeIs
    <3>3. ~D!IsBlocked(n)
      BY <2>2, <3>2, SameView
    <3> QED  BY <3>2, <3>3
  <2> QED  BY <2>1, <2>2
<1>3. PICK m : m = D!MoveWaiting(n)
  OBVIOUS
<1>4. /\ SenderInv(m, {}) /\ Onward(n, m)
      /\ D!IsBlocked(m) /\ m.active # <<>> => D!CanSendAtConn(m, Head(m.active))
  BY <1>2, <1>3, MoveWaitingIs
<1>5. PICK g : g = D!SendFirst(m)
  OBVIOUS
<1>6. SenderInv(g, {}) /\ Onward(m, g)
  BY <1>4, <1>5, SendFirstIs
<1>7. Onward(e, m)
  BY <1>2, <1>4, OnwardTwice
<1>8. Onward(e, g)
  BY <1>6, <1>7, OnwardTwice
<1> QED  BY <1>1, <1>3, <1>5, <1>6, <1>8 DEF D!SchedulerDoSend

-----------------------------------------------------------------------------
(* Credit: do_send at the sender *)

\* STREAM_DATA_BLOCKED and DATA_BLOCKED.
LEMMA SendBlockedIs ==
  ASSUME D!NamesAssumption, NEW e, SenderInv(e, {}), NEW flows \in SUBSET D!Flows
  PROVE  LET g == D!SendBlocked(e, flows)
         IN  /\ g \in D!SenderStates /\ SameData(e, g) /\ SameLists(e, g)
             /\ g.control = e.control /\ g.others = e.others
             /\ \A f \in D!Flows : g.blocked[f] = IF f \in flows /\ e.blocked[f] = "SEND"
                                                  THEN "UNACKED" ELSE e.blocked[f]
             /\ \A f \in D!Flows :
                  g.blocked[f] = "UNACKED" =>
                    D!Entry(D!Frame(D!BlockedAt, f, g.limit[f]), TRUE) \in g.sentmap
             /\ BlockedFrames(g) /\ Onward(e, g)
<1>1. PICK g : g = D!SendBlocked(e, flows)
  OBVIOUS
<1>2. e \in D!SenderStates
  BY DEF SenderInv
<1>3. PICK due : due = {f \in flows : e.blocked[f] = "SEND"}
  OBVIOUS
<1>4. PICK new : new = {D!Frame(D!BlockedAt, f, e.limit[f]) : f \in due}
  OBVIOUS
<1>5. PICK bl : bl = [f \in D!Flows |-> IF f \in due THEN "UNACKED" ELSE e.blocked[f]]
  OBVIOUS
<1>6. PICK more : more = {D!Entry(m, TRUE) : m \in new}
  OBVIOUS
<1>7. /\ bl \in [D!Flows -> {"NONE", "SEND", "UNACKED", "ACKED"}]
      /\ e.limit \in [D!Flows -> Nat] /\ due \subseteq D!Flows
  BY <1>2, <1>3, <1>5 DEF D!SenderStates
<1>8. /\ new \subseteq D!Frames
      /\ \A m \in new : m.kind = D!BlockedAt /\ m.v = e.limit[m.on] /\ m.v \in Nat
      /\ \A f \in due : D!Frame(D!BlockedAt, f, e.limit[f]) \in new
  <2>1. ASSUME NEW f \in due
        PROVE  /\ D!Frame(D!BlockedAt, f, e.limit[f]) \in D!Frames
               /\ D!Frame(D!BlockedAt, f, e.limit[f]).kind = D!BlockedAt
               /\ D!Frame(D!BlockedAt, f, e.limit[f]).on = f
               /\ D!Frame(D!BlockedAt, f, e.limit[f]).v = e.limit[f]
               /\ e.limit[f] \in Nat
    BY <1>7 DEF D!Frames, D!Frame
  <2> QED  BY <1>4, <2>1
<1>9. /\ more \subseteq [frame : D!Frames, live : BOOLEAN]
      /\ \A x \in more : x.frame \in new
      /\ \A f \in due : D!Entry(D!Frame(D!BlockedAt, f, e.limit[f]), TRUE) \in more
  <2>1. ASSUME NEW m \in new
        PROVE  /\ D!Entry(m, TRUE) \in [frame : D!Frames, live : BOOLEAN]
               /\ D!Entry(m, TRUE).frame = m
    <3>1. m \in D!Frames
      BY <1>8
    <3> QED  BY <3>1 DEF D!Entry
  <2>2. \A m \in new : D!Entry(m, TRUE) \in more
    BY <1>6
  <2>3. \A x \in more : \E m \in new : x = D!Entry(m, TRUE)
    BY <1>6
  <2> QED  BY <1>8, <2>1, <2>2, <2>3
<1>10. g = [e EXCEPT !.blocked = bl, !.sentmap = e.sentmap \cup more, !.out = e.out \cup new]
  BY <1>1, <1>2, <1>3, <1>4, <1>5, <1>6 DEF D!SendBlocked, D!Emit, D!SenderStates
<1>11. /\ g \in D!SenderStates /\ SameData(e, g) /\ SameLists(e, g)
       /\ g.control = e.control /\ g.others = e.others /\ g.blocked = bl
       /\ g.sentmap = e.sentmap \cup more /\ g.out = e.out \cup new
  <2>1. /\ e.sentmap \cup more \in SUBSET [frame : D!Frames, live : BOOLEAN]
        /\ e.out \cup new \in SUBSET D!Frames
    BY <1>2, <1>8, <1>9 DEF D!SenderStates
  <2> QED  BY <1>2, <1>7, <1>10, <2>1 DEF D!SenderStates, SameData, SameLists
<1>12. \A f \in D!Flows : g.blocked[f] = IF f \in flows /\ e.blocked[f] = "SEND"
                                         THEN "UNACKED" ELSE e.blocked[f]
  BY <1>3, <1>5, <1>11
<1>13. ASSUME NEW f \in D!Flows, g.blocked[f] = "UNACKED"
       PROVE  D!Entry(D!Frame(D!BlockedAt, f, g.limit[f]), TRUE) \in g.sentmap
  <2>1. CASE f \in due
    BY <1>9, <1>11, <2>1 DEF SameData
  <2>2. CASE f \notin due
    <3>1. e.blocked[f] = "UNACKED"
      BY <1>5, <1>11, <1>13, <2>2
    <3>2. D!Entry(D!Frame(D!BlockedAt, f, e.limit[f]), TRUE) \in e.sentmap
      BY <3>1 DEF SenderInv, SaysSo
    <3> QED  BY <1>11, <3>2 DEF SameData
  <2> QED  BY <2>1, <2>2
<1>14. BlockedFrames(g)
  <2>1. ASSUME NEW x \in more PROVE x.frame.kind = D!BlockedAt /\ x.frame.v <= e.limit[x.frame.on]
    BY <1>8, <1>9
  <2>2. \A x \in e.sentmap : x.frame.kind = D!BlockedAt /\ x.frame.v <= e.limit[x.frame.on]
    BY DEF SenderInv, BlockedFrames
  <2> QED  BY <1>11, <2>1, <2>2 DEF BlockedFrames, SameData
<1>15. Onward(e, g)
  <2>1. \A m \in new : m.kind = D!BlockedAt /\ m.v <= e.limit[m.on]
    BY <1>8
  <2>2. \A f \in D!Flows : g.blocked[f] = "ACKED" => e.blocked[f] = "ACKED"
    BY <1>5, <1>11
  <2> QED  BY <1>11, <2>1, <2>2 DEF Onward, SameData
<1> QED  BY <1>1, <1>11, <1>12, <1>13, <1>14, <1>15

\* What has been said leaves the lists and the limits alone.
LEMMA SaidInv ==
  ASSUME D!NamesAssumption, NEW e, SenderInv(e, {}), NEW g,
         g \in D!SenderStates, SameData(e, g), SameLists(e, g), BlockedFrames(g), SaysSo(g),
         \A f \in D!Flows : e.blocked[f] # "NONE" => g.blocked[f] # "NONE"
  PROVE  SenderInv(g, {})
<1>1. WithinLimits(g) /\ Lists(g, {})
  BY SameView, SameStopped DEF SenderInv
<1>2. StoppedSays(g, {})
  BY SameStopped DEF SenderInv, StoppedSays
<1> QED  BY <1>1, <1>2 DEF SenderInv

\* send_stream_control_frames.
LEMMA SendControlIs ==
  ASSUME D!NamesAssumption, NEW e, SenderInv(e, {})
  PROVE  SenderInv(D!SendControl(e), {}) /\ Onward(e, D!SendControl(e))
<1>1. PICK bl : bl = D!SendBlocked(e, e.control)
  OBVIOUS
<1>2. e \in D!SenderStates /\ e.control \in SUBSET D!Flows /\ D!Conn \notin e.control
  BY DEF SenderInv, D!SenderStates, D!Flows, D!NamesAssumption
<1>3. /\ bl \in D!SenderStates /\ SameData(e, bl) /\ SameLists(e, bl)
      /\ bl.control = e.control /\ bl.others = e.others
      /\ \A f \in D!Flows : bl.blocked[f] = IF f \in e.control /\ e.blocked[f] = "SEND"
                                            THEN "UNACKED" ELSE e.blocked[f]
      /\ \A f \in D!Flows :
           bl.blocked[f] = "UNACKED" =>
             D!Entry(D!Frame(D!BlockedAt, f, bl.limit[f]), TRUE) \in bl.sentmap
      /\ BlockedFrames(bl) /\ Onward(e, bl)
  BY <1>1, <1>2, SendBlockedIs
<1>4. PICK g : g = [bl EXCEPT !.control = {}]
  OBVIOUS
<1>5. /\ g \in D!SenderStates /\ SameData(bl, g) /\ SameLists(bl, g)
      /\ g.control = {} /\ g.others = bl.others /\ g.blocked = bl.blocked
      /\ g.sentmap = bl.sentmap /\ g.out = bl.out
  BY <1>3, <1>4 DEF D!SenderStates, SameData, SameLists
<1>6. SaysSo(g)
  <2>1. SUFFICES ASSUME NEW f \in D!Flows
                 PROVE  /\ g.blocked[f] = "SEND" => FrameDue(g, f)
                        /\ g.blocked[f] = "UNACKED" =>
                             D!Entry(D!Frame(D!BlockedAt, f, g.limit[f]), TRUE) \in g.sentmap
    BY DEF SaysSo
  <2>2. g.blocked[f] = "SEND" => e.blocked[f] = "SEND" /\ f \notin e.control
    BY <1>3, <1>5
  <2>3. e.blocked[f] = "SEND" => FrameDue(e, f)
    BY DEF SenderInv, SaysSo
  <2>4. g.blocked[f] = "SEND" => FrameDue(g, f)
    BY <1>3, <1>5, <2>2, <2>3 DEF FrameDue
  <2> QED  BY <1>3, <1>5, <2>4 DEF SameData
<1>7. BlockedFrames(g) /\ SameData(e, g) /\ SameLists(e, g)
  BY <1>3, <1>5 DEF BlockedFrames, SameData, SameLists
<1>8. SenderInv(g, {})
  BY <1>3, <1>5, <1>6, <1>7, SaidInv
<1>9. Onward(e, g)
  BY <1>3, <1>5 DEF Onward, SameData
<1> QED  BY <1>1, <1>4, <1>8, <1>9 DEF D!SendControl

\* send_other_control_frames.
LEMMA SendOthersIs ==
  ASSUME D!NamesAssumption, NEW e, SenderInv(e, {})
  PROVE  SenderInv(D!SendOthers(e), {}) /\ Onward(e, D!SendOthers(e))
<1>1. PICK bl : bl = D!SendBlocked(e, {D!Conn})
  OBVIOUS
<1>2. e \in D!SenderStates /\ {D!Conn} \in SUBSET D!Flows
  BY DEF SenderInv, D!Flows
<1>3. /\ bl \in D!SenderStates /\ SameData(e, bl) /\ SameLists(e, bl)
      /\ bl.control = e.control /\ bl.others = e.others
      /\ \A f \in D!Flows : bl.blocked[f] = IF f \in {D!Conn} /\ e.blocked[f] = "SEND"
                                            THEN "UNACKED" ELSE e.blocked[f]
      /\ \A f \in D!Flows :
           bl.blocked[f] = "UNACKED" =>
             D!Entry(D!Frame(D!BlockedAt, f, bl.limit[f]), TRUE) \in bl.sentmap
      /\ BlockedFrames(bl) /\ Onward(e, bl)
  BY <1>1, <1>2, SendBlockedIs
<1>4. PICK g : g = [bl EXCEPT !.others = FALSE]
  OBVIOUS
<1>5. /\ g \in D!SenderStates /\ SameData(bl, g) /\ SameLists(bl, g)
      /\ g.control = bl.control /\ g.blocked = bl.blocked
      /\ g.sentmap = bl.sentmap /\ g.out = bl.out
  BY <1>3, <1>4 DEF D!SenderStates, SameData, SameLists
<1>6. SaysSo(g)
  <2>1. SUFFICES ASSUME NEW f \in D!Flows
                 PROVE  /\ g.blocked[f] = "SEND" => FrameDue(g, f)
                        /\ g.blocked[f] = "UNACKED" =>
                             D!Entry(D!Frame(D!BlockedAt, f, g.limit[f]), TRUE) \in g.sentmap
    BY DEF SaysSo
  <2>2. g.blocked[f] = "SEND" => e.blocked[f] = "SEND" /\ f # D!Conn
    BY <1>3, <1>5
  <2>3. e.blocked[f] = "SEND" => FrameDue(e, f)
    BY DEF SenderInv, SaysSo
  <2>4. g.blocked[f] = "SEND" => FrameDue(g, f)
    BY <1>3, <1>5, <2>2, <2>3 DEF FrameDue
  <2> QED  BY <1>3, <1>5, <2>4 DEF SameData
<1>7. BlockedFrames(g) /\ SameData(e, g) /\ SameLists(e, g)
  BY <1>3, <1>5 DEF BlockedFrames, SameData, SameLists
<1>8. SenderInv(g, {})
  BY <1>3, <1>5, <1>6, <1>7, SaidInv
<1>9. Onward(e, g)
  BY <1>3, <1>5 DEF Onward, SameData
<1> QED  BY <1>1, <1>4, <1>8, <1>9 DEF D!SendOthers

\* do_send, however far it comes.
LEMMA StagesAre ==
  ASSUME D!NamesAssumption, NEW e, SenderInv(e, {}), NEW g \in D!Stages(e)
  PROVE  SenderInv(g, {}) /\ Onward(e, g)
<1>1. PICK ac : ac = D!SendOthers(e)
  OBVIOUS
<1>2. SenderInv(ac, {}) /\ Onward(e, ac)
  BY <1>1, SendOthersIs
<1>3. PICK bl : bl = D!SendControl(ac)
  OBVIOUS
<1>4. SenderInv(bl, {}) /\ Onward(e, bl)
  BY <1>2, <1>3, SendControlIs, OnwardTwice
<1>5. PICK c : c = D!SchedulerDoSend(bl)
  OBVIOUS
<1>6. SenderInv(c, {}) /\ Onward(e, c)
  BY <1>4, <1>5, SchedulerDoSendIs, OnwardTwice
<1>7. PICK d : d = D!SendControl(c)
  OBVIOUS
<1>8. SenderInv(d, {}) /\ Onward(e, d)
  BY <1>6, <1>7, SendControlIs, OnwardTwice
<1>9. PICK h : h = D!OthersAgain(d)
  OBVIOUS
<1>10. SenderInv(h, {}) /\ Onward(e, h)
  <2>1. CASE d.others
    <3>1. h = D!SendOthers(d)
      BY <1>9, <2>1 DEF D!OthersAgain
    <3> QED  BY <1>8, <3>1, SendOthersIs, OnwardTwice
  <2>2. CASE ~d.others
    <3>1. h = d
      BY <1>9, <2>2 DEF D!OthersAgain
    <3> QED  BY <1>8, <3>1
  <2> QED  BY <2>1, <2>2
<1>11. g = ac \/ g = bl \/ g = c \/ g = h
  BY <1>1, <1>3, <1>5, <1>7, <1>9 DEF D!Stages
<1> QED  BY <1>2, <1>4, <1>6, <1>10, <1>11

-----------------------------------------------------------------------------
(* Credit: the steps of the sender *)

\* What the limits of the frames are numbers of.
LEMMA CreditFramesAre ==
  ASSUME NEW m \in D!Frames
  PROVE  m.on \in D!Flows /\ m.v \in Nat /\ (m.kind = D!Raise \/ m.kind = D!BlockedAt)
BY DEF D!Frames

\* MAX and BLOCKED frames are told apart.
LEMMA KindsDiffer == D!Raise # D!BlockedAt
BY DEF D!Raise, D!BlockedAt

\* The numbers of one flow.
LEMMA EndpointTypes ==
  ASSUME CreditInv, NEW f \in D!Flows
  PROVE  /\ d_s.limit[f] \in Nat /\ d_r.max[f] \in D!MaxSenders(Nat)
         /\ d_r.max[f].committed \in Nat /\ d_r.max[f].acked \in Nat
BY DEF CreditInv, D!TypeOK, D!SenderStates, D!ReceiverStates, D!MaxSenders

\* The receiver's part is that of the setting.
LEMMA ReceiverKept ==
  ASSUME d_set' = d_set, NEW e, e = d_r', ReceiverInv(e, {})
  PROVE  ReceiverInv(d_r, {})'
<1>1. D!ConnLimit0' = D!ConnLimit0 /\ D!StreamLimit0' = D!StreamLimit0
  BY DEF D!ConnLimit0, D!StreamLimit0
<1>2. Covered(d_r)'
  BY <1>1 DEF ReceiverInv, Covered
<1>3. RaiseFrames(d_r)'
  BY DEF ReceiverInv, RaiseFrames
<1>4. \A f \in D!Flows : D!ShouldSendMax(d_r, f)' => D!ShouldSendMax(e, f)
  BY <1>1 DEF D!ShouldSendMax
<1>5. Announces(d_r, {})'
  BY <1>4 DEF ReceiverInv, Announces, FrameDue
<1> QED  BY <1>2, <1>3, <1>5 DEF ReceiverInv

\* A step of the sender, which may learn of a limit that the receiver has committed
\* to and may say that it is blocked.
LEMMA SenderStep ==
  ASSUME CreditInv, d_set' = d_set, d_r' = d_r, SenderInv(d_s', {}), d_s'.out = {},
         d_net' \subseteq D!Frames, d_arrived' \subseteq D!Frames,
         \A f \in D!Flows : d_s.limit[f] <= d_s'.limit[f] /\ d_s'.limit[f] <= d_r.max[f].committed,
         \A f \in D!Flows : d_s'.blocked[f] = "ACKED" /\ d_r.max[f].committed = d_s'.limit[f] =>
                            d_r.max[f].remote_blocked,
         \A m \in d_net' : m \in d_net \/ (m.kind = D!BlockedAt /\ m.v <= d_s'.limit[m.on]),
         \A m \in d_arrived' : m \in d_arrived \/ (m.kind = D!Raise /\ m.v <= d_s'.limit[m.on])
  PROVE  CreditInv'
<1>1. PICK t : t = d_s'
  OBVIOUS
<1>2. t \in D!SenderStates /\ \A f \in D!Flows : t.limit[f] \in Nat
  BY <1>1 DEF SenderInv, D!SenderStates
<1>3. D!TypeOK'
  BY <1>1, <1>2 DEF CreditInv, D!TypeOK
<1>4. SenderInv(d_s, {})'
  OBVIOUS
<1>5. ReceiverInv(d_r, {})'
  BY ReceiverKept DEF CreditInv
<1>6. ASSUME NEW f \in D!Flows PROVE Known(f)'
  <2>1. Known(f) /\ d_s.limit[f] \in Nat /\ d_r.max[f].committed \in Nat /\ d_r.max[f].acked \in Nat
    BY EndpointTypes DEF CreditInv
  <2>2. d_s.limit[f] <= t.limit[f] /\ t.limit[f] <= d_r.max[f].committed /\ t.limit[f] \in Nat
    BY <1>1, <1>2
  <2>3. d_r.max[f].acked <= t.limit[f]
    BY <2>1, <2>2 DEF Known
  <2>4. t.limit[f] < d_r.max[f].committed => d_s.limit[f] < d_r.max[f].committed
    BY <2>1, <2>2
  <2>5. t.limit[f] < d_r.max[f].committed =>
          \/ D!Entry(D!Frame(D!Raise, f, d_r.max[f].committed), TRUE) \in d_r.sentmap
          \/ d_r.max[f].lost
    BY <2>1, <2>4 DEF Known
  <2>6. t.blocked[f] = "ACKED" /\ d_r.max[f].committed = t.limit[f] => d_r.max[f].remote_blocked
    BY <1>1
  <2> QED  BY <1>1, <2>2, <2>3, <2>5, <2>6 DEF Known
<1>7. FramesKnown'
  <2>1. ASSUME NEW m \in d_net'
        PROVE  IF m.kind = D!Raise THEN m.v <= d_r.max[m.on].committed ELSE m.v <= t.limit[m.on]
    <3>1. CASE m \in d_net
      <4>1. m \in D!Frames /\ m.on \in D!Flows /\ m.v \in Nat
        BY <3>1, CreditFramesAre DEF CreditInv, D!TypeOK
      <4>2. d_s.limit[m.on] \in Nat /\ t.limit[m.on] \in Nat /\ d_s.limit[m.on] <= t.limit[m.on]
        BY <1>1, <1>2, <4>1, EndpointTypes
      <4>3. IF m.kind = D!Raise THEN m.v <= d_r.max[m.on].committed ELSE m.v <= d_s.limit[m.on]
        BY <3>1 DEF CreditInv, FramesKnown
      <4>4. m.v <= d_s.limit[m.on] => m.v <= t.limit[m.on]
        BY <4>1, <4>2
      <4> QED  BY <4>3, <4>4
    <3>2. CASE m.kind = D!BlockedAt /\ m.v <= t.limit[m.on]
      BY <3>2, KindsDiffer
    <3> QED  BY <1>1, <3>1, <3>2
  <2>2. ASSUME NEW m \in d_arrived'
        PROVE  /\ m.v <= t.limit[m.on]
               /\ m.kind = D!BlockedAt /\ m.v = d_r.max[m.on].committed =>
                    d_r.max[m.on].remote_blocked
    <3>1. CASE m \in d_arrived
      <4>1. m \in D!Frames /\ m.on \in D!Flows /\ m.v \in Nat
        BY <3>1, CreditFramesAre DEF CreditInv, D!TypeOK
      <4>2. d_s.limit[m.on] \in Nat /\ t.limit[m.on] \in Nat /\ d_s.limit[m.on] <= t.limit[m.on]
        BY <1>1, <1>2, <4>1, EndpointTypes
      <4>3. /\ m.v <= d_s.limit[m.on]
            /\ m.kind = D!BlockedAt /\ m.v = d_r.max[m.on].committed => d_r.max[m.on].remote_blocked
        BY <3>1 DEF CreditInv, FramesKnown
      <4>4. m.v <= t.limit[m.on]
        BY <4>1, <4>2, <4>3
      <4> QED  BY <4>3, <4>4
    <3>2. CASE m.kind = D!Raise /\ m.v <= t.limit[m.on]
      BY <3>2, KindsDiffer
    <3> QED  BY <1>1, <3>1, <3>2
  <2> QED  BY <1>1, <2>1, <2>2 DEF FramesKnown
<1> QED  BY <1>3, <1>4, <1>5, <1>6, <1>7 DEF CreditInv

\* ... that leaves the limits as they are and acknowledges nothing.
LEMMA SenderStepOnward ==
  ASSUME CreditInv, NEW e, Onward(e, d_s'), e.limit = d_s.limit,
         \A f \in D!Flows : e.blocked[f] = "ACKED" => d_s.blocked[f] = "ACKED",
         d_set' = d_set, d_r' = d_r, SenderInv(d_s', {}), d_s'.out = {},
         d_net' \subseteq D!Frames, d_arrived' \subseteq d_arrived,
         \A m \in d_net' : m \in d_net \/ (m.kind = D!BlockedAt /\ m.v <= d_s'.limit[m.on])
  PROVE  CreditInv'
<1>1. d_s'.limit = d_s.limit
  BY DEF Onward
<1>2. ASSUME NEW f \in D!Flows
      PROVE  d_s.limit[f] <= d_s'.limit[f] /\ d_s'.limit[f] <= d_r.max[f].committed
  <2>1. d_s.limit[f] \in Nat /\ d_s.limit[f] <= d_s.limit[f]
    BY EndpointTypes
  <2>2. d_s.limit[f] <= d_r.max[f].committed
    BY DEF CreditInv, Known
  <2> QED  BY <1>1, <2>1, <2>2
<1>3. \A f \in D!Flows : d_s'.blocked[f] = "ACKED" /\ d_r.max[f].committed = d_s'.limit[f] =>
                         d_r.max[f].remote_blocked
  BY <1>1 DEF CreditInv, Known, Onward
<1>4. /\ d_arrived' \subseteq D!Frames
      /\ \A m \in d_arrived' : m \in d_arrived \/ (m.kind = D!Raise /\ m.v <= d_s'.limit[m.on])
  BY DEF CreditInv, D!TypeOK
<1> QED  BY <1>2, <1>3, <1>4, SenderStep

\* do_send at the sender.
LEMMA SendSInv ==
  ASSUME D!NamesAssumption, CreditInv, D!SendS
  PROVE  CreditInv'
<1>1. PICK e \in D!Stages(d_s) : d_s' = [e EXCEPT !.out = {}] /\ d_net' = d_net \cup e.out
  BY DEF D!SendS
<1>2. SenderInv(e, {}) /\ Onward(d_s, e) /\ d_s.out = {}
  BY StagesAre DEF CreditInv, D!TypeOK
<1>3. PICK t : t = [e EXCEPT !.out = {}]
  OBVIOUS
<1>4. /\ t \in D!SenderStates /\ SameData(e, t) /\ SameLists(e, t) /\ t.blocked = e.blocked
      /\ t.control = e.control /\ t.others = e.others /\ t.sentmap = e.sentmap /\ t.out = {}
  BY <1>2, <1>3 DEF SenderInv, D!SenderStates, SameData, SameLists
<1>5. SenderInv(t, {})
  <2>1. BlockedFrames(t) /\ SaysSo(t)
    BY <1>2, <1>4 DEF SenderInv, BlockedFrames, SaysSo, FrameDue, SameData
  <2> QED  BY <1>2, <1>4, <2>1, SaidInv
<1>6. Onward(e, t) /\ e.limit = d_s.limit
      /\ \A f \in D!Flows : e.blocked[f] = "ACKED" => d_s.blocked[f] = "ACKED"
  BY <1>2, <1>4 DEF Onward, SameData
<1>7. e.out \subseteq D!Frames /\ d_net \subseteq D!Frames
  BY <1>2 DEF SenderInv, D!SenderStates, CreditInv, D!TypeOK
<1>8. \A m \in d_net' : m \in d_net \/ (m.kind = D!BlockedAt /\ m.v <= t.limit[m.on])
  BY <1>1, <1>2, <1>4 DEF Onward, SameData
<1>9. d_set' = d_set /\ d_r' = d_r /\ d_arrived' = d_arrived /\ d_s' = t
  BY <1>1, <1>3 DEF D!SendS
<1>10. /\ Onward(e, d_s') /\ SenderInv(d_s', {}) /\ d_s'.out = {}
       /\ d_net' \subseteq D!Frames /\ d_arrived' \subseteq d_arrived
       /\ \A m \in d_net' : m \in d_net \/ (m.kind = D!BlockedAt /\ m.v <= d_s'.limit[m.on])
  BY <1>1, <1>4, <1>5, <1>6, <1>7, <1>8, <1>9
<1> QED  BY <1>6, <1>9, <1>10, SenderStepOnward

\* Something has changed of the stream id, and of no other.
LEMMA Touched ==
  ASSUME D!NamesAssumption, NEW e, SenderInv(e, {}), NEW id \in Streams, NEW bl,
         bl \in D!SenderStates, WithinLimits(bl), SameLists(e, bl), BlockedFrames(bl), SaysSo(bl),
         bl.data_sent = e.data_sent, bl.limit[D!Conn] = e.limit[D!Conn],
         \A f \in D!Flows : f # id => bl.blocked[f] = e.blocked[f],
         \A x \in Streams : x # id => /\ bl.written[x] = e.written[x]
                                      /\ bl.sent[x] = e.sent[x]
                                      /\ bl.limit[x] = e.limit[x]
                                      /\ x \in bl.again <=> x \in e.again
  PROVE  SenderInv(bl, {id})
<1>1. \A x \in Streams : x # id => /\ D!Pending(bl, x) <=> D!Pending(e, x)
                                   /\ D!CanSendAtStream(bl, x) <=> D!CanSendAtStream(e, x)
  BY DEF D!Pending, D!PendingStart, D!CanSendAtStream
<1>2. D!IsBlocked(bl) <=> D!IsBlocked(e)
  BY DEF D!IsBlocked
<1>3. Lists(bl, {id})
  <2>1. \A x \in Streams : D!Linked(bl, x) <=> D!Linked(e, x)
    BY DEF D!Linked, SameLists
  <2> QED  BY <1>1, <2>1 DEF SenderInv, Lists, SameLists
<1>4. StoppedSays(bl, {id})
  <2>1. SUFFICES ASSUME NEW f \in D!Flows, f # id, Stopped(bl, f)
                 PROVE  bl.blocked[f] # "NONE"
    BY DEF StoppedSays
  <2>2. Stopped(e, f)
    <3>1. f # D!Conn => f \in Streams
      BY DEF D!Flows
    <3> QED  BY <1>1, <1>2, <2>1, <3>1 DEF Stopped, SameLists
  <2> QED  BY <2>1, <2>2 DEF SenderInv, StoppedSays
<1> QED  BY <1>3, <1>4 DEF SenderInv

\* ... which is then rescheduled.
LEMMA TouchedInv ==
  ASSUME D!NamesAssumption, CreditInv, NEW id \in Streams, NEW bl, SenderInv(bl, {id}),
         bl.limit = d_s.limit, bl.blocked = d_s.blocked, bl.out = {}, d_s' = D!Resched(bl, id),
         d_set' = d_set, d_r' = d_r, d_net' = d_net, d_arrived' = d_arrived
  PROVE  CreditInv'
<1>1. SenderInv(d_s', {}) /\ Onward(bl, d_s') /\ d_s'.out = {}
  BY ReschedIs
<1>2. d_net' \subseteq D!Frames
  BY DEF CreditInv, D!TypeOK
<1> QED  BY <1>1, <1>2, SenderStepOnward

\* quicly_stream_sync_sendbuf.
LEMMA WriteInv ==
  ASSUME D!NamesAssumption, CreditInv, NEW id \in Streams, D!Write(id)
  PROVE  CreditInv'
<1>1. d_s \in D!SenderStates /\ SenderInv(d_s, {}) /\ d_s.out = {}
  BY DEF CreditInv, D!TypeOK
<1>2. PICK w : w = [d_s.written EXCEPT ![id] = d_s.written[id] + 1]
  OBVIOUS
<1>3. w \in [Streams -> Nat] /\ \A x \in Streams : x # id => w[x] = d_s.written[x]
  BY <1>1, <1>2 DEF D!SenderStates
<1>4. PICK bl : bl = [d_s EXCEPT !.written = w]
  OBVIOUS
<1>5. bl = [d_s EXCEPT !.written[id] = @ + 1]
  BY <1>1, <1>2, <1>4 DEF D!SenderStates
<1>6. /\ bl \in D!SenderStates /\ SameLists(d_s, bl) /\ bl.written = w /\ bl.sent = d_s.sent
      /\ bl.data_sent = d_s.data_sent /\ bl.again = d_s.again /\ bl.limit = d_s.limit
      /\ bl.blocked = d_s.blocked /\ bl.control = d_s.control /\ bl.others = d_s.others
      /\ bl.sentmap = d_s.sentmap /\ bl.out = d_s.out
  BY <1>1, <1>3, <1>4 DEF D!SenderStates, SameLists
<1>7. SenderInv(bl, {id})
  <2>1. WithinLimits(bl) /\ BlockedFrames(bl) /\ SaysSo(bl)
    BY <1>1, <1>6 DEF SenderInv, WithinLimits, BlockedFrames, SaysSo, FrameDue
  <2> QED  BY <1>1, <1>3, <1>6, <2>1, Touched
<1>8. d_s' = D!Resched(bl, id)
  BY <1>5 DEF D!Write
<1>9. d_set' = d_set /\ d_r' = d_r /\ d_net' = d_net /\ d_arrived' = d_arrived
  BY DEF D!Write
<1> QED  BY <1>1, <1>6, <1>7, <1>8, <1>9, TouchedInv

\* on_ack_stream: a byte of it is lost.
LEMMA DataLostInv ==
  ASSUME D!NamesAssumption, CreditInv, NEW id \in Streams, D!DataLost(id)
  PROVE  CreditInv'
<1>1. d_s \in D!SenderStates /\ SenderInv(d_s, {}) /\ d_s.out = {}
  BY DEF CreditInv, D!TypeOK
<1>2. PICK ac \in SUBSET Streams : ac = d_s.again \cup {id}
  BY <1>1 DEF D!SenderStates
<1>3. PICK bl : bl = [d_s EXCEPT !.again = ac]
  OBVIOUS
<1>4. bl = [d_s EXCEPT !.again = @ \cup {id}]
  BY <1>1, <1>2, <1>3 DEF D!SenderStates
<1>5. /\ bl \in D!SenderStates /\ SameLists(d_s, bl) /\ bl.written = d_s.written /\ bl.sent = d_s.sent
      /\ bl.data_sent = d_s.data_sent /\ bl.again = ac /\ bl.limit = d_s.limit
      /\ bl.blocked = d_s.blocked /\ bl.control = d_s.control /\ bl.others = d_s.others
      /\ bl.sentmap = d_s.sentmap /\ bl.out = d_s.out
  BY <1>1, <1>3 DEF D!SenderStates, SameLists
<1>6. SenderInv(bl, {id})
  <2>1. WithinLimits(bl) /\ BlockedFrames(bl) /\ SaysSo(bl)
    BY <1>1, <1>5 DEF SenderInv, WithinLimits, BlockedFrames, SaysSo, FrameDue
  <2>2. \A x \in Streams : x # id => (x \in ac <=> x \in d_s.again)
    BY <1>2
  <2> QED  BY <1>1, <1>5, <2>1, <2>2, Touched
<1>7. d_s' = D!Resched(bl, id)
  BY <1>4 DEF D!DataLost
<1>8. d_set' = d_set /\ d_r' = d_r /\ d_net' = d_net /\ d_arrived' = d_arrived
  BY DEF D!DataLost
<1> QED  BY <1>1, <1>5, <1>6, <1>7, <1>8, TouchedInv

\* handle_max_data_frame and handle_max_stream_data_frame, of a limit that is new.
LEMMA ReceiveMaxIs ==
  ASSUME D!NamesAssumption, SenderInv(d_s, {}), NEW f \in D!Flows, NEW v \in Nat, v > d_s.limit[f]
  PROVE  LET g == D!ReceiveMax(d_s, f, v)
         IN  /\ SenderInv(g, {}) /\ g.out = d_s.out
             /\ g.limit = [d_s.limit EXCEPT ![f] = v]
             /\ \A x \in D!Flows : g.blocked[x] = "ACKED" => x # f /\ d_s.blocked[x] = "ACKED"
<1>1. d_s \in D!SenderStates
  BY DEF SenderInv
<1>2. PICK l \in [D!Flows -> Nat] : l = [d_s.limit EXCEPT ![f] = v]
  BY <1>1 DEF D!SenderStates
<1>3. l[f] = v /\ \A x \in D!Flows : x # f => l[x] = d_s.limit[x]
  BY <1>1, <1>2 DEF D!SenderStates
<1>4. PICK d \in [D!Flows -> {"NONE", "SEND", "UNACKED", "ACKED"}] :
        d = [d_s.blocked EXCEPT ![f] = "NONE"]
  BY <1>1 DEF D!SenderStates
<1>5. d[f] = "NONE" /\ \A x \in D!Flows : x # f => d[x] = d_s.blocked[x]
  BY <1>1, <1>4 DEF D!SenderStates
<1>6. PICK bl : bl = [d_s EXCEPT !.limit = l, !.blocked = d]
  OBVIOUS
<1>7. bl = [d_s EXCEPT !.limit[f] = v, !.blocked[f] = "NONE"]
  BY <1>1, <1>2, <1>4, <1>6 DEF D!SenderStates
<1>8. /\ bl \in D!SenderStates /\ SameLists(d_s, bl) /\ bl.written = d_s.written /\ bl.sent = d_s.sent
      /\ bl.data_sent = d_s.data_sent /\ bl.again = d_s.again /\ bl.limit = l /\ bl.blocked = d
      /\ bl.control = d_s.control /\ bl.others = d_s.others
      /\ bl.sentmap = d_s.sentmap /\ bl.out = d_s.out
  BY <1>1, <1>6 DEF D!SenderStates, SameLists
<1>9. \A x \in D!Flows : d_s.limit[x] \in Nat /\ l[x] \in Nat /\ d_s.limit[x] <= l[x]
  <2>1. ASSUME NEW x \in D!Flows PROVE d_s.limit[x] \in Nat /\ l[x] \in Nat /\ d_s.limit[x] <= l[x]
    <3>1. d_s.limit[x] \in Nat /\ l[x] \in Nat
      BY <1>1 DEF D!SenderStates
    <3> QED  BY <1>3, <3>1
  <2> QED  BY <2>1
<1>10. WithinLimits(bl)
  <2>1. d_s.data_sent <= d_s.limit[D!Conn] /\ d_s.data_sent \in Nat /\ D!Conn \in D!Flows
    BY <1>1 DEF SenderInv, WithinLimits, D!SenderStates, D!Flows
  <2>2. d_s.data_sent <= l[D!Conn]
    BY <1>9, <2>1
  <2>3. ASSUME NEW id \in Streams PROVE d_s.sent[id] <= l[id]
    <3>1. d_s.sent[id] <= d_s.limit[id] /\ d_s.sent[id] \in Nat /\ id \in D!Flows
      BY <1>1 DEF SenderInv, WithinLimits, D!SenderStates, D!Flows
    <3> QED  BY <1>9, <3>1
  <2> QED  BY <1>8, <2>2, <2>3 DEF WithinLimits
<1>11. BlockedFrames(bl)
  <2>1. SUFFICES ASSUME NEW x \in d_s.sentmap
                 PROVE  x.frame.kind = D!BlockedAt /\ x.frame.v <= l[x.frame.on]
    BY <1>8 DEF BlockedFrames
  <2>2. x.frame \in D!Frames
    BY <1>1 DEF D!SenderStates
  <2>3. x.frame.kind = D!BlockedAt /\ x.frame.v <= d_s.limit[x.frame.on]
    BY DEF SenderInv, BlockedFrames
  <2> QED  BY <1>9, <2>2, <2>3, CreditFramesAre
<1>12. SaysSo(bl)
  <2>1. SUFFICES ASSUME NEW x \in D!Flows
                 PROVE  /\ bl.blocked[x] = "SEND" => FrameDue(bl, x)
                        /\ bl.blocked[x] = "UNACKED" =>
                             D!Entry(D!Frame(D!BlockedAt, x, bl.limit[x]), TRUE) \in bl.sentmap
    BY DEF SaysSo
  <2>2. CASE x = f
    BY <1>5, <1>8, <2>2
  <2>3. CASE x # f
    BY <1>3, <1>5, <1>8, <2>3 DEF SenderInv, SaysSo, FrameDue
  <2> QED  BY <2>2, <2>3
<1>13. PICK g : g = D!ReceiveMax(d_s, f, v)
  OBVIOUS
<1>14. ~(v <= d_s.limit[f])
  BY <1>9
<1>15. CASE f = D!Conn
  <2>1. g = bl
    BY <1>7, <1>13, <1>14, <1>15 DEF D!ReceiveMax
  <2>2. \A x \in Streams : /\ D!Pending(bl, x) <=> D!Pending(d_s, x)
                           /\ D!CanSendAtStream(bl, x) <=> D!CanSendAtStream(d_s, x)
    <3>1. \A x \in Streams : bl.limit[x] = d_s.limit[x]
      BY <1>3, <1>8, <1>15 DEF D!NamesAssumption, D!Flows
    <3> QED  BY <1>8, <3>1 DEF D!Pending, D!PendingStart, D!CanSendAtStream
  <2>3. Lists(bl, {})
    <3>1. \A x \in Streams : D!Linked(bl, x) <=> D!Linked(d_s, x)
      BY <1>8 DEF D!Linked, SameLists
    <3> QED  BY <1>8, <2>2, <3>1 DEF SenderInv, Lists, SameLists
  <2>4. ~D!IsBlocked(bl)
    <3>1. d_s.data_sent <= d_s.limit[D!Conn] /\ d_s.data_sent \in Nat /\ d_s.limit[D!Conn] \in Nat
      BY <1>1, <1>9, <1>15 DEF SenderInv, WithinLimits, D!SenderStates
    <3>2. bl.data_sent = d_s.data_sent /\ bl.limit[D!Conn] = v
      BY <1>3, <1>8, <1>15
    <3> QED  BY <1>15, <3>1, <3>2 DEF D!IsBlocked
  <2>5. StoppedSays(bl, {})
    <3>1. SUFFICES ASSUME NEW x \in D!Flows, Stopped(bl, x) PROVE bl.blocked[x] # "NONE"
      BY DEF StoppedSays
    <3>2. x # D!Conn /\ x \in Streams
      BY <2>4, <3>1 DEF Stopped, D!Flows
    <3>3. Stopped(d_s, x)
      BY <2>2, <3>1, <3>2 DEF Stopped
    <3> QED  BY <1>5, <1>8, <1>15, <3>2, <3>3 DEF SenderInv, StoppedSays
  <2>6. SenderInv(bl, {})
    BY <1>8, <1>10, <1>11, <1>12, <2>3, <2>5 DEF SenderInv
  <2>7. \A x \in D!Flows : bl.blocked[x] = "ACKED" => x # f /\ d_s.blocked[x] = "ACKED"
    BY <1>5, <1>8
  <2> QED  BY <1>2, <1>8, <1>13, <2>1, <2>6, <2>7
<1>16. CASE f # D!Conn
  <2>1. f \in Streams
    BY <1>16 DEF D!Flows
  <2>2. g = D!Resched(bl, f)
    BY <1>7, <1>13, <1>14, <1>16 DEF D!ReceiveMax
  <2>3. SenderInv(bl, {f})
    <3>1. bl.limit[D!Conn] = d_s.limit[D!Conn]
      BY <1>3, <1>8, <1>16 DEF D!Flows
    <3>2. \A x \in Streams : x # f => bl.limit[x] = d_s.limit[x]
      BY <1>3, <1>8 DEF D!Flows
    <3> QED  BY <1>5, <1>8, <1>10, <1>11, <1>12, <2>1, <3>1, <3>2, Touched
  <2>4. SenderInv(g, {}) /\ SameData(bl, g) /\ Onward(bl, g) /\ g.out = bl.out
    BY <2>1, <2>2, <2>3, ReschedIs
  <2>5. \A x \in D!Flows : g.blocked[x] = "ACKED" => x # f /\ d_s.blocked[x] = "ACKED"
    BY <1>5, <1>8, <2>4 DEF Onward
  <2> QED  BY <1>2, <1>8, <1>13, <2>4, <2>5 DEF SameData
<1> QED  BY <1>15, <1>16

\* MAX_DATA or MAX_STREAM_DATA arrives.
LEMMA RaiseArrives ==
  ASSUME D!NamesAssumption, CreditInv, NEW m \in d_net, m.kind = D!Raise, D!Arrive(m)
  PROVE  CreditInv'
<1>1. m \in D!Frames /\ m.on \in D!Flows /\ m.v \in Nat /\ m.v <= d_r.max[m.on].committed
  BY CreditFramesAre DEF CreditInv, D!TypeOK, FramesKnown
<1>2. PICK f \in D!Flows : f = m.on
  BY <1>1
<1>3. PICK v \in Nat : v = m.v
  BY <1>1
<1>4. /\ d_set' = d_set /\ d_r' = d_r /\ d_s' = D!ReceiveMax(d_s, f, v)
      /\ d_net' = d_net \ {m} /\ d_arrived' \subseteq d_arrived \cup {m}
  BY <1>2, <1>3 DEF D!Arrive
<1>5. /\ SenderInv(d_s, {}) /\ d_s.out = {} /\ d_net \subseteq D!Frames /\ d_arrived \subseteq D!Frames
      /\ \A x \in D!Flows : Known(x)
  BY DEF CreditInv, D!TypeOK
<1>6. \A x \in D!Flows : /\ d_s.limit[x] \in Nat /\ d_s.limit[x] <= d_r.max[x].committed
                         /\ d_s.blocked[x] = "ACKED" /\ d_r.max[x].committed = d_s.limit[x] =>
                              d_r.max[x].remote_blocked
  BY <1>5, EndpointTypes DEF Known
<1>7. d_net' \subseteq D!Frames /\ d_arrived' \subseteq D!Frames /\ \A n \in d_net' : n \in d_net
  BY <1>1, <1>4, <1>5
<1>8. CASE v <= d_s.limit[f]
  <2>1. d_s' = d_s
    BY <1>4, <1>8 DEF D!ReceiveMax
  <2>2. \A x \in D!Flows : d_s.limit[x] <= d_s.limit[x]
    BY <1>6
  <2>3. \A n \in d_arrived' : n \in d_arrived \/ (n.kind = D!Raise /\ n.v <= d_s.limit[n.on])
    BY <1>2, <1>3, <1>4, <1>8
  <2> QED  BY <1>4, <1>5, <1>6, <1>7, <2>1, <2>2, <2>3, SenderStep
<1>9. CASE ~(v <= d_s.limit[f])
  <2>1. v > d_s.limit[f]
    BY <1>6, <1>9
  <2>2. /\ SenderInv(d_s', {}) /\ d_s'.out = d_s.out
        /\ d_s'.limit = [d_s.limit EXCEPT ![f] = v]
        /\ \A x \in D!Flows : d_s'.blocked[x] = "ACKED" => x # f /\ d_s.blocked[x] = "ACKED"
    BY <1>4, <1>5, <2>1, ReceiveMaxIs
  <2>3. d_s.limit \in [D!Flows -> Nat]
    BY DEF CreditInv, D!TypeOK, D!SenderStates
  <2>4. d_s'.limit[f] = v /\ \A x \in D!Flows : x # f => d_s'.limit[x] = d_s.limit[x]
    BY <2>2, <2>3
  <2>5. ASSUME NEW x \in D!Flows
        PROVE  d_s.limit[x] <= d_s'.limit[x] /\ d_s'.limit[x] <= d_r.max[x].committed
    <3>1. CASE x = f
      <4>1. d_s'.limit[x] = v /\ v <= d_r.max[x].committed
        BY <1>1, <1>2, <1>3, <2>4, <3>1
      <4> QED  BY <1>6, <2>1, <3>1, <4>1
    <3>2. CASE x # f
      <4>1. d_s'.limit[x] = d_s.limit[x] /\ d_s.limit[x] <= d_r.max[x].committed /\ d_s.limit[x] \in Nat
        BY <1>6, <2>4, <3>2
      <4> QED  BY <4>1
    <3> QED  BY <3>1, <3>2
  <2>6. \A x \in D!Flows : d_s'.blocked[x] = "ACKED" /\ d_r.max[x].committed = d_s'.limit[x] =>
                           d_r.max[x].remote_blocked
    BY <1>6, <2>2, <2>4
  <2>7. \A n \in d_arrived' : n \in d_arrived \/ (n.kind = D!Raise /\ n.v <= d_s'.limit[n.on])
    BY <1>2, <1>3, <1>4, <2>4
  <2> QED  BY <1>4, <1>5, <1>7, <2>2, <2>5, <2>6, <2>7, SenderStep
<1> QED  BY <1>8, <1>9

\* A frame is lost on the way.
LEMMA CreditDropInv ==
  ASSUME CreditInv, NEW m \in d_net, D!Drop(m)
  PROVE  CreditInv'
<1>1. /\ d_set' = d_set /\ d_s' = d_s /\ d_r' = d_r /\ d_arrived' = d_arrived /\ d_net' \subseteq d_net
  BY DEF D!Drop
<1>2. Onward(d_s, d_s) /\ SenderInv(d_s, {}) /\ d_s.out = {} /\ d_net' \subseteq D!Frames
  BY <1>1 DEF Onward, CreditInv, D!TypeOK
<1> QED  BY <1>1, <1>2, SenderStepOnward

\* The fate of a BLOCKED frame is known: what is left of the sentmap, and the flow's
\* state.
LEMMA Reported ==
  ASSUME D!NamesAssumption, SenderInv(d_s, {}), NEW x \in d_s.sentmap,
         NEW f \in D!Flows, f = x.frame.on,
         NEW t \in D!SenderStates, SameData(d_s, t), SameLists(d_s, t),
         d_s.sentmap \ {x} \subseteq t.sentmap,
         \A y \in t.sentmap : y \in d_s.sentmap \/ y.frame = x.frame,
         d_s.control \subseteq t.control, d_s.others => t.others,
         \A g \in D!Flows : g # f => t.blocked[g] = d_s.blocked[g],
         t.blocked[f] # "NONE" \/ t.blocked[f] = d_s.blocked[f],
         t.blocked[f] = "SEND" => FrameDue(t, f),
         t.blocked[f] = "UNACKED" => d_s.blocked[f] = "UNACKED" /\ d_s.limit[f] # x.frame.v
  PROVE  SenderInv(t, {})
<1>1. BlockedFrames(t)
  BY DEF SenderInv, BlockedFrames, SameData
<1>2. SaysSo(t)
  <2>1. SUFFICES ASSUME NEW g \in D!Flows
                 PROVE  /\ t.blocked[g] = "SEND" => FrameDue(t, g)
                        /\ t.blocked[g] = "UNACKED" =>
                             D!Entry(D!Frame(D!BlockedAt, g, t.limit[g]), TRUE) \in t.sentmap
    BY DEF SaysSo
  <2>2. t.blocked[g] = "SEND" => FrameDue(t, g)
    <3>1. CASE g = f
      BY <3>1
    <3>2. CASE g # f
      <4>1. t.blocked[g] = "SEND" => FrameDue(d_s, g)
        BY <3>2 DEF SenderInv, SaysSo
      <4> QED  BY <4>1 DEF FrameDue
    <3> QED  BY <3>1, <3>2
  <2>3. ASSUME t.blocked[g] = "UNACKED"
        PROVE  D!Entry(D!Frame(D!BlockedAt, g, t.limit[g]), TRUE) \in t.sentmap
    <3>1. PICK y : y = D!Entry(D!Frame(D!BlockedAt, g, d_s.limit[g]), TRUE)
      OBVIOUS
    <3>2. y.frame.on = g /\ y.frame.v = d_s.limit[g]
      BY <3>1 DEF D!Entry, D!Frame
    <3>3. d_s.blocked[g] = "UNACKED"
      BY <2>3
    <3>4. y \in d_s.sentmap
      BY <3>1, <3>3 DEF SenderInv, SaysSo
    <3>5. y # x
      BY <2>3, <3>2
    <3> QED  BY <3>1, <3>4, <3>5 DEF SameData
  <2> QED  BY <2>2, <2>3
<1>3. \A g \in D!Flows : d_s.blocked[g] # "NONE" => t.blocked[g] # "NONE"
  OBVIOUS
<1> QED  BY <1>1, <1>2, <1>3, SaidInv

\* on_ack_data_blocked and on_ack_stream_data_blocked_frame, acknowledged.
LEMMA AckSInv ==
  ASSUME D!NamesAssumption, CreditInv, NEW x \in d_s.sentmap, x.frame \in d_arrived, d_r' = d_r,
         d_s' = D!AckedBlocked(D!Without(d_s, x), x.frame.on, x.frame.v),
         d_set' = d_set, d_net' = d_net, d_arrived' \subseteq d_arrived
  PROVE  CreditInv'
<1>1. /\ d_s \in D!SenderStates /\ SenderInv(d_s, {}) /\ d_s.out = {} /\ d_net \subseteq D!Frames
      /\ d_arrived \subseteq D!Frames
  BY DEF CreditInv, D!TypeOK
<1>2. /\ x.frame \in D!Frames /\ x \in [frame : D!Frames, live : BOOLEAN]
      /\ x.frame.kind = D!BlockedAt
  BY <1>1 DEF D!SenderStates, SenderInv, BlockedFrames
<1>3. PICK f \in D!Flows : f = x.frame.on
  BY <1>2, CreditFramesAre
<1>4. PICK S : S = d_s.sentmap \ {x}
  OBVIOUS
<1>5. PICK e : e = [d_s EXCEPT !.sentmap = S]
  OBVIOUS
<1>6. S \in SUBSET [frame : D!Frames, live : BOOLEAN]
  BY <1>1, <1>4 DEF D!SenderStates
<1>7. /\ e \in D!SenderStates /\ SameData(d_s, e) /\ SameLists(d_s, e) /\ e.blocked = d_s.blocked
      /\ e.control = d_s.control /\ e.others = d_s.others /\ e.sentmap = S /\ e.out = d_s.out
  BY <1>1, <1>5, <1>6 DEF D!SenderStates, SameData, SameLists
<1>8. e = D!Without(d_s, x)
  BY <1>1, <1>4, <1>5 DEF D!Without, D!SenderStates
<1>9. /\ S \subseteq d_s.sentmap /\ d_s.sentmap \ {x} \subseteq S
  BY <1>4
<1>10. d_net' \subseteq D!Frames
  BY <1>1
<1>11. CASE d_s.limit[f] = x.frame.v
  <2>1. PICK bl \in [D!Flows -> {"NONE", "SEND", "UNACKED", "ACKED"}] :
          bl = [d_s.blocked EXCEPT ![f] = "ACKED"]
    BY <1>1 DEF D!SenderStates
  <2>2. bl[f] = "ACKED" /\ \A g \in D!Flows : g # f => bl[g] = d_s.blocked[g]
    BY <1>1, <2>1 DEF D!SenderStates
  <2>3. PICK t : t = [e EXCEPT !.blocked = bl]
    OBVIOUS
  <2>4. /\ t \in D!SenderStates /\ SameData(e, t) /\ SameLists(e, t) /\ t.blocked = bl
        /\ t.control = e.control /\ t.others = e.others /\ t.sentmap = S /\ t.out = e.out
    BY <1>7, <2>3 DEF D!SenderStates, SameData, SameLists
  <2>5. d_s' = t
    BY <1>3, <1>7, <1>8, <1>11, <2>1, <2>3 DEF D!AckedBlocked, D!SenderStates, SameData
  <2>6. SameData(d_s, t) /\ SameLists(d_s, t)
    BY <1>7, <2>4 DEF SameData, SameLists
  <2>7. SenderInv(t, {})
    BY <1>1, <1>3, <1>7, <1>9, <2>2, <2>4, <2>6, Reported
  <2>8. ASSUME NEW g \in D!Flows
        PROVE  d_s.limit[g] <= t.limit[g] /\ t.limit[g] <= d_r.max[g].committed
    <3>1. d_s.limit[g] \in Nat /\ t.limit[g] = d_s.limit[g]
      BY <2>6, EndpointTypes DEF SameData
    <3>2. d_s.limit[g] <= d_r.max[g].committed
      BY DEF CreditInv, Known
    <3>3. d_s.limit[g] <= d_s.limit[g]
      BY <3>1
    <3> QED  BY <3>1, <3>2, <3>3
  <2>9. ASSUME NEW g \in D!Flows, t.blocked[g] = "ACKED", d_r.max[g].committed = t.limit[g]
        PROVE  d_r.max[g].remote_blocked
    <3>1. t.limit[g] = d_s.limit[g]
      BY <2>6 DEF SameData
    <3>2. CASE g = f
      <4>1. x.frame.v = d_r.max[x.frame.on].committed
        BY <1>3, <1>11, <2>9, <3>1, <3>2
      <4>2. d_r.max[x.frame.on].remote_blocked
        BY <1>2, <4>1 DEF CreditInv, FramesKnown
      <4> QED  BY <1>3, <3>2, <4>2
    <3>3. CASE g # f
      BY <2>2, <2>4, <2>9, <3>1, <3>3 DEF CreditInv, Known
    <3> QED  BY <3>2, <3>3
  <2>10. /\ \A m \in d_net' : m \in d_net \/ (m.kind = D!BlockedAt /\ m.v <= t.limit[m.on])
         /\ \A m \in d_arrived' : m \in d_arrived \/ (m.kind = D!Raise /\ m.v <= t.limit[m.on])
         /\ t.out = {} /\ d_arrived' \subseteq D!Frames
    BY <1>1, <1>7, <2>4
  <2> QED  BY <1>10, <2>5, <2>7, <2>8, <2>9, <2>10, SenderStep
<1>12. CASE d_s.limit[f] # x.frame.v
  <2>1. d_s' = e
    BY <1>3, <1>7, <1>8, <1>12 DEF D!AckedBlocked, SameData
  <2>2. SenderInv(e, {})
    <3>1. e.blocked[f] = "SEND" => FrameDue(e, f)
      BY <1>1, <1>7 DEF SenderInv, SaysSo, FrameDue
    <3> QED  BY <1>1, <1>3, <1>7, <1>9, <1>12, <3>1, Reported
  <2>3. Onward(d_s, e)
    BY <1>7 DEF Onward, SameData
  <2>4. e.out = {}
    BY <1>1, <1>7
  <2> QED  BY <1>10, <2>1, <2>2, <2>3, <2>4, SenderStepOnward
<1> QED  BY <1>11, <1>12

\* ... and lost.
LEMMA LossSInv ==
  ASSUME D!NamesAssumption, CreditInv, NEW x \in d_s.sentmap, d_r' = d_r, NEW e \in D!GivenUp(d_s, x),
         d_s' = D!LostBlocked(e, x.frame.on, x.frame.v),
         d_set' = d_set, d_net' = d_net, d_arrived' \subseteq d_arrived
  PROVE  CreditInv'
<1>1. /\ d_s \in D!SenderStates /\ SenderInv(d_s, {}) /\ d_s.out = {} /\ d_net \subseteq D!Frames
  BY DEF CreditInv, D!TypeOK
<1>2. x.frame \in D!Frames
  BY <1>1 DEF D!SenderStates
<1>3. PICK f \in D!Flows : f = x.frame.on
  BY <1>2, CreditFramesAre
<1>4. PICK y : y = D!Entry(x.frame, FALSE)
  OBVIOUS
<1>5. y \in [frame : D!Frames, live : BOOLEAN] /\ y.frame = x.frame
  BY <1>2, <1>4 DEF D!Entry
<1>6. PICK S : /\ S = d_s.sentmap \ {x} \/ S = (d_s.sentmap \ {x}) \cup {y}
               /\ e = [d_s EXCEPT !.sentmap = S]
  BY <1>1, <1>4 DEF D!GivenUp, D!Without, D!SenderStates
<1>7. S \in SUBSET [frame : D!Frames, live : BOOLEAN]
  BY <1>1, <1>5, <1>6 DEF D!SenderStates
<1>8. /\ e \in D!SenderStates /\ SameData(d_s, e) /\ SameLists(d_s, e) /\ e.blocked = d_s.blocked
      /\ e.control = d_s.control /\ e.others = d_s.others /\ e.sentmap = S /\ e.out = d_s.out
  BY <1>1, <1>6, <1>7 DEF D!SenderStates, SameData, SameLists
<1>9. d_s.sentmap \ {x} \subseteq S /\ \A z \in S : z \in d_s.sentmap \/ z.frame = x.frame
  BY <1>5, <1>6
<1>10. d_net' \subseteq D!Frames
  BY <1>1
<1>11. CASE d_s.limit[f] = x.frame.v /\ d_s.blocked[f] = "UNACKED"
  <2>1. PICK bl \in [D!Flows -> {"NONE", "SEND", "UNACKED", "ACKED"}] :
          bl = [d_s.blocked EXCEPT ![f] = "SEND"]
    BY <1>1 DEF D!SenderStates
  <2>2. bl[f] = "SEND" /\ \A g \in D!Flows : g # f => bl[g] = d_s.blocked[g]
    BY <1>1, <2>1 DEF D!SenderStates
  <2>3. PICK t : t = IF f = D!Conn THEN [e EXCEPT !.blocked = bl, !.others = TRUE]
                     ELSE [e EXCEPT !.blocked = bl, !.control = e.control \cup {f}]
    OBVIOUS
  <2>4. d_s' = t
    BY <1>3, <1>8, <1>11, <2>1, <2>3 DEF D!LostBlocked, D!SenderStates, SameData
  <2>5. /\ t \in D!SenderStates /\ SameData(e, t) /\ SameLists(e, t) /\ t.blocked = bl
        /\ e.control \subseteq t.control /\ (e.others => t.others) /\ t.sentmap = S
        /\ t.out = e.out /\ FrameDue(t, f)
    <3>1. CASE f = D!Conn
      <4>1. t = [e EXCEPT !.blocked = bl, !.others = TRUE]
        BY <2>3, <3>1
      <4> QED  BY <1>8, <3>1, <4>1 DEF D!SenderStates, SameData, SameLists, FrameDue
    <3>2. CASE f # D!Conn
      <4>1. t = [e EXCEPT !.blocked = bl, !.control = e.control \cup {f}]
        BY <2>3, <3>2
      <4>2. e.control \cup {f} \in SUBSET Streams
        BY <1>8, <3>2 DEF D!SenderStates, D!Flows
      <4>3. /\ t \in D!SenderStates /\ SameData(e, t) /\ SameLists(e, t) /\ t.blocked = bl
            /\ t.control = e.control \cup {f} /\ t.others = e.others /\ t.sentmap = S
            /\ t.out = e.out
        BY <1>8, <4>1, <4>2 DEF D!SenderStates, SameData, SameLists
      <4> QED  BY <3>2, <4>3 DEF FrameDue
    <3> QED  BY <3>1, <3>2
  <2>6. SameData(d_s, t) /\ SameLists(d_s, t) /\ d_s.control \subseteq t.control
        /\ (d_s.others => t.others)
    BY <1>8, <2>5 DEF SameData, SameLists
  <2>7. SenderInv(t, {})
    BY <1>1, <1>3, <1>9, <2>2, <2>5, <2>6, Reported
  <2>8. Onward(d_s, t)
    BY <1>8, <2>2, <2>5, <2>6 DEF Onward, SameData
  <2>9. t.out = {}
    BY <1>1, <1>8, <2>5
  <2> QED  BY <1>10, <2>4, <2>7, <2>8, <2>9, SenderStepOnward
<1>12. CASE ~(d_s.limit[f] = x.frame.v /\ d_s.blocked[f] = "UNACKED")
  <2>1. d_s' = e
    BY <1>3, <1>8, <1>12 DEF D!LostBlocked, SameData
  <2>2. SenderInv(e, {})
    <3>1. e.blocked[f] = "SEND" => FrameDue(e, f)
      BY <1>1, <1>8 DEF SenderInv, SaysSo, FrameDue
    <3> QED  BY <1>1, <1>3, <1>8, <1>9, <1>12, <3>1, Reported
  <2>3. Onward(d_s, e)
    BY <1>8 DEF Onward, SameData
  <2>4. e.out = {}
    BY <1>1, <1>8
  <2> QED  BY <1>10, <2>1, <2>2, <2>3, <2>4, SenderStepOnward
<1> QED  BY <1>11, <1>12

-----------------------------------------------------------------------------
(* Credit: the steps of the receiver *)

\* The numbers of the setting.
LEMMA SettingIs ==
  ASSUME D!SettingsAssumption, D!TypeOK
  PROVE  D!StreamLimit0 \in Nat \ {0} /\ D!ConnLimit0 \in Nat \ {0}
         /\ d_set.low \subseteq 1 .. D!StreamLimit0
BY DEF D!SettingsAssumption, D!TypeOK, D!StreamLimit0, D!ConnLimit0

\* The operations of maxsender.h keep to numbers.
LEMMA LimitTypes ==
  ASSUME NEW m \in D!MaxSenders(Nat), NEW v \in Nat
  PROVE  /\ D!MaxSenderBlocked(m, v) \in D!MaxSenders(Nat)
         /\ D!MaxSenderRecord(m, v) \in D!MaxSenders(Nat)
         /\ D!MaxSenderAcked(m, v) \in D!MaxSenders(Nat)
         /\ D!MaxSenderLost(m, v) \in D!MaxSenders(Nat)
BY DEF D!MaxSenders, D!MaxSenderBlocked, D!MaxSenderRecord, D!MaxSenderAcked, D!MaxSenderLost,
       D!MaxSenderNeedsResend

\* A step of the receiver, which may raise its limits and learn what the sender knows.
LEMMA ReceiverStep ==
  ASSUME CreditInv, d_set' = d_set, d_s' = d_s, NEW e, e = d_r', ReceiverInv(e, {}), e.out = {},
         d_net' \subseteq D!Frames, d_arrived' \subseteq D!Frames,
         \A f \in D!Flows :
           /\ e.max[f].acked <= d_s.limit[f]
           /\ d_r.max[f].committed <= e.max[f].committed
           /\ d_s.limit[f] < e.max[f].committed =>
                \/ D!Entry(D!Frame(D!Raise, f, e.max[f].committed), TRUE) \in e.sentmap
                \/ e.max[f].lost
           /\ d_r.max[f].remote_blocked /\ d_r.max[f].committed = e.max[f].committed =>
                e.max[f].remote_blocked,
         \A m \in d_net' : m \in d_net \/ (m.kind = D!Raise /\ m.v <= e.max[m.on].committed),
         \A m \in d_arrived' :
           \/ m \in d_arrived
           \/ /\ m.kind = D!BlockedAt /\ m.v <= d_s.limit[m.on]
              /\ m.v = e.max[m.on].committed => e.max[m.on].remote_blocked
  PROVE  CreditInv'
<1>1. e \in D!ReceiverStates
  BY DEF ReceiverInv
<1>2. \A f \in D!Flows : e.max[f].committed \in Nat
  BY <1>1 DEF D!ReceiverStates, D!MaxSenders
<1>3. D!TypeOK'
  BY <1>1 DEF CreditInv, D!TypeOK
<1>4. SenderInv(d_s, {})'
  BY DEF CreditInv
<1>5. ReceiverInv(d_r, {})'
  BY ReceiverKept
<1>6. ASSUME NEW f \in D!Flows
      PROVE  /\ d_s.limit[f] <= d_r.max[f].committed /\ d_r.max[f].committed <= e.max[f].committed
             /\ d_s.limit[f] \in Nat /\ d_r.max[f].committed \in Nat /\ e.max[f].committed \in Nat
             /\ e.max[f].acked <= d_s.limit[f]
  <2>1. Known(f)
    BY DEF CreditInv
  <2>2. d_s.limit[f] <= d_r.max[f].committed
    BY <2>1 DEF Known
  <2> QED  BY <1>2, <2>2, EndpointTypes
<1>7. \A f \in D!Flows : d_s.limit[f] <= e.max[f].committed
  BY <1>6
<1>8. ASSUME NEW f \in D!Flows PROVE Known(f)'
  <2>1. d_s.limit[f] = e.max[f].committed => d_r.max[f].committed = e.max[f].committed
    BY <1>6
  <2>2. d_s.blocked[f] = "ACKED" /\ d_r.max[f].committed = d_s.limit[f] => d_r.max[f].remote_blocked
    BY DEF CreditInv, Known
  <2>3. d_s.blocked[f] = "ACKED" /\ e.max[f].committed = d_s.limit[f] => e.max[f].remote_blocked
    BY <2>1, <2>2
  <2>4. /\ e.max[f].acked <= d_s.limit[f] /\ d_s.limit[f] <= e.max[f].committed
        /\ d_s.limit[f] < e.max[f].committed =>
             \/ D!Entry(D!Frame(D!Raise, f, e.max[f].committed), TRUE) \in e.sentmap
             \/ e.max[f].lost
    BY <1>7
  <2> QED  BY <2>3, <2>4 DEF Known
<1>9. FramesKnown'
  <2>1. ASSUME NEW m \in d_net'
        PROVE  IF m.kind = D!Raise THEN m.v <= e.max[m.on].committed ELSE m.v <= d_s.limit[m.on]
    <3>1. CASE m \in d_net
      <4>1. m.on \in D!Flows /\ m.v \in Nat
        BY <3>1, CreditFramesAre DEF CreditInv, D!TypeOK
      <4>2. m.v <= d_r.max[m.on].committed => m.v <= e.max[m.on].committed
        BY <1>6, <4>1
      <4>3. IF m.kind = D!Raise THEN m.v <= d_r.max[m.on].committed ELSE m.v <= d_s.limit[m.on]
        BY <3>1 DEF CreditInv, FramesKnown
      <4> QED  BY <4>2, <4>3
    <3>2. CASE m.kind = D!Raise /\ m.v <= e.max[m.on].committed
      BY <3>2
    <3> QED  BY <3>1, <3>2
  <2>2. ASSUME NEW m \in d_arrived'
        PROVE  /\ m.v <= d_s.limit[m.on]
               /\ m.kind = D!BlockedAt /\ m.v = e.max[m.on].committed =>
                    e.max[m.on].remote_blocked
    <3>1. CASE m \in d_arrived
      <4>1. m.on \in D!Flows /\ m.v \in Nat
        BY <3>1, CreditFramesAre DEF CreditInv, D!TypeOK
      <4>2. /\ m.v <= d_s.limit[m.on]
            /\ m.kind = D!BlockedAt /\ m.v = d_r.max[m.on].committed => d_r.max[m.on].remote_blocked
        BY <3>1 DEF CreditInv, FramesKnown
      <4>3. m.v = e.max[m.on].committed =>
              m.v = d_r.max[m.on].committed /\ d_r.max[m.on].committed = e.max[m.on].committed
        BY <1>6, <4>1, <4>2
      <4> QED  BY <4>1, <4>2, <4>3
    <3>2. CASE /\ m.kind = D!BlockedAt /\ m.v <= d_s.limit[m.on]
               /\ m.v = e.max[m.on].committed => e.max[m.on].remote_blocked
      BY <3>2
    <3> QED  BY <3>1, <3>2
  <2> QED  BY <2>1, <2>2 DEF FramesKnown
<1> QED  BY <1>3, <1>4, <1>5, <1>8, <1>9 DEF CreditInv

\* ... that leaves its limits as they are.
LEMMA ReceiverStepQuiet ==
  ASSUME CreditInv, d_set' = d_set, d_s' = d_s, NEW e, e = d_r', ReceiverInv(e, {}),
         e.out = d_r.out, e.max = d_r.max, e.sentmap = d_r.sentmap,
         d_net' = d_net, d_arrived' = d_arrived
  PROVE  CreditInv'
<1>1. e.out = {} /\ d_net' \subseteq D!Frames /\ d_arrived' \subseteq D!Frames
  BY DEF CreditInv, D!TypeOK
<1>2. ASSUME NEW f \in D!Flows
      PROVE  /\ e.max[f].acked <= d_s.limit[f]
             /\ d_r.max[f].committed <= e.max[f].committed
             /\ d_s.limit[f] < e.max[f].committed =>
                  \/ D!Entry(D!Frame(D!Raise, f, e.max[f].committed), TRUE) \in e.sentmap
                  \/ e.max[f].lost
             /\ d_r.max[f].remote_blocked /\ d_r.max[f].committed = e.max[f].committed =>
                  e.max[f].remote_blocked
  <2>1. d_r.max[f].committed <= d_r.max[f].committed
    BY EndpointTypes
  <2>2. Known(f)
    BY DEF CreditInv
  <2> QED  BY <2>1, <2>2 DEF Known
<1> QED  BY <1>1, <1>2, ReceiverStep

\* should_send_max_data and should_send_max_stream_data, and what is scheduled then.
LEMMA ReconsideredIs ==
  ASSUME D!NamesAssumption, NEW e, NEW X, ReceiverInv(e, X), NEW f \in D!Flows
  PROVE  LET g == D!Reconsider(e, f)
         IN  /\ ReceiverInv(g, X \ {f}) /\ g.max = e.max /\ g.sentmap = e.sentmap
             /\ g.out = e.out
<1>1. PICK g : g = D!Reconsider(e, f)
  OBVIOUS
<1>2. e \in D!ReceiverStates
  BY DEF ReceiverInv
<1>3. /\ g \in D!ReceiverStates /\ g.max = e.max /\ g.sentmap = e.sentmap /\ g.out = e.out
      /\ g.got = e.got /\ g.read = e.read /\ g.bytes_consumed = e.bytes_consumed
      /\ g.bytes_shifted = e.bytes_shifted /\ g.window = e.window
      /\ D!ShouldSendMax(e, f) => FrameDue(g, f)
      /\ \A h \in D!Flows : FrameDue(e, h) => FrameDue(g, h)
  <2>1. CASE ~D!ShouldSendMax(e, f)
    <3>1. g = e
      BY <1>1, <2>1 DEF D!Reconsider
    <3> QED  BY <1>2, <2>1, <3>1
  <2>2. CASE D!ShouldSendMax(e, f) /\ f = D!Conn
    <3>1. g = [e EXCEPT !.others = TRUE]
      BY <1>1, <2>2 DEF D!Reconsider, D!SchedMax
    <3> QED  BY <1>2, <2>2, <3>1 DEF D!ReceiverStates, FrameDue
  <2>3. CASE D!ShouldSendMax(e, f) /\ f # D!Conn
    <3>1. g = [e EXCEPT !.control = e.control \cup {f}]
      BY <1>1, <1>2, <2>3 DEF D!Reconsider, D!SchedMax, D!ReceiverStates
    <3>2. e.control \cup {f} \in SUBSET Streams
      BY <1>2, <2>3 DEF D!ReceiverStates, D!Flows
    <3>3. /\ g \in D!ReceiverStates /\ g.max = e.max /\ g.sentmap = e.sentmap /\ g.out = e.out
          /\ g.got = e.got /\ g.read = e.read /\ g.bytes_consumed = e.bytes_consumed
          /\ g.bytes_shifted = e.bytes_shifted /\ g.window = e.window
          /\ g.others = e.others /\ g.control = e.control \cup {f}
      BY <1>2, <3>1, <3>2 DEF D!ReceiverStates
    <3> QED  BY <2>3, <3>3 DEF FrameDue
  <2> QED  BY <2>1, <2>2, <2>3
<1>4. \A h \in D!Flows : D!ShouldSendMax(g, h) <=> D!ShouldSendMax(e, h)
  BY <1>3 DEF D!ShouldSendMax
<1>5. Announces(g, X \ {f})
  <2>1. SUFFICES ASSUME NEW h \in D!Flows, h \notin X \/ h = f, D!ShouldSendMax(g, h)
                 PROVE  FrameDue(g, h)
    BY DEF Announces
  <2>2. CASE h = f
    BY <1>3, <1>4, <2>1, <2>2
  <2>3. CASE h \notin X
    BY <1>3, <1>4, <2>1, <2>3 DEF ReceiverInv, Announces
  <2> QED  BY <2>1, <2>2, <2>3
<1>6. Covered(g) /\ RaiseFrames(g)
  BY <1>3 DEF ReceiverInv, Covered, RaiseFrames
<1> QED  BY <1>1, <1>3, <1>5, <1>6 DEF ReceiverInv

\* release_ingress_credit.
LEMMA ReadInv ==
  ASSUME D!SettingsAssumption, D!NamesAssumption, CreditInv, NEW id \in Streams, D!Read(id)
  PROVE  CreditInv'
<1>1. d_r \in D!ReceiverStates /\ ReceiverInv(d_r, {})
  BY DEF CreditInv, D!TypeOK
<1>2. PICK n \in d_r.read[id] + 1 .. d_r.got[id] :
        d_r' = D!Release([d_r EXCEPT !.read[id] = n,
                                     !.bytes_shifted = @ + n - d_r.read[id]], id)
  BY DEF D!Read
<1>3. /\ d_r.read[id] \in Nat /\ n \in Nat /\ d_r.read[id] <= n /\ d_r.bytes_shifted \in Nat
      /\ d_r.read \in [Streams -> Nat]
  BY <1>1, <1>2 DEF D!ReceiverStates
<1>4. PICK p \in [Streams -> Nat] : p = [d_r.read EXCEPT ![id] = n]
  BY <1>3
<1>5. PICK bl \in Nat : bl = d_r.bytes_shifted + n - d_r.read[id] /\ d_r.bytes_shifted <= bl
  BY <1>3
<1>6. PICK e : e = [d_r EXCEPT !.read = p, !.bytes_shifted = bl]
  OBVIOUS
<1>7. e = [d_r EXCEPT !.read[id] = n, !.bytes_shifted = @ + n - d_r.read[id]]
  BY <1>1, <1>4, <1>5, <1>6 DEF D!ReceiverStates
<1>8. /\ e \in D!ReceiverStates /\ e.max = d_r.max /\ e.sentmap = d_r.sentmap /\ e.out = d_r.out
      /\ e.got = d_r.got /\ e.read = p /\ e.bytes_consumed = d_r.bytes_consumed
      /\ e.bytes_shifted = bl /\ e.window = d_r.window
      /\ e.others = d_r.others /\ e.control = d_r.control
  BY <1>1, <1>6 DEF D!ReceiverStates
<1>9. \A x \in Streams : p[x] \in Nat /\ d_r.read[x] \in Nat /\ d_r.read[x] <= p[x]
      /\ (x # id => p[x] = d_r.read[x])
  <2>1. ASSUME NEW x \in Streams
        PROVE  p[x] \in Nat /\ d_r.read[x] \in Nat /\ d_r.read[x] <= p[x]
               /\ (x # id => p[x] = d_r.read[x])
    <3>1. CASE x = id
      BY <1>3, <1>4, <3>1
    <3>2. CASE x # id
      BY <1>3, <1>4, <3>2
    <3> QED  BY <3>1, <3>2
  <2> QED  BY <2>1
<1>10. Covered(e)
  <2>1. D!StreamLimit0 \in Nat /\ D!ConnLimit0 \in Nat
    BY SettingIs DEF CreditInv
  <2>2. Covered(d_r)
    BY <1>1 DEF ReceiverInv
  <2>3. e.max[D!Conn].committed <= bl + D!ConnLimit0
    <3>1. d_r.max[D!Conn].committed \in Nat
      BY EndpointTypes DEF D!Flows
    <3>2. d_r.max[D!Conn].committed <= d_r.bytes_shifted + D!ConnLimit0
      BY <2>2 DEF Covered
    <3>3. d_r.max[D!Conn].committed <= bl + D!ConnLimit0
      BY <1>3, <1>5, <2>1, <3>1, <3>2
    <3> QED  BY <1>8, <3>3
  <2>4. ASSUME NEW x \in Streams
        PROVE  e.max[x].committed <= p[x] + D!StreamLimit0 /\ e.window[x] \in 1 .. D!StreamLimit0
    <3>1. d_r.max[x].committed \in Nat
      BY EndpointTypes DEF D!Flows
    <3>2. d_r.max[x].committed <= d_r.read[x] + D!StreamLimit0 /\ d_r.window[x] \in 1 .. D!StreamLimit0
      BY <2>2 DEF Covered
    <3>3. d_r.max[x].committed <= p[x] + D!StreamLimit0
      BY <1>9, <2>1, <3>1, <3>2
    <3> QED  BY <1>8, <3>2, <3>3
  <2> QED  BY <1>8, <2>3, <2>4 DEF Covered
<1>11. RaiseFrames(e)
  BY <1>1, <1>8 DEF ReceiverInv, RaiseFrames
<1>12. Announces(e, {D!Conn, id})
  <2>1. SUFFICES ASSUME NEW f \in D!Flows, f # D!Conn, f # id, D!ShouldSendMax(e, f)
                 PROVE  FrameDue(e, f)
    BY DEF Announces
  <2>2. f \in Streams /\ p[f] = d_r.read[f]
    BY <1>9, <2>1 DEF D!Flows
  <2>3. D!ShouldSendMax(d_r, f)
    BY <1>8, <2>1, <2>2 DEF D!ShouldSendMax
  <2>4. FrameDue(d_r, f)
    BY <1>1, <2>3 DEF ReceiverInv, Announces
  <2> QED  BY <1>8, <2>4 DEF FrameDue
<1>13. ReceiverInv(e, {D!Conn, id})
  BY <1>8, <1>10, <1>11, <1>12 DEF ReceiverInv
<1>14. PICK c : c = D!Reconsider(e, D!Conn)
  OBVIOUS
<1>15. /\ ReceiverInv(c, {D!Conn, id} \ {D!Conn}) /\ c.max = e.max /\ c.sentmap = e.sentmap
       /\ c.out = e.out
  BY <1>13, <1>14, ReconsideredIs DEF D!Flows
<1>16. PICK d : d = D!Reconsider(c, id)
  OBVIOUS
<1>17. /\ ReceiverInv(d, ({D!Conn, id} \ {D!Conn}) \ {id}) /\ d.max = c.max
       /\ d.sentmap = c.sentmap /\ d.out = c.out
  BY <1>15, <1>16, ReconsideredIs DEF D!Flows
<1>18. ReceiverInv(d, {})
  <2>1. ({D!Conn, id} \ {D!Conn}) \ {id} = {}
    OBVIOUS
  <2> QED  BY <1>17, <2>1
<1>19. d_r' = d /\ d_set' = d_set /\ d_s' = d_s /\ d_net' = d_net /\ d_arrived' = d_arrived
  BY <1>2, <1>7, <1>14, <1>16 DEF D!Read, D!Release
<1>20. d.max = d_r.max /\ d.sentmap = d_r.sentmap /\ d.out = d_r.out
  BY <1>8, <1>15, <1>17
<1> QED  BY <1>18, <1>19, <1>20, ReceiverStepQuiet

\* A smaller window is no reason to announce one.
LEMMA SmallerWindow ==
  ASSUME NEW m \in D!MaxSenders(Nat), NEW from \in Nat, NEW consumed \in Nat,
         NEW w \in Nat, NEW v \in Nat, v <= w,
         D!MaxSenderShouldSendMax(m, from, consumed, v, 512)
  PROVE  D!MaxSenderShouldSendMax(m, from, consumed, w, 512)
<1>1. m.committed \in Nat
  BY DEF D!MaxSenders
<1>2. (v * 512) \div 1024 <= (w * 512) \div 1024
  OBVIOUS
<1>3. (v * 512) \div 1024 \in Nat /\ (w * 512) \div 1024 \in Nat
  OBVIOUS
<1>4. m.committed <= from + (v * 512) \div 1024 =>
        m.committed <= from + (w * 512) \div 1024
  BY <1>1, <1>2, <1>3
<1>5. /\ from + v > m.committed => from + w > m.committed
      /\ from + v - m.committed >= m.committed - consumed =>
           from + w - m.committed >= m.committed - consumed
  BY <1>1
<1> QED  BY <1>4, <1>5 DEF D!MaxSenderShouldSendMax

\* quicly_stream_set_receive_window.
LEMMA LowerWindowInv ==
  ASSUME D!SettingsAssumption, D!NamesAssumption, CreditInv, NEW id \in Streams, D!LowerWindow(id)
  PROVE  CreditInv'
<1>1. d_r \in D!ReceiverStates /\ ReceiverInv(d_r, {})
  BY DEF CreditInv, D!TypeOK
<1>2. PICK w \in d_set.low : w < d_r.window[id] /\ d_r' = [d_r EXCEPT !.window[id] = w]
  BY DEF D!LowerWindow
<1>3. w \in 1 .. D!StreamLimit0 /\ D!StreamLimit0 \in Nat /\ w \in Nat
  BY SettingIs DEF CreditInv
<1>4. d_r.window \in [Streams -> Nat]
  BY <1>1 DEF D!ReceiverStates
<1>5. PICK p \in [Streams -> Nat] : p = [d_r.window EXCEPT ![id] = w]
  BY <1>3, <1>4
<1>6. PICK e : e = [d_r EXCEPT !.window = p]
  OBVIOUS
<1>7. /\ e \in D!ReceiverStates /\ e.max = d_r.max /\ e.sentmap = d_r.sentmap /\ e.out = d_r.out
      /\ e.got = d_r.got /\ e.read = d_r.read /\ e.bytes_consumed = d_r.bytes_consumed
      /\ e.bytes_shifted = d_r.bytes_shifted /\ e.window = p
      /\ e.others = d_r.others /\ e.control = d_r.control
  BY <1>1, <1>6 DEF D!ReceiverStates
<1>8. p[id] = w /\ \A x \in Streams : x # id => p[x] = d_r.window[x]
  BY <1>4, <1>5
<1>9. Covered(e)
  <2>1. Covered(d_r)
    BY <1>1 DEF ReceiverInv
  <2>2. \A x \in Streams : p[x] \in 1 .. D!StreamLimit0
    BY <1>3, <1>8, <2>1 DEF Covered
  <2> QED  BY <1>7, <2>1, <2>2 DEF Covered
<1>10. RaiseFrames(e)
  BY <1>1, <1>7 DEF ReceiverInv, RaiseFrames
<1>11. Announces(e, {})
  <2>1. SUFFICES ASSUME NEW f \in D!Flows, D!ShouldSendMax(e, f) PROVE FrameDue(e, f)
    BY DEF Announces
  <2>2. D!ShouldSendMax(d_r, f)
    <3>1. CASE f = id
      <4>1. f # D!Conn
        BY <3>1 DEF D!NamesAssumption
      <4>2. d_r.max[f] \in D!MaxSenders(Nat) /\ d_r.read[f] \in Nat /\ d_r.got[f] \in Nat
            /\ d_r.window[f] \in Nat /\ w <= d_r.window[f]
        BY <1>1, <1>2, <1>3, <3>1 DEF D!ReceiverStates
      <4>3. D!MaxSenderShouldSendMax(d_r.max[f], d_r.read[f], d_r.got[f], w, 512)
        BY <1>7, <1>8, <2>1, <3>1, <4>1 DEF D!ShouldSendMax
      <4>4. D!MaxSenderShouldSendMax(d_r.max[f], d_r.read[f], d_r.got[f], d_r.window[f], 512)
        BY <1>3, <4>2, <4>3, SmallerWindow
      <4> QED  BY <4>1, <4>4 DEF D!ShouldSendMax
    <3>2. CASE f # id
      <4>1. f # D!Conn => p[f] = d_r.window[f]
        BY <1>8, <3>2 DEF D!Flows
      <4> QED  BY <1>7, <2>1, <4>1 DEF D!ShouldSendMax
    <3> QED  BY <3>1, <3>2
  <2>3. FrameDue(d_r, f)
    BY <1>1, <2>2 DEF ReceiverInv, Announces
  <2> QED  BY <1>7, <2>3 DEF FrameDue
<1>12. ReceiverInv(e, {})
  BY <1>7, <1>9, <1>10, <1>11 DEF ReceiverInv
<1>13. d_r' = e /\ d_set' = d_set /\ d_s' = d_s /\ d_net' = d_net /\ d_arrived' = d_arrived
  BY <1>1, <1>2, <1>5, <1>6 DEF D!LowerWindow, D!ReceiverStates
<1> QED  BY <1>7, <1>12, <1>13, ReceiverStepQuiet

\* the end of do_receive.
LEMMA PacketProcessedIs ==
  ASSUME D!NamesAssumption, NEW e, NEW X, ReceiverInv(e, X)
  PROVE  LET g == D!PacketProcessed(e)
         IN  /\ ReceiverInv(g, X \ {D!Conn}) /\ g.max = e.max /\ g.sentmap = e.sentmap
             /\ g.out = e.out
<1>1. PICK ac : ac = [e EXCEPT !.ack = TRUE]
  OBVIOUS
<1>2. e \in D!ReceiverStates
  BY DEF ReceiverInv
<1>3. /\ ac \in D!ReceiverStates /\ ac.max = e.max /\ ac.sentmap = e.sentmap /\ ac.out = e.out
      /\ ac.got = e.got /\ ac.read = e.read /\ ac.bytes_consumed = e.bytes_consumed
      /\ ac.bytes_shifted = e.bytes_shifted /\ ac.window = e.window
      /\ ac.others = e.others /\ ac.control = e.control
  BY <1>1, <1>2 DEF D!ReceiverStates
<1>4. \A h \in D!Flows : D!ShouldSendMax(ac, h) <=> D!ShouldSendMax(e, h)
  BY <1>3 DEF D!ShouldSendMax
<1>5. Covered(ac) /\ RaiseFrames(ac)
  BY <1>3 DEF ReceiverInv, Covered, RaiseFrames
<1>6. Announces(ac, X)
  BY <1>3, <1>4 DEF ReceiverInv, Announces, FrameDue
<1>7. ReceiverInv(ac, X)
  BY <1>3, <1>5, <1>6 DEF ReceiverInv
<1>8. D!Conn \in D!Flows
  BY DEF D!Flows
<1> QED  BY <1>1, <1>3, <1>7, <1>8, ReconsideredIs DEF D!PacketProcessed

\* apply_stream_frame.
LEMMA DataArrivesInv ==
  ASSUME D!NamesAssumption, CreditInv, NEW id \in Streams, D!DataArrives(id)
  PROVE  CreditInv'
<1>1. d_r \in D!ReceiverStates /\ ReceiverInv(d_r, {}) /\ d_s \in D!SenderStates
  BY DEF CreditInv, D!TypeOK
<1>2. PICK n \in d_r.got[id] + 1 .. d_s.sent[id] :
        d_r' = D!PacketProcessed(D!Reconsider([d_r EXCEPT !.got[id] = n,
                                                          !.bytes_consumed = @ + n - d_r.got[id]], id))
  BY DEF D!DataArrives
<1>3. /\ d_r.got[id] \in Nat /\ n \in Nat /\ d_r.got[id] <= n /\ d_r.bytes_consumed \in Nat
      /\ d_r.got \in [Streams -> Nat]
  BY <1>1, <1>2 DEF D!ReceiverStates, D!SenderStates
<1>4. PICK p \in [Streams -> Nat] : p = [d_r.got EXCEPT ![id] = n]
  BY <1>3
<1>5. PICK bl \in Nat : bl = d_r.bytes_consumed + n - d_r.got[id]
  BY <1>3
<1>6. PICK e : e = [d_r EXCEPT !.got = p, !.bytes_consumed = bl]
  OBVIOUS
<1>7. e = [d_r EXCEPT !.got[id] = n, !.bytes_consumed = @ + n - d_r.got[id]]
  BY <1>1, <1>4, <1>5, <1>6 DEF D!ReceiverStates
<1>8. /\ e \in D!ReceiverStates /\ e.max = d_r.max /\ e.sentmap = d_r.sentmap /\ e.out = d_r.out
      /\ e.got = p /\ e.read = d_r.read /\ e.bytes_consumed = bl
      /\ e.bytes_shifted = d_r.bytes_shifted /\ e.window = d_r.window
      /\ e.others = d_r.others /\ e.control = d_r.control
  BY <1>1, <1>6 DEF D!ReceiverStates
<1>9. \A x \in Streams : x # id => p[x] = d_r.got[x]
  BY <1>3, <1>4
<1>10. Covered(e) /\ RaiseFrames(e)
  BY <1>1, <1>8 DEF ReceiverInv, Covered, RaiseFrames
<1>11. Announces(e, {D!Conn, id})
  <2>1. SUFFICES ASSUME NEW f \in D!Flows, f # D!Conn, f # id, D!ShouldSendMax(e, f)
                 PROVE  FrameDue(e, f)
    BY DEF Announces
  <2>2. f \in Streams /\ p[f] = d_r.got[f]
    BY <1>9, <2>1 DEF D!Flows
  <2>3. D!ShouldSendMax(d_r, f)
    BY <1>8, <2>1, <2>2 DEF D!ShouldSendMax
  <2>4. FrameDue(d_r, f)
    BY <1>1, <2>3 DEF ReceiverInv, Announces
  <2> QED  BY <1>8, <2>4 DEF FrameDue
<1>12. ReceiverInv(e, {D!Conn, id})
  BY <1>8, <1>10, <1>11 DEF ReceiverInv
<1>13. PICK c : c = D!Reconsider(e, id)
  OBVIOUS
<1>14. /\ ReceiverInv(c, {D!Conn, id} \ {id}) /\ c.max = e.max /\ c.sentmap = e.sentmap
       /\ c.out = e.out
  BY <1>12, <1>13, ReconsideredIs DEF D!Flows
<1>15. PICK d : d = D!PacketProcessed(c)
  OBVIOUS
<1>16. /\ ReceiverInv(d, ({D!Conn, id} \ {id}) \ {D!Conn}) /\ d.max = c.max
       /\ d.sentmap = c.sentmap /\ d.out = c.out
  BY <1>14, <1>15, PacketProcessedIs
<1>17. ReceiverInv(d, {})
  <2>1. ({D!Conn, id} \ {id}) \ {D!Conn} = {}
    OBVIOUS
  <2> QED  BY <1>16, <2>1
<1>18. d_r' = d /\ d_set' = d_set /\ d_s' = d_s /\ d_net' = d_net /\ d_arrived' = d_arrived
  BY <1>2, <1>7, <1>13, <1>15 DEF D!DataArrives
<1>19. d.max = d_r.max /\ d.sentmap = d_r.sentmap /\ d.out = d_r.out
  BY <1>8, <1>14, <1>16
<1> QED  BY <1>17, <1>18, <1>19, ReceiverStepQuiet

\* handle_data_blocked_frame and handle_stream_data_blocked_frame.
LEMMA BlockedArrives ==
  ASSUME D!NamesAssumption, CreditInv, NEW m \in d_net, m.kind # D!Raise, D!Arrive(m)
  PROVE  CreditInv'
<1>1. /\ m \in D!Frames /\ m.on \in D!Flows /\ m.v \in Nat /\ m.v <= d_s.limit[m.on]
      /\ m.kind = D!BlockedAt
  BY CreditFramesAre DEF CreditInv, D!TypeOK, FramesKnown
<1>2. PICK f \in D!Flows : f = m.on
  BY <1>1
<1>3. PICK v \in Nat : v = m.v
  BY <1>1
<1>4. /\ d_set' = d_set /\ d_s' = d_s /\ d_r' = D!PacketProcessed(D!ReceiveBlocked(d_r, f, v))
      /\ d_net' = d_net \ {m} /\ d_arrived' \subseteq d_arrived \cup {m}
  BY <1>2, <1>3 DEF D!Arrive
<1>5. /\ d_r \in D!ReceiverStates /\ ReceiverInv(d_r, {}) /\ d_r.out = {}
      /\ d_net \subseteq D!Frames /\ d_arrived \subseteq D!Frames
  BY DEF CreditInv, D!TypeOK
<1>6. PICK n : n = D!MaxSenderBlocked(d_r.max[f], v)
  OBVIOUS
<1>7. n \in D!MaxSenders(Nat) /\ d_r.max[f] \in D!MaxSenders(Nat)
  BY <1>6, EndpointTypes, LimitTypes
<1>8. /\ n.committed = d_r.max[f].committed
      /\ v # d_r.max[f].committed => n = d_r.max[f]
      /\ v = d_r.max[f].committed => n.acked = v /\ n.remote_blocked = TRUE
      /\ (d_r.max[f].remote_blocked => n.remote_blocked)
  BY <1>6, <1>7 DEF D!MaxSenderBlocked, D!MaxSenders
<1>9. PICK p \in [D!Flows -> D!MaxSenders(Nat)] : p = [d_r.max EXCEPT ![f] = n]
  BY <1>5, <1>7 DEF D!ReceiverStates
<1>10. p[f] = n /\ \A x \in D!Flows : x # f => p[x] = d_r.max[x]
  BY <1>5, <1>9 DEF D!ReceiverStates
<1>11. PICK e : e = [d_r EXCEPT !.max = p]
  OBVIOUS
<1>12. e = [d_r EXCEPT !.max[f] = D!MaxSenderBlocked(@, v)]
  BY <1>5, <1>6, <1>9, <1>11 DEF D!ReceiverStates
<1>13. /\ e \in D!ReceiverStates /\ e.max = p /\ e.sentmap = d_r.sentmap /\ e.out = d_r.out
       /\ e.got = d_r.got /\ e.read = d_r.read /\ e.bytes_consumed = d_r.bytes_consumed
       /\ e.bytes_shifted = d_r.bytes_shifted /\ e.window = d_r.window
       /\ e.others = d_r.others /\ e.control = d_r.control
  BY <1>5, <1>11 DEF D!ReceiverStates
<1>14. \A x \in D!Flows : p[x].committed = d_r.max[x].committed
  BY <1>8, <1>10
<1>15. ReceiverInv(e, {f})
  <2>1. Covered(e)
    <3>1. Covered(d_r) /\ D!Conn \in D!Flows /\ \A x \in Streams : x \in D!Flows
      BY <1>5 DEF ReceiverInv, D!Flows
    <3> QED  BY <1>13, <1>14, <3>1 DEF Covered
  <2>2. RaiseFrames(e)
    <3>1. SUFFICES ASSUME NEW x \in d_r.sentmap
                   PROVE  x.frame.kind = D!Raise /\ x.frame.v <= p[x.frame.on].committed
      BY <1>13 DEF RaiseFrames
    <3>2. x.frame \in D!Frames /\ x.frame.on \in D!Flows
      BY <1>5, CreditFramesAre DEF D!ReceiverStates
    <3> QED  BY <1>5, <1>14, <3>2 DEF ReceiverInv, RaiseFrames
  <2>3. Announces(e, {f})
    <3>1. SUFFICES ASSUME NEW x \in D!Flows, x # f, D!ShouldSendMax(e, x) PROVE FrameDue(e, x)
      BY DEF Announces
    <3>2. D!ShouldSendMax(d_r, x)
      BY <1>10, <1>13, <3>1 DEF D!ShouldSendMax
    <3>3. FrameDue(d_r, x)
      BY <1>5, <3>2 DEF ReceiverInv, Announces
    <3> QED  BY <1>13, <3>3 DEF FrameDue
  <2> QED  BY <1>13, <2>1, <2>2, <2>3 DEF ReceiverInv
<1>16. PICK c : c = D!Reconsider(e, f)
  OBVIOUS
<1>17. /\ ReceiverInv(c, {f} \ {f}) /\ c.max = e.max /\ c.sentmap = e.sentmap
       /\ c.out = e.out
  BY <1>15, <1>16, ReconsideredIs
<1>18. PICK d : d = D!PacketProcessed(c)
  OBVIOUS
<1>19. /\ ReceiverInv(d, ({f} \ {f}) \ {D!Conn}) /\ d.max = c.max
       /\ d.sentmap = c.sentmap /\ d.out = c.out
  BY <1>17, <1>18, PacketProcessedIs
<1>20. ReceiverInv(d, {})
  <2>1. ({f} \ {f}) \ {D!Conn} = {}
    OBVIOUS
  <2> QED  BY <1>19, <2>1
<1>21. d = d_r' /\ d.max = p /\ d.sentmap = d_r.sentmap /\ d.out = {}
  BY <1>4, <1>5, <1>12, <1>13, <1>16, <1>17, <1>18, <1>19 DEF D!ReceiveBlocked
<1>22. ASSUME NEW x \in D!Flows
       PROVE  /\ d.max[x].acked <= d_s.limit[x]
              /\ d_r.max[x].committed <= d.max[x].committed
              /\ d_s.limit[x] < d.max[x].committed =>
                   \/ D!Entry(D!Frame(D!Raise, x, d.max[x].committed), TRUE) \in d.sentmap
                   \/ d.max[x].lost
              /\ d_r.max[x].remote_blocked /\ d_r.max[x].committed = d.max[x].committed =>
                   d.max[x].remote_blocked
  <2>1. /\ Known(x) /\ d_r.max[x].committed \in Nat /\ d_s.limit[x] \in Nat
        /\ d_r.max[x].committed <= d_r.max[x].committed
    BY EndpointTypes DEF CreditInv
  <2>2. CASE p[x] = d_r.max[x]
    BY <1>21, <2>1, <2>2 DEF Known
  <2>3. CASE p[x] # d_r.max[x]
    <3>1. x = f /\ v = d_r.max[f].committed
      BY <1>8, <1>10, <2>3
    <3>2. /\ p[x].committed = d_r.max[x].committed /\ p[x].acked = v
          /\ p[x].remote_blocked = TRUE
      BY <1>8, <1>10, <3>1
    <3>3. v <= d_s.limit[x] /\ ~(d_s.limit[x] < p[x].committed)
      BY <1>1, <1>2, <1>3, <2>1, <3>1, <3>2
    <3> QED  BY <1>21, <2>1, <3>2, <3>3
  <2> QED  BY <2>2, <2>3
<1>23. ASSUME NEW ac \in d_arrived'
       PROVE  \/ ac \in d_arrived
              \/ /\ ac.kind = D!BlockedAt /\ ac.v <= d_s.limit[ac.on]
                 /\ ac.v = d.max[ac.on].committed => d.max[ac.on].remote_blocked
  <2>1. CASE ac = m
    <3>1. v = p[f].committed => p[f].remote_blocked
      BY <1>8, <1>10
    <3> QED  BY <1>1, <1>2, <1>3, <1>21, <2>1, <3>1
  <2>2. CASE ac # m
    BY <1>4, <2>2
  <2> QED  BY <2>1, <2>2
<1>24. d_net' \subseteq D!Frames /\ d_arrived' \subseteq D!Frames
       /\ \A ac \in d_net' : ac \in d_net \/ (ac.kind = D!Raise /\ ac.v <= d.max[ac.on].committed)
  BY <1>1, <1>4, <1>5
<1> QED  BY <1>4, <1>20, <1>21, <1>22, <1>23, <1>24, ReceiverStep

\* quicly_maxsender_record of the limit that the window allows, or of the one before
\* when the window has been lowered: there is no reason left to announce another.
LEMMA RecordIs ==
  ASSUME NEW m \in D!MaxSenders(Nat), NEW from \in Nat, NEW consumed \in Nat,
         NEW w \in Nat, w # 0, NEW v,
         v = IF from + w < m.committed THEN m.committed ELSE from + w
  PROVE  LET n == D!MaxSenderRecord(m, v)
         IN  /\ v \in Nat /\ n \in D!MaxSenders(Nat) /\ n.committed = v /\ n.acked = m.acked
             /\ m.committed <= v
             /\ m.remote_blocked /\ m.committed = v => n.remote_blocked
             /\ ~D!MaxSenderShouldSendMax(n, from, consumed, w, 512)
<1>1. PICK n : n = D!MaxSenderRecord(m, v)
  OBVIOUS
<1>2. m.committed \in Nat
  BY DEF D!MaxSenders
<1>3. v \in Nat /\ m.committed <= v /\ from + w <= v
  BY <1>2
<1>4. n \in D!MaxSenders(Nat)
  BY <1>1, <1>3, LimitTypes
<1>5. n.committed = v /\ n.acked = m.acked /\ n.lost = FALSE
  BY <1>1 DEF D!MaxSenderRecord, D!MaxSenders
<1>6. m.committed = v => v <= m.committed
  BY <1>3
<1>7. m.remote_blocked /\ m.committed = v => n.remote_blocked
  BY <1>1, <1>6 DEF D!MaxSenderRecord, D!MaxSenders
<1>8. ~(from + w > v) /\ ~(v <= from + (w * 512) \div 1024)
  <2>1. (w * 512) \div 1024 \in Nat /\ (w * 512) \div 1024 < w
    OBVIOUS
  <2> QED  BY <1>3, <2>1
<1>9. ~D!MaxSenderShouldSendMax(n, from, consumed, w, 512)
  BY <1>5, <1>8 DEF D!MaxSenderShouldSendMax
<1> QED  BY <1>1, <1>3, <1>4, <1>5, <1>7, <1>9

\* what the frames that raise limits leave as it is, or add
LimitsRaised(e, g) ==
  /\ \A f \in D!Flows :
       /\ g.max[f].acked = e.max[f].acked /\ e.max[f].committed <= g.max[f].committed
       /\ \/ g.max[f] = e.max[f]
          \/ D!Entry(D!Frame(D!Raise, f, g.max[f].committed), TRUE) \in g.sentmap
       /\ e.max[f].remote_blocked /\ e.max[f].committed = g.max[f].committed =>
            g.max[f].remote_blocked
  /\ e.sentmap \subseteq g.sentmap
  /\ \A m \in g.out : m \in e.out \/ (m.kind = D!Raise /\ m.v <= g.max[m.on].committed)

\* MAX_DATA and MAX_STREAM_DATA of the flows that have it to send.
LEMMA SendMaxIs ==
  ASSUME D!SettingsAssumption, D!NamesAssumption, D!TypeOK,
         NEW e, ReceiverInv(e, {}), NEW flows \in SUBSET D!Flows
  PROVE  LET g == D!SendMax(e, flows)
         IN  /\ ReceiverInv(g, {}) /\ LimitsRaised(e, g)
             /\ g.control = e.control /\ g.others = e.others
             /\ \A f \in flows : ~D!ShouldSendMax(g, f)
<1>1. PICK g : g = D!SendMax(e, flows)
  OBVIOUS
<1>2. e \in D!ReceiverStates /\ Covered(e) /\ RaiseFrames(e) /\ Announces(e, {})
  BY DEF ReceiverInv
<1>3. PICK due : due = {f \in flows : D!ShouldSendMax(e, f)}
  OBVIOUS
<1>4. PICK new : new = {D!Frame(D!Raise, f, D!NewLimit(e, f)) : f \in due}
  OBVIOUS
<1>5. PICK p : p = [f \in D!Flows |-> IF f \in due THEN D!MaxSenderRecord(e.max[f], D!NewLimit(e, f))
                                      ELSE e.max[f]]
  OBVIOUS
<1>6. PICK more : more = {D!Entry(m, TRUE) : m \in new}
  OBVIOUS
<1>7. g = [e EXCEPT !.max = p, !.sentmap = e.sentmap \cup more, !.out = e.out \cup new]
  BY <1>1, <1>2, <1>3, <1>4, <1>5, <1>6 DEF D!SendMax, D!Emit, D!ReceiverStates
<1>8. D!StreamLimit0 \in Nat \ {0} /\ D!ConnLimit0 \in Nat \ {0}
  BY SettingIs
<1>9. /\ due \subseteq D!Flows /\ \A f \in D!Flows : f # D!Conn => f \in Streams
      /\ \A f \in D!Flows : e.max[f] \in D!MaxSenders(Nat) /\ e.max[f].committed \in Nat
  BY <1>2, <1>3 DEF D!ReceiverStates, D!Flows, D!MaxSenders
\* what is recorded, of one flow
<1>10. ASSUME NEW f \in D!Flows, NEW v, v = D!NewLimit(e, f), NEW n, n = D!MaxSenderRecord(e.max[f], v)
       PROVE  /\ v \in Nat /\ n \in D!MaxSenders(Nat) /\ n.committed = v
              /\ n.acked = e.max[f].acked /\ e.max[f].committed <= v
              /\ e.max[f].remote_blocked /\ e.max[f].committed = v => n.remote_blocked
              /\ IF f = D!Conn
                 THEN /\ v <= e.bytes_shifted + D!ConnLimit0
                      /\ ~D!MaxSenderShouldSendMax(n, e.bytes_shifted, e.bytes_consumed,
                                                   D!ConnLimit0, 512)
                 ELSE /\ v <= e.read[f] + D!StreamLimit0
                      /\ ~D!MaxSenderShouldSendMax(n, e.read[f], e.got[f], e.window[f], 512)
  <2>1. CASE f = D!Conn
    <3>1. e.bytes_shifted \in Nat /\ e.bytes_consumed \in Nat
      BY <1>2 DEF D!ReceiverStates
    <3>2. e.max[f].committed <= e.bytes_shifted + D!ConnLimit0 /\ e.max[f].committed \in Nat
      BY <1>2, <1>9, <2>1 DEF Covered
    <3>3. v = e.bytes_shifted + D!ConnLimit0
      BY <1>10, <2>1 DEF D!NewLimit
    <3>4. v = IF e.bytes_shifted + D!ConnLimit0 < e.max[f].committed THEN e.max[f].committed
              ELSE e.bytes_shifted + D!ConnLimit0
      BY <1>8, <3>1, <3>2, <3>3
    <3>5. v <= e.bytes_shifted + D!ConnLimit0
      BY <1>8, <3>1, <3>3
    <3>6. D!ConnLimit0 \in Nat /\ D!ConnLimit0 # 0 /\ e.max[f] \in D!MaxSenders(Nat)
      BY <1>8, <1>9
    <3>7. PICK w \in Nat : w = D!ConnLimit0 /\ w # 0
      BY <3>6
    <3>8. /\ v \in Nat /\ n \in D!MaxSenders(Nat) /\ n.committed = v
          /\ n.acked = e.max[f].acked /\ e.max[f].committed <= v
          /\ e.max[f].remote_blocked /\ e.max[f].committed = v => n.remote_blocked
          /\ ~D!MaxSenderShouldSendMax(n, e.bytes_shifted, e.bytes_consumed, w, 512)
      BY <1>10, <3>1, <3>4, <3>6, <3>7, RecordIs
    <3> QED  BY <2>1, <3>5, <3>7, <3>8
  <2>2. CASE f # D!Conn
    <3>1. f \in Streams
      BY <1>9, <2>2
    <3>2. /\ e.read[f] \in Nat /\ e.got[f] \in Nat /\ e.window[f] \in Nat
          /\ e.max[f] \in D!MaxSenders(Nat) /\ e.max[f].committed \in Nat
      BY <1>2, <1>9, <3>1 DEF D!ReceiverStates
    <3>3. /\ e.max[f].committed <= e.read[f] + D!StreamLimit0
          /\ e.window[f] \in 1 .. D!StreamLimit0
      BY <1>2, <3>1 DEF Covered
    <3>4. v = IF e.read[f] + e.window[f] < e.max[f].committed THEN e.max[f].committed
              ELSE e.read[f] + e.window[f]
      BY <1>10, <2>2 DEF D!NewLimit
    <3>5. e.window[f] # 0 /\ e.window[f] <= D!StreamLimit0
      BY <1>8, <3>2, <3>3
    <3>6. v <= e.read[f] + D!StreamLimit0
      BY <1>8, <3>2, <3>3, <3>4, <3>5
    <3> QED  BY <1>10, <2>2, <3>2, <3>4, <3>5, <3>6, RecordIs
  <2> QED  BY <2>1, <2>2
<1>11. ASSUME NEW f \in D!Flows
       PROVE  /\ p[f] \in D!MaxSenders(Nat) /\ p[f].committed \in Nat
              /\ p[f].acked = e.max[f].acked /\ e.max[f].committed <= p[f].committed
              /\ e.max[f].remote_blocked /\ e.max[f].committed = p[f].committed =>
                   p[f].remote_blocked
              /\ f \notin due => p[f] = e.max[f]
              /\ f \in due => p[f].committed = D!NewLimit(e, f) /\ D!NewLimit(e, f) \in Nat
  <2>1. CASE f \in due
    <3>1. p[f] = D!MaxSenderRecord(e.max[f], D!NewLimit(e, f))
      BY <1>5, <2>1
    <3> QED  BY <1>10, <2>1, <3>1
  <2>2. CASE f \notin due
    <3>1. p[f] = e.max[f]
      BY <1>5, <2>2
    <3>2. e.max[f].committed <= e.max[f].committed
      BY <1>9
    <3> QED  BY <1>9, <2>2, <3>1, <3>2
  <2> QED  BY <2>1, <2>2
<1>12. p \in [D!Flows -> D!MaxSenders(Nat)]
  <2>1. \A f \in D!Flows : p[f] \in D!MaxSenders(Nat)
    BY <1>11
  <2> QED  BY <1>5, <2>1
<1>13. /\ new \subseteq D!Frames
       /\ \A m \in new : m.kind = D!Raise /\ m.on \in D!Flows /\ m.v = p[m.on].committed
       /\ \A f \in due : D!Frame(D!Raise, f, p[f].committed) \in new
  <2>1. ASSUME NEW f \in due, NEW v, v = D!NewLimit(e, f)
        PROVE  /\ D!Frame(D!Raise, f, v) \in D!Frames
               /\ D!Frame(D!Raise, f, v).kind = D!Raise
               /\ D!Frame(D!Raise, f, v).on = f
               /\ D!Frame(D!Raise, f, v).v = v
               /\ v = p[f].committed
    <3>1. f \in D!Flows /\ v \in Nat /\ p[f].committed = v
      BY <1>9, <1>11, <2>1
    <3> QED  BY <3>1 DEF D!Frames, D!Frame
  <2>2. \A m \in new : \E f \in due : m = D!Frame(D!Raise, f, D!NewLimit(e, f))
    BY <1>4
  <2>3. \A f \in due : D!Frame(D!Raise, f, D!NewLimit(e, f)) \in new
    BY <1>4
  <2>4. \A m \in new : m \in D!Frames /\ m.kind = D!Raise /\ m.on \in D!Flows
                       /\ m.v = p[m.on].committed
    BY <1>9, <2>1, <2>2
  <2>5. \A f \in due : D!Frame(D!Raise, f, p[f].committed) \in new
    BY <2>1, <2>3
  <2> QED  BY <2>4, <2>5
<1>14. /\ more \subseteq [frame : D!Frames, live : BOOLEAN]
       /\ \A x \in more : x.frame \in new
       /\ \A f \in due : D!Entry(D!Frame(D!Raise, f, p[f].committed), TRUE) \in more
  <2>1. ASSUME NEW m \in new
        PROVE  /\ D!Entry(m, TRUE) \in [frame : D!Frames, live : BOOLEAN]
               /\ D!Entry(m, TRUE).frame = m
    <3>1. m \in D!Frames
      BY <1>13
    <3> QED  BY <3>1 DEF D!Entry
  <2>2. \A m \in new : D!Entry(m, TRUE) \in more
    BY <1>6
  <2>3. \A x \in more : \E m \in new : x = D!Entry(m, TRUE)
    BY <1>6
  <2> QED  BY <1>13, <2>1, <2>2, <2>3
<1>15. /\ g \in D!ReceiverStates /\ g.max = p /\ g.sentmap = e.sentmap \cup more
       /\ g.out = e.out \cup new
       /\ g.got = e.got /\ g.read = e.read /\ g.bytes_consumed = e.bytes_consumed
       /\ g.bytes_shifted = e.bytes_shifted /\ g.window = e.window
       /\ g.others = e.others /\ g.control = e.control
  <2>1. /\ e.sentmap \cup more \in SUBSET [frame : D!Frames, live : BOOLEAN]
        /\ e.out \cup new \in SUBSET D!Frames
    BY <1>2, <1>13, <1>14 DEF D!ReceiverStates
  <2> QED  BY <1>2, <1>7, <1>12, <2>1 DEF D!ReceiverStates
<1>16. ASSUME NEW f \in due PROVE ~D!ShouldSendMax(g, f)
  <2>1. f \in D!Flows /\ p[f] = D!MaxSenderRecord(e.max[f], D!NewLimit(e, f))
    BY <1>5, <1>9
  <2>2. IF f = D!Conn
        THEN ~D!MaxSenderShouldSendMax(p[f], e.bytes_shifted, e.bytes_consumed, D!ConnLimit0, 512)
        ELSE ~D!MaxSenderShouldSendMax(p[f], e.read[f], e.got[f], e.window[f], 512)
    BY <1>10, <2>1
  <2> QED  BY <1>15, <2>2 DEF D!ShouldSendMax
<1>17. ASSUME NEW f \in D!Flows, f \notin due PROVE D!ShouldSendMax(g, f) <=> D!ShouldSendMax(e, f)
  <2>1. p[f] = e.max[f]
    BY <1>11, <1>17
  <2> QED  BY <1>15, <2>1 DEF D!ShouldSendMax
<1>18. \A f \in flows : ~D!ShouldSendMax(g, f)
  BY <1>3, <1>16, <1>17
<1>19. Announces(g, {})
  <2>1. SUFFICES ASSUME NEW f \in D!Flows, D!ShouldSendMax(g, f) PROVE FrameDue(g, f)
    BY DEF Announces
  <2>2. D!ShouldSendMax(e, f)
    BY <1>16, <1>17, <2>1
  <2>3. FrameDue(e, f)
    BY <1>2, <2>2 DEF Announces
  <2> QED  BY <1>15, <2>3 DEF FrameDue
<1>20. Covered(g)
  <2>1. ASSUME NEW f \in D!Flows
        PROVE  IF f = D!Conn THEN p[f].committed <= e.bytes_shifted + D!ConnLimit0
               ELSE p[f].committed <= e.read[f] + D!StreamLimit0
    <3>1. CASE f \in due
      <4>1. p[f] = D!MaxSenderRecord(e.max[f], D!NewLimit(e, f))
        BY <1>5, <3>1
      <4> QED  BY <1>10, <4>1
    <3>2. CASE f \notin due
      BY <1>2, <1>9, <1>11, <3>2 DEF Covered
    <3> QED  BY <3>1, <3>2
  <2>2. D!Conn \in D!Flows /\ \A f \in Streams : f \in D!Flows /\ f # D!Conn
    BY DEF D!Flows, D!NamesAssumption
  <2> QED  BY <1>2, <1>15, <2>1, <2>2 DEF Covered
<1>21. RaiseFrames(g)
  <2>1. ASSUME NEW x \in more PROVE x.frame.kind = D!Raise /\ x.frame.v <= p[x.frame.on].committed
    <3>1. /\ x.frame.kind = D!Raise /\ x.frame.on \in D!Flows
          /\ x.frame.v = p[x.frame.on].committed
      BY <1>13, <1>14
    <3>2. p[x.frame.on].committed \in Nat
      BY <1>11, <3>1
    <3> QED  BY <3>1, <3>2
  <2>2. ASSUME NEW x \in e.sentmap
        PROVE  x.frame.kind = D!Raise /\ x.frame.v <= p[x.frame.on].committed
    <3>1. x.frame \in D!Frames
      BY <1>2 DEF D!ReceiverStates
    <3>2. x.frame.on \in D!Flows /\ x.frame.v \in Nat
      BY <3>1, CreditFramesAre
    <3>3. x.frame.kind = D!Raise /\ x.frame.v <= e.max[x.frame.on].committed
      BY <1>2 DEF RaiseFrames
    <3>4. /\ e.max[x.frame.on].committed \in Nat /\ p[x.frame.on].committed \in Nat
          /\ e.max[x.frame.on].committed <= p[x.frame.on].committed
      BY <1>9, <1>11, <3>2
    <3> QED  BY <3>2, <3>3, <3>4
  <2> QED  BY <1>15, <2>1, <2>2 DEF RaiseFrames
<1>22. LimitsRaised(e, g)
  <2>1. ASSUME NEW f \in D!Flows
        PROVE  \/ p[f] = e.max[f]
               \/ D!Entry(D!Frame(D!Raise, f, p[f].committed), TRUE) \in g.sentmap
    BY <1>11, <1>14, <1>15
  <2>2. ASSUME NEW m \in new PROVE m.kind = D!Raise /\ m.v <= p[m.on].committed
    <3>1. m.kind = D!Raise /\ m.on \in D!Flows /\ m.v = p[m.on].committed
      BY <1>13
    <3>2. p[m.on].committed \in Nat
      BY <1>11, <3>1
    <3> QED  BY <3>1, <3>2
  <2> QED  BY <1>11, <1>15, <2>1, <2>2 DEF LimitsRaised
<1>23. ReceiverInv(g, {})
  BY <1>15, <1>19, <1>20, <1>21 DEF ReceiverInv
<1> QED  BY <1>1, <1>15, <1>18, <1>22, <1>23

\* One stage after the other.
LEMMA RaisedTwice ==
  ASSUME NEW e \in D!ReceiverStates, NEW g \in D!ReceiverStates, NEW h \in D!ReceiverStates,
         LimitsRaised(e, g), LimitsRaised(g, h)
  PROVE  LimitsRaised(e, h)
<1>1. \A f \in D!Flows : /\ e.max[f].committed \in Nat /\ g.max[f].committed \in Nat
                         /\ h.max[f].committed \in Nat
  BY DEF D!ReceiverStates, D!MaxSenders
<1>2. ASSUME NEW f \in D!Flows
      PROVE  /\ h.max[f].acked = e.max[f].acked /\ e.max[f].committed <= h.max[f].committed
             /\ \/ h.max[f] = e.max[f]
                \/ D!Entry(D!Frame(D!Raise, f, h.max[f].committed), TRUE) \in h.sentmap
             /\ e.max[f].remote_blocked /\ e.max[f].committed = h.max[f].committed =>
                  h.max[f].remote_blocked
  <2>1. /\ e.max[f].committed <= g.max[f].committed /\ g.max[f].committed <= h.max[f].committed
        /\ h.max[f].acked = g.max[f].acked /\ g.max[f].acked = e.max[f].acked
    BY DEF LimitsRaised
  <2>2. /\ e.max[f].committed <= h.max[f].committed
        /\ e.max[f].committed = h.max[f].committed =>
             e.max[f].committed = g.max[f].committed /\ g.max[f].committed = h.max[f].committed
    BY <1>1, <2>1
  <2>3. e.max[f].remote_blocked /\ e.max[f].committed = h.max[f].committed =>
          h.max[f].remote_blocked
    BY <2>2 DEF LimitsRaised
  <2>4. \/ h.max[f] = e.max[f]
        \/ D!Entry(D!Frame(D!Raise, f, h.max[f].committed), TRUE) \in h.sentmap
    BY DEF LimitsRaised
  <2> QED  BY <2>1, <2>2, <2>3, <2>4
<1>3. e.sentmap \subseteq h.sentmap
  BY DEF LimitsRaised
<1>4. ASSUME NEW m \in h.out
      PROVE  m \in e.out \/ (m.kind = D!Raise /\ m.v <= h.max[m.on].committed)
  <2>1. CASE m \in g.out /\ m.kind = D!Raise /\ m.v <= g.max[m.on].committed
    <3>1. m.on \in D!Flows /\ m.v \in Nat
      BY <1>4, CreditFramesAre DEF D!ReceiverStates
    <3>2. g.max[m.on].committed <= h.max[m.on].committed
      BY <3>1 DEF LimitsRaised
    <3>3. m.v <= h.max[m.on].committed
      BY <1>1, <2>1, <3>1, <3>2
    <3> QED  BY <2>1, <3>3
  <2>2. CASE ~(m \in g.out /\ m.kind = D!Raise /\ m.v <= g.max[m.on].committed)
    BY <1>4, <2>2 DEF LimitsRaised
  <2> QED  BY <2>1, <2>2
<1> QED  BY <1>2, <1>3, <1>4 DEF LimitsRaised

\* Once the limits are announced, what was scheduled for them is done with.
LEMMA SendMaxDone ==
  ASSUME D!SettingsAssumption, D!NamesAssumption, D!TypeOK,
         NEW e, ReceiverInv(e, {}), NEW flows \in SUBSET D!Flows,
         NEW h, h \in D!ReceiverStates,
         LET g == D!SendMax(e, flows)
         IN  /\ h.max = g.max /\ h.sentmap = g.sentmap /\ h.out = g.out
             /\ h.got = g.got /\ h.read = g.read /\ h.bytes_consumed = g.bytes_consumed
             /\ h.bytes_shifted = g.bytes_shifted /\ h.window = g.window
             /\ \A f \in D!Flows : FrameDue(g, f) => f \in flows \/ FrameDue(h, f)
  PROVE  ReceiverInv(h, {}) /\ LimitsRaised(e, h)
<1>1. PICK g : g = D!SendMax(e, flows)
  OBVIOUS
<1>2. /\ h.max = g.max /\ h.sentmap = g.sentmap /\ h.out = g.out
      /\ h.got = g.got /\ h.read = g.read /\ h.bytes_consumed = g.bytes_consumed
      /\ h.bytes_shifted = g.bytes_shifted /\ h.window = g.window
      /\ \A f \in D!Flows : FrameDue(g, f) => f \in flows \/ FrameDue(h, f)
  BY <1>1
<1>3. ReceiverInv(g, {}) /\ LimitsRaised(e, g) /\ \A f \in flows : ~D!ShouldSendMax(g, f)
  BY <1>1, SendMaxIs
<1>4. Covered(h) /\ RaiseFrames(h)
  BY <1>2, <1>3 DEF ReceiverInv, Covered, RaiseFrames
<1>5. Announces(h, {})
  <2>1. SUFFICES ASSUME NEW f \in D!Flows, D!ShouldSendMax(h, f) PROVE FrameDue(h, f)
    BY DEF Announces
  <2>2. D!ShouldSendMax(g, f)
    BY <1>2, <2>1 DEF D!ShouldSendMax
  <2>3. FrameDue(g, f)
    BY <1>3, <2>2 DEF ReceiverInv, Announces
  <2> QED  BY <1>2, <1>3, <2>2, <2>3
<1>6. LimitsRaised(e, h)
  <2>1. h.max = g.max /\ h.sentmap = g.sentmap /\ h.out = g.out
    BY <1>2
  <2>2. LimitsRaised(e, g)
    BY <1>3
  <2>3. ASSUME NEW f \in D!Flows
        PROVE  /\ h.max[f].acked = e.max[f].acked /\ e.max[f].committed <= h.max[f].committed
               /\ \/ h.max[f] = e.max[f]
                  \/ D!Entry(D!Frame(D!Raise, f, h.max[f].committed), TRUE) \in h.sentmap
               /\ e.max[f].remote_blocked /\ e.max[f].committed = h.max[f].committed =>
                    h.max[f].remote_blocked
    <3>1. h.max[f] = g.max[f]
      BY <2>1
    <3>2. /\ g.max[f].acked = e.max[f].acked /\ e.max[f].committed <= g.max[f].committed
          /\ \/ g.max[f] = e.max[f]
             \/ D!Entry(D!Frame(D!Raise, f, g.max[f].committed), TRUE) \in g.sentmap
          /\ e.max[f].remote_blocked /\ e.max[f].committed = g.max[f].committed =>
               g.max[f].remote_blocked
      BY <2>2 DEF LimitsRaised
    <3> QED  BY <2>1, <3>1, <3>2
  <2>4. \A m \in h.out : m \in e.out \/ (m.kind = D!Raise /\ m.v <= h.max[m.on].committed)
    BY <2>1, <2>2 DEF LimitsRaised
  <2>5. e.sentmap \subseteq h.sentmap
    BY <2>1, <2>2 DEF LimitsRaised
  <2> QED  BY <2>3, <2>4, <2>5 DEF LimitsRaised
<1> QED  BY <1>4, <1>5, <1>6 DEF ReceiverInv

\* MAX_DATA of do_send.
LEMMA SendMaxOfConnIs ==
  ASSUME D!SettingsAssumption, D!NamesAssumption, D!TypeOK, NEW e, ReceiverInv(e, {})
  PROVE  ReceiverInv(D!SendMaxOfConn(e), {}) /\ LimitsRaised(e, D!SendMaxOfConn(e))
<1>1. PICK g : g = D!SendMax(e, {D!Conn})
  OBVIOUS
<1>2. PICK h : h = [g EXCEPT !.others = FALSE, !.ack = FALSE]
  OBVIOUS
<1>3. {D!Conn} \in SUBSET D!Flows
  BY DEF D!Flows
<1>4. g \in D!ReceiverStates
  BY <1>1, <1>3, SendMaxIs DEF ReceiverInv
<1>5. /\ h \in D!ReceiverStates /\ h.max = g.max /\ h.sentmap = g.sentmap /\ h.out = g.out
      /\ h.got = g.got /\ h.read = g.read /\ h.bytes_consumed = g.bytes_consumed
      /\ h.bytes_shifted = g.bytes_shifted /\ h.window = g.window /\ h.control = g.control
  BY <1>2, <1>4 DEF D!ReceiverStates
<1>6. \A f \in D!Flows : FrameDue(g, f) => f \in {D!Conn} \/ FrameDue(h, f)
  BY <1>5 DEF FrameDue
<1>7. ReceiverInv(h, {}) /\ LimitsRaised(e, h)
  BY <1>1, <1>3, <1>5, <1>6, SendMaxDone
<1> QED  BY <1>1, <1>2, <1>7 DEF D!SendMaxOfConn

\* MAX_STREAM_DATA of send_stream_control_frames.
LEMMA SendMaxOfStreamsIs ==
  ASSUME D!SettingsAssumption, D!NamesAssumption, D!TypeOK, NEW e, ReceiverInv(e, {})
  PROVE  ReceiverInv(D!SendMaxOfStreams(e), {}) /\ LimitsRaised(e, D!SendMaxOfStreams(e))
<1>1. PICK g : g = D!SendMax(e, e.control)
  OBVIOUS
<1>2. PICK h : h = [g EXCEPT !.control = {}]
  OBVIOUS
<1>3. e.control \in SUBSET D!Flows
  BY DEF ReceiverInv, D!ReceiverStates, D!Flows
<1>4. g \in D!ReceiverStates /\ g.control = e.control
  BY <1>1, <1>3, SendMaxIs DEF ReceiverInv
<1>5. /\ h \in D!ReceiverStates /\ h.max = g.max /\ h.sentmap = g.sentmap /\ h.out = g.out
      /\ h.got = g.got /\ h.read = g.read /\ h.bytes_consumed = g.bytes_consumed
      /\ h.bytes_shifted = g.bytes_shifted /\ h.window = g.window /\ h.others = g.others
  BY <1>2, <1>4 DEF D!ReceiverStates
<1>6. \A f \in D!Flows : FrameDue(g, f) => f \in e.control \/ FrameDue(h, f)
  BY <1>4, <1>5 DEF FrameDue
<1>7. ReceiverInv(h, {}) /\ LimitsRaised(e, h)
  BY <1>1, <1>3, <1>5, <1>6, SendMaxDone
<1> QED  BY <1>1, <1>2, <1>7 DEF D!SendMaxOfStreams

\* do_send at the receiver.
LEMMA SendRInv ==
  ASSUME D!SettingsAssumption, D!NamesAssumption, CreditInv, D!SendR
  PROVE  CreditInv'
<1>1. PICK e \in {D!SendMaxOfConn(d_r), D!SendMaxOfStreams(D!SendMaxOfConn(d_r))} :
        d_r' = [e EXCEPT !.out = {}] /\ d_net' = d_net \cup e.out
  BY DEF D!SendR
<1>2. /\ D!TypeOK /\ d_r \in D!ReceiverStates /\ ReceiverInv(d_r, {}) /\ d_r.out = {}
      /\ d_net \subseteq D!Frames /\ d_arrived \subseteq D!Frames
  BY DEF CreditInv, D!TypeOK
<1>3. ReceiverInv(e, {}) /\ LimitsRaised(d_r, e)
  <2>1. PICK c : c = D!SendMaxOfConn(d_r)
    OBVIOUS
  <2>2. ReceiverInv(c, {}) /\ LimitsRaised(d_r, c)
    BY <1>2, <2>1, SendMaxOfConnIs
  <2>3. PICK d : d = D!SendMaxOfStreams(c)
    OBVIOUS
  <2>4. ReceiverInv(d, {}) /\ LimitsRaised(c, d)
    BY <1>2, <2>2, <2>3, SendMaxOfStreamsIs
  <2>5. LimitsRaised(d_r, d)
    BY <1>2, <2>2, <2>4, RaisedTwice DEF ReceiverInv
  <2>6. e = c \/ e = d
    BY <1>1, <2>1, <2>3
  <2> QED  BY <2>2, <2>4, <2>5, <2>6
<1>4. PICK t : t = [e EXCEPT !.out = {}]
  OBVIOUS
<1>5. /\ t \in D!ReceiverStates /\ t.max = e.max /\ t.sentmap = e.sentmap /\ t.out = {}
      /\ t.got = e.got /\ t.read = e.read /\ t.bytes_consumed = e.bytes_consumed
      /\ t.bytes_shifted = e.bytes_shifted /\ t.window = e.window
      /\ t.others = e.others /\ t.control = e.control
  BY <1>3, <1>4 DEF ReceiverInv, D!ReceiverStates
<1>6. ReceiverInv(t, {})
  <2>1. Covered(t) /\ RaiseFrames(t)
    BY <1>3, <1>5 DEF ReceiverInv, Covered, RaiseFrames
  <2>2. \A f \in D!Flows : D!ShouldSendMax(t, f) <=> D!ShouldSendMax(e, f)
    BY <1>5 DEF D!ShouldSendMax
  <2>3. Announces(t, {})
    BY <1>3, <1>5, <2>2 DEF ReceiverInv, Announces, FrameDue
  <2> QED  BY <1>5, <2>1, <2>3 DEF ReceiverInv
<1>7. ASSUME NEW f \in D!Flows
      PROVE  /\ t.max[f].acked <= d_s.limit[f]
             /\ d_r.max[f].committed <= t.max[f].committed
             /\ d_s.limit[f] < t.max[f].committed =>
                  \/ D!Entry(D!Frame(D!Raise, f, t.max[f].committed), TRUE) \in t.sentmap
                  \/ t.max[f].lost
             /\ d_r.max[f].remote_blocked /\ d_r.max[f].committed = t.max[f].committed =>
                  t.max[f].remote_blocked
  <2>1. Known(f)
    BY DEF CreditInv
  <2>2. /\ e.max[f].acked = d_r.max[f].acked /\ d_r.max[f].committed <= e.max[f].committed
        /\ \/ e.max[f] = d_r.max[f]
           \/ D!Entry(D!Frame(D!Raise, f, e.max[f].committed), TRUE) \in e.sentmap
        /\ d_r.max[f].remote_blocked /\ d_r.max[f].committed = e.max[f].committed =>
             e.max[f].remote_blocked
        /\ d_r.sentmap \subseteq e.sentmap
    BY <1>3 DEF LimitsRaised
  <2>3. d_s.limit[f] < e.max[f].committed =>
          \/ D!Entry(D!Frame(D!Raise, f, e.max[f].committed), TRUE) \in e.sentmap
          \/ e.max[f].lost
    BY <2>1, <2>2 DEF Known
  <2>4. e.max[f].acked <= d_s.limit[f]
    BY <2>1, <2>2 DEF Known
  <2> QED  BY <1>5, <2>2, <2>3, <2>4
<1>8. \A m \in d_net' : m \in d_net \/ (m.kind = D!Raise /\ m.v <= t.max[m.on].committed)
  BY <1>1, <1>2, <1>3, <1>5 DEF LimitsRaised
<1>9. /\ d_net' \subseteq D!Frames /\ d_arrived' \subseteq D!Frames /\ d_arrived' = d_arrived
      /\ d_set' = d_set /\ d_s' = d_s /\ t = d_r'
  BY <1>1, <1>2, <1>3, <1>4 DEF D!SendR, ReceiverInv, D!ReceiverStates
<1>10. t.out = {}
  BY <1>5
<1> QED  BY <1>6, <1>7, <1>8, <1>9, <1>10, ReceiverStep

\* The fate of a frame that raised a limit is known: what is left of the sentmap, and
\* what is kept of the flow's limit.
LEMMA LimitReported ==
  ASSUME D!NamesAssumption, CreditInv, NEW x \in d_r.sentmap, NEW f \in D!Flows, f = x.frame.on,
         NEW n \in D!MaxSenders(Nat), n.committed = d_r.max[f].committed, n.acked <= d_s.limit[f],
         d_r.max[f].remote_blocked => n.remote_blocked,
         d_s.limit[f] < n.committed /\ ~n.lost => x.frame.v # n.committed /\ ~d_r.max[f].lost,
         NEW t \in D!ReceiverStates, t.max = [d_r.max EXCEPT ![f] = n],
         t.got = d_r.got, t.read = d_r.read, t.bytes_consumed = d_r.bytes_consumed,
         t.bytes_shifted = d_r.bytes_shifted, t.window = d_r.window, t.out = {},
         d_r.sentmap \ {x} \subseteq t.sentmap,
         \A y \in t.sentmap : y \in d_r.sentmap \/ y.frame = x.frame,
         \A h \in D!Flows : FrameDue(d_r, h) => FrameDue(t, h),
         D!ShouldSendMax(t, f) => FrameDue(t, f),
         d_r' = t, d_set' = d_set, d_s' = d_s, d_net' = d_net, d_arrived' \subseteq d_arrived
  PROVE  CreditInv'
<1>1. /\ d_r \in D!ReceiverStates /\ ReceiverInv(d_r, {})
      /\ d_net \subseteq D!Frames /\ d_arrived \subseteq D!Frames
  BY DEF CreditInv, D!TypeOK
<1>2. t.max[f] = n /\ \A h \in D!Flows : h # f => t.max[h] = d_r.max[h]
  BY <1>1 DEF D!ReceiverStates
<1>3. \A h \in D!Flows : t.max[h].committed = d_r.max[h].committed
  BY <1>2
<1>4. Covered(t)
  <2>1. Covered(d_r) /\ D!Conn \in D!Flows /\ \A h \in Streams : h \in D!Flows
    BY <1>1 DEF ReceiverInv, D!Flows
  <2> QED  BY <1>3, <2>1 DEF Covered
<1>5. RaiseFrames(t)
  <2>1. ASSUME NEW y \in d_r.sentmap
        PROVE  y.frame.kind = D!Raise /\ y.frame.v <= t.max[y.frame.on].committed
    <3>1. y.frame \in D!Frames
      BY <1>1 DEF D!ReceiverStates
    <3>2. y.frame.on \in D!Flows
      BY <3>1, CreditFramesAre
    <3> QED  BY <1>1, <1>3, <3>2 DEF ReceiverInv, RaiseFrames
  <2> QED  BY <2>1 DEF RaiseFrames
<1>6. Announces(t, {})
  <2>1. SUFFICES ASSUME NEW h \in D!Flows, h # f, D!ShouldSendMax(t, h) PROVE FrameDue(t, h)
    BY DEF Announces
  <2>2. D!ShouldSendMax(d_r, h)
    BY <1>2, <2>1 DEF D!ShouldSendMax
  <2>3. FrameDue(d_r, h)
    BY <1>1, <2>2 DEF ReceiverInv, Announces
  <2> QED  BY <2>3
<1>7. ReceiverInv(t, {})
  BY <1>4, <1>5, <1>6 DEF ReceiverInv
<1>8. ASSUME NEW h \in D!Flows
      PROVE  /\ t.max[h].acked <= d_s.limit[h]
             /\ d_r.max[h].committed <= t.max[h].committed
             /\ d_s.limit[h] < t.max[h].committed =>
                  \/ D!Entry(D!Frame(D!Raise, h, t.max[h].committed), TRUE) \in t.sentmap
                  \/ t.max[h].lost
             /\ d_r.max[h].remote_blocked /\ d_r.max[h].committed = t.max[h].committed =>
                  t.max[h].remote_blocked
  <2>1. /\ Known(h) /\ d_r.max[h].committed \in Nat
    BY EndpointTypes DEF CreditInv
  <2>2. d_r.max[h].committed <= t.max[h].committed
    BY <1>3, <2>1
  <2>3. t.max[h].acked <= d_s.limit[h]
    BY <1>2, <2>1 DEF Known
  <2>4. d_r.max[h].remote_blocked => t.max[h].remote_blocked
    BY <1>2
  <2>5. ASSUME d_s.limit[h] < t.max[h].committed, ~t.max[h].lost
        PROVE  D!Entry(D!Frame(D!Raise, h, t.max[h].committed), TRUE) \in t.sentmap
    <3>1. PICK y : y = D!Entry(D!Frame(D!Raise, h, d_r.max[h].committed), TRUE)
      OBVIOUS
    <3>2. y.frame.on = h /\ y.frame.v = d_r.max[h].committed
      BY <3>1 DEF D!Entry, D!Frame
    <3>3. d_s.limit[h] < d_r.max[h].committed /\ ~d_r.max[h].lost
      BY <1>2, <1>3, <2>5
    <3>4. y \in d_r.sentmap
      BY <2>1, <3>1, <3>3 DEF Known
    <3>5. y # x
      BY <1>2, <2>5, <3>2
    <3> QED  BY <1>3, <3>1, <3>4, <3>5
  <2> QED  BY <2>2, <2>3, <2>4, <2>5
<1>9. d_net' \subseteq D!Frames /\ d_arrived' \subseteq D!Frames
  BY <1>1
<1> QED  BY <1>7, <1>8, <1>9, ReceiverStep

\* on_ack_max_data and on_ack_max_stream_data, acknowledged.
LEMMA AckRInv ==
  ASSUME D!NamesAssumption, CreditInv, NEW x \in d_r.sentmap, x.frame \in d_arrived, d_s' = d_s,
         d_r' = D!AckedMax(D!Without(d_r, x), x.frame.on, x.frame.v),
         d_set' = d_set, d_net' = d_net, d_arrived' \subseteq d_arrived
  PROVE  CreditInv'
<1>1. d_r \in D!ReceiverStates /\ ReceiverInv(d_r, {}) /\ d_r.out = {}
  BY DEF CreditInv, D!TypeOK
<1>2. x.frame \in D!Frames
  BY <1>1 DEF D!ReceiverStates
<1>3. PICK f \in D!Flows : f = x.frame.on
  BY <1>2, CreditFramesAre
<1>4. PICK v \in Nat : v = x.frame.v
  BY <1>2, CreditFramesAre
<1>5. PICK n : n = D!MaxSenderAcked(d_r.max[f], v)
  OBVIOUS
<1>6. /\ n \in D!MaxSenders(Nat) /\ d_r.max[f] \in D!MaxSenders(Nat)
      /\ d_r.max[f].committed \in Nat /\ d_r.max[f].acked \in Nat /\ d_s.limit[f] \in Nat
  BY <1>5, EndpointTypes, LimitTypes
<1>7. PICK ac : ac = IF d_r.max[f].acked < v THEN v ELSE d_r.max[f].acked
  OBVIOUS
<1>8. /\ n.committed = d_r.max[f].committed /\ n.acked = ac
      /\ n.remote_blocked = d_r.max[f].remote_blocked
  BY <1>5, <1>6, <1>7 DEF D!MaxSenderAcked, D!MaxSenders
<1>9. n.lost = (d_r.max[f].lost /\ ac # d_r.max[f].committed)
  BY <1>5, <1>6, <1>7 DEF D!MaxSenderAcked, D!MaxSenders
<1>10. v <= d_s.limit[f] /\ d_r.max[f].acked <= d_s.limit[f]
  BY <1>3, <1>4 DEF CreditInv, FramesKnown, Known
<1>11. ac \in Nat /\ ac <= d_s.limit[f]
  BY <1>6, <1>7, <1>10
<1>12. d_s.limit[f] < n.committed => v # n.committed /\ ac # n.committed
  BY <1>6, <1>8, <1>10, <1>11
<1>13. d_s.limit[f] < n.committed /\ ~n.lost => v # n.committed /\ ~d_r.max[f].lost
  BY <1>8, <1>9, <1>12
<1>14. PICK S : S = d_r.sentmap \ {x}
  OBVIOUS
<1>15. S \in SUBSET [frame : D!Frames, live : BOOLEAN]
  BY <1>1, <1>14 DEF D!ReceiverStates
<1>16. PICK p \in [D!Flows -> D!MaxSenders(Nat)] : p = [d_r.max EXCEPT ![f] = n]
  BY <1>1, <1>6 DEF D!ReceiverStates
<1>17. PICK t : t = [d_r EXCEPT !.sentmap = S, !.max = p]
  OBVIOUS
<1>18. /\ t \in D!ReceiverStates /\ t.max = p /\ t.sentmap = S /\ t.out = d_r.out
       /\ t.got = d_r.got /\ t.read = d_r.read /\ t.bytes_consumed = d_r.bytes_consumed
       /\ t.bytes_shifted = d_r.bytes_shifted /\ t.window = d_r.window
       /\ t.others = d_r.others /\ t.control = d_r.control
  BY <1>1, <1>15, <1>17 DEF D!ReceiverStates
<1>19. d_r' = t
  BY <1>1, <1>3, <1>4, <1>5, <1>14, <1>16, <1>17 DEF D!AckedMax, D!Without, D!ReceiverStates
<1>20. \A h \in D!Flows : FrameDue(d_r, h) => FrameDue(t, h)
  BY <1>18 DEF FrameDue
<1>21. ASSUME D!ShouldSendMax(t, f) PROVE FrameDue(t, f)
  <2>1. t.max[f] = n
    BY <1>1, <1>16, <1>18 DEF D!ReceiverStates
  <2>2. n.lost => d_r.max[f].lost
    BY <1>9
  <2>3. D!ShouldSendMax(d_r, f)
    BY <1>8, <1>18, <1>21, <2>1, <2>2 DEF D!ShouldSendMax, D!MaxSenderShouldSendMax
  <2>4. FrameDue(d_r, f)
    BY <1>1, <2>3 DEF ReceiverInv, Announces
  <2> QED  BY <1>20, <2>4
<1>22. /\ d_r.sentmap \ {x} \subseteq t.sentmap
       /\ \A y \in t.sentmap : y \in d_r.sentmap \/ y.frame = x.frame
  BY <1>14, <1>18
<1>23. t.max = [d_r.max EXCEPT ![f] = n] /\ t.out = {}
  BY <1>1, <1>16, <1>18
<1>24. n.acked <= d_s.limit[f] /\ (d_r.max[f].remote_blocked => n.remote_blocked)
       /\ (d_s.limit[f] < n.committed /\ ~n.lost => x.frame.v # n.committed /\ ~d_r.max[f].lost)
  BY <1>4, <1>8, <1>11, <1>13
<1> QED  BY <1>3, <1>6, <1>8, <1>18, <1>19, <1>20, <1>21, <1>22, <1>23, <1>24, LimitReported

\* ... and deemed lost.
LEMMA LossRInv ==
  ASSUME D!NamesAssumption, CreditInv, NEW x \in d_r.sentmap, d_s' = d_s, NEW e \in D!GivenUp(d_r, x),
         d_r' = D!LostMax(e, x.frame.on, x.frame.v),
         d_set' = d_set, d_net' = d_net, d_arrived' \subseteq d_arrived
  PROVE  CreditInv'
<1>1. d_r \in D!ReceiverStates /\ ReceiverInv(d_r, {}) /\ d_r.out = {}
  BY DEF CreditInv, D!TypeOK
<1>2. x.frame \in D!Frames
  BY <1>1 DEF D!ReceiverStates
<1>3. PICK f \in D!Flows : f = x.frame.on
  BY <1>2, CreditFramesAre
<1>4. PICK v \in Nat : v = x.frame.v
  BY <1>2, CreditFramesAre
<1>5. PICK y : y = D!Entry(x.frame, FALSE)
  OBVIOUS
<1>6. y \in [frame : D!Frames, live : BOOLEAN] /\ y.frame = x.frame
  BY <1>2, <1>5 DEF D!Entry
<1>7. PICK S : /\ S = d_r.sentmap \ {x} \/ S = (d_r.sentmap \ {x}) \cup {y}
               /\ e = [d_r EXCEPT !.sentmap = S]
  BY <1>1, <1>5 DEF D!GivenUp, D!Without, D!ReceiverStates
<1>8. S \in SUBSET [frame : D!Frames, live : BOOLEAN]
  BY <1>1, <1>6, <1>7 DEF D!ReceiverStates
<1>9. /\ e \in D!ReceiverStates /\ e.max = d_r.max /\ e.sentmap = S /\ e.out = d_r.out
      /\ e.got = d_r.got /\ e.read = d_r.read /\ e.bytes_consumed = d_r.bytes_consumed
      /\ e.bytes_shifted = d_r.bytes_shifted /\ e.window = d_r.window
      /\ e.others = d_r.others /\ e.control = d_r.control
  BY <1>1, <1>7, <1>8 DEF D!ReceiverStates
<1>10. d_r.sentmap \ {x} \subseteq S /\ \A z \in S : z \in d_r.sentmap \/ z.frame = x.frame
  BY <1>6, <1>7
<1>11. /\ d_r.max[f] \in D!MaxSenders(Nat) /\ d_r.max[f].committed \in Nat
       /\ d_r.max[f].acked \in Nat /\ d_s.limit[f] \in Nat /\ d_r.max[f].acked <= d_s.limit[f]
  BY EndpointTypes DEF CreditInv, Known
<1>12. CASE D!MaxSenderNeedsResend(d_r.max[f], v)
  <2>1. PICK n : n = D!MaxSenderLost(d_r.max[f], v)
    OBVIOUS
  <2>2. n \in D!MaxSenders(Nat)
    BY <1>11, <2>1, LimitTypes
  <2>3. /\ n.committed = d_r.max[f].committed /\ n.acked = d_r.max[f].acked
        /\ n.remote_blocked = d_r.max[f].remote_blocked /\ n.lost = TRUE
    BY <1>11, <1>12, <2>1 DEF D!MaxSenderLost, D!MaxSenders
  <2>4. PICK p \in [D!Flows -> D!MaxSenders(Nat)] : p = [d_r.max EXCEPT ![f] = n]
    BY <1>1, <2>2 DEF D!ReceiverStates
  <2>5. PICK g : g = [e EXCEPT !.max = p]
    OBVIOUS
  <2>6. /\ g \in D!ReceiverStates /\ g.max = p /\ g.sentmap = S /\ g.out = d_r.out
        /\ g.got = d_r.got /\ g.read = d_r.read /\ g.bytes_consumed = d_r.bytes_consumed
        /\ g.bytes_shifted = d_r.bytes_shifted /\ g.window = d_r.window
        /\ g.others = d_r.others /\ g.control = d_r.control
    BY <1>9, <2>5 DEF D!ReceiverStates
  <2>7. PICK t : t = D!SchedMax(g, f)
    OBVIOUS
  <2>8. d_r' = t
    <3>1. g = [e EXCEPT !.max[f] = D!MaxSenderLost(@, v)]
      BY <1>9, <2>1, <2>4, <2>5 DEF D!ReceiverStates
    <3>2. D!MaxSenderNeedsResend(e.max[f], v)
      BY <1>9, <1>12
    <3> QED  BY <1>3, <1>4, <2>7, <3>1, <3>2 DEF D!LostMax
  <2>9. /\ t \in D!ReceiverStates /\ t.max = p /\ t.sentmap = S /\ t.out = d_r.out
        /\ t.got = d_r.got /\ t.read = d_r.read /\ t.bytes_consumed = d_r.bytes_consumed
        /\ t.bytes_shifted = d_r.bytes_shifted /\ t.window = d_r.window
        /\ FrameDue(t, f) /\ \A h \in D!Flows : FrameDue(d_r, h) => FrameDue(t, h)
    <3>1. CASE f = D!Conn
      <4>1. t = [g EXCEPT !.others = TRUE]
        BY <2>7, <3>1 DEF D!SchedMax
      <4> QED  BY <2>6, <3>1, <4>1 DEF D!ReceiverStates, FrameDue
    <3>2. CASE f # D!Conn
      <4>1. t = [g EXCEPT !.control = g.control \cup {f}]
        BY <2>6, <2>7, <3>2 DEF D!SchedMax, D!ReceiverStates
      <4>2. g.control \cup {f} \in SUBSET Streams
        BY <2>6, <3>2 DEF D!ReceiverStates, D!Flows
      <4>3. /\ t \in D!ReceiverStates /\ t.max = p /\ t.sentmap = S /\ t.out = d_r.out
            /\ t.got = d_r.got /\ t.read = d_r.read /\ t.bytes_consumed = d_r.bytes_consumed
            /\ t.bytes_shifted = d_r.bytes_shifted /\ t.window = d_r.window
            /\ t.others = d_r.others /\ t.control = d_r.control \cup {f}
        BY <2>6, <4>1, <4>2 DEF D!ReceiverStates
      <4> QED  BY <3>2, <4>3 DEF FrameDue
    <3> QED  BY <3>1, <3>2
  <2>10. t.max = [d_r.max EXCEPT ![f] = n] /\ t.out = {}
    BY <1>1, <2>4, <2>9
  <2>11. n.acked <= d_s.limit[f]
    BY <1>11, <2>3
  <2>12. /\ d_s.limit[f] < n.committed /\ ~n.lost => x.frame.v # n.committed /\ ~d_r.max[f].lost
         /\ d_r.max[f].remote_blocked => n.remote_blocked
    BY <2>3
  <2>13. /\ d_r.sentmap \ {x} \subseteq t.sentmap
         /\ \A z \in t.sentmap : z \in d_r.sentmap \/ z.frame = x.frame
    BY <1>10, <2>9
  <2> QED  BY <1>3, <2>2, <2>3, <2>8, <2>9, <2>10, <2>11, <2>12, <2>13, LimitReported
<1>13. CASE ~D!MaxSenderNeedsResend(d_r.max[f], v)
  <2>1. d_r' = e
    BY <1>3, <1>4, <1>9, <1>13 DEF D!LostMax
  <2>2. PICK n : n = d_r.max[f]
    OBVIOUS
  <2>3. e.max = [d_r.max EXCEPT ![f] = n] /\ e.out = {}
    BY <1>1, <1>9, <2>2 DEF D!ReceiverStates
  <2>4. d_s.limit[f] < n.committed => v # n.committed
    BY <1>11, <1>13, <2>2 DEF D!MaxSenderNeedsResend
  <2>5. d_s.limit[f] < n.committed /\ ~n.lost => x.frame.v # n.committed /\ ~d_r.max[f].lost
    BY <1>4, <2>2, <2>4
  <2>6. \A h \in D!Flows : FrameDue(d_r, h) => FrameDue(e, h)
    BY <1>9 DEF FrameDue
  <2>7. D!ShouldSendMax(e, f) => FrameDue(e, f)
    <3>1. D!ShouldSendMax(e, f) => D!ShouldSendMax(d_r, f)
      BY <1>9 DEF D!ShouldSendMax
    <3>2. D!ShouldSendMax(d_r, f) => FrameDue(d_r, f)
      BY <1>1 DEF ReceiverInv, Announces
    <3> QED  BY <2>6, <3>1, <3>2
  <2>8. /\ n \in D!MaxSenders(Nat) /\ n.committed = d_r.max[f].committed /\ n.acked <= d_s.limit[f]
        /\ (d_r.max[f].remote_blocked => n.remote_blocked)
    BY <1>11, <2>2
  <2>9. /\ d_r.sentmap \ {x} \subseteq e.sentmap
        /\ \A z \in e.sentmap : z \in d_r.sentmap \/ z.frame = x.frame
    BY <1>9, <1>10
  <2> QED  BY <1>3, <1>9, <2>1, <2>3, <2>5, <2>6, <2>7, <2>8, <2>9, LimitReported
<1> QED  BY <1>12, <1>13

-----------------------------------------------------------------------------
(* Credit: all steps *)

\* A control frame arrives.
LEMMA CreditArriveInv ==
  ASSUME D!NamesAssumption, CreditInv, NEW m \in d_net, D!Arrive(m)
  PROVE  CreditInv'
BY RaiseArrives, BlockedArrives

\* An ACK arrives.
LEMMA CreditAckInv ==
  ASSUME D!NamesAssumption, CreditInv, D!Ack
  PROVE  CreditInv'
<1>1. d_set' = d_set /\ d_net' = d_net /\ d_arrived' \subseteq d_arrived
  BY DEF D!Ack, D!Forget
<1>2. CASE \E x \in d_s.sentmap :
             /\ x.frame \in d_arrived /\ d_r' = d_r
             /\ d_s' = D!AckedBlocked(D!Without(d_s, x), x.frame.on, x.frame.v)
  <2>1. PICK x \in d_s.sentmap :
          /\ x.frame \in d_arrived /\ d_r' = d_r
          /\ d_s' = D!AckedBlocked(D!Without(d_s, x), x.frame.on, x.frame.v)
    BY <1>2
  <2> QED  BY <1>1, <2>1, AckSInv
<1>3. CASE \E x \in d_r.sentmap :
             /\ x.frame \in d_arrived /\ d_s' = d_s
             /\ d_r' = D!AckedMax(D!Without(d_r, x), x.frame.on, x.frame.v)
  <2>1. PICK x \in d_r.sentmap :
          /\ x.frame \in d_arrived /\ d_s' = d_s
          /\ d_r' = D!AckedMax(D!Without(d_r, x), x.frame.on, x.frame.v)
    BY <1>3
  <2> QED  BY <1>1, <2>1, AckRInv
<1> QED  BY <1>2, <1>3 DEF D!Ack

\* A packet is deemed lost.
LEMMA CreditLossInv ==
  ASSUME D!NamesAssumption, CreditInv, D!Loss
  PROVE  CreditInv'
<1>1. d_set' = d_set /\ d_net' = d_net /\ d_arrived' \subseteq d_arrived
  BY DEF D!Loss, D!Forget
<1>2. CASE \E x \in d_s.sentmap :
             d_r' = d_r /\ \E e \in D!GivenUp(d_s, x) : d_s' = D!LostBlocked(e, x.frame.on, x.frame.v)
  <2>1. PICK x \in d_s.sentmap :
          d_r' = d_r /\ \E e \in D!GivenUp(d_s, x) : d_s' = D!LostBlocked(e, x.frame.on, x.frame.v)
    BY <1>2
  <2>2. PICK e \in D!GivenUp(d_s, x) : d_s' = D!LostBlocked(e, x.frame.on, x.frame.v)
    BY <2>1
  <2> QED  BY <1>1, <2>1, <2>2, LossSInv
<1>3. CASE \E x \in d_r.sentmap :
             d_s' = d_s /\ \E e \in D!GivenUp(d_r, x) : d_r' = D!LostMax(e, x.frame.on, x.frame.v)
  <2>1. PICK x \in d_r.sentmap :
          d_s' = d_s /\ \E e \in D!GivenUp(d_r, x) : d_r' = D!LostMax(e, x.frame.on, x.frame.v)
    BY <1>3
  <2>2. PICK e \in D!GivenUp(d_r, x) : d_r' = D!LostMax(e, x.frame.on, x.frame.v)
    BY <2>1
  <2> QED  BY <1>1, <2>1, <2>2, LossRInv
<1> QED  BY <1>2, <1>3 DEF D!Loss

\* Nothing has been sent, and both know the limits of the transport parameters.
LEMMA CreditInitInv ==
  ASSUME D!SettingsAssumption, D!NamesAssumption, D!Init
  PROVE  CreditInv
<1>1. PICK z : z = [id \in Streams |-> 0]
  OBVIOUS
<1>2. PICK lim : lim = [f \in D!Flows |-> IF f = D!Conn THEN D!ConnLimit0 ELSE D!StreamLimit0]
  OBVIOUS
<1>3. PICK bl : bl = [f \in D!Flows |-> "NONE"]
  OBVIOUS
<1>4. PICK w : w = [id \in Streams |-> D!StreamLimit0]
  OBVIOUS
<1>5. PICK p : p = [f \in D!Flows |-> D!MaxSenderInit(IF f = D!Conn THEN D!ConnLimit0
                                                   ELSE D!StreamLimit0)]
  OBVIOUS
<1>6. /\ D!StreamLimit0 \in Nat \ {0} /\ D!ConnLimit0 \in Nat \ {0} /\ d_set \in CreditSettings
  BY DEF D!Init, D!SettingsAssumption, D!StreamLimit0, D!ConnLimit0
<1>7. /\ z \in [Streams -> Nat] /\ lim \in [D!Flows -> Nat] /\ w \in [Streams -> Nat]
      /\ bl \in [D!Flows -> {"NONE", "SEND", "UNACKED", "ACKED"}]
      /\ <<>> \in Seq(Streams)
  BY <1>1, <1>2, <1>3, <1>4, <1>6
<1>8. ASSUME NEW f \in D!Flows
      PROVE  /\ p[f] \in D!MaxSenders(Nat) /\ p[f].committed = lim[f] /\ p[f].acked = lim[f]
             /\ p[f].lost = FALSE /\ p[f].remote_blocked = FALSE /\ lim[f] \in Nat
  <2>1. p[f] = D!MaxSenderInit(lim[f]) /\ lim[f] \in Nat
    BY <1>2, <1>5, <1>7
  <2> QED  BY <2>1 DEF D!MaxSenderInit, D!MaxSenders
<1>9. p \in [D!Flows -> D!MaxSenders(Nat)]
  <2>1. \A f \in D!Flows : p[f] \in D!MaxSenders(Nat)
    BY <1>8
  <2> QED  BY <1>5, <2>1
<1>10. /\ d_s.written = z /\ d_s.sent = z /\ d_s.data_sent = 0 /\ d_s.again = {} /\ d_s.limit = lim
       /\ d_s.blocked = bl /\ d_s.active = <<>> /\ d_s.waiting = <<>> /\ d_s.control = {}
       /\ d_s.others = FALSE /\ d_s.sentmap = {} /\ d_s.out = {}
  BY <1>1, <1>2, <1>3 DEF D!Init
<1>11. /\ d_r.got = z /\ d_r.read = z /\ d_r.bytes_consumed = 0 /\ d_r.bytes_shifted = 0
       /\ d_r.window = w /\ d_r.max = p /\ d_r.control = {} /\ d_r.others = FALSE
       /\ d_r.sentmap = {} /\ d_r.out = {}
  BY <1>1, <1>4, <1>5 DEF D!Init
<1>12. d_s \in D!SenderStates
  <2>1. d_s = [written |-> z, sent |-> z, data_sent |-> 0, again |-> {}, limit |-> lim,
               blocked |-> bl, active |-> <<>>, waiting |-> <<>>, control |-> {},
               others |-> FALSE, sentmap |-> {}, out |-> {}]
    BY <1>1, <1>2, <1>3 DEF D!Init
  <2> QED  BY <1>7, <2>1 DEF D!SenderStates
<1>13. d_r \in D!ReceiverStates
  <2>1. d_r = [got |-> z, read |-> z, bytes_consumed |-> 0, bytes_shifted |-> 0, window |-> w,
               max |-> p, control |-> {}, others |-> FALSE, ack |-> FALSE,
               sentmap |-> {}, out |-> {}]
    BY <1>1, <1>4, <1>5 DEF D!Init
  <2> QED  BY <1>7, <1>9, <2>1 DEF D!ReceiverStates
<1>14. D!TypeOK
  BY <1>6, <1>10, <1>11, <1>12, <1>13 DEF D!TypeOK, D!Init
<1>15. /\ lim[D!Conn] = D!ConnLimit0 /\ D!Conn \in D!Flows
       /\ \A id \in Streams : lim[id] = D!StreamLimit0 /\ id \in D!Flows
  BY <1>2 DEF D!Flows, D!NamesAssumption
<1>16. SenderInv(d_s, {})
  <2>1. WithinLimits(d_s)
    BY <1>1, <1>6, <1>10, <1>15 DEF WithinLimits
  <2>2. \A id \in Streams : ~D!Pending(d_s, id) /\ ~D!Linked(d_s, id)
    BY <1>1, <1>10 DEF D!Pending, D!Linked, D!Contains
  <2>3. Once(<<>>) /\ Apart(<<>>, <<>>)
    BY <1>7 DEF Once, D!IsInjective, Apart, D!Contains
  <2>4. Lists(d_s, {})
    BY <1>10, <2>2, <2>3 DEF Lists, D!CanSendAtStream
  <2>5. BlockedFrames(d_s) /\ SaysSo(d_s)
    BY <1>3, <1>10 DEF BlockedFrames, SaysSo
  <2>6. StoppedSays(d_s, {})
    BY <1>10, <2>2 DEF StoppedSays, Stopped, D!Flows
  <2> QED  BY <1>12, <2>1, <2>4, <2>5, <2>6 DEF SenderInv
<1>17. ReceiverInv(d_r, {})
  <2>1. Covered(d_r)
    <3>1. p[D!Conn].committed = D!ConnLimit0
      BY <1>8, <1>15
    <3>2. \A id \in Streams : p[id].committed = D!StreamLimit0 /\ w[id] = D!StreamLimit0
                              /\ z[id] = 0
      BY <1>1, <1>4, <1>8, <1>15
    <3> QED  BY <1>6, <1>11, <3>1, <3>2 DEF Covered
  <2>2. RaiseFrames(d_r)
    BY <1>11 DEF RaiseFrames
  <2>3. ASSUME NEW n \in Nat, n # 0, NEW q, q.committed = n, ~q.lost, ~q.remote_blocked
        PROVE  ~D!MaxSenderShouldSendMax(q, 0, 0, n, 512)
    <3>1. (n * 512) \div 1024 \in Nat /\ (n * 512) \div 1024 < n
      BY <2>3
    <3>2. ~(0 + n > n) /\ ~(n <= 0 + (n * 512) \div 1024)
      BY <2>3, <3>1
    <3> QED  BY <2>3, <3>2 DEF D!MaxSenderShouldSendMax
  <2>4. ASSUME NEW f \in D!Flows PROVE ~D!ShouldSendMax(d_r, f)
    <3>1. /\ p[f].committed = lim[f] /\ ~p[f].lost /\ ~p[f].remote_blocked
          /\ lim[f] \in Nat /\ lim[f] # 0
      BY <1>2, <1>6, <1>8
    <3>2. PICK n \in Nat : n = lim[f] /\ n # 0
      BY <3>1
    <3>3. ~D!MaxSenderShouldSendMax(p[f], 0, 0, n, 512)
      BY <2>3, <3>1, <3>2
    <3>4. CASE f = D!Conn
      BY <1>11, <1>15, <3>2, <3>3, <3>4 DEF D!ShouldSendMax
    <3>5. CASE f # D!Conn
      <4>1. f \in Streams /\ w[f] = n /\ z[f] = 0
        BY <1>1, <1>4, <1>15, <3>2, <3>5 DEF D!Flows
      <4> QED  BY <1>11, <3>3, <3>5, <4>1 DEF D!ShouldSendMax
    <3> QED  BY <3>4, <3>5
  <2>5. Announces(d_r, {})
    BY <2>4 DEF Announces
  <2> QED  BY <1>13, <2>1, <2>2, <2>5 DEF ReceiverInv
<1>18. ASSUME NEW f \in D!Flows PROVE Known(f)
  <2>1. /\ d_r.max[f].acked = lim[f] /\ d_r.max[f].committed = lim[f] /\ d_s.limit[f] = lim[f]
        /\ lim[f] \in Nat /\ d_s.blocked[f] = "NONE"
    BY <1>3, <1>8, <1>10, <1>11
  <2>2. lim[f] <= lim[f] /\ ~(lim[f] < lim[f])
    BY <2>1
  <2> QED  BY <2>1, <2>2 DEF Known
<1>19. FramesKnown
  BY DEF D!Init, FramesKnown
<1> QED  BY <1>14, <1>16, <1>17, <1>18, <1>19 DEF CreditInv

\* Every step keeps the invariant.
LEMMA CreditNextInv ==
  ASSUME D!SettingsAssumption, D!NamesAssumption, CreditInv, [D!Next]_(D!vars)
  PROVE  CreditInv'
<1>1. CASE D!SendS
  BY <1>1, SendSInv
<1>2. CASE D!SendR
  BY <1>2, SendRInv
<1>3. CASE D!Ack
  BY <1>3, CreditAckInv
<1>4. CASE D!Loss
  BY <1>4, CreditLossInv
<1>5. ASSUME NEW id \in Streams, D!Write(id) PROVE CreditInv'
  BY <1>5, WriteInv
<1>6. ASSUME NEW id \in Streams, D!Read(id) PROVE CreditInv'
  BY <1>6, ReadInv
<1>7. ASSUME NEW id \in Streams, D!LowerWindow(id) PROVE CreditInv'
  BY <1>7, LowerWindowInv
<1>8. ASSUME NEW id \in Streams, D!DataArrives(id) PROVE CreditInv'
  BY <1>8, DataArrivesInv
<1>9. ASSUME NEW id \in Streams, D!DataLost(id) PROVE CreditInv'
  BY <1>9, DataLostInv
<1>10. ASSUME NEW m \in d_net, D!Arrive(m) PROVE CreditInv'
  BY <1>10, CreditArriveInv
<1>11. ASSUME NEW m \in d_net, D!Drop(m) PROVE CreditInv'
  BY <1>11, CreditDropInv
<1>12. CASE UNCHANGED D!vars
  <2>1. d_set' = d_set /\ d_s' = d_s /\ d_r' = d_r /\ d_net' = d_net /\ d_arrived' = d_arrived
    BY <1>12 DEF D!vars
  <2>2. ReceiverInv(d_r, {})
    BY DEF CreditInv
  <2> QED  BY <2>1, <2>2, ReceiverStepQuiet
<1> QED  BY <1>1, <1>2, <1>3, <1>4, <1>5, <1>6, <1>7, <1>8, <1>9, <1>10, <1>11, <1>12
         DEF D!Next

\* What the invariant is for.
LEMMA CreditInvImplies ==
  ASSUME D!NamesAssumption, CreditInv
  PROVE  /\ D!CreditSound /\ D!SchedulerComplete /\ D!LimitUnderway /\ D!BlockedIsSaid
         /\ D!CreditAnnounced
<1>1. /\ D!TypeOK /\ SenderInv(d_s, {}) /\ ReceiverInv(d_r, {}) /\ \A f \in D!Flows : Known(f)
  BY DEF CreditInv
<1>2. D!CreditSound
  BY <1>1 DEF SenderInv, WithinLimits, ReceiverInv, Covered, Known, D!CreditSound
<1>3. D!SchedulerComplete
  <2>1. /\ Once(d_s.active) /\ Once(d_s.waiting) /\ Apart(d_s.active, d_s.waiting)
        /\ \A id \in Streams : D!CanSendAtStream(d_s, id) <=> D!Linked(d_s, id)
    BY <1>1 DEF SenderInv, Lists
  <2>2. Once(d_s.active \o d_s.waiting)
    BY <2>1, Joined
  <2> QED  BY <2>1, <2>2 DEF D!SchedulerComplete, Once
<1>4. D!CreditAnnounced
  BY <1>1 DEF ReceiverInv, Announces, D!CreditAnnounced, FrameDue
<1>5. D!LimitUnderway
  <2>1. SUFFICES ASSUME NEW f \in D!Flows, d_s.limit[f] < d_r.max[f].committed, d_r.max[f].lost
                 PROVE  d_r.others \/ d_r.control # {}
    BY <1>1 DEF D!LimitUnderway, Known
  <2>2. D!ShouldSendMax(d_r, f)
    BY <2>1 DEF D!ShouldSendMax, D!MaxSenderShouldSendMax
  <2>3. IF f = D!Conn THEN d_r.others ELSE f \in d_r.control
    BY <1>4, <2>2 DEF D!CreditAnnounced
  <2> QED  BY <2>3
<1>6. D!BlockedIsSaid
  <2>1. SUFFICES ASSUME NEW f \in D!Flows, Stopped(d_s, f)
                 PROVE  \/ d_s.blocked[f] = "SEND"
                             /\ (IF f = D!Conn THEN d_s.others ELSE f \in d_s.control)
                        \/ d_s.blocked[f] = "UNACKED"
                             /\ D!Entry(D!Frame(D!BlockedAt, f, d_s.limit[f]), TRUE) \in d_s.sentmap
                        \/ d_s.blocked[f] = "ACKED"
                             /\ (d_r.max[f].committed = d_s.limit[f] => d_r.max[f].remote_blocked)
    BY DEF D!BlockedIsSaid, Stopped
  <2>2. d_s.blocked[f] \in {"NONE", "SEND", "UNACKED", "ACKED"} /\ d_s.blocked[f] # "NONE"
    BY <1>1, <2>1 DEF SenderInv, D!SenderStates, StoppedSays
  <2>3. /\ d_s.blocked[f] = "SEND" => FrameDue(d_s, f)
        /\ d_s.blocked[f] = "UNACKED" =>
             D!Entry(D!Frame(D!BlockedAt, f, d_s.limit[f]), TRUE) \in d_s.sentmap
    BY <1>1 DEF SenderInv, SaysSo
  <2>4. d_s.blocked[f] = "ACKED" =>
          (d_r.max[f].committed = d_s.limit[f] => d_r.max[f].remote_blocked)
    BY <1>1 DEF Known
  <2> QED  BY <2>2, <2>3, <2>4 DEF FrameDue
<1> QED  BY <1>2, <1>3, <1>4, <1>5, <1>6

\* Credit is never overdrawn nor stuck (quicly_maxsender_*, the default scheduler,
\* send_stream_control_frames, release_ingress_credit, on_ack_max_*): whatever is lost,
\* late or out of order, what is sent keeps to limits that the receiver has committed to
\* and has room for, the scheduler has each stream that can send, once, a raised limit is
\* under way until the sender has it, a sender that is stopped says so, and a limit that
\* is due is scheduled, for any number of streams, windows and bytes.
THEOREM CreditGetsThrough ==
  ASSUME D!SettingsAssumption, D!NamesAssumption
  PROVE  D!Spec => [](D!TypeOK /\ D!CreditSound /\ D!SchedulerComplete /\ D!LimitUnderway
                      /\ D!BlockedIsSaid /\ D!CreditAnnounced)
<1>1. D!Init => CreditInv
  BY CreditInitInv
<1>2. CreditInv /\ [D!Next]_(D!vars) => CreditInv'
  BY CreditNextInv
<1>3. CreditInv => D!TypeOK /\ D!CreditSound /\ D!SchedulerComplete /\ D!LimitUnderway
                   /\ D!BlockedIsSaid /\ D!CreditAnnounced
  BY CreditInvImplies DEF CreditInv
<1> QED  BY <1>1, <1>2, <1>3, PTL DEF D!Spec
=============================================================================
