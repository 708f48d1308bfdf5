---------------------------- MODULE StreamLimits ----------------------------
(***************************************************************************)
(* How many streams there may be: one endpoint (a) opens streams of one    *)
(* kind and the other (b) accepts them.  What is beyond the limit waits at *)
(* a until MAX_STREAMS comes; b raises the limit as its streams close.     *)
(* Packets are lost, delayed and reordered.                                *)
(*                                                                         *)
(* Streams are numbered (stream_id / 4).  The frames of a stream are one   *)
(* "STREAM" frame that b learns of it by, and that a sends again for as    *)
(* long as b has not (see SendState and StreamTransfer).                   *)
(***************************************************************************)
EXTENDS MaxSender, SequencesExt

CONSTANTS
  Settings            \* of the connection: the concurrency b allows
                      \* (transport_params.max_streams), what a remembers of
                      \* it until the handshake is complete, and as bounds
                      \* how many streams the application opens and how many
                      \* frames of a kind a sentmap holds

SettingsAssumption ==
  \A s \in Settings : /\ s.concurrency \in Nat \ {0} /\ s.opened \in Nat
                     /\ s.inflight \in Nat
                     /\ s.remembered \in 0 .. s.concurrency

VARIABLES
  set,                \* one of Settings
  a,                  \* the opening endpoint
  b,                  \* the accepting one
  net,                \* frames under way
  arrived             \* frames that have arrived, and may be acknowledged

vars == <<set, a, b, net, arrived>>

MaxOpened == set.opened
Concurrency == set.concurrency
Ids == 0 .. MaxOpened - 1
Limits == -1 .. MaxOpened + Concurrency
Frame(kind, v) == [kind |-> kind, v |-> v]
\* what the sentmap holds of a frame; live while it is in flight
Entry(frame, live) == [frame |-> frame, live |-> live]
Frames == {Frame(k, v) : k \in {"STREAM", "STREAMS_BLOCKED", "MAX_STREAMS"},
                         v \in Limits}

\* The fields of both endpoints stay within their bounds (max_streams of quicly_conn_t).
TypeOK ==
  /\ set \in Settings
  /\ a \in [next : 0 .. MaxOpened, count : Limits,
            waiting : Seq(Ids), linked : SUBSET Ids,
            inflight : SUBSET Ids, sender : MaxSenders(Limits), pending : BOOLEAN, ready : BOOLEAN,
            sentmap : SUBSET [frame : Frames, live : BOOLEAN]]
  /\ b \in [next : 0 .. MaxOpened, num : 0 .. MaxOpened, open : SUBSET Ids,
            sender : MaxSenders(Limits), pending : BOOLEAN,
            sentmap : SUBSET [frame : Frames, live : BOOLEAN],
            error : {"none", "STREAM_LIMIT", "callback"}]
  /\ net \subseteq Frames /\ arrived \subseteq Frames

Init ==
  /\ set \in Settings
  /\ a = [next |-> 0, count |-> set.remembered, waiting |-> <<>>, linked |-> {},
          inflight |-> {}, sender |-> MaxSenderInit(-1), pending |-> FALSE, ready |-> FALSE,
          sentmap |-> {}]
  /\ b = [next |-> 0, num |-> 0, open |-> {},
          sender |-> MaxSenderInit(Concurrency), pending |-> FALSE,
          sentmap |-> {}, error |-> "none"]
  /\ net = {} /\ arrived = {}

Running == b.error = "none"

\* frames of the kind that may still be acknowledged or lost
Outstanding(e, kind) == {x \in e.sentmap : x.frame.kind = kind}

-----------------------------------------------------------------------------
(* The endpoint that opens streams *)

Blocked(e, id) == \E i \in DOMAIN e.waiting : e.waiting[i] = id

\* resched_stream_data and sched_stream_control: not for one that waits, whose
\* link is in the list of those
Sched(e, id) == IF Blocked(e, id) THEN e ELSE [e EXCEPT !.linked = @ \cup {id}]

\* quicly_open_stream, after which the application writes to the stream or
\* resets it, blocked or not
OpenStream ==
  /\ a.next < MaxOpened
  /\ a' = Sched([a EXCEPT
                   !.next = @ + 1,
                   !.waiting = IF a.next >= a.count THEN Append(@, a.next)
                               ELSE @,
                   !.pending = @ \/ (a.next >= a.count /\ a.ready)], a.next)
  /\ UNCHANGED <<set, b, net, arrived>>

\* faulty: stops short of the last stream that the limit admits
OpenBlockedStreams_OneLess(e) ==
  LET admitted == {i \in DOMAIN e.waiting : e.waiting[i] + 1 < e.count}
  IN  [e EXCEPT !.waiting = SubSeq(@, Cardinality(admitted) + 1, Len(@)),
                !.linked = @ \cup {e.waiting[i] : i \in admitted}]

\* faulty: a stream opened late is not scheduled
OpenBlockedStreams_NotScheduled(e) ==
  LET admitted == {i \in DOMAIN e.waiting : e.waiting[i] < e.count}
  IN  [e EXCEPT !.waiting = SubSeq(@, Cardinality(admitted) + 1, Len(@))]

\* open_blocked_streams: they are in order, and scheduled in any case
OpenBlockedStreams(e) ==
  LET admitted == {i \in DOMAIN e.waiting : e.waiting[i] < e.count}
  IN  [e EXCEPT !.waiting = SubSeq(@, Cardinality(admitted) + 1, Len(@)),
                !.linked = @ \cup {e.waiting[i] : i \in admitted}]

\* update_max_streams
UpdateMaxStreams(e, count) ==
  [e EXCEPT !.count = IF @ < count THEN count ELSE @]

\* update_traffic_key_cb, when the 1-RTT write key comes
Ready(e) == [e EXCEPT !.ready = TRUE,
                      !.pending = @ \/ e.waiting # <<>>]
KeyAvailable ==
  /\ ~a.ready
  /\ a' = Ready(OpenBlockedStreams(UpdateMaxStreams(a, Concurrency)))
  /\ UNCHANGED <<set, b, net, arrived>>

Emit(e, frame) == [e EXCEPT !.sentmap = @ \cup {Entry(frame, TRUE)}]

\* send_streams_blocked, and the frame it sends
SendsBlocked(e) ==
  e.waiting # <<>> /\ MaxSenderShouldSendBlocked(e.sender, e.count)
SendStreamsBlocked(e) ==
  IF ~SendsBlocked(e) THEN e
  ELSE Emit([e EXCEPT !.sender = MaxSenderRecord(@, e.count)],
            Frame("STREAMS_BLOCKED", e.count))

\* do_send at a: the other control frames go first; it is called for as long
\* as OTHERS_BIT is set or a stream is linked
SendA(ids) ==
  /\ a.ready /\ Running
  /\ a.pending \/ a.linked # {}
  /\ ids \subseteq a.linked
  /\ Cardinality(Outstanding(a, "STREAMS_BLOCKED")) < set.inflight
  /\ \E e \in {SendStreamsBlocked(a)} :
       /\ a' = [e EXCEPT !.pending = FALSE, !.linked = @ \ ids,
                         !.inflight = @ \cup ids]
       /\ net' = net \cup {Frame("STREAM", id) : id \in ids}
                     \cup IF SendsBlocked(a)
                          THEN {Frame("STREAMS_BLOCKED", a.count)} ELSE {}
  /\ UNCHANGED <<set, b, arrived>>

\* handle_max_streams_frame
ReceiveMaxStreams(count) == OpenBlockedStreams(UpdateMaxStreams(a, count))

-----------------------------------------------------------------------------
(* The endpoint that accepts them *)

\* should_send_max_streams; QUICLY's ratio is 768 in 1024
ShouldSendMaxStreams(e) ==
  MaxSenderShouldSendMax(e.sender, e.next - e.num, e.next, Concurrency, 768)

Reconsider(e) == [e EXCEPT !.pending = @ \/ ShouldSendMaxStreams(e)]

\* faulty: opening streams is not taken for a reason to raise the limit
AcceptUpTo_NotReconsidered(e, id) ==
  [e EXCEPT !.next = id + 1, !.num = @ + id + 1 - e.next,
            !.open = @ \cup e.next .. id]

\* quicly_get_or_open_stream: every stream up to `id`
AcceptUpTo(e, id) ==
  Reconsider([e EXCEPT !.next = id + 1, !.num = @ + id + 1 - e.next,
                       !.open = @ \cup e.next .. id])

\* faulty: the stream is counted after the callback
CallbackFails_NotCounted(e, id) ==
  [e EXCEPT !.next = id + 1, !.num = @ + id - e.next,
            !.open = @ \cup e.next .. id, !.error = "callback"]

\* the callback fails for the stream `id`: it stays, the connection does not
CallbackFails(e, id) ==
  [e EXCEPT !.next = id + 1, !.num = @ + id + 1 - e.next,
            !.open = @ \cup e.next .. id, !.error = "callback"]

\* the outcomes of a frame of the stream `id`
ReceiveStream(id) ==
  IF id \in b.open THEN {b}
  ELSE IF id >= b.sender.committed THEN {[b EXCEPT !.error = "STREAM_LIMIT"]}
  ELSE IF id < b.next THEN {b}
  ELSE {AcceptUpTo(b, id)} \cup {CallbackFails(b, i) : i \in b.next .. id}

\* handle_streams_blocked_frame
ReceiveStreamsBlocked(count) ==
  Reconsider([b EXCEPT !.sender = MaxSenderBlocked(@, count)])

\* destroy_stream at b
CloseB(id) ==
  /\ id \in b.open /\ Running
  /\ b' = Reconsider([b EXCEPT !.open = @ \ {id}, !.num = @ - 1])
  /\ UNCHANGED <<set, a, net, arrived>>

NewCount(e) == e.next + Concurrency - e.num

\* send_max_streams, in do_send at b
SendMaxStreams ==
  /\ b.pending /\ Running
  /\ Cardinality(Outstanding(b, "MAX_STREAMS")) < set.inflight
  /\ IF ShouldSendMaxStreams(b)
     THEN /\ b' = Emit([b EXCEPT !.pending = FALSE,
                                 !.sender = MaxSenderRecord(@, NewCount(b))],
                       Frame("MAX_STREAMS", NewCount(b)))
          /\ net' = net \cup {Frame("MAX_STREAMS", NewCount(b))}
     ELSE b' = [b EXCEPT !.pending = FALSE] /\ UNCHANGED net
  /\ UNCHANGED <<set, a, arrived>>

-----------------------------------------------------------------------------
(* The network, and what the sentmaps learn of the frames *)

\* what the ack callbacks make of x being acknowledged
Acked(e, x) == [e EXCEPT !.sender = MaxSenderAcked(@, x.frame.v)]

\* on_ack_streams_blocked, of what is lost
LostA(e, x) ==
  [e EXCEPT !.sender = MaxSenderLost(@, x.frame.v),
            !.pending = @ \/ (/\ MaxSenderNeedsResend(e.sender, x.frame.v)
                              /\ e.waiting # <<>>)]

\* faulty: MAX_STREAMS is not sent again
LostB_Forgotten(e, x) == e

\* on_ack_max_streams, of what is lost
LostB(e, x) ==
  [e EXCEPT !.sender = MaxSenderLost(@, x.frame.v),
            !.pending = @ \/ MaxSenderNeedsResend(e.sender, x.frame.v)]

Without(e, x) == [e EXCEPT !.sentmap = @ \ {x}]
\* lost, and kept for a while unless it has been there for long
GivenUp(e, x) ==
  {Without(e, x),
   [e EXCEPT !.sentmap = (@ \ {x}) \cup {Entry(x.frame, FALSE)}]}
\* an arrival matters for as long as it may be acknowledged
Forget == arrived' = {m \in arrived :
                        \E x \in a'.sentmap \cup b'.sentmap : x.frame = m}

Ack ==
  /\ \/ \E x \in a.sentmap : /\ x.frame \in arrived
                             /\ a' = Acked(Without(a, x), x) /\ UNCHANGED b
     \/ \E x \in b.sentmap : /\ x.frame \in arrived
                             /\ b' = Acked(Without(b, x), x) /\ UNCHANGED a
  /\ Forget /\ UNCHANGED <<set, net>>

\* loss detection gives the packet up; it may be acknowledged yet
Loss ==
  /\ \/ \E x \in a.sentmap : /\ x.live /\ UNCHANGED b
                             /\ \E e \in GivenUp(a, x) : a' = LostA(e, x)
     \/ \E x \in b.sentmap : /\ x.live /\ UNCHANGED a
                             /\ \E e \in GivenUp(b, x) : b' = LostB(e, x)
     \/ \E id \in a.inflight :      \* on_ack_stream
          /\ Frame("STREAM", id) \notin net
          /\ a' = Sched([a EXCEPT !.inflight = @ \ {id}], id) /\ UNCHANGED b
  /\ Forget /\ UNCHANGED <<set, net>>

Arrive(m) ==
  /\ m \in net /\ Running /\ UNCHANGED set
  /\ net' = net \ {m}
  /\ CASE m.kind = "STREAM" -> /\ b' \in ReceiveStream(m.v)
                               /\ a' = [a EXCEPT !.inflight = @ \ {m.v},
                                                 !.linked = @ \ {m.v}]
       [] m.kind = "STREAMS_BLOCKED" ->
            b' = ReceiveStreamsBlocked(m.v) /\ UNCHANGED a
       [] m.kind = "MAX_STREAMS" -> a' = ReceiveMaxStreams(m.v) /\ UNCHANGED b
  /\ arrived' = {n \in arrived \cup {m} :
                   \E x \in a'.sentmap \cup b'.sentmap : x.frame = n}

Drop == (\E m \in net : net' = net \ {m}) /\ UNCHANGED <<set, a, b, arrived>>

Next ==
  \/ OpenStream \/ KeyAvailable \/ SendMaxStreams
  \/ Ack \/ Loss \/ Drop
  \/ \E id \in Ids : CloseB(id)
  \/ \E ids \in SUBSET Ids : SendA(ids)
  \/ \E m \in net : Arrive(m)

Spec == Init /\ [][Next]_vars

-----------------------------------------------------------------------------
(* Properties *)

\* The streams that wait at a are exactly those beyond the limit, the oldest
\* first: the assertion of send_streams_blocked that the oldest is the one the
\* limit stops, and that open_blocked_streams leaves none behind that it could
\* open.
WaitBeyondLimit ==
  a.waiting = [i \in 1 .. a.next - a.count |-> a.count + i - 1]

\* A stream that no limit holds back is on its way to b: linked for sending, in
\* flight, or known there (sched_stream_control, resched_stream_data, which leave
\* a stream that waits alone, and open_blocked_streams).
OpenedIsUnderway ==
  Running => \A id \in 0 .. a.next - 1 :
    Blocked(a, id) \/ id \in a.linked \/ id \in a.inflight \/ id < b.next

\* A limit that b has committed to is not lost on a: a has it, or MAX_STREAMS
\* with it is in flight, or it is to be sent again (on_ack_max_streams and
\* quicly_maxsender_blocked against late ACKs).
LimitUnderway ==
  Running /\ a.ready /\ a.count < b.sender.committed =>
    \/ Entry(Frame("MAX_STREAMS", b.sender.committed), TRUE) \in b.sentmap
    \/ b.sender.lost /\ b.pending

\* b never sits on a limit it should announce, and a never on the news that it is
\* blocked: whenever the condition of the frame holds, quicly_get_first_timeout
\* has a reason to call quicly_send (OTHERS_BIT, or a stream's link).
SignalsPending ==
  /\ Running /\ ShouldSendMaxStreams(b) => b.pending
  /\ a.ready /\ SendsBlocked(a) => a.pending \/ a.linked # {}

\* num_streams counts the streams there are, after a failing stream_open
\* callback too, and the limit is never more than Concurrency above those closed
\* (the assertion of destroy_all_streams; get_or_open_stream, send_max_streams).
StreamsCounted ==
  /\ b.num = Cardinality(b.open)
  /\ b.sender.committed <= b.next - b.num + Concurrency
  /\ b.error # "STREAM_LIMIT"
=============================================================================
