----------------------------- MODULE DataCredit -----------------------------
(***************************************************************************)
(* Flow control of the data of several streams, between a sender (s) and a *)
(* receiver (r): the limits of each stream and of the connection, the      *)
(* frames that raise them (MAX_STREAM_DATA, MAX_DATA) and that ask for it  *)
(* (STREAM_DATA_BLOCKED, DATA_BLOCKED), and the default scheduler, which   *)
(* keeps the streams that can send and those that only the connection's    *)
(* limit holds back (defaults.c).                                          *)
(*                                                                         *)
(* A packet carries one byte.  What is acknowledged and what arrives twice *)
(* is left to SendState and RecvState: of a stream's data there is how far *)
(* it was written, sent, received and read, and whether some of what was   *)
(* sent has to be sent again.  Control frames are lost, delayed and        *)
(* reordered one by one.                                                   *)
(***************************************************************************)
EXTENDS MaxSender, SequencesExt

CONSTANTS
  Streams,
  Settings,           \* the receiver's transport parameters (max_stream_data,
                      \* max_data), what an application may lower a stream's
                      \* window to, and as bounds how many bytes are written,
                      \* on how many streams
  MaxCopies           \* bound: frames in the sentmap of an endpoint

SettingsAssumption ==
  \A x \in Settings : /\ x.max_stream_data \in Nat \ {0}
                     /\ x.max_data \in Nat \ {0}
                     /\ x.low \subseteq 1 .. x.max_stream_data

Conn == "conn"        \* the connection, beside its streams
NamesAssumption == Conn \notin Streams

VARIABLES
  set,                \* one of Settings
  s,                  \* the sender
  r,                  \* the receiver
  net,                \* control frames under way: [to, kind, on, v]
  arrived             \* those that have arrived and may be acknowledged

vars == <<set, s, r, net, arrived>>

StreamLimit0 == set.max_stream_data
ConnLimit0 == set.max_data
Flows == Streams \cup {Conn}
Raise == "MAX"
BlockedAt == "BLOCKED"
Frame(kind, on, v) == [kind |-> kind, on |-> on, v |-> v]
Frames == [kind : {Raise, BlockedAt}, on : Flows, v : Nat]
Entry(frame, live) == [frame |-> frame, live |-> live]

\* what an endpoint keeps of the connection; out is empty between its steps
SenderStates ==
  [written : [Streams -> Nat], sent : [Streams -> Nat], data_sent : Nat,
   again : SUBSET Streams, limit : [Flows -> Nat],
   blocked : [Flows -> {"NONE", "SEND", "UNACKED", "ACKED"}],
   active : Seq(Streams), waiting : Seq(Streams), control : SUBSET Streams,
   others : BOOLEAN, sentmap : SUBSET [frame : Frames, live : BOOLEAN],
   out : SUBSET Frames]
ReceiverStates ==
  [got : [Streams -> Nat], read : [Streams -> Nat],
   bytes_consumed : Nat, bytes_shifted : Nat, window : [Streams -> Nat],
   max : [Flows -> MaxSenders(Nat)], control : SUBSET Streams,
   others : BOOLEAN, ack : BOOLEAN,
   sentmap : SUBSET [frame : Frames, live : BOOLEAN], out : SUBSET Frames]

\* The fields of both endpoints keep their types, and each packet takes along what
\* was put into it (quicly_conn_t, quicly_stream_t).
TypeOK ==
  /\ set \in Settings
  /\ s \in SenderStates /\ r \in ReceiverStates
  /\ s.out = {} /\ r.out = {}
  /\ net \subseteq Frames /\ arrived \subseteq Frames

Init ==
  /\ set \in Settings
  /\ s = [written |-> [id \in Streams |-> 0], sent |-> [id \in Streams |-> 0],
          data_sent |-> 0, again |-> {},
          limit |-> [f \in Flows |-> IF f = Conn THEN ConnLimit0
                                     ELSE StreamLimit0],
          blocked |-> [f \in Flows |-> "NONE"],
          active |-> <<>>, waiting |-> <<>>, control |-> {}, others |-> FALSE,
          sentmap |-> {}, out |-> {}]
  /\ r = [got |-> [id \in Streams |-> 0], read |-> [id \in Streams |-> 0],
          bytes_consumed |-> 0, bytes_shifted |-> 0,
          window |-> [id \in Streams |-> StreamLimit0],
          max |-> [f \in Flows |-> MaxSenderInit(IF f = Conn THEN ConnLimit0
                                                 ELSE StreamLimit0)],
          control |-> {}, others |-> FALSE, ack |-> FALSE,
          sentmap |-> {}, out |-> {}]
  /\ net = {} /\ arrived = {}

-----------------------------------------------------------------------------
(* Sending of data: what can be sent, and the default scheduler *)

Pending(e, id) == id \in e.again \/ e.sent[id] < e.written[id]
\* pending.ranges[0].start, as far as it is compared
PendingStart(e, id) == IF id \in e.again THEN e.sent[id] - 1 ELSE e.sent[id]

\* quicly_stream_can_send, at the stream's level and at the connection's
CanSendAtStream(e, id) == Pending(e, id) /\ PendingStart(e, id) < e.limit[id]
CanSendAtConn(e, id) == Pending(e, id) /\ PendingStart(e, id) < e.sent[id]

\* ... which at the stream's level schedules STREAM_DATA_BLOCKED as well
NoteStreamBlocked(e, id) ==
  IF Pending(e, id) /\ ~CanSendAtStream(e, id) /\ e.blocked[id] = "NONE"
  THEN [e EXCEPT !.blocked[id] = "SEND", !.control = @ \cup {id}]
  ELSE e

\* quicly_is_blocked, and the DATA_BLOCKED it schedules
IsBlocked(e) == e.data_sent >= e.limit[Conn]
NoteConnBlocked(e) ==
  IF IsBlocked(e) /\ e.blocked[Conn] = "NONE"
  THEN [e EXCEPT !.blocked[Conn] = "SEND", !.others = TRUE] ELSE e

Linked(e, id) == Contains(e.active, id) \/ Contains(e.waiting, id)

\* link_stream of the default scheduler
LinkStream(e, id, conn_is_blocked) ==
  IF Linked(e, id) THEN e
  ELSE IF conn_is_blocked /\ ~CanSendAtConn(e, id)
  THEN [e EXCEPT !.waiting = Append(@, id)]
  ELSE [e EXCEPT !.active = Append(@, id)]

\* quicly_linklist_unlink, if it is linked
Unlinked(q, id) ==
  IF Contains(q, id) THEN RemoveAt(q, CHOOSE i \in DOMAIN q : q[i] = id) ELSE q
Unlink(e, id) == [e EXCEPT !.active = Unlinked(@, id),
                           !.waiting = Unlinked(@, id)]

\* default_stream_scheduler_update_state; the connection is asked first whether
\* it is blocked when there is something to link
Resched(e, id) ==
  IF CanSendAtStream(e, id)
  THEN LinkStream(NoteConnBlocked(e), id, IsBlocked(e))
  ELSE Unlink(NoteStreamBlocked(e, id), id)

\* quicly_linklist_insert_list: the streams that wait go to the front
Merge(e) == [e EXCEPT !.active = e.waiting \o @, !.waiting = <<>>]

\* quicly_send_stream, of one byte: what is to be sent again, or the next one
SendStream(e, id) ==
  IF id \in e.again THEN [e EXCEPT !.again = @ \ {id}]
  ELSE [e EXCEPT !.sent[id] = @ + 1, !.data_sent = @ + 1]

Relinked(e, id) ==
  IF CanSendAtStream(e, id) THEN LinkStream(e, id, IsBlocked(e))
  ELSE NoteStreamBlocked(e, id)

\* one stream of the loop of default_stream_scheduler_do_send: those in front
\* that the connection's limit holds back go to the list that waits
MoveWaiting(e) ==
  LET front == {i \in DOMAIN e.active :
                  \A j \in 1 .. i : ~CanSendAtConn(e, e.active[j])}
      n == Cardinality(front)
  IN  IF ~IsBlocked(e) THEN e
      ELSE [e EXCEPT !.active = SubSeq(@, n + 1, Len(@)),
                     !.waiting = @ \o SubSeq(e.active, 1, n)]

SendFirst(e) ==
  IF e.active = <<>> THEN e
  ELSE Relinked(NoteConnBlocked(SendStream(
                  [e EXCEPT !.active = Tail(@)], Head(e.active))),
                Head(e.active))

SchedulerDoSend(e) ==
  SendFirst(MoveWaiting(IF IsBlocked(e) THEN NoteConnBlocked(e) ELSE Merge(e)))

\* scheduler_can_send, which merges the lists as well; what is in them decides
\* whether quicly_send is called
SchedulerCanSend(e) == e.active # <<>> \/ (~IsBlocked(e) /\ e.waiting # <<>>)

-----------------------------------------------------------------------------
(* Sending of control frames *)

Emit(e, frames) ==
  [e EXCEPT !.sentmap = @ \cup {Entry(m, TRUE) : m \in frames},
            !.out = @ \cup frames]

\* STREAM_DATA_BLOCKED and DATA_BLOCKED (send_data_blocked) of the flows that
\* have it to send
SendBlocked(e, flows) ==
  LET due == {f \in flows : e.blocked[f] = "SEND"}
  IN  Emit([e EXCEPT !.blocked = [f \in Flows |-> IF f \in due THEN "UNACKED"
                                                  ELSE e.blocked[f]]],
           {Frame(BlockedAt, f, e.limit[f]) : f \in due})

\* send_stream_control_frames at s
SendControl(e) == [SendBlocked(e, e.control) EXCEPT !.control = {}]

SendOthers(e) == [SendBlocked(e, {Conn}) EXCEPT !.others = FALSE]
OthersAgain(e) == IF e.others THEN SendOthers(e) ELSE e

\* do_send at s: other control frames, those of streams, data, and once more
\* both, as far as the datagrams suffice
Stages(e) ==
  {SendOthers(e), SendControl(SendOthers(e)),
   SchedulerDoSend(SendControl(SendOthers(e))),
   OthersAgain(SendControl(SchedulerDoSend(SendControl(SendOthers(e)))))}

SendS ==
  /\ s.others \/ s.control # {} \/ SchedulerCanSend(s)
  /\ \E e \in Stages(s) :
       /\ s' = [e EXCEPT !.out = {}]
       /\ net' = net \cup e.out
       /\ Cardinality(e.sentmap) <= MaxCopies
  /\ UNCHANGED <<set, r, arrived>>

-----------------------------------------------------------------------------
(* The receiver's limits *)

\* should_send_max_data and should_send_max_stream_data; the ratio is 512 in 1024
ShouldSendMax(e, f) ==
  IF f = Conn
  THEN MaxSenderShouldSendMax(e.max[f], e.bytes_shifted, e.bytes_consumed,
                              ConnLimit0, 512)
  ELSE MaxSenderShouldSendMax(e.max[f], e.read[f], e.got[f], e.window[f], 512)

\* sched_stream_control, OTHERS_BIT
SchedMax(e, f) == IF f = Conn THEN [e EXCEPT !.others = TRUE]
                  ELSE [e EXCEPT !.control = @ \cup {f}]
Reconsider(e, f) == IF ShouldSendMax(e, f) THEN SchedMax(e, f) ELSE e

\* faulty: a limit is computed anew although a greater one has been announced
NewLimit_MayShrink(e, f) ==
  IF f = Conn THEN e.bytes_shifted + ConnLimit0 ELSE e.read[f] + e.window[f]

\* what is announced: of a stream whose window was lowered, no less than before
NewLimit(e, f) ==
  IF f = Conn THEN e.bytes_shifted + ConnLimit0
  ELSE IF e.read[f] + e.window[f] < e.max[f].committed
       THEN e.max[f].committed ELSE e.read[f] + e.window[f]

\* of the flows whose limit is due
SendMax(e, flows) ==
  LET due == {f \in flows : ShouldSendMax(e, f)}
  IN  Emit([e EXCEPT !.max = [f \in Flows |->
                                IF f \in due
                                THEN MaxSenderRecord(e.max[f], NewLimit(e, f))
                                ELSE e.max[f]]],
           {Frame(Raise, f, NewLimit(e, f)) : f \in due})

SendMaxOfConn(e) ==
  [SendMax(e, {Conn}) EXCEPT !.others = FALSE, !.ack = FALSE]
SendMaxOfStreams(e) == [SendMax(e, e.control) EXCEPT !.control = {}]

\* do_send at r; ACKs go out whether or not there is room for the rest, which an
\* ACK of its own does not wait for (ack_only)
SendR ==
  /\ r.others \/ r.control # {} \/ r.ack
  /\ \E e \in {SendMaxOfConn(r), SendMaxOfStreams(SendMaxOfConn(r))} :
       /\ r' = [e EXCEPT !.out = {}]
       /\ net' = net \cup e.out
       /\ Cardinality(e.sentmap) <= MaxCopies
  /\ UNCHANGED <<set, s, arrived>>

-----------------------------------------------------------------------------
(* The applications *)

Sum(f) == FoldSet(LAMBDA id, n : n + f[id], 0, Streams)

Write(id) ==
  /\ Sum(s.written) < set.bytes
  /\ Cardinality({i \in Streams : s.written[i] > 0} \cup {id}) <= set.streams
  /\ s' = Resched([s EXCEPT !.written[id] = @ + 1], id)
  /\ UNCHANGED <<set, r, net, arrived>>

\* faulty: the connection's limit is left as it was
Release_OnlyStream(e, id) == Reconsider(e, id)

\* release_ingress_credit, and the stream's own limit
Release(e, id) == Reconsider(Reconsider(e, Conn), id)

\* quicly_stream_sync_recvbuf
Read(id) ==
  /\ r.read[id] < r.got[id]
  /\ \E n \in r.read[id] + 1 .. r.got[id] :
       r' = Release([r EXCEPT !.read[id] = n,
                              !.bytes_shifted = @ + n - r.read[id]], id)
  /\ UNCHANGED <<set, s, net, arrived>>

\* quicly_stream_set_receive_window
LowerWindow(id) ==
  /\ \E w \in set.low : w < r.window[id] /\ r' = [r EXCEPT !.window[id] = w]
  /\ UNCHANGED <<set, s, net, arrived>>

-----------------------------------------------------------------------------
(* The network *)

\* the end of do_receive for a packet that elicits an ACK: the connection's limit
\* is reconsidered (sending happens at the latest with the ACK)
PacketProcessed(e) == Reconsider([e EXCEPT !.ack = TRUE], Conn)

\* apply_stream_frame: the data counts against both limits, of which it
\* reconsiders the stream's
DataArrives(id) ==
  /\ id \notin s.again
  /\ \E n \in r.got[id] + 1 .. s.sent[id] :
       r' = PacketProcessed(Reconsider(
              [r EXCEPT !.got[id] = n,
                        !.bytes_consumed = @ + n - r.got[id]], id))
  /\ UNCHANGED <<set, s, net, arrived>>

DataLost(id) ==
  /\ id \notin s.again /\ r.got[id] < s.sent[id]
  /\ s' = Resched([s EXCEPT !.again = @ \cup {id}], id)
  /\ UNCHANGED <<set, r, net, arrived>>

\* faulty: a stream that MAX_STREAM_DATA lets go on is not scheduled
ReceiveMax_NotScheduled(e, f, v) ==
  IF v <= e.limit[f] THEN e
  ELSE [e EXCEPT !.limit[f] = v, !.blocked[f] = "NONE"]

\* handle_max_stream_data_frame and handle_max_data_frame
ReceiveMax(e, f, v) ==
  IF v <= e.limit[f] THEN e
  ELSE IF f = Conn THEN [e EXCEPT !.limit[f] = v, !.blocked[f] = "NONE"]
  ELSE Resched([e EXCEPT !.limit[f] = v, !.blocked[f] = "NONE"], f)

\* handle_stream_data_blocked_frame and handle_data_blocked_frame
ReceiveBlocked(e, f, v) ==
  Reconsider([e EXCEPT !.max[f] = MaxSenderBlocked(@, v)], f)

Forget(sent) == arrived' = {m \in arrived : \E x \in sent : x.frame = m}

Arrive(m) ==
  /\ UNCHANGED set
  /\ net' = net \ {m}
  /\ arrived' = {n \in arrived \cup {m} :
                   \E x \in s.sentmap \cup r.sentmap : x.frame = n}
  /\ IF m.kind = Raise THEN s' = ReceiveMax(s, m.on, m.v) /\ UNCHANGED r
     ELSE r' = PacketProcessed(ReceiveBlocked(r, m.on, m.v)) /\ UNCHANGED s

Drop(m) == net' = net \ {m} /\ UNCHANGED <<set, s, r, arrived>>

Without(e, x) == [e EXCEPT !.sentmap = @ \ {x}]
GivenUp(e, x) ==
  {Without(e, x),
   [e EXCEPT !.sentmap = (@ \ {x}) \cup {Entry(x.frame, FALSE)}]}

\* faulty: the state of a frame for an earlier limit is taken for the current
AckedBlocked_AnyLimit(e, f, v) == [e EXCEPT !.blocked[f] = "ACKED"]

\* on_ack_data_blocked and on_ack_stream_data_blocked_frame, acked and lost
AckedBlocked(e, f, v) ==
  IF e.limit[f] = v THEN [e EXCEPT !.blocked[f] = "ACKED"] ELSE e
LostBlocked(e, f, v) ==
  IF ~(e.limit[f] = v /\ e.blocked[f] = "UNACKED") THEN e
  ELSE IF f = Conn THEN [e EXCEPT !.blocked[f] = "SEND", !.others = TRUE]
  ELSE [e EXCEPT !.blocked[f] = "SEND", !.control = @ \cup {f}]

\* on_ack_max_data and on_ack_max_stream_data
AckedMax(e, f, v) == [e EXCEPT !.max[f] = MaxSenderAcked(@, v)]

\* faulty: a lost limit is not sent again
LostMax_Ignored(e, f, v) == e

LostMax(e, f, v) ==
  IF ~MaxSenderNeedsResend(e.max[f], v) THEN e
  ELSE SchedMax([e EXCEPT !.max[f] = MaxSenderLost(@, v)], f)

Ack ==
  /\ \/ \E x \in s.sentmap :
          /\ x.frame \in arrived /\ UNCHANGED r
          /\ s' = AckedBlocked(Without(s, x), x.frame.on, x.frame.v)
     \/ \E x \in r.sentmap :
          /\ x.frame \in arrived /\ UNCHANGED s
          /\ r' = AckedMax(Without(r, x), x.frame.on, x.frame.v)
  /\ Forget(s'.sentmap \cup r'.sentmap) /\ UNCHANGED <<set, net>>

Loss ==
  /\ \/ \E x \in s.sentmap :
          /\ x.live /\ UNCHANGED r
          /\ \E e \in GivenUp(s, x) : s' = LostBlocked(e, x.frame.on, x.frame.v)
     \/ \E x \in r.sentmap :
          /\ x.live /\ UNCHANGED s
          /\ \E e \in GivenUp(r, x) : r' = LostMax(e, x.frame.on, x.frame.v)
  /\ Forget(s'.sentmap \cup r'.sentmap) /\ UNCHANGED <<set, net>>

Next ==
  \/ SendS \/ SendR \/ Ack \/ Loss
  \/ \E id \in Streams : \/ Write(id) \/ Read(id) \/ LowerWindow(id)
                         \/ DataArrives(id) \/ DataLost(id)
  \/ \E m \in net : Arrive(m) \/ Drop(m)

Spec == Init /\ [][Next]_vars

-----------------------------------------------------------------------------
(* Properties *)

\* Credit is neither overdrawn nor invented: what is sent stays within the limits
\* the sender knows, those within the ones the receiver has committed to, and
\* those within what its buffers have room for, lowered windows included (the
\* assertion of quicly_maxsender_record, the FLOW_CONTROL errors of
\* apply_stream_frame, MAX_DATA and MAX_STREAM_DATA of do_send).
CreditSound ==
  /\ s.data_sent <= s.limit[Conn]
  /\ \A f \in Flows : s.limit[f] <= r.max[f].committed
  /\ r.max[Conn].committed <= r.bytes_shifted + ConnLimit0
  /\ \A id \in Streams : /\ s.sent[id] <= s.limit[id]
                         /\ r.max[id].committed <= r.read[id] + StreamLimit0

\* The connection's counters, which its limit is compared with, are the sums of
\* its streams' (max_data.sent, bytes_consumed and bytes_shifted, each counted
\* where a stream sends, receives or consumes).
CountersAgree ==
  /\ s.data_sent = Sum(s.sent)
  /\ r.bytes_consumed = Sum(r.got)
  /\ r.bytes_shifted = Sum(r.read)

\* The scheduler forgets no stream: one that its own limit lets send is linked,
\* once, and one that is linked has something to send (resched_stream_data and
\* default_stream_scheduler_do_send, which unlinks before it sends).
SchedulerComplete ==
  /\ \A id \in Streams : CanSendAtStream(s, id) <=> Linked(s, id)
  /\ IsInjective(s.active \o s.waiting)

\* A limit the receiver has committed to is not lost on the sender: it has it, or
\* the frame with it is in flight, or is to be sent again.
LimitUnderway ==
  \A f \in Flows :
    s.limit[f] < r.max[f].committed =>
      \/ Entry(Frame(Raise, f, r.max[f].committed), TRUE) \in r.sentmap
      \/ r.max[f].lost /\ (r.others \/ r.control # {})

\* A sender that a limit stops says so, once for each limit, for as long as it is
\* not known to have arrived (blocked, data_blocked and their callbacks).
BlockedIsSaid ==
  \A f \in Flows :
    (IF f = Conn THEN IsBlocked(s) /\ s.waiting # <<>>
     ELSE Pending(s, f) /\ ~CanSendAtStream(s, f)) =>
      \/ s.blocked[f] = "SEND"
           /\ (IF f = Conn THEN s.others ELSE f \in s.control)
      \/ s.blocked[f] = "UNACKED"
           /\ Entry(Frame(BlockedAt, f, s.limit[f]), TRUE) \in s.sentmap
      \/ s.blocked[f] = "ACKED"
           /\ (r.max[f].committed = s.limit[f] => r.max[f].remote_blocked)

\* The receiver does not sit on credit that it should announce: whatever made a
\* limit due, data that arrived or was read or a frame that asked, has scheduled
\* the frame that raises it (release_ingress_credit, the end of do_receive, and
\* the FIXME of apply_stream_frame).
CreditAnnounced ==
  \A f \in Flows :
    ShouldSendMax(r, f) => IF f = Conn THEN r.others ELSE f \in r.control
=============================================================================
