---------------------------- MODULE LossRecovery ----------------------------
(***************************************************************************)
(* What quicly remembers of the packets it has sent, and how it gets over  *)
(* their loss: the sentmap (sentmap.c), loss detection and the alarm       *)
(* (loss.c, loss.h), and the parts of quicly.c that drive them: do_send on *)
(* the one side, the receipt of ACKs, the end of the handshake and the     *)
(* promotion of a path on the other.                                       *)
(*                                                                         *)
(* A packet carries one item (some stream data, a handshake message), or   *)
(* none (PING, ACK), and counts one against the window.  "handshake"       *)
(* stands for the Initial and the Handshake epoch.  The estimates of the   *)
(* RTT are any of a few values; the congestion controller chooses any      *)
(* window, and of it only the end of recovery is kept (see                 *)
(* CongestionControl).  The peer is honest: it acknowledges what was sent. *)
(***************************************************************************)
EXTENDS Integers, SequencesExt

CONSTANTS
  AppItems,           \* what is to be sent in 1-RTT packets
  CryptoItems,        \* what is to be sent in Handshake packets
  Never,              \* INT64_MAX: beyond any time
  MaxTime, MaxPn,     \* bounds
  MaxExtras,          \* bound: ACKs sent, packet numbers left out, paths
                      \* promoted and streams reset while their data waits
  Rtts,               \* the estimates: records of the RTT for the threshold
                      \* and of the PTO without max_ack_delay
  Cwnds,              \* what cwnd may be
  MaxAckDelay, MinPto, NumSpeculativePtos,
  KeepPackets,        \* 32: as many packets are kept however old
  PacketThreshold     \* QUICLY_LOSS_DEFAULT_PACKET_THRESHOLD

ASSUME TimeAssumption ==
  /\ Never \in Nat /\ MaxTime \in Nat /\ MaxTime < Never
  /\ MaxAckDelay \in Nat /\ MinPto \in Nat \ {0}
  /\ \A r \in Rtts : r.rtt \in Nat /\ r.pto \in Nat \ {0}
ASSUME LossAssumption ==
  /\ PacketThreshold \in Nat \ {0}
  /\ KeepPackets \in Nat \ {0} /\ NumSpeculativePtos \in Nat
  /\ Cwnds \subseteq Nat \ {0}
  /\ AppItems \cap CryptoItems = {}

\* a PTO after `count` of them: ever longer, or shorter while speculative
BackedOff(pto, delay, count) ==
  IF count < 0
  THEN Max({MinPto, (pto + 2 ^ (- count) - 1) \div 2 ^ (- count)})
  ELSE (pto + delay) * 2 ^ count

\* A PTO takes time, and no alarm is so late that it would be mistaken for one
\* that is not set: the code asserts pto_count < 63 before it backs off.
ASSUME NeverAssumption ==
  /\ MaxPn \in Nat
  /\ \A r \in Rtts, delay \in {0, MaxAckDelay},
        count \in - NumSpeculativePtos .. MaxPn :
       BackedOff(r.pto, delay, count) \in 1 .. Never - MaxTime - 1

VARIABLES
  now,
  loss,               \* quicly_loss_t
  conn,               \* the rest of the connection that matters here
  items,              \* the items that wait to be sent, and so on
  extras              \* how many of MaxExtras are left

vars == <<now, loss, conn, items, extras>>

Items == AppItems \union CryptoItems
NoItem == "none"          \* PING, ACK
Skipped == "skipped"      \* the entry's callback is on_invalid_ack

ASSUME ItemAssumption ==
  /\ IsFiniteSet(AppItems) /\ IsFiniteSet(CryptoItems)
  /\ NoItem \notin Items /\ Skipped \notin Items

-----------------------------------------------------------------------------
(* The sentmap *)

\* quicly_sent_packet_t, as quicly_sentmap_prepare and _commit leave it
Packet(epoch, item, eliciting) ==
  [sent_at |-> now, epoch |-> epoch, item |-> item, eliciting |-> eliciting,
   frames_in_flight |-> TRUE, cc |-> IF eliciting THEN 1 ELSE 0]

\* quicly_sentmap_update of one packet that stays: its frames are no longer in
\* flight, nor its bytes unless it was repeated on a PTO
Marked(p, event) ==
  [p EXCEPT !.frames_in_flight = FALSE, !.cc = IF event = "pto" THEN @ ELSE 0]

Bytes(m, pns) == Cardinality({pn \in pns \cap DOMAIN m : m[pn].cc # 0})

\* faulty: a PTO gives the bytes back and leaves the packet counted
Update_BytesOnPto(l, pns, event) ==
  [l EXCEPT !.bytes_in_flight = @ - Bytes(l.sentmap, pns),
            !.sentmap =
              IF event \in {"acked", "expired"} THEN Restrict(@, DOMAIN @ \ pns)
              ELSE [pn \in DOMAIN @ |->
                      IF pn \notin pns THEN @[pn]
                      ELSE Marked(@[pn], event)]]

\* quicly_sentmap_update of the packets `pns`
Update(l, pns, event) ==
  [l EXCEPT !.bytes_in_flight =
              IF event = "pto" THEN @ ELSE @ - Bytes(l.sentmap, pns),
            !.sentmap =
              IF event \in {"acked", "expired"} THEN Restrict(@, DOMAIN @ \ pns)
              ELSE [pn \in DOMAIN @ |->
                      IF pn \notin pns THEN @[pn]
                      ELSE Marked(@[pn], event)]]

\* faulty: frames that a PTO marks are not reported
Requeued_NotOnPto(before, after) ==
  {before[pn].item : pn \in {p \in DOMAIN before :
                               /\ before[p].frames_in_flight
                               /\ p \in DOMAIN after => after[p].cc = 0
                               /\ p \in DOMAIN after
                                    => ~after[p].frames_in_flight}} \cap Items

\* the items whose callbacks hear that their packet is lost, as sentmap
\* `before` becomes `after`
Requeued(before, after) ==
  {before[pn].item : pn \in {p \in DOMAIN before :
                               /\ before[p].frames_in_flight
                               /\ p \in DOMAIN after
                                    => ~after[p].frames_in_flight}} \cap Items

\* quicly_loss_get_sentmap_expiration_time
ExpirationTime(l) == 4 * (l.pto + MaxAckDelay)

\* quicly_loss_init_sentmap_iter (init_acks_iter): retires what is old
InitSentmapIter(l) ==
  LET old == {pn \in DOMAIN l.sentmap :
                /\ l.sentmap[pn].sent_at <= now - ExpirationTime(l)
                /\ l.sentmap[pn].cc = 0}
      surplus == Cardinality(DOMAIN l.sentmap) - KeepPackets + 1
  IN  Update(l, {pn \in old : Cardinality({p \in old : p < pn}) < surplus},
             "expired")

-----------------------------------------------------------------------------
(* Loss detection *)

LossDelay(l) ==
  Max({1, (l.rtt * (1024 + l.time_based_percentile) + 1023) \div 1024})

Deadline(l, pn) == l.sentmap[pn].sent_at + LossDelay(l)

BelowLargest(l, pn) ==
  pn < l.largest_acked_plus1[l.sentmap[pn].epoch] - 1

\* CHECK_TIME_THRESHOLD, CHECK_PACKET_THRESHOLD
OutsideWindows(l, pn) ==
  \/ Deadline(l, pn) <= now
  \/ /\ l.use_packet_based
     /\ pn <= l.largest_acked_plus1[l.sentmap[pn].epoch] - 1 - PacketThreshold

\* faulty: time alone tells that a packet is lost
LostPackets_TimeAlone(l, is_1rtt_only) ==
  {pn \in DOMAIN l.sentmap : l.sentmap[pn].cc # 0 /\ OutsideWindows(l, pn)}

\* quicly_loss_detect_loss, first loop
LostPackets(l, is_1rtt_only) ==
  LET dead(pn) == BelowLargest(l, pn) /\ OutsideWindows(l, pn)
  IN  {pn \in DOMAIN l.sentmap :
         /\ l.sentmap[pn].cc # 0
         /\ dead(pn)
         /\ is_1rtt_only => \A p \in DOMAIN l.sentmap : p < pn => dead(p)}

\* faulty: the deadline is that of the first packet whoever acknowledges it
LossTime_AnyPacket(l) ==
  LET waiting == {pn \in DOMAIN l.sentmap : l.sentmap[pn].cc # 0}
  IN  IF waiting = {} THEN Never ELSE Deadline(l, Min(waiting))

\* quicly_loss_detect_loss, second loop
LossTime(l) ==
  LET waiting == {pn \in DOMAIN l.sentmap :
                    /\ l.sentmap[pn].cc # 0
                    /\ \A p \in DOMAIN l.sentmap :
                         p <= pn => BelowLargest(l, p)}
  IN  IF waiting = {} THEN Never ELSE Deadline(l, Min(waiting))

\* quicly_loss_detect_loss, step by step
MarkLost(l) == Update(l, LostPackets(l, ~conn.handshaking), "lost")
Rewound(l) == IF conn.handshaking THEN InitSentmapIter(l) ELSE l
Scheduled(l, t) == [l EXCEPT !.loss_time = t, !.sane = @ /\ now < t]
WithLossTime(l) == Scheduled(l, LossTime(l))

DetectLoss(l) == WithLossTime(Rewound(MarkLost(InitSentmapIter(l))))

\* on_loss_detected for each of the packets lost that notify_congestion_to_cc
\* passes on; quicly_cc_type_t.cc_on_lost moves the end of recovery
OnLost(c, lost, next_pn, cwnd) ==
  IF lost = {} THEN c
  ELSE [c EXCEPT !.cwnd = cwnd,
                 !.recovery_end = IF Max(lost) >= @ THEN next_pn ELSE @]

\* the packets that DetectLoss declares lost, of the path in use
LostBy(l) ==
  {pn \in LostPackets(InitSentmapIter(l), ~conn.handshaking) :
     pn >= conn.pn_path_start}

-----------------------------------------------------------------------------
(* The alarm *)

\* scheduler_can_send
CanSendStreamData(i) == i.pending \cap (AppItems \ i.withdrawn) # {}

InRecovery(l, c) ==
  LET all == Max(Range(l.largest_acked_plus1))
  IN  all # 0 /\ all - 1 < c.recovery_end

PtoDuration(l, c) ==
  BackedOff(l.pto, IF c.handshaking THEN 0 ELSE MaxAckDelay, l.pto_count)

\* SET_ALARM
SetAlarm(l, t, is_after_send) ==
  IF is_after_send
  THEN [l EXCEPT !.alarm_at = t, !.sane = @ /\ now < t]
  ELSE [l EXCEPT !.alarm_at = Max({now, t})]

\* quicly_loss_update_alarm: a new tail sets off speculative probing
WithTail(l, c, i) ==
  IF /\ NumSpeculativePtos > 0 /\ l.pto_count <= 0
     /\ ~c.handshaking /\ ~CanSendStreamData(i)
     /\ l.total_bytes_sent < Cardinality(i.sent)
  THEN [l EXCEPT !.pto_count = IF @ = 0 THEN - NumSpeculativePtos ELSE @,
                 !.total_bytes_sent = Cardinality(i.sent)]
  ELSE l

PtoAlarm(l, c, is_after_send) ==
  SetAlarm(l, c.last_sent + PtoDuration(l, c), is_after_send)

\* faulty: the address validation probe does not count as outstanding
UpdateSendAlarm_NoProbe(l, c, i, is_after_send) ==
  IF l.bytes_in_flight = 0
  THEN [l EXCEPT !.alarm_at = Never, !.loss_time = Never]
  ELSE IF l.loss_time # Never /\ (~InRecovery(l, c) \/ l.bytes_in_flight < c.cwnd + 1)
  THEN SetAlarm(l, l.loss_time, is_after_send)
  ELSE PtoAlarm(WithTail(l, c, i), c, is_after_send)

\* update_send_alarm, quicly_loss_update_alarm
UpdateSendAlarm(l, c, i, is_after_send) ==
  IF l.bytes_in_flight = 0 /\ ~c.send_probe
  THEN [l EXCEPT !.alarm_at = Never, !.loss_time = Never]
  ELSE IF l.loss_time # Never /\ (~InRecovery(l, c) \/ l.bytes_in_flight < c.cwnd + 1)
  THEN SetAlarm(l, l.loss_time, is_after_send)
  ELSE PtoAlarm(WithTail(l, c, i), c, is_after_send)

-----------------------------------------------------------------------------
(* Initial states: the application's keys are there and the handshake is not
   confirmed.  send_probe is set at a client until a Handshake packet of its
   is acknowledged; the alarm is then set for the last packet it has sent. *)

Init ==
  /\ now = 0
  /\ \E r \in Rtts, c \in Cwnds, probe \in BOOLEAN :
       /\ loss = [sentmap |-> <<>>, bytes_in_flight |-> 0,
                  largest_acked_plus1 |-> [e \in {"handshake", "1rtt"} |-> 0],
                  loss_time |-> Never,
                  alarm_at |-> IF probe THEN BackedOff(r.pto, 0, 0) ELSE Never,
                  pto_count |-> 0, total_bytes_sent |-> 0,
                  use_packet_based |-> TRUE,
                  time_based_percentile |-> 128, min_pn_to_relax |-> 0,
                  rtt |-> r.rtt, pto |-> r.pto, sane |-> TRUE]
       /\ conn = [packet_number |-> 0, last_sent |-> 0, cwnd |-> c,
                  recovery_end |-> 0, pn_path_start |-> 0,
                  handshaking |-> TRUE, send_probe |-> probe]
  /\ items = [idle |-> AppItems, pending |-> CryptoItems, sent |-> {},
              withdrawn |-> {}, delivered |-> {}]
  /\ extras = MaxExtras

-----------------------------------------------------------------------------
(* Sending *)

\* do_send, when the alarm has gone off: quicly_loss_on_alarm
OnAlarm ==
  IF loss.alarm_at > now THEN [l |-> loss, min |-> 0, restrict |-> FALSE]
  ELSE IF loss.loss_time <= now
  THEN [l |-> DetectLoss([loss EXCEPT !.alarm_at = Never]),
        min |-> 1, restrict |-> FALSE]
  ELSE [l |-> [loss EXCEPT !.alarm_at = Never, !.pto_count = @ + 1],
        min |-> IF loss.pto_count + 1 > 0 THEN 2 ELSE 1, restrict |-> TRUE]

\* mark_frames_on_pto: the packets of an epoch that n bytes make us repeat
ToMark(l, epoch, n) ==
  LET own == {pn \in DOMAIN l.sentmap : /\ l.sentmap[pn].epoch = epoch
                                        /\ l.sentmap[pn].frames_in_flight}
  IN  {pn \in own : Bytes(l.sentmap, {p \in own : p < pn}) < n}

\* do_send: the frames marked when a PTO has fired
MarkEpoch(l, epoch, n) == Update(l, ToMark(l, epoch, n), "pto")
MarkedIn(l, epoch, n) == Bytes(l.sentmap, ToMark(l, epoch, n))
MarkApp(l, n) ==
  IF n <= 0 \/ CanSendStreamData(items) THEN l ELSE MarkEpoch(l, "1rtt", n)
MarkBoth(l, n) ==
  IF conn.handshaking
  THEN MarkApp(MarkEpoch(l, "handshake", n), n - MarkedIn(l, "handshake", n))
  ELSE MarkApp(l, n)
MarkOnPto(alarm) ==
  IF alarm.restrict THEN MarkBoth(InitSentmapIter(alarm.l), alarm.min)
  ELSE alarm.l

\* calc_send_window, in packets (address_validation is Connection's)
SendWindow(l, cwnd, alarm, paced) ==
  IF alarm.restrict THEN alarm.min
  ELSE LET room == IF paced THEN 0 ELSE Max({0, cwnd - l.bytes_in_flight})
       IN  Max({room, alarm.min})

\* quicly_get_first_timeout: is there a reason to send?
Due(ack, paced) ==
  \/ loss.alarm_at <= now
  \/ ack
  \/ ~paced /\ items.pending # {} /\ conn.cwnd > loss.bytes_in_flight

Some(S, n) ==
  IF n <= 0 THEN {}
  ELSE CHOOSE T \in SUBSET S : Cardinality(T) = Min({n, Cardinality(S)})
PacketsOf(order, epoch) ==
  [k \in DOMAIN order |-> Packet(epoch, order[k], TRUE)]

\* send_handshake_flow: the packets of the handshake
HandshakeFlight(hs, probe, window) ==
  IF hs # {} THEN PacketsOf(SetToSeq(hs), "handshake")
  ELSE IF probe /\ conn.handshaking /\ window > 0
  THEN <<Packet("handshake", NoItem, TRUE)>> ELSE <<>>

\* do_send: the 1-RTT packets
AppFlight(app, probe, window, ack) ==
  IF app # {} THEN PacketsOf(SetToSeq(app), "1rtt")
  ELSE IF probe /\ window > 0 THEN <<Packet("1rtt", NoItem, TRUE)>>
  ELSE IF ack THEN <<Packet("1rtt", NoItem, FALSE)>> ELSE <<>>

\* commit_send_packet: the gap left after a 1-RTT packet
Gap(app, skip) ==
  IF skip /\ app # <<>> THEN <<Packet("1rtt", Skipped, FALSE)>> ELSE <<>>

\* what is left of the window after the Handshake packets h; do_allocate_frame
\* asks for none when the 1-RTT packet shares a datagram with the last of them
Left(window, h, coalesce) ==
  IF coalesce THEN Max({window - Len(h), 1}) ELSE window - Len(h)

\* egress.packet_number and on: the numbers of the next n packets
Numbers(n) == conn.packet_number .. conn.packet_number + n - 1

\* commit_send_packet: the flight in the sentmap
Committed(l, flight) ==
  [l EXCEPT !.sentmap =
              [pn \in DOMAIN @ \union Numbers(Len(flight)) |->
                 IF pn \in DOMAIN @ THEN @[pn]
                 ELSE flight[pn - conn.packet_number + 1]],
            !.bytes_in_flight =
              @ + Cardinality({k \in DOMAIN flight : flight[k].cc # 0})]

\* what waits once the alarm has been handled
StillPending(l) ==
  items.pending \union (Requeued(loss.sentmap, l.sentmap) \ items.delivered)

\* egress.packet_number and last_retransmittable_sent_at after the flight
Advanced(c, flight) ==
  [c EXCEPT !.packet_number = @ + Len(flight),
            !.last_sent = IF \E k \in DOMAIN flight : flight[k].eliciting
                          THEN now ELSE @]

Taken(pending, sent) ==
  [items EXCEPT !.pending = pending \ sent,
                !.sent = @ \union (sent \cap (AppItems \ items.withdrawn))]

Cost(ack, skip) == (IF ack THEN 1 ELSE 0) + (IF skip THEN 1 ELSE 0)

\* do_send: the flight leaves, and the alarm is set
Depart(l, c, pending, flight, ack, skip) ==
  /\ conn.packet_number + Len(flight) <= MaxPn
  /\ conn' = Advanced(c, flight)
  /\ items' = Taken(pending, {flight[k].item : k \in DOMAIN flight} \cap Items)
  /\ loss' = UpdateSendAlarm(Committed(l, flight), conn', items', TRUE)
  /\ extras' = extras - Cost(ack, skip)
  /\ UNCHANGED now

\* quicly_send, do_send on path 0
Send(ack, paced, skip, coalesce, cwnd) ==
  /\ Due(ack, paced)
  /\ Cost(ack, skip) <= extras
  /\ coalesce => conn.handshaking
  /\ \E alarm \in {OnAlarm} : \E l \in {MarkOnPto(alarm)} :
     \E c \in {IF loss.alarm_at <= now /\ ~alarm.restrict
               THEN OnLost(conn, LostBy(loss), conn.packet_number + 1, cwnd)
               ELSE conn} :
     \E pending \in {StillPending(l)},
        window \in {SendWindow(l, c.cwnd, alarm, paced)} :
     \E h \in {HandshakeFlight(Some(IF conn.handshaking
                                    THEN pending \cap CryptoItems ELSE {}, window),
                               alarm.min # 0, window)} :
     \E a \in {AppFlight(Some(pending \cap AppItems, Left(window, h, coalesce)),
                         alarm.min # 0, Left(window, h, coalesce), ack)} :
       /\ cwnd = conn.cwnd \/ c # conn
       /\ coalesce => h # <<>>
       /\ skip => a # <<>>
       /\ Depart(l, c, pending, h \o a \o Gap(a, skip), ack, skip)

-----------------------------------------------------------------------------
(* The application *)

Write(item) ==
  /\ item \in items.idle
  /\ items' = [items EXCEPT !.idle = @ \ {item}, !.pending = @ \union {item}]
  /\ UNCHANGED <<now, loss, conn, extras>>

\* quicly_reset_stream: RESET_STREAM waits instead of the stream's data
ResetStream(item) ==
  /\ extras > 0
  /\ item \in (AppItems \cap items.pending) \ items.withdrawn
  /\ items' = [items EXCEPT !.withdrawn = @ \union {item}]
  /\ extras' = extras - 1
  /\ UNCHANGED <<now, loss, conn>>

-----------------------------------------------------------------------------
(* Receiving *)

\* quicly_loss_on_ack_received: a late ACK makes us more patient
Relaxed(l, late) ==
  IF late = {} \/ l.min_pn_to_relax > Max(late) THEN l
  ELSE [l EXCEPT !.use_packet_based = FALSE,
                 !.time_based_percentile =
                   IF l.use_packet_based THEN @ ELSE Min({2 * @, 1024}),
                 !.min_pn_to_relax = conn.packet_number]

\* quicly_loss_on_ack_received: the largest acknowledged, and an RTT sample
Sampled(l, epoch, newly, eliciting, r) ==
  IF newly = {} THEN l
  ELSE IF l.largest_acked_plus1[epoch] > Max(newly) THEN l
  ELSE IF Max(Range(l.largest_acked_plus1)) > Max(newly) \/ ~eliciting
  THEN [l EXCEPT !.largest_acked_plus1[epoch] = Max(newly) + 1]
  ELSE [l EXCEPT !.largest_acked_plus1[epoch] = Max(newly) + 1,
                 !.rtt = r.rtt, !.pto = r.pto]

PtoCountReset(l, newly) ==
  [l EXCEPT !.pto_count = IF newly # {} /\ @ > 0 THEN 0 ELSE @]

\* eliciting packets acknowledged after we had given them up
LateAcked(l, acked) ==
  {pn \in acked : l.sentmap[pn].eliciting /\ l.sentmap[pn].cc = 0}

\* handle_ack_frame: the packets `acked` leave the sentmap l
OnAckReceived(l, epoch, acked, r) ==
  Sampled(Relaxed(PtoCountReset(Update(l, acked, "acked"),
                                {pn \in acked : pn >= conn.pn_path_start}),
                  LateAcked(l, acked)),
          epoch, {pn \in acked : pn >= conn.pn_path_start},
          \E pn \in acked : l.sentmap[pn].eliciting, r)

\* faulty: what was to be sent again is, although a late ACK has come
AckItems_StillPending(delivered, lost) ==
  [items EXCEPT !.delivered = delivered, !.pending = @ \union (lost \ delivered)]

AckItems(delivered, lost) ==
  [items EXCEPT !.delivered = delivered,
                !.pending = (@ \union lost) \ delivered]

\* handle_ack_frame: the packets `acked` of an epoch.  cc_on_acked may choose
\* another window, cc_on_late_ack may undo a reduction.
ReceiveAck(epoch, acked, r, cwnd, undo) ==
  /\ epoch = "handshake" => conn.handshaking
  /\ undo => conn.recovery_end # 0
  /\ \E l0 \in {InitSentmapIter(loss)} : \E known \in {acked \cap DOMAIN l0.sentmap} :
     \E l1 \in {OnAckReceived(l0, epoch, known, r)} : \E l2 \in {DetectLoss(l1)} :
       /\ undo => LateAcked(l0, known) # {}
       /\ cwnd = conn.cwnd \/ known # {} \/ LostBy(l1) # {}
       /\ \/ r = [rtt |-> loss.rtt, pto |-> loss.pto]
          \/ r # [rtt |-> l0.rtt, pto |-> l0.pto] /\ l1.rtt = r.rtt /\ l1.pto = r.pto
       /\ conn' = OnLost([conn EXCEPT !.send_probe = @ /\ epoch # "handshake",
                                      !.cwnd = cwnd,
                                      !.recovery_end = IF undo THEN 0 ELSE @],
                         LostBy(l1), conn.packet_number, cwnd)
       /\ items' = AckItems(items.delivered \union
                              ({l0.sentmap[pn].item : pn \in known} \cap Items),
                            Requeued(loss.sentmap, l0.sentmap)
                              \union Requeued(l1.sentmap, l2.sentmap))
       /\ loss' = UpdateSendAlarm(l2, conn', items', FALSE)
  /\ UNCHANGED <<now, extras>>

Discarded(l, epoch) ==
  Update(l, {pn \in DOMAIN l.sentmap : l.sentmap[pn].epoch = epoch}, "expired")

\* the handshake is confirmed: discard_handshake_context,
\* discard_sentmap_by_epoch; handle_handshake_done_frame clears send_probe
DiscardHandshake ==
  /\ conn.handshaking
  /\ conn' = [conn EXCEPT !.handshaking = FALSE, !.send_probe = FALSE]
  /\ items' = [items EXCEPT !.pending = @ \ CryptoItems]
  /\ loss' = UpdateSendAlarm(Discarded(InitSentmapIter(loss), "handshake"),
                             conn', items', FALSE)
  /\ UNCHANGED <<now, extras>>

Restarted(l, r) ==
  [Update(l, DOMAIN l.sentmap, "pto") EXCEPT !.rtt = r.rtt, !.pto = r.pto]

\* promote_path: every packet is marked, the estimates start anew
PromotePath(r, cwnd) ==
  /\ ~conn.handshaking
  /\ extras > 0
  /\ \E l \in {Restarted(InitSentmapIter(loss), r)} :
       /\ conn' = [conn EXCEPT !.cwnd = cwnd, !.recovery_end = 0,
                               !.pn_path_start = conn.packet_number]
       /\ items' = [items EXCEPT !.pending = @ \union
                      (Requeued(loss.sentmap, l.sentmap) \ items.delivered)]
       /\ loss' = UpdateSendAlarm(l, conn', items', FALSE)
  /\ extras' = extras - 1
  /\ UNCHANGED now

Tick == /\ now < MaxTime
        /\ now' = now + 1
        /\ UNCHANGED <<loss, conn, items, extras>>

-----------------------------------------------------------------------------
Next ==
  \/ \E ack, paced, skip, coalesce \in BOOLEAN, cwnd \in Cwnds :
       Send(ack, paced, skip, coalesce, cwnd)
  \/ \E item \in AppItems : Write(item) \/ ResetStream(item)
  \/ \E epoch \in {"handshake", "1rtt"}, r \in Rtts, cwnd \in Cwnds,
        undo \in BOOLEAN :
       \E acked \in SUBSET {pn \in DOMAIN loss.sentmap :
                              /\ loss.sentmap[pn].epoch = epoch
                              /\ loss.sentmap[pn].item # Skipped} :
         ReceiveAck(epoch, acked, r, cwnd, undo)
  \/ DiscardHandshake
  \/ \E r \in Rtts, cwnd \in Cwnds : PromotePath(r, cwnd)
  \/ Tick

Spec == Init /\ [][Next]_vars

-----------------------------------------------------------------------------
(* Properties *)

\* The state has the shape of quicly_loss_t, and time does not run backwards
\* along the sentmap.
TypeOK ==
  /\ now \in 0 .. MaxTime
  /\ DOMAIN loss.sentmap \subseteq 0 .. conn.packet_number - 1
  /\ \A p, q \in DOMAIN loss.sentmap :
       p < q => loss.sentmap[p].sent_at <= loss.sentmap[q].sent_at
  /\ items.pending \cap items.delivered = {}
  /\ loss.time_based_percentile \in 0 .. 1024

\* bytes_in_flight is what the packets of the sentmap say is in flight,
\* whatever has been acknowledged, lost, marked, retired and discarded: the
\* window would never open again, or never close.
BytesAgree == loss.bytes_in_flight = Bytes(loss.sentmap, DOMAIN loss.sentmap)

\* assert_consistency: while something is outstanding the alarm is set, and
\* while nothing is there is no loss_time.
TimersArmed ==
  IF loss.bytes_in_flight # 0 \/ conn.send_probe
  THEN loss.alarm_at # Never
  ELSE loss.loss_time = Never

\* An item that has been handed over and not been acknowledged either waits to
\* be sent or is in a packet whose loss will be noticed: one whose frames are
\* in flight and that counts as such, so that the alarm is set for it.
NoDataForgotten ==
  \A item \in (IF conn.handshaking THEN Items ELSE AppItems)
                \ (items.idle \union items.delivered) :
    \/ item \in items.pending
    \/ \E pn \in DOMAIN loss.sentmap :
         /\ loss.sentmap[pn].item = item
         /\ loss.sentmap[pn].frames_in_flight
         /\ loss.sentmap[pn].cc # 0

\* The assertions of quicly_loss_detect_loss (what is in flight is not yet
\* due) and of SET_ALARM (after sending, the alarm is in the future) hold.
AlarmsInFuture == loss.sane

\* A packet is declared lost, its bytes no longer counted and itself still
\* remembered, only once a later packet of its epoch has been acknowledged.
LostOnlyBehindAck ==
  [][\A pn \in DOMAIN loss.sentmap \cap DOMAIN loss'.sentmap :
       loss.sentmap[pn].cc # 0 /\ loss'.sentmap[pn].cc = 0
         => pn + 1 < loss'.largest_acked_plus1[loss.sentmap[pn].epoch]]_vars

\* The books of loss recovery balance: the sentmap is in order, bytes_in_flight is
\* what its packets say, and the alarm is set exactly while something is
\* outstanding (quicly_sentmap_update, assert_consistency).
BooksBalance == TypeOK /\ BytesAgree /\ TimersArmed
=============================================================================
