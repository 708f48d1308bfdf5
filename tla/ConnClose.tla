----------------------------- MODULE ConnClose ------------------------------
(***************************************************************************)
(* The end of a connection between two endpoints (lib/quicly.c): closed by *)
(* an application, by an error that the peer is accused of, by the peer's  *)
(* CONNECTION_CLOSE, by a stateless reset, or after the idle timeout, over *)
(* a network that loses, delays, reorders and duplicates packets.          *)
(* Applications call quicly_send late or never; `now` is what they read.   *)
(*                                                                         *)
(* What a packet carries is abstracted to whether it is an ordinary one,   *)
(* or closes the connection and how.  Of the handshake there are the       *)
(* epochs for which an endpoint has keys, when all this begins.            *)
(***************************************************************************)
EXTENDS Integers, FiniteSets

CONSTANTS
  MaxIdle,            \* the max_idle_timeout of each endpoint, 0 for none
  ThreePto,           \* three probe timeouts, which the idle timeout does not fall below
  FourPto,            \* four probe timeouts, after which sentmap entries expire
  KeySets,            \* the epochs that the client and the server have keys for
  Errors(_, _),       \* the errors, of ErrorClasses, that an endpoint with these keys closes with
  MaxNow,             \* bound: the clock
  MaxStreams,         \* bound: streams opened by each endpoint, 0 or 1
  MaxReceived         \* bound: packets each endpoint receives while closing

VARIABLES
  now,
  conn,               \* the endpoints
  net                 \* packets on their way, with whom they are for

vars == <<now, conn, net>>

Client == "client"
Server == "server"
Endpoints == {Client, Server}
Peer(e) == IF e = Client THEN Server ELSE Client

\* INT64_MAX: later than any timer that is set
Never == MaxNow + ThreePto + FourPto + MaxIdle[Client] + MaxIdle[Server] + 1
Initial == "initial"
Handshake == "handshake"
OneRtt == "1rtt"
Epochs == {Initial, Handshake, OneRtt}

\* 0; an application's; QUIC's own; an alert of TLS; QUICLY_ERROR_STATE_EXHAUSTION;
\* and any other error of the library
ErrorClasses == {"none", "application", "transport", "alert", "exhaustion",
                 "internal"}
StatelessReset == "received_stateless_reset"

ClosingAssumption ==
  /\ MaxIdle \in [Endpoints -> Nat] /\ MaxNow \in Nat
  /\ ThreePto \in Nat /\ FourPto \in Nat
  /\ KeySets \subseteq [Endpoints -> SUBSET Epochs]
  /\ \A e \in Endpoints, keys \in SUBSET Epochs : Errors(e, keys) \subseteq ErrorClasses
  /\ MaxStreams \in [Endpoints -> Nat] /\ MaxReceived \in [Endpoints -> Nat]

NoReason == [err |-> "unset", is_remote |-> FALSE]
Reason(err, is_remote) == [err |-> err, is_remote |-> is_remote]

\* of an endpoint: quicly_state_t, with FREED once the application has called
\* quicly_free; egress.send_ack_at; idle_timeout; connection_close; when the entry
\* of on_end_closing was put into the sentmap; the epochs it has keys for; the
\* number of streams; and what has been done so far (calls of the closed
\* callback, CONNECTION_CLOSE sent, when the idle timer was last to be rearmed)
NewConn(keys) ==
  [state |-> "CONNECTED", send_ack_at |-> Never, idle_at |-> Never,
   should_rearm_on_send |-> TRUE, reason |-> NoReason, received |-> 0,
   end_closing |-> Never, keys |-> keys, streams |-> 0,
   told |-> 0, closes |-> 0, active_at |-> Never]

IsClosing(c) == c.state \in {"CLOSING", "DRAINING"}

Init ==
  /\ now = 0
  /\ \E keys \in KeySets : conn = [e \in Endpoints |-> NewConn(keys[e])]
  /\ net = {}

LastEpoch(keys) == IF OneRtt \in keys THEN OneRtt ELSE Initial
Data(to, epoch) == [to |-> to, epoch |-> epoch, kind |-> "data", err |-> "none"]
Close(to, epoch, kind, err) ==
  [to |-> to, epoch |-> epoch, kind |-> kind, err |-> err]
ResetPacket(to) == [to |-> to, epoch |-> OneRtt, kind |-> "reset", err |-> "none"]

-----------------------------------------------------------------------------
(* The idle timeout *)

\* the lesser one of the two, as far as they are known and set
IdlePeriods(e) ==
  ({MaxIdle[e]} \cup (IF conn[e].keys = {OneRtt} THEN {MaxIdle[Peer(e)]} ELSE {}))
    \ {0}
IdlePeriod(e) == CHOOSE p \in IdlePeriods(e) : \A q \in IdlePeriods(e) : p <= q
Greater(a, b) == IF a > b THEN a ELSE b

\* faulty: every packet sent extends it
UpdateIdleTimeout_EverySend(e, c, is_in_receive) ==
  IF IdlePeriods(e) = {} THEN c
  ELSE [c EXCEPT !.idle_at = now + Greater(IdlePeriod(e), ThreePto),
                 !.should_rearm_on_send = is_in_receive]

\* update_idle_timeout
UpdateIdleTimeout(e, c, is_in_receive) ==
  IF (~is_in_receive /\ ~c.should_rearm_on_send) \/ IdlePeriods(e) = {} THEN c
  ELSE [c EXCEPT !.idle_at = now + Greater(IdlePeriod(e), ThreePto),
                 !.should_rearm_on_send = is_in_receive]

-----------------------------------------------------------------------------
(* Entering the closing and draining states *)

\* faulty: a connection in the draining state has no timer
EnterClose_NoTimer(c, local_is_initiating, wait_draining) ==
  [c EXCEPT !.state = IF local_is_initiating THEN "CLOSING" ELSE "DRAINING",
            !.end_closing = now,
            !.send_ack_at = IF local_is_initiating THEN 0 ELSE @]

\* enter_close, for an endpoint that is not closing
EnterClose(c, local_is_initiating, wait_draining) ==
  [c EXCEPT !.state = IF local_is_initiating THEN "CLOSING" ELSE "DRAINING",
            !.end_closing = now,
            !.send_ack_at = IF local_is_initiating \/ ~wait_draining THEN 0
                            ELSE now + FourPto]

\* set_connection_close, then the callback; errors of TLS are known by which side
\* the alert is from
SetConnectionClose(c, err, is_remote) ==
  [c EXCEPT !.reason = Reason(IF err = "alert" /\ is_remote THEN "peer_alert"
                              ELSE err, is_remote),
            !.told = @ + 1]

\* faulty: a second reason takes the place of the first
InitiateClose_Again(c, err) ==
  SetConnectionClose(EnterClose(c, TRUE, FALSE), err, FALSE)

\* initiate_close
InitiateClose(c, err) ==
  IF IsClosing(c) THEN c
  ELSE SetConnectionClose(EnterClose(c, TRUE, FALSE), err, FALSE)

\* handle_close: the streams are destroyed after the callback
HandleClose(c, err) ==
  IF IsClosing(c) THEN c
  ELSE [SetConnectionClose(EnterClose(c, FALSE, err # StatelessReset), err, TRUE)
          EXCEPT !.streams = 0]

-----------------------------------------------------------------------------
(* CONNECTION_CLOSE *)

\* faulty: an application's error is sent as it is, whatever the epoch
Concealed_Never(err, epoch) == FALSE

\* an application's error is not told in packets that others can read
Concealed(err, epoch) == err = "application" /\ epoch # OneRtt

\* send_connection_close: what an error is sent as
Conveyed(to, err, epoch) ==
  IF err = "application" /\ ~Concealed(err, epoch)
  THEN Close(to, epoch, "application_close", err)
  ELSE Close(to, epoch, "transport_close",
             IF err = "exhaustion" THEN "protocol_violation"
             ELSE IF err = "application" THEN "application_error" ELSE err)

\* init_acks_iter finds nothing: the entry of on_end_closing has expired
EntryExpired(c) == now >= c.end_closing + FourPto

\* do_send_closed returns QUICLY_ERROR_FREE_CONNECTION, whereupon the application
\* calls quicly_free
Freed(c) == [c EXCEPT !.streams = 0, !.state = "FREED"]

\* do_send_closed, otherwise: CONNECTION_CLOSE when it is due, and the timer
RepliesWithClose(c) == c.state = "CLOSING" /\ c.send_ack_at <= now
SendClosed(c) ==
  [c EXCEPT !.streams = IF RepliesWithClose(c) THEN 0 ELSE @,
            !.closes = IF RepliesWithClose(c) THEN @ + 1 ELSE @,
            !.send_ack_at = Greater(c.end_closing + FourPto, now + 1)]

-----------------------------------------------------------------------------
(* Actions *)

\* quicly_send of an endpoint that is closing; before its timer it does nothing
SendWhenClosing(e) ==
  /\ IsClosing(conn[e]) /\ conn[e].send_ack_at <= now
  /\ IF EntryExpired(conn[e])
     THEN conn' = [conn EXCEPT ![e] = Freed(@)] /\ UNCHANGED net
     ELSE /\ conn' = [conn EXCEPT ![e] = SendClosed(@)]
          /\ net' = IF RepliesWithClose(conn[e])
                    THEN net \cup {Conveyed(Peer(e), conn[e].reason.err, epoch) :
                                     epoch \in conn[e].keys}
                    ELSE net
  /\ UNCHANGED now

\* faulty: streams outlive the connection
CloseNow_KeepsStreams(c) == [c EXCEPT !.state = "FREED"]

\* CloseNow of do_send, whereupon the application calls quicly_free
CloseNow(c) == [c EXCEPT !.streams = 0, !.state = "FREED"]

\* the end of do_send, when something was sent
Sent(e, c) ==
  [UpdateIdleTimeout(e, c, FALSE) EXCEPT
     !.active_at = IF c.should_rearm_on_send THEN now ELSE @]

\* quicly_send of an endpoint that is not closing: the idle timeout, which is not
\* announced to anyone, or some packet
SendData(e) ==
  /\ conn[e].state = "CONNECTED"
  /\ IF conn[e].idle_at <= now
     THEN conn' = [conn EXCEPT ![e] = CloseNow(@)] /\ UNCHANGED net
     ELSE /\ conn' = [conn EXCEPT ![e] = Sent(e, @)]
          /\ net' = net \cup {Data(Peer(e), LastEpoch(conn[e].keys))}
  /\ UNCHANGED now

\* quicly_open_stream, which does not ask whether the connection is closing
OpenStream(e) ==
  /\ conn[e].state # "FREED" /\ conn[e].streams < MaxStreams[e]
  /\ conn' = [conn EXCEPT ![e].streams = @ + 1]
  /\ UNCHANGED <<now, net>>

\* quicly_close; a second call has no effect
QuiclyClose(e, err) ==
  /\ conn[e].state # "FREED" /\ err \in {"none", "application", "exhaustion"}
  /\ conn' = [conn EXCEPT ![e] = InitiateClose(@, err)]
  /\ UNCHANGED <<now, net>>

Processed(e, c) ==
  [UpdateIdleTimeout(e, c, TRUE) EXCEPT !.active_at = now]

\* do_receive of an endpoint that is not closing: an ordinary packet, after which
\* it goes on, or closes the connection because of what the packet contained, or
\* the application does so in a callback
ReceiveData(e, m) ==
  /\ m.to = e /\ m.kind = "data" /\ m.epoch \in conn[e].keys
  /\ conn[e].state = "CONNECTED"
  /\ \/ conn' = [conn EXCEPT ![e] = Processed(e, @)]
     \/ \E err \in Errors(e, conn[e].keys) :
          conn' = [conn EXCEPT ![e] = InitiateClose(InitiateClose(@, err),
                                                    "internal")]
  /\ UNCHANGED <<now, net>>

\* ... a CONNECTION_CLOSE frame; its result, QUICLY_ERROR_IS_CLOSING, goes the way
\* of an error
ReceiveClose(e, m) ==
  /\ m.to = e /\ m.epoch \in conn[e].keys /\ conn[e].state = "CONNECTED"
  /\ \/ /\ m.kind = "transport_close"
        /\ conn' = [conn EXCEPT ![e] = InitiateClose(HandleClose(@, m.err),
                                                     "internal")]
     \/ /\ m.kind = "application_close"
        /\ conn' = [conn EXCEPT ![e] =
             IF m.epoch = OneRtt
             THEN InitiateClose(HandleClose(@, m.err), "internal")
             ELSE InitiateClose(@, "transport")]
  /\ UNCHANGED <<now, net>>

\* ... a stateless reset, which is looked for before anything else
ReceiveReset(e, m) ==
  /\ m.to = e /\ m.kind = "reset" /\ conn[e].state # "FREED"
  /\ conn' = [conn EXCEPT ![e] = InitiateClose(HandleClose(@, StatelessReset),
                                               "internal")]
  /\ UNCHANGED <<now, net>>

\* faulty: every packet is answered
Answers_Always(n) == TRUE

\* the number of packets received has one bit set
Answers(n) == \E k \in 0 .. n : n = 2 ^ k

\* do_receive of an endpoint that is closing; the packet is not decrypted
ReceiveWhenClosing(e, m) ==
  /\ m.to = e /\ m.kind # "reset" /\ conn[e].state = "CLOSING"
  /\ conn[e].received < MaxReceived[e]
  /\ conn' = [conn EXCEPT ![e].received = @ + 1,
                          ![e].send_ack_at = IF Answers(conn[e].received + 1)
                                             THEN 0 ELSE @]
  /\ UNCHANGED <<now, net>>

\* the application has no connection for a packet with a short header
ReceiveWhenFreed(e, m) ==
  /\ m.to = e /\ m.kind # "reset" /\ m.epoch = OneRtt /\ conn[e].state = "FREED"
  /\ net' = net \cup {ResetPacket(Peer(e))}
  /\ UNCHANGED <<now, conn>>

Tick == now < MaxNow /\ now' = now + 1 /\ UNCHANGED <<conn, net>>

Next ==
  \/ Tick
  \/ \E e \in Endpoints :
       \/ SendWhenClosing(e) \/ SendData(e) \/ OpenStream(e)
       \/ \E err \in Errors(e, conn[e].keys) : QuiclyClose(e, err)
       \/ \E m \in net : \/ ReceiveData(e, m) \/ ReceiveClose(e, m)
                         \/ ReceiveReset(e, m) \/ ReceiveWhenClosing(e, m)
                         \/ ReceiveWhenFreed(e, m)

Spec == Init /\ [][Next]_vars

-----------------------------------------------------------------------------
(* Properties *)

TypeOK ==
  /\ now \in 0 .. MaxNow
  /\ \A e \in Endpoints :
       /\ conn[e].state \in {"CONNECTED", "CLOSING", "DRAINING", "FREED"}
       /\ conn[e].send_ack_at \in 0 .. Never /\ conn[e].idle_at \in 0 .. Never
       /\ conn[e].should_rearm_on_send \in BOOLEAN
       /\ conn[e].received \in 0 .. MaxReceived[e]
       /\ conn[e].keys \subseteq Epochs /\ conn[e].streams \in 0 .. MaxStreams[e]

\* The application is told once that the connection closes, whichever ends of it
\* close at the same time and whatever arrives afterwards, and is given the reason
\* of that moment; an endpoint that timed out is told by quicly_send alone (the
\* assertion "never called twice" of set_connection_close).
ToldOnce ==
  \A e \in Endpoints :
    /\ conn[e].told = (IF conn[e].reason = NoReason THEN 0 ELSE 1)
    /\ IsClosing(conn[e]) => conn[e].told = 1
    /\ conn[e].state = "DRAINING" => conn[e].reason.is_remote
    /\ conn[e].state = "CLOSING" => ~conn[e].reason.is_remote

\* What is freed has no stream left, even one that was opened while the
\* connection was closing (destroy_all_streams of do_send_closed and CloseNow).
NoStreamLeft == \A e \in Endpoints : conn[e].state = "FREED" => conn[e].streams = 0

\* A closing endpoint stays for four probe timeouts, no less, so that late packets
\* are not taken for those of an unknown connection, and has a timer set that ends
\* this (do_send_closed, get_sentmap_expiration_time).
WaitsAndEnds ==
  \A e \in Endpoints :
    LET c == conn[e]
    IN  /\ IsClosing(c) => c.send_ack_at <= c.end_closing + FourPto
        /\ c.state = "FREED" /\ c.told = 1 => now >= c.end_closing + FourPto

\* Two endpoints that close do not keep each other busy: beyond the first,
\* CONNECTION_CLOSE is sent no more often than there are powers of two up to the
\* number of packets received while closing ("exponential back-off" of do_receive).
PowersUpTo(n) == {k \in 0 .. n : 2 ^ k \in 1 .. n}
AnswersBackOff ==
  \A e \in Endpoints : conn[e].closes <= 1 + Cardinality(PowersUpTo(conn[e].received))

\* What an application closes with is told to its peer and to no one else: in
\* packets of the Initial and Handshake epochs it is APPLICATION_ERROR, which the
\* peer understands as the frame it may receive there (send_connection_close).
Meant(err) ==
  CASE err = "application_error" -> "application"
    [] err = "protocol_violation" -> "exhaustion"
    [] err = "peer_alert" -> "alert"
    [] OTHER -> err
ErrorsConveyed ==
  /\ \A e \in Endpoints :
       conn[e].reason.is_remote /\ conn[e].reason.err # StatelessReset =>
         conn[Peer(e)].reason.err = Meant(conn[e].reason.err)
  /\ \A m \in net : m.kind = "application_close" => m.epoch = OneRtt

\* The idle timeout runs from the last packet received, or from the first one sent
\* after it (RFC 9000, 10.1): a peer that is gone is noticed although packets
\* keep being sent, and one that answers is not lost (update_idle_timeout).
IdleSince ==
  \A e \in Endpoints :
    conn[e].state = "CONNECTED" /\ conn[e].idle_at # Never =>
      conn[e].idle_at \in {conn[e].active_at + Greater(p, ThreePto) :
                             p \in {MaxIdle[x] : x \in Endpoints} \ {0}}

\* Both ends may close at once, repeatedly and with anything under way: the
\* application is told once and truly, nothing of the connection is left, timers
\* of closing, draining and idling neither fire early nor never, and two closing
\* ends fall silent (initiate_close, enter_close, do_send_closed, do_receive,
\* update_idle_timeout).
ClosesInOrder ==
  /\ TypeOK /\ ToldOnce /\ NoStreamLeft /\ WaitsAndEnds
  /\ AnswersBackOff /\ ErrorsConveyed /\ IdleSince
=============================================================================
