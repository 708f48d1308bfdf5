----------------------------- MODULE Handshake -----------------------------
(***************************************************************************)
(* The handshake of two endpoints over a network that loses and reorders:   *)
(* packet number spaces and keys that come and go, CRYPTO data of each      *)
(* epoch, 0-RTT, Retry and version negotiation, packets that arrive before  *)
(* their keys, the amplification limit of a server that has not validated   *)
(* its client, and the timers that get the two going again.                 *)
(*                                                                         *)
(* What TLS does (picotls) is external: Consume says which keys and which   *)
(* messages it hands to quicly.  A message of TLS, or the application's     *)
(* data of one side, is one item, and an item fills a packet.               *)
(***************************************************************************)
EXTENDS Naturals, FiniteSets, SequencesExt

CONSTANTS
  QUICLY_MAX_DELAYED_PACKETS,
  AmplificationLimit,  \* pre_validation_amplification_limit, in packets per packet
  MaxBudget,           \* bound on what the server may have left to send
  MaxNet,              \* bound on the packets under way
  Setups,              \* [early, async, retry, vn]: how the two are configured
  None

VARIABLES
  c,    \* the client's connection
  s,    \* the server's connection
  net   \* packets under way; two that are alike count as one

vars == <<c, s, net>>

----------------------------------------------------------------------------
(* Items: ClientHello, ClientFinished, ServerHello, the flight from          *)
(* EncryptedExtensions to Certificate, the one from CertificateVerify on,    *)
(* either side's stream data, and HANDSHAKE_DONE.                            *)

ClientItems == <<"CH", "CF", "CD">>
ServerItems == <<"SH", "SF1", "SF2", "DONE", "SD">>

SpaceOf(i) == CASE i \in {"CH", "SH"} -> "initial"
                [] i \in {"CF", "SF1", "SF2"} -> "handshake"
                [] OTHER -> "app"

In(items, sp) == {i \in items : SpaceOf(i) = sp}

Types == [initial |-> "initial", handshake |-> "handshake", zerortt |-> "app", onertt |-> "app"]

\* faulty: the slots are declared in another order.
DelayedSlots_OneRttFirst == <<"onertt", "zerortt", "handshake">>

DelayedSlots == <<"zerortt", "handshake", "onertt">>

\* The TLS messages an endpoint waits for, in their order.
Expected(e) == IF e.client THEN <<"SH", "SF1", "SF2">> ELSE <<"CH", "CF">>

(* create_connection, then what quicly_connect and quicly_accept make of it. *)
CreateConnection(set) ==
  [set |-> set, client |-> TRUE, state |-> "none", spaces |-> {"initial"},
   reads |-> {"initial"}, writes |-> {"initial"}, key |-> "none", ver |-> 1,
   got |-> {}, pend |-> {}, infl |-> {}, due |-> {}, heard |-> {},
   probe |-> FALSE, validated |-> FALSE, budget |-> 0,
   delayed |-> [sl \in Range(DelayedSlots) |-> <<>>], newly |-> {},
   tls |-> 0, async |-> FALSE, complete |-> FALSE,
   original_dcid |-> "none", retry_scid |-> "none", token |-> FALSE,
   failed |-> FALSE, broken |-> FALSE]

\* faulty: the client does not keep its timer running while nothing is in flight.
Connect_NoProbe(set) ==
  [CreateConnection(set) EXCEPT
     !.state = "firstflight", !.key = "o", !.original_dcid = "o",
     !.ver = IF set.vn THEN 0 ELSE 1,
     !.pend = {"CH", "CD"}, !.probe = FALSE, !.validated = TRUE,
     !.spaces = IF set.early # "none" THEN @ \cup {"app"} ELSE @,
     !.writes = IF set.early # "none" THEN @ \cup {"zerortt"} ELSE @]

Connect(set) ==
  [CreateConnection(set) EXCEPT
     !.state = "firstflight", !.key = "o", !.original_dcid = "o",
     !.ver = IF set.vn THEN 0 ELSE 1,
     !.pend = {"CH", "CD"}, !.probe = TRUE, !.validated = TRUE,
     !.spaces = IF set.early # "none" THEN @ \cup {"app"} ELSE @,
     !.writes = IF set.early # "none" THEN @ \cup {"zerortt"} ELSE @]

Init ==
  \E set \in Setups :
    /\ c = Connect(set)
    /\ s = [CreateConnection(set) EXCEPT !.client = FALSE, !.spaces = {}, !.reads = {}, !.writes = {}]
    /\ net = {}

----------------------------------------------------------------------------
(* Spaces and keys.                                                          *)

DiscardHandshakeContext(e, sp) ==
  [e EXCEPT !.spaces = @ \ {sp}, !.reads = @ \ {sp}, !.writes = @ \ {sp},
            !.pend = @ \ In(@, sp), !.infl = @ \ In(@, sp),
            !.due = @ \ {sp}, !.heard = @ \ {sp}]

\* discard_sentmap_by_epoch: what was sent there counts as lost.
DiscardSentmap(e, sps) ==
  LET lost == {i \in e.infl : SpaceOf(i) \in sps}
  IN [e EXCEPT !.pend = @ \cup lost, !.infl = @ \ lost]

\* faulty: the slot of the packets that waited for the key is not marked.
InstallRead_NotMarked(e, type) ==
  [e EXCEPT !.spaces = @ \cup {Types[type]}, !.reads = @ \cup {type},
            !.newly = IF type = "handshake" THEN @ \cup {type} ELSE @]

\* update_traffic_key_cb for the keys that let us read, and for those we write with.
InstallRead(e, type) ==
  [e EXCEPT !.spaces = @ \cup {Types[type]}, !.reads = @ \cup {type},
            !.newly = IF type \in Range(DelayedSlots) THEN @ \cup {type} ELSE @]

InstallWrite(e, type) ==
  [e EXCEPT !.spaces = @ \cup {Types[type]},
            !.writes = (IF type = "onertt" THEN @ \ {"zerortt"} ELSE @) \cup {type}]

\* write_crypto_data: TLS output goes to the CRYPTO stream of its epoch, which must exist.
WriteCryptoData(e, items) ==
  [e EXCEPT !.pend = @ \cup items,
            !.broken = @ \/ \E i \in items : SpaceOf(i) \notin e.spaces]

----------------------------------------------------------------------------
(* TLS.                                                                      *)

\* The server's part from CertificateVerify on, at once or after an asynchronous signature.
FinishFlight(e) == WriteCryptoData(InstallWrite(e, "onertt"), {"SF2"})

AcceptsEarly(e) == IF e.set.early = "accepted" THEN InstallRead(e, "zerortt") ELSE e

\* client_collected_extensions: the connection IDs the server says it saw.
CidsMatch(e, cids) == cids = <<e.original_dcid, e.retry_scid>>

TlsMessage(e, msg, cids) ==
  CASE msg = "CH" ->
         (LET e1 == InstallWrite(InstallRead(AcceptsEarly(e), "handshake"), "handshake")
              e2 == WriteCryptoData(e1, {"SH", "SF1"})
          IN IF e.set.async THEN [e2 EXCEPT !.async = TRUE] ELSE FinishFlight(e2))
    [] msg = "SH" -> InstallWrite(InstallRead(e, "handshake"), "handshake")
    [] msg = "SF1" -> [e EXCEPT !.failed = @ \/ ~CidsMatch(e, cids)]
    [] msg = "SF2" -> [WriteCryptoData(InstallWrite(InstallRead(e, "onertt"), "onertt"), {"CF"})
                         EXCEPT !.complete = TRUE]
    [] msg = "CF" -> [InstallRead(e, "onertt") EXCEPT !.complete = TRUE]

\* ptls_handle_message takes one message, if the next one is there.
Consume(e, cids) ==
  IF /\ e.tls < Len(Expected(e))
     /\ Expected(e)[e.tls + 1] \in e.got
  THEN TlsMessage([e EXCEPT !.tls = @ + 1], Expected(e)[e.tls + 1], cids)
  ELSE e

\* crypto_handshake, once TLS returns: 0-RTT was rejected and 1-RTT is not there yet.
DropRejectedEarly(e) ==
  IF /\ e.client /\ e.set.early = "rejected" /\ e.tls >= 2
     /\ "zerortt" \in e.writes /\ "onertt" \notin e.writes
  THEN DiscardSentmap([e EXCEPT !.writes = @ \ {"zerortt"}], {"app"})
  ELSE e

CryptoHandshake(e, cids) == DropRejectedEarly(Consume(Consume(e, cids), cids))

\* faulty: CRYPTO data that is a retransmission is taken for a new message.
CryptoStreamReceive_Again(e, i, cids) ==
  IF e.async THEN [e EXCEPT !.failed = TRUE]
  ELSE CryptoHandshake([e EXCEPT !.got = @ \cup {i}], cids)

\* crypto_stream_receive is called for data that is new.
CryptoStreamReceive(e, i, cids) ==
  IF i \in e.got THEN e
  ELSE IF e.async THEN [e EXCEPT !.failed = TRUE]
  ELSE CryptoHandshake([e EXCEPT !.got = @ \cup {i}], cids)

----------------------------------------------------------------------------
(* Receiving.                                                                *)

HandleAckFrame(e, sp, p) ==
  IF p.acks
  THEN [e EXCEPT !.infl = @ \ p.ack, !.pend = @ \ p.ack,
                 !.probe = @ /\ sp # "handshake"]
  ELSE e

HandleHandshakeDone(e) ==
  IF "handshake" \notin e.spaces THEN e
  ELSE DiscardHandshakeContext([e EXCEPT !.probe = FALSE], "handshake")

HandleItem(e, i, cids) ==
  CASE i \in {"CH", "CF", "SH", "SF1", "SF2"} -> CryptoStreamReceive(e, i, cids)
    [] i = "DONE" -> HandleHandshakeDone([e EXCEPT !.got = @ \cup {i},
                                                   !.broken = @ \/ "initial" \in e.spaces])
    [] i \in {"CD", "SD"} -> [e EXCEPT !.got = @ \cup {i}]
    [] OTHER -> e

\* What a packet of the epoch does before its payload is looked at.
BeforePayload(e, p) ==
  LET e1 == [e EXCEPT !.state = "connected"]
  IN IF p.type = "handshake" /\ "initial" \in e1.spaces
     THEN [DiscardHandshakeContext(e1, "initial") EXCEPT !.validated = TRUE]
     ELSE e1

RecordReceipt(e, sp, p) ==
  IF sp \in e.spaces
  THEN [e EXCEPT !.heard = @ \cup {sp},
                 !.due = IF p.item # None THEN @ \cup {sp} ELSE @]
  ELSE e

\* faulty: the client gives up the Handshake space once its own handshake is complete.
AfterPayload_ClientToo(e, p) ==
  CASE p.type = "initial" /\ e.client /\ "handshake" \in e.writes ->
         DiscardHandshakeContext(e, "initial")
    [] p.type = "handshake" /\ e.client /\ e.complete ->
         DiscardHandshakeContext(e, "handshake")
    [] p.type = "handshake" /\ ~e.client /\ e.complete ->
         [DiscardHandshakeContext(e, "handshake") EXCEPT !.pend = @ \cup {"DONE"}]
    [] OTHER -> e

AfterPayload(e, p) ==
  CASE p.type = "initial" /\ e.client /\ "handshake" \in e.writes ->
         DiscardHandshakeContext(e, "initial")
    [] p.type = "handshake" /\ ~e.client /\ e.complete ->
         [DiscardHandshakeContext(e, "handshake") EXCEPT !.pend = @ \cup {"DONE"}]
    [] OTHER -> e

CanRead(e, p) ==
  /\ p.type \in e.reads
  /\ p.type = "initial" => p.key = e.key
  /\ p.type = "zerortt" => ~e.client

MightBeReorder(e, p) ==
  /\ p.type \in Range(DelayedSlots) \ e.reads
  /\ p.type # "onertt" => "onertt" \notin e.reads
  /\ p.type = "zerortt" => ~e.client

\* The part of do_receive that follows the choice of the key.
Opened(e, p) ==
  LET sp == Types[p.type]
  IN AfterPayload(RecordReceipt(HandleItem(HandleAckFrame(BeforePayload(e, p), sp, p),
                                           p.item, p.cids), sp, p), p)

DoReceive(e, p) == IF CanRead(e, p) THEN Opened(e, p) ELSE e

NumDelayed(e) == Len(e.delayed["zerortt"]) + Len(e.delayed["handshake"]) + Len(e.delayed["onertt"])

Delay(e, p) ==
  IF NumDelayed(e) < QUICLY_MAX_DELAYED_PACKETS
  THEN [e EXCEPT !.delayed[p.type] = Append(@, p)]
  ELSE e

ReplaySlot(e, sl) ==
  IF sl \in e.newly
  THEN FoldLeft(DoReceive, [e EXCEPT !.newly = @ \ {sl}, !.delayed[sl] = <<>>], e.delayed[sl])
  ELSE e

\* The loop counts the slots up and ends once none is left that became processible;
\* were an earlier slot to become so, it would run past the last one.
Replay(e) ==
  LET e1 == FoldLeft(ReplaySlot, e, DelayedSlots)
  IN [e1 EXCEPT !.broken = @ \/ e1.newly # {}]

\* num_bytes.received times the limit, less what was sent.
CountReceived(e) ==
  IF e.validated THEN e
  ELSE [e EXCEPT !.budget = IF @ + AmplificationLimit > MaxBudget THEN MaxBudget
                            ELSE @ + AmplificationLimit]

QuiclyReceive(e, p) ==
  IF MightBeReorder(e, p) THEN Delay(e, p)
  ELSE IF CanRead(e, p) THEN Replay(Opened(e, p))
  ELSE e

\* A Retry is for a client that has not had one, and its tag covers the connection ID in use.
ReceiveRetry(e) ==
  IF e.retry_scid = "none" /\ e.state = "firstflight"
  THEN DiscardSentmap([e EXCEPT !.token = TRUE, !.key = "r", !.retry_scid = "r"],
                      {"initial", "handshake", "app"})
  ELSE e

\* negotiate_using_version: new Initial keys, and all of the first flight again.
ReceiveVersionNegotiation(e) ==
  IF e.state = "firstflight"
  THEN DiscardSentmap([e EXCEPT !.ver = 1], {"initial", "handshake", "app"})
  ELSE e

ClientReceive(p) ==
  /\ p.to = "c"
  /\ net' = net \ {p}
  /\ c' = (CASE p.type = "retry" -> ReceiveRetry(c)
             [] p.type = "vn" -> ReceiveVersionNegotiation(c)
             [] OTHER -> QuiclyReceive(c, p))
  /\ UNCHANGED s

----------------------------------------------------------------------------
(* The server's socket: packets find their connection, or make one.          *)

Stateless(type) ==
  [to |-> "c", type |-> type, item |-> None, acks |-> FALSE, ack |-> {}, key |-> "none",
   token |-> FALSE, ver |-> 1, cids |-> <<>>]

\* quicly_accept: the first Initial makes the connection, and is handled by it.
Accepted(p) ==
  LET e == CountReceived(
             [CreateConnection(s.set) EXCEPT
                !.client = FALSE, !.state = "connected", !.key = p.key, !.pend = {"SD"},
                !.validated = p.token,
                !.retry_scid = IF p.token THEN p.key ELSE "none",
                !.original_dcid = IF p.token THEN "o" ELSE p.key])
  IN RecordReceipt(HandleItem(e, p.item, p.cids), "initial", p)

IsDestination(p) == s.state = "connected" /\ (p.type = "initial" => p.key = s.key)

ServerReceive(p) ==
  /\ p.to = "s"
  /\ \/ /\ p.ver = 0
        /\ net' = (net \ {p}) \cup {Stateless("vn")}
        /\ UNCHANGED s
     \/ /\ p.ver = 1 /\ IsDestination(p)
        /\ s' = QuiclyReceive(CountReceived(s), p)
        /\ net' = net \ {p}
     \/ /\ p.ver = 1 /\ ~IsDestination(p) /\ p.type = "initial"
        /\ s.set.retry /\ ~p.token
        /\ net' = (net \ {p}) \cup {Stateless("retry")}
        /\ UNCHANGED s
     \/ /\ p.ver = 1 /\ ~IsDestination(p) /\ p.type = "initial"
        /\ s.set.retry => p.token
        /\ s' = Accepted(p)
        /\ net' = net \ {p}
     \/ /\ p.ver = 1 /\ ~IsDestination(p) /\ p.type # "initial"
        /\ net' = net \ {p}
        /\ UNCHANGED s
  /\ UNCHANGED c

\* quicly_resume_handshake, called by the application; delayed packets wait for the next receive.
Resume ==
  /\ s.async
  /\ s' = FinishFlight([s EXCEPT !.async = FALSE])
  /\ UNCHANGED <<c, net>>

----------------------------------------------------------------------------
(* Sending.                                                                  *)

Order == <<"initial", "handshake", "app">>

AmplificationAllows(e) == e.validated \/ e.budget > 0

\* setup_send_space
Writable(e, sp) == \E type \in e.writes : Types[type] = sp

AckDue(e, sp) == sp \in e.due /\ (sp = "app" => "onertt" \in e.writes)

\* The application's data is the scheduler's once there is a key to send it with.
HasData(e, sp) == In(e.pend, sp) # {}

Sendable(e, sp) == Writable(e, sp) /\ (AckDue(e, sp) \/ HasData(e, sp))

CanSend(e) ==
  /\ e.state # "none"
  /\ AmplificationAllows(e)
  /\ \E sp \in Range(Order) : Sendable(e, sp)

First(items, e) ==
  LET order == IF e.client THEN ClientItems ELSE ServerItems
  IN order[CHOOSE k \in 1..Len(order) : order[k] \in items /\ \A j \in 1..(k-1) : order[j] \notin items]

\* server_collected_extensions: the connection IDs put into the transport parameters.
TransportCids(e) == IF e.client THEN <<>> ELSE <<e.original_dcid, e.retry_scid>>

PacketOf(e, sp, ping) ==
  LET acks == AckDue(e, sp) \/ (ping /\ sp \in e.heard /\ sp # "app")
  IN [to |-> IF e.client THEN "s" ELSE "c",
      type |-> IF sp # "app" THEN sp ELSE IF "onertt" \in e.writes THEN "onertt" ELSE "zerortt",
      item |-> IF HasData(e, sp) THEN First(In(e.pend, sp), e) ELSE IF ping THEN "PING" ELSE None,
      acks |-> acks,
      ack |-> IF acks THEN In(e.got, sp) ELSE {},
      key |-> IF sp = "initial" THEN e.key ELSE "none",
      token |-> sp = "initial" /\ e.token,
      ver |-> e.ver,
      cids |-> TransportCids(e)]

\* commit_send_packet for the packets of one call.
Committed(e, packets) ==
  LET items == {p.item : p \in packets} \cap e.pend
  IN [e EXCEPT !.pend = @ \ items, !.infl = @ \cup items,
               !.due = @ \ {Types[p.type] : p \in {q \in packets : q.acks}},
               !.budget = IF e.validated THEN 0 ELSE @ - 1]

FirstSendable(e) == Order[CHOOSE k \in 1..3 : Sendable(e, Order[k]) /\ \A j \in 1..(k-1) : ~Sendable(e, Order[j])]

\* do_send, with room for one datagram.
Flush(e) == {PacketOf(e, FirstSendable(e), FALSE)}

\* A packet goes into the network, which is bounded.
Under(packets) ==
  /\ net' = net \cup packets
  /\ Cardinality(net') <= MaxNet

SendClient == CanSend(c) /\ c' = Committed(c, Flush(c)) /\ Under(Flush(c)) /\ UNCHANGED s
SendServer == CanSend(s) /\ s' = Committed(s, Flush(s)) /\ Under(Flush(s)) /\ UNCHANGED c

\* The server has all of its handshake acknowledged and waits for ClientFinished.
IsPoint5Rtt(e) ==
  /\ ~e.client /\ {"handshake", "app"} \subseteq e.spaces
  /\ In(e.pend \cup e.infl, "handshake") = {}

\* The loss alarm: something is outstanding, or the peer may be waiting for us.
Alarmed(e) ==
  /\ e.state # "none"
  /\ e.infl # {} \/ e.probe
  /\ AmplificationAllows(e)
  /\ ~IsPoint5Rtt(e)

\* mark_frames_on_pto, one packet's worth.
MarkedOnPto(e) ==
  LET sp == Order[CHOOSE k \in 1..3 : In(e.infl, Order[k]) # {} /\ \A j \in 1..(k-1) : In(e.infl, Order[j]) = {}]
      i == First(In(e.infl, sp), e)
  IN IF e.infl = {} THEN e ELSE [e EXCEPT !.pend = @ \cup {i}, !.infl = @ \ {i}]

MayProbe(e, sp) ==
  /\ Writable(e, sp)
  /\ sp = "initial" =>
       IF e.client THEN "handshake" \notin e.spaces
       ELSE "handshake" \notin e.spaces \/ In(e.pend \cup e.infl, "initial") # {}

\* PINGs share a datagram; a packet with data fills the one that a PTO sends.
Probes(e) ==
  {PacketOf(e, Order[k], TRUE) :
     k \in {k \in 1..3 : MayProbe(e, Order[k])
                         /\ \A j \in 1..(k-1) : ~(MayProbe(e, Order[j]) /\ HasData(e, Order[j]))}}

\* A PTO comes after everything that can be sent has been.
PtoClient ==
  /\ Alarmed(c) /\ ~CanSend(c)
  /\ \E e \in {MarkedOnPto(c)} : c' = Committed(e, Probes(e)) /\ Under(Probes(e))
  /\ UNCHANGED s

PtoServer ==
  /\ Alarmed(s) /\ ~CanSend(s)
  /\ \E e \in {MarkedOnPto(s)} : s' = Committed(e, Probes(e)) /\ Under(Probes(e))
  /\ UNCHANGED c

----------------------------------------------------------------------------
Lose == \E p \in net : net' = net \ {p} /\ UNCHANGED <<c, s>>

Next ==
  \/ SendClient \/ SendServer \/ PtoClient \/ PtoServer \/ Resume
  \/ \E p \in net : ClientReceive(p)
  \/ \E p \in net : ServerReceive(p)
  \/ Lose

Spec == Init /\ [][Next]_vars

----------------------------------------------------------------------------
Items(e) == IF e.client THEN Range(ClientItems) ELSE Range(ServerItems)

\* Handshake confirmed on both sides and the data of both delivered.
Finished ==
  /\ c.complete /\ s.complete
  /\ "handshake" \notin c.spaces \cup s.spaces
  /\ "CD" \in s.got /\ "SD" \in c.got

TypeOK ==
  /\ \A e \in {c, s} :
       /\ e.got \subseteq (IF e.client THEN Range(ServerItems) ELSE Range(ClientItems))
       /\ e.pend \cap e.infl = {}
       /\ e.pend \cup e.infl \subseteq Items(e)
       /\ e.due \subseteq e.spaces /\ e.heard \subseteq e.spaces
       /\ \A type \in e.reads \cup e.writes : Types[type] \in e.spaces
       /\ NumDelayed(e) <= QUICLY_MAX_DELAYED_PACKETS
       /\ e.budget \in 0..MaxBudget
  /\ \A p \in net : p.to \in {"c", "s"}

(* Endpoints that follow the protocol never end each other's handshake:      *)
(* the connection IDs the server reports are those the client used, with     *)
(* and without Retry, and no CRYPTO data is new while a signature is made    *)
(* (client_collected_extensions, crypto_stream_receive).                     *)
NoFalseAccusation == ~c.failed /\ ~s.failed

(* The assertions of the handshake hold: the CRYPTO stream TLS writes to     *)
(* exists, Initial is gone when HANDSHAKE_DONE arrives, and the loop that    *)
(* replays delayed packets has no slot left when it ends (write_crypto_data, *)
(* handle_handshake_done_frame, quicly_receive).                             *)
AssertionsHold == ~c.broken /\ ~s.broken

(* A space is discarded only when neither side needs it: what each sent in   *)
(* it has reached the other (discard_handshake_context).                     *)
DiscardSafe ==
  \A sp \in {"initial", "handshake"} :
    LET gone(e) == e.tls > (IF sp = "initial" THEN 0 ELSE 1) /\ sp \notin e.spaces
    IN gone(c) \/ (gone(s) /\ s.state # "none")
         => In(Items(c), sp) \subseteq s.got /\ In(Items(s), sp) \subseteq c.got

(* A packet kept because its key was missing is handled once the key is      *)
(* there, by the receipt of the next packet at the latest                    *)
(* (slots_newly_processible).                                                *)
DelayedReplayed ==
  \A e \in {c, s} : \A sl \in Range(DelayedSlots) :
    e.delayed[sl] # <<>> /\ sl \in e.reads => sl \in e.newly

(* Whatever is lost, with nothing under way one of the two is still able to  *)
(* send or has an alarm set, unless all is done: the amplification limit,    *)
(* the suppressed alarm of a server waiting for ClientFinished and the       *)
(* discarded spaces never leave both waiting for the other                   *)
(* (address_validation.send_probe, quicly_get_first_timeout).                *)
NeverStuck ==
  net = {} => \/ CanSend(c) \/ CanSend(s)
              \/ Alarmed(c) \/ Alarmed(s)
              \/ s.async
              \/ Finished

(* The handshake is sound in whatever order packets arrive and keys become   *)
(* available: neither end accuses the other, no assertion fails, no space    *)
(* goes while it is needed and no delayed packet is left behind              *)
(* (quicly_receive, crypto_stream_receive, discard_handshake_context).       *)
HandshakeSound ==
  TypeOK /\ NoFalseAccusation /\ AssertionsHold /\ DiscardSafe /\ DelayedReplayed
=============================================================================
