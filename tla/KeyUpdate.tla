----------------------------- MODULE KeyUpdate ------------------------------
(***************************************************************************)
(* Updates of the 1-RTT keys by both endpoints of a connection, over a     *)
(* network that loses, delays, reorders and duplicates packets             *)
(* (lib/quicly.c).  A key is the number of updates that led to it; the     *)
(* header of a packet only tells whether that number is odd.  Of the ACK   *)
(* that a packet carries there is the largest packet number acknowledged.  *)
(***************************************************************************)
EXTENDS Integers, FiniteSets

CONSTANTS
  max_packets_per_key,
  UINT64_MAX,         \* greater than any packet number at which an update is due
  MaxPn,              \* bound: packets sent by an endpoint
  MaxDamaged          \* bound: damaged packets that arrive

PacketsPerKeyAssumption ==
  /\ max_packets_per_key \in Nat /\ UINT64_MAX \in Nat
  /\ MaxPn \in Nat \ {0} /\ MaxPn + max_packets_per_key < UINT64_MAX
  /\ MaxDamaged \in Nat

VARIABLES
  conn,               \* the endpoints: conn[Client] and conn[Server]
  net,                \* packets sent; they may arrive any number of times
  damaged             \* number of damaged packets that arrived

vars == <<conn, net, damaged>>

Client == "client"
Server == "server"
Endpoints == {Client, Server}
Peer(e) == IF e = Client THEN Server ELSE Client

NoKey == -1
ZeroRttKey == -2
NothingSeen == -1

\* of an endpoint: the egress key (key_phase), when the update is to be
\* initiated (next) and the packet that was first to use it (last); the ingress
\* keys, what they were prepared and used for; header_protection.zero_rtt; and
\* the packet numbers used and seen
NewConn(zero_rtt) ==
  [key_phase |-> 0, last |-> 0, next |-> UINT64_MAX,
   aead |-> [i \in {0, 1} |-> IF i = 0 THEN 0
                              ELSE IF zero_rtt THEN ZeroRttKey ELSE NoKey],
   prepared |-> 0, decrypted |-> 0, zero_rtt |-> zero_rtt,
   packet_number |-> 0, seen |-> NothingSeen]

Packet(e, c) == [from |-> e, pn |-> c.packet_number, key |-> c.key_phase,
                 bit |-> c.key_phase % 2, ack |-> c.seen]
ZeroRttPacket == [from |-> Client, pn |-> 0, key |-> ZeroRttKey, bit |-> 0,
                  ack |-> NothingSeen]

\* the handshake is complete; a client that resumed has sent 0-RTT data, with the
\* packet number 0 of the same space
Init ==
  /\ \E resumed \in BOOLEAN :
       /\ conn = [e \in Endpoints |->
                    IF e = Server THEN NewConn(resumed)
                    ELSE [NewConn(FALSE) EXCEPT
                            !.packet_number = IF resumed THEN 1 ELSE 0]]
       /\ net = IF resumed THEN {ZeroRttPacket} ELSE {}
  /\ damaged = 0

-----------------------------------------------------------------------------
(* Sending *)

\* faulty: the next update does not wait for this one to be acknowledged
UpdateEgressKey_NotAwaited(c) ==
  [c EXCEPT !.key_phase = @ + 1, !.last = c.packet_number,
            !.next = c.packet_number + max_packets_per_key]

\* update_1rtt_egress_key
UpdateEgressKey(c) ==
  [c EXCEPT !.key_phase = @ + 1, !.last = c.packet_number, !.next = UINT64_MAX]

\* the part of commit_send_packet for packets with short headers
Send(e) ==
  /\ conn[e].packet_number < MaxPn
  /\ \E c \in {IF conn[e].packet_number >= conn[e].next
               THEN UpdateEgressKey(conn[e]) ELSE conn[e]} :
       /\ net' = net \cup {Packet(e, c)}
       /\ conn' = [conn EXCEPT ![e] = [c EXCEPT !.packet_number = @ + 1]]
  /\ UNCHANGED damaged

-----------------------------------------------------------------------------
(* Receiving *)

\* update_1rtt_key for the slot of the other key: the next key is derived, which
\* drops the one that was there, and with it the means to read 0-RTT packets
Prepare(c, i) ==
  [c EXCEPT !.aead[i] = c.prepared + 1, !.prepared = @ + 1, !.zero_rtt = FALSE]

\* faulty: another key is prepared although the last one is still unused
MayPrepare_Always(c, i) == c.decrypted % 2 # i

\* the key that failed may be replaced by the next one
MayPrepare(c, i) == c.decrypted = c.prepared /\ c.decrypted % 2 # i

\* the endpoint with the key that aead_decrypt_1rtt tries in the end, for a packet
\* protected by key
Tried(c, key, i) ==
  LET first == IF c.aead[i] = NoKey THEN Prepare(c, i) ELSE c
  IN  IF first.aead[i] # key /\ MayPrepare(first, i) THEN Prepare(first, i)
      ELSE first

\* faulty: the peer's update is not answered
ReceivedKeyUpdate_NotFollowed(c) == [c EXCEPT !.decrypted = c.prepared]

\* received_key_update
ReceivedKeyUpdate(c) ==
  IF c.key_phase < c.prepared
  THEN UpdateEgressKey([c EXCEPT !.decrypted = c.prepared])
  ELSE [c EXCEPT !.decrypted = c.prepared]

\* the end of aead_decrypt_1rtt, for a packet that was decrypted
Decrypted(c, i) ==
  IF c.prepared # c.decrypted /\ c.prepared % 2 = i THEN ReceivedKeyUpdate(c)
  ELSE c

\* the part of handle_ack_frame for the key update
Acked(c, pn) ==
  IF c.last <= pn
  THEN [c EXCEPT !.last = UINT64_MAX,
                 !.next = c.packet_number + max_packets_per_key]
  ELSE c

Seen(c, pn) == IF pn > c.seen THEN [c EXCEPT !.seen = pn] ELSE c

Readable(c, p) == Tried(c, p.key, p.bit).aead[p.bit] = p.key

\* a packet with a short header: decrypted, or ignored with the keys as tried
Receive(e, p) ==
  /\ p.from = Peer(e) /\ p.key # ZeroRttKey
  /\ \E c \in {Tried(conn[e], p.key, p.bit)} :
       conn' = [conn EXCEPT ![e] =
                  IF c.aead[p.bit] = p.key
                  THEN Acked(Seen(Decrypted(c, p.bit), p.pn), p.ack) ELSE c]
  /\ UNCHANGED <<net, damaged>>

\* a 0-RTT packet, of which the key is in the slot of the odd 1-RTT keys
Receive0Rtt(e, p) ==
  /\ p.from = Peer(e) /\ p.key = ZeroRttKey /\ conn[e].zero_rtt
  /\ conn' = [conn EXCEPT ![e] = IF @.aead[1] = ZeroRttKey THEN Seen(@, p.pn)
                                 ELSE @]
  /\ UNCHANGED <<net, damaged>>

\* a packet that no key decrypts, be it damaged on the way
ReceiveDamaged(e, i) ==
  /\ damaged < MaxDamaged
  /\ conn' = [conn EXCEPT ![e] = Tried(@, UINT64_MAX, i)]
  /\ damaged' = damaged + 1
  /\ UNCHANGED net

Next ==
  \E e \in Endpoints :
    \/ Send(e)
    \/ \E p \in net : Receive(e, p) \/ Receive0Rtt(e, p)
    \/ \E i \in {0, 1} : ReceiveDamaged(e, i)

Spec == Init /\ [][Next]_vars

-----------------------------------------------------------------------------
(* Properties *)

TypeOK ==
  /\ \A e \in Endpoints :
       /\ conn[e].key_phase \in 0 .. MaxPn
       /\ conn[e].last \in 0 .. MaxPn \cup {UINT64_MAX}
       /\ conn[e].next \in 0 .. MaxPn + max_packets_per_key \cup {UINT64_MAX}
       /\ conn[e].prepared \in 0 .. MaxPn + 1
       /\ conn[e].decrypted \in 0 .. MaxPn
       /\ conn[e].packet_number \in 0 .. MaxPn
       /\ conn[e].seen \in NothingSeen .. MaxPn
  /\ damaged \in 0 .. MaxDamaged

\* Whatever arrives late or damaged, an endpoint can read the packets protected by
\* the key its peer uses now: the slot has it, or it is the one derived next
\* (aead_decrypt_1rtt; otherwise nothing sent from then on could be read).
NewestReadable ==
  \A e \in Endpoints : \A p \in net :
    p.from = e /\ p.key = conn[e].key_phase => Readable(conn[Peer(e)], p)

\* The slots hold the key in use and the one before or after it, and a packet
\* under a key that has been used may not make an endpoint give that key up; the
\* asserts of received_key_update (prepared and decrypted are one apart at most).
KeysKept ==
  \A c \in {conn[e] : e \in Endpoints} :
    /\ c.prepared \in {c.decrypted, c.decrypted + 1}
    /\ c.aead[c.decrypted % 2] = c.decrypted
    /\ c.prepared > c.decrypted => c.aead[c.prepared % 2] = c.prepared
    /\ c.zero_rtt <=> c.aead[1] = ZeroRttKey

\* Both endpoints go through the same phases: neither is ahead by more than one,
\* one that read the peer's update has made its own, and an update that was
\* acknowledged (last is UINT64_MAX) is one the peer has read (RFC 9001, 6.1, which
\* received_key_update and key_update_pn are for).
PhasesInStep ==
  \A e \in Endpoints :
    LET c == conn[e]
        d == conn[Peer(e)]
    IN  /\ d.decrypted <= c.key_phase /\ c.key_phase <= d.decrypted + 1
        /\ c.decrypted <= c.key_phase
        /\ c.last = UINT64_MAX /\ c.key_phase > 0 => d.decrypted = c.key_phase

\* Key updates from both ends, late and damaged packets: the keys that are needed
\* are kept, the newest can always be read, and the phases stay in step
\* (aead_decrypt_1rtt, received_key_update, update_1rtt_egress_key).
KeysInStep == TypeOK /\ NewestReadable /\ KeysKept /\ PhasesInStep
=============================================================================
