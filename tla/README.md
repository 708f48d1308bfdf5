# quicly in TLA+

quicly is a QUIC transport in C: a library without threads or sockets, which an
application drives by handing it datagrams (`quicly_receive`), by asking it for
datagrams to send (`quicly_send`) whenever `quicly_get_first_timeout` says so, and
by writing to and reading from streams. What makes it hard is not threads but
*order*: packets arrive late, twice or never; an acknowledgement arrives for a
packet that was given up long ago; a stream is reset while its FIN is under way;
a connection ID is taken back while a path is being moved to it; keys arrive after the
packets they are for. Each of these events runs one handler to its end, and any of them
may come next. The modules in this directory take one action per handler and let TLC
try every order; TLAPS proves what matters most of streams, ranges, packet numbers, loss recovery, connection IDs,
key updates and closing for every size.

Contents: 1 the system · 2 the modules and how they correspond to the code ·
3 the runs · 4 fairness · 5 the proofs · 6 what the checks found · 7 what is not
modelled · 8 the plan.

## 1. The system

### 1.1 Components

| component | state | operations | modelled in |
|---|---|---|---|
| send side of a stream (`sendstate.c`, part of `quicly.c`) | `acked`, `pending` (ranges), `size_inflight`, `final_size`, `app_error_code`, `reliable_size`, `eos_state` | activate, shutdown, reset (reliable or not), acked, lost; `quicly_send_stream`, `send_reset_stream`, `on_ack_stream` with its cache, `handle_stop_sending_frame`, `handle_max_stream_data_frame` | `SendState` |
| receive side of a stream (`recvstate.c`, part of `quicly.c`) | `received` (ranges), `data_off`, `eos`, `app_error_code`; the connection's `max_data` counters | `apply_stream_frame`, `handle_reset_stream_frame`, `quicly_stream_sync_recvbuf`, `destroy_stream`, MAX_DATA and MAX_STREAM_DATA | `RecvState` |
| both ends of a stream | the two above, the network | all of these | `StreamTransfer`, `StreamService` |
| ranges (`ranges.c`) | array of intervals, its capacity | add, subtract, drop, next missing | `Ranges` |
| received ranges in a B+ tree (`bplus_ranges.c`) | nodes, height, first and last range | add, split, loan, merge, grow and shrink the root | `BPlusRanges` |
| packet number space, receiving half (`quicly.c`) | `ack_queue`, `unacked_count`, reordering window, ACK timer | `record_receipt`, `send_ack`, ACK-ACK, ACK_FREQUENCY, IMMEDIATE_ACK | `PnSpace` |
| sentmap and loss detection (`sentmap.c`, `loss.c`, `loss.h`) | packets sent, bytes in flight, thresholds, PTO count, alarm | send, ACK, detect loss, PTO, expiry, end of the handshake, promotion of a path | `LossRecovery` |
| congestion control (`cc-pico.c`, `cc-cubic.c`, `cc.h`) | window, ssthresh, recovery, undo, ECN and Prague, jumpstart, Rapid Start | `on_acked`, `on_lost`, `on_late_ack`, `enter_jumpstart`, `switch_to` of five controllers | `CongestionControl` |
| flow control (`maxsender.h`, `quicly.c`) | value committed, acknowledged and lost; BLOCKED states | MAX_DATA, MAX_STREAM_DATA, DATA_BLOCKED, STREAM_DATA_BLOCKED, lowering a window | `MaxSender`, `DataCredit` |
| default scheduler (`defaults.c`, `linklist.h`) | queues of active and of blocked streams | select, send, update | `DataCredit` |
| stream limits (`quicly.c`) | groups of streams, blocked streams | open, MAX_STREAMS, STREAMS_BLOCKED, refusal, destruction | `StreamLimits` |
| local connection IDs (`local_cid.c`) | array of CIDs with pending ones in front | set size, sent, acked, lost, retire | `LocalCid` |
| remote connection IDs and paths (`remote_cid.c`, `quicly.c`) | slots, queue of retirements, paths | register, retire prior to, open, probe, promote and delete a path, retire | `RemoteCid` |
| both ends of the exchange of CIDs | the two above, the network | all of these | `CidExchange` |
| handshake and epochs (`quicly.c`) | spaces, keys, CRYPTO data, delayed packets, address validation | accept, connect, Retry, version negotiation, 0-RTT, replay, discard, PTO | `Handshake` |
| key update (`quicly.c`) | egress phase and `key_update_pn`, two ingress slots | update, receive, trial decryption | `KeyUpdate` |
| closing and draining (`quicly.c`) | state, `connection_close`, timers | close, receive CONNECTION_CLOSE or a reset, answer, idle timeout, free | `ConnClose` |
| datagrams (`quicly.c`) | send context: current packet, target, space left | allocate a frame, commit a packet, coalesce, pad; split on receipt | `Datagrams` |
| frames, packet numbers, transport parameters (`frame.c`, `frame.h`, `quicly.c`) | none | encode, decode, reserve space, record ACKs | `Frames`, `TransportParams`, `Codec` |
| tokens, CID encryption, RTT, pacing and rates, programs | | | see section 7 |

### 1.2 How they interact

- *Sentmap entries are the glue.* A frame that is sent leaves an entry with a
  callback in the sentmap. The callback runs when the packet is acknowledged, when
  it is deemed lost, when a PTO wants its frames sent again, and once more if an ACK
  arrives after that. Every component that sends (streams, ACKs, CIDs, limits) is written
  as such a callback, and every module keeps its own entries with their two lives:
  in flight, and deemed lost but kept for a late ACK. When these callbacks run is the
  subject of `LossRecovery`; the other modules let them run at any time.
- *Bits and timers tell the send loop.* A component that has something to send
  raises a bit (`pending_flows`), links a stream or sets a timer (`send_ack_at`); the send
  loop lowers it when all has been sent. If one is lowered too early, nothing breaks:
  something is simply never sent.
- *Credit crosses streams.* Every stream charges the connection's `max_data` and
  must give back exactly what it charged, whether it is read, reset or destroyed.
- *Callbacks into the application* (`on_send_emit`, `on_send_shift`, `on_receive`,
  `stream_open`, `closed`) keep buffers and counts that must agree with those of the library.
- *Paths hold CIDs*, and the peer may take CIDs back at any time.
- *TLS drives the epochs*: keys appear, and spaces disappear, in the middle of handling
  a packet, while packets for other epochs wait.
- *Loss recovery feeds the congestion controller*, which may later hear that what it
  reacted to did not happen.

### 1.3 What makes each component correct

- Send side: no byte and no end-of-stream marker is ever forgotten; the peer is
  never told two different ends; the application's buffer stays in step; completion
  is true.
- Receive side: credit is conserved; memory stays bounded; what the application can
  read is never taken back; it is told the end once.
- Stream: reader and writer get the service of `StreamService`; two quicly
  endpoints never accuse one another of a protocol violation; an ended stream is
  seen to end, unless the receiver runs out of ranges.
- Ranges and the tree: the array, or the tree, is the set it is used as, with its
  pointers and separators valid.
- Packet number space: no packet is processed twice before its ACK was
  acknowledged, unless ranges had to be given up; every ACK that is owed is scheduled, in time, and sent.
- Loss recovery: what is in flight is counted; nothing handed over is forgotten; while
  something is outstanding an alarm is set, in the future; a packet is given up only behind
  a later one that was acknowledged.
- Congestion control: assertions hold through undo and switches (but for two, section 6); what has to be disproved
  for an undo is what was lost; counters do not wrap.
- Limits: none is exceeded, none lost on the way; whoever waits has said so, or is about to.
- Connection IDs: none is forgotten, on the way out or on the way back; a CID in
  use is one the issuer still knows; paths and CIDs match.
- Handshake: packets that came too early are replayed, spaces go only when both
  are done with them, and the two never wait for each other.
- Keys: what the peer sends now can be read. Closing: told once, waits long enough, ends,
  and falls silent.
- Formats: what is written is read, and fits where space was reserved.

## 2. The modules

Names are those of the C code. A comment on each definition names the function it
stands for; `PROJECT.json` ("map") gives the lines. Definitions marked `faulty` are
plausible bugs, used to check that the properties can fail.

```
   SendState* ---+                     LocalCid ---+
                 +--> StreamTransfer*              +--> CidExchange*
   RecvState* ---+         |           RemoteCid --+
                           v  refines
                     StreamService     MaxSender --+--> StreamLimits
                                                   +--> DataCredit
   Frames, TransportParams --> Codec

   * and Ranges, LossRecovery: theorems in a module of the same name
     followed by Proofs; of PnSpace and KeyUpdate: in PacketProofs; of
     StreamLimits, DataCredit and ConnClose: in ConnectionProofs

   harnesses, each of which runs several components, one at a time:
     MCProgress   PnSpace, StreamTransfer (fairness)
     MCFlow       RecvState, StreamLimits, DataCredit
     MCRecovery   LossRecovery (twice), CongestionControl
     MCSendState  SendState, Codec, Datagrams, ConnClose
     MCEndpoint   CidExchange, Handshake, KeyUpdate, PnSpace, Ranges, BPlusRanges
```

In a harness the variable `part` says which component takes steps; the others stay as they
are. This changes nothing about a component's behaviours: each is explored by itself, with
all its own interleavings.

### 2.1 Streams

**SendState.** The state is `quicly_sendstate_t`, plus what moves together with it:
the peer's limit, the application's buffer as two counters (`written`, `shifted`),
the sentmap entries of the stream (`frames`, `live` until deemed lost), and the ACK
cache of `on_ack_stream`, which lets ACKs of adjacent frames be merged and applied
later. One action per function that changes it: `Write`, `Shutdown`, `ResetStream`,
`SetResetStreamAt` (the application), `ReceiveStopSending`, `ReceiveMaxStreamData`
(the peer), `SendStream` and three actions for lone markers (the send loop),
`AckInFlight`, `AckCached`, `AckLate`, `Lost` (loss and PTO, which do the same),
`Expire`, `Orphan` (entries of a destroyed stream). A frame may be cut at any
length: packet size, congestion and connection credit are not told apart. A
`quicly_ranges_t` is the set of bytes it holds, which `Ranges` justifies;
`[x, UINT64_MAX)` is the set of bytes from `x` to a constant `Inf`. Failure of
`malloc` closes the connection and is left out, and so does `check_amount_of_state`, with which `quicly_sendstate_acked` and
`quicly_sendstate_lost` end (256 ranges and more, and little data between them).

**RecvState.** `quicly_recvstate_t` and the credit counters of the connection,
against a peer that may send any STREAM, RESET_STREAM or RESET_STREAM_AT frame, legal
or not. `Settle` is the common tail of the handlers: the callback in which the
application may read, and destruction, which returns the rest of the credit. Other
streams are the credit they hold. A set of bytes in pieces is a number of ranges, the first of which begins at zero and may be
empty (`NumRanges`); a frame that needs another one when the limit of `calc_max_ranges` is reached (`RangesFull`) ends the connection with
STATE_EXHAUSTION, after its credit was charged. A FIN that comes with it has set `eos` by then, which the model leaves alone, as after
every error. When MAX_DATA is sent is left open (any time); see
`DataCredit`. `PeerStep` leaves out one kind of frame, a STREAM frame without byte and FIN
ahead of the data, because it breaks `CreditBalance`; see section 6.

**StreamTransfer.** Instances of the two, and a network: `net` holds the frames
under way, each may arrive in any order or be dropped (`Drop`), a late arrival
after the sender has given the packet up included. Reordering alone can make the receiver run out of ranges; this is the one error
that `NoFalseAccusation` allows, and only when the ranges are in fact all in use. `arrived` remembers which entries may be
acknowledged. Duplicates are dropped by `is_duplicate_pn` (checked in `PnSpace`) and
are not repeated here; a retransmitted frame is a new one. `Promise` and `Seen` with
the receiver's prefix are the refinement mapping to **StreamService**, which knows
only what applications see: a growing prefix, then an end or a reset, the latter not
before the bytes a reliable reset commits to.

### 2.2 Flow control

**MaxSender.** `quicly_maxsender_t` with each of its operations, as operators on a record,
for the modules that embed one.

**StreamLimits.** Endpoint `a` opens streams of one kind and `b` accepts them. `OpenStream`
queues a stream beyond the limit; `SendA` sends STREAM frames of linked streams and
STREAMS_BLOCKED; `Arrive` is the receipt of a frame: at `b` it opens all streams up to the
one named, any of which the application may refuse (`stream_open` fails), at `a` MAX_STREAMS
runs `open_blocked_streams`. `CloseB` destroys a stream, upon which the limit may be raised.
`Ack` and `Loss` run the callbacks of sentmap entries, late ACKs included. A client may open streams on
a limit it remembers from an earlier connection until `KeyAvailable`.

**DataCredit.** Several streams of a sender `s` and a receiver `r`, with the limits of the
streams and of the connection. A packet carries one byte; of a stream's data there is how far it
was written, sent, received and read, the rest being the business of `StreamTransfer`. The
default scheduler's two queues (`active`, and `waiting` for the connection's limit) are
sequences, with `default_stream_scheduler_do_send` unlinking a stream before it sends it. The connection's counters (`max_data.sent`,
`bytes_consumed`, `bytes_shifted`) are variables of their own, as in the code, and not sums over the streams. `LowerWindow` is
`quicly_stream_set_receive_window` with a smaller window.

### 2.3 Packets

**Ranges.** The array of intervals itself with the index arithmetic of `add`,
`subtract`, `merge_update` and `insert_at`, and the capacity with the thresholds at
which it grows and shrinks; a history variable `held` is the set it should be.

**BPlusRanges.** The tree with its nodes in a heap indexed by address, so that a leaked or
doubly freed node shows; the path of `descend`, the fast path through `last`, `insert_range` with
its splits, `delete_range` with loans and merges, and the removal of bridged ranges one by one while the path to the surviving range is
followed. A history variable holds the set of bytes added. Trees begin from a `Seed`, a list of
ranges in the order in which they arrived.

**PnSpace.** 1-RTT packets arrive in any order; a packet is handled (ACK-ACK,
ACK_FREQUENCY, IMMEDIATE_ACK) and then recorded, in this order, as in
`quicly_receive`. The ACK timer is `never`, `later` or `due`. How an ACK is split
into sentmap entries depends on eight-bit fields; the model takes any split at the
beginning of a range, and `Codec` checks the split itself. `uint64_t` wraps at `Wrap`. Of ECN, the CE mark is kept (it
decides about immediate ACKs), the counters are not. A duplicate changes nothing and
has no action. Histories tell which packets were processed, which an ACK covers (`reported`) or an acknowledged ACK (`ackacked`), and which
`do_on_ack_ack` dropped because the queue had too many ranges (`given_up`).

**LossRecovery.** The sentmap as a function from packet numbers to records, `quicly_loss_t`,
and the connection's share. `Send` is `do_send` with respect to them: the alarm that has
fired first (`quicly_loss_on_alarm`, with the marking of packets on PTO), then expiry of old entries,
new packets within the window, and `update_send_alarm`. `ReceiveAck` is
`handle_ack_frame`: late ACKs, the thresholds and their relaxation when a loss proves spurious, detection, the alarm. `DiscardHandshake` and
`PromotePath` rewrite the sentmap in the middle of it. Time is a small integer; the estimates of
the RTT are given values. "handshake" stands for Initial and Handshake. `Never` is `INT64_MAX`, and the
constants are such that no alarm reaches it (`NeverAssumption`, section 5).

**CongestionControl.** The hooks of `cc-pico.c` (reno, pico, cubic, cuback) and of `cc-cubic.c` with
all the state of `quicly_cc_t` that decides about branches. Windows are counted in packets; how far a
curve has grown depends on clocks and floating point, and is a choice. Packets belong to one
epoch and are declared lost in the order in which they were sent.

**Datagrams.** One call of `quicly_send`: `do_allocate_frame` (commit or continue, coalesce or
begin a datagram), `commit_send_packet` (padding), ACK and DATAGRAM frames, `Finish`; and
`quicly_decode_packet` on the result, also cut short. Sizes are in bytes.

**Frames, TransportParams, Codec.** What is on the wire is a sequence of items, each with its
size and the number it carries; `Formats` lists every frame with its fields and the space its sender
reserves. ACK frames are encoded and decoded with the entries of the sentmap that record them; the layout of a STREAM or CRYPTO frame at the
end of a packet is that of `quicly_send_stream`. Transport parameters are lists with the checks of the decoder.
A step of `Codec` chooses one thing to be encoded.

### 2.4 The connection

**LocalCid, RemoteCid, CidExchange.** A CID and its token are the encryption of the
sequence number, which stands for both. `LocalCid` keeps the array, because its order
is the point: pending CIDs must be in front. The loops of `quicly_local_cid_on_sent` and `_set_size`, which swap
elements one after the other, are given by the array they leave. In `RemoteCid` the array is a function from
sequence numbers to states and the queue of retirements a set (duplicates are
refused by `quicly_remote_cid_push_retired`). `quicly_send` serves several paths in one call; the
model takes one path per step, and each step begins, as the code does, with the CID of
the primary path. Frames under way may arrive any number of times, since both
ends retransmit. quicly sends a `retire_prior_to` of zero; `RetireLimit` > 0 models
another implementation as issuer. CIDs of length zero, and NEW_CONNECTION_ID frames
that contradict one another, are left out; so is that the OTHERS bit may stay up for
other kinds of frames, which could only hide a bit lowered too early.

That the queue of retirements overflows (STATE_EXHAUSTION) cannot be excluded: a RETIRE_CONNECTION_ID that has
arrived may be deemed lost and put back, any number of times, while the issuer issues more. What holds is that at
most `LocalSize` of those queued or in flight are news to the issuer (`NoFalseAccusation`), so that an overflow
takes more than `MaxRetired - LocalSize` of them that have arrived already. The connection closes then, and
the frame that did not fit is dropped, which `NoRetirementForgotten` allows for.

**Handshake.** Two endpoints from `quicly_connect` and `quicly_accept` to HANDSHAKE_DONE. A TLS
message or an application's data is an item, and an item fills a packet; what TLS does (`Consume`: which keys and messages it hands
out for which input) is external. `ClientReceive` and `ServerReceive` are `quicly_receive` with the replay of
delayed packets in its loop, and, for a server without a connection, `quicly_accept` as the server program calls
it. `Setups` has 0-RTT accepted and rejected, an asynchronous signature, Retry, and version
negotiation. Packets are lost (`Lose`), reordered and, by PTO, repeated. A PTO is taken when an endpoint has nothing else to send; PINGs are not kept in
flight, and every packet is a datagram of its own.

**KeyUpdate.** Both endpoints update keys after `max_packets_per_key` packets. A key is the number of updates that led to it; a header
shows only whether it is odd. Packets stay in `net` and may arrive at any time, any number of
times; damaged packets arrive in either phase. A 0-RTT key shares the slot of the second
key. `UINT64_MAX` is a constant beyond the packet numbers.

**ConnClose.** Two endpoints that close with errors of every class, before and after the handshake,
over packets that may arrive at any time and repeatedly; a `FREED` endpoint answers with stateless
resets. `Tick` is the clock, and `quicly_send` may be called late. `AnswersBackOff` allows one CONNECTION_CLOSE, and one more for each power of two
among the packets received since.

`MC*` modules instantiate these for TLC and add symmetry and views.

## 3. The runs

| run | what it shows | bounds | states |
|---|---|---|---|
| `send_state` | `NoByteForgotten`, `NoMarkerForgotten`, `AckedBelowPending` and `MarkerNeverBlocked` (assertions of the code), `CompleteMeansDelivered`, `FinalSizeNeverChanges`, `BufferInStep`, `MarkerSuperseded`; `FormatsAgree`; `DatagramsSound`; `ClosesInOrder` | 3 bytes, 3 entries, 2 codes; formats, datagrams, closing: see below | 2.7 M |
| `stream_transfer` | `NoFalseAccusation`, `CompletionIsMutual`, `CreditReturned`, `ProvidesService` (refinement of `StreamService`) | 2 bytes, 2 codes; windows of 2 with 2 entries and 2 ranges; windows of 1 with 1 entry; windows of 2 with 1 entry and 1 range | 0.7 M |
| `progress` | `AckSent`; `EndIsSeen`, `EndIsDelivered` | 4 packets, 1 range; 1 byte, 2 frames, windows of 1 | 43 k |
| `flow` | `CreditKept`, `EndToldOnce`, `NeverTakenBack`; `NothingStranded`, `LimitsGetThrough`, `LimitsSound` | 4 offsets, windows of 3; 3 streams with a concurrency of 1, 4 with 5; 3 bytes on 2 streams, and 1 stream with a window that is lowered | 0.9 M |
| `recovery` | `BooksBalance`, `NoDataForgotten`, `AlarmsAhead`, `LostOnlyBehindAck`; `ControllersSound` | 4 packets, time 0 to 3, windows of 1 and 2, with and without speculative PTOs; five controllers, 4 packets, windows up to 10 | 1.1 M |
| `endpoint` | `TypeOK`, `NoFalseAccusation`, `NothingForgotten`, `PathsAndCids`; `HandshakeSound`, `NeverStuck`; `KeysInStep`; `AcksInOrder`; `RangesExact`; `TreeExact` | CIDs: 2 slots and paths, 4 sequence numbers, a queue of 2, `retire_prior_to` up to 2; others: see below | 0.9 M |
| `recv_state_empty` | violation: an empty frame is charged twice | as `flow` | |
| `cid_exchange_primary` | violation: the primary path is left without CID | 3 slots, 3 sequence numbers | |
| `loss_recovery_tail` | violation: an alarm in the past | 3 packets, 1 speculative PTO | |
| `cc_switch` | violation: pico with an interval of zero | reno switched to pico | |
| `datagrams_empty_cid` | violation: a packet without room for its payload | destination CID of length zero | |
| `ranges_next_missing` | violation: what is missing below the first range is not found | integers below 4 | |

A property that combines several is the conjunction of the parts its component names, so that a
counterexample shows which part fails:

| property | parts |
|---|---|
| `CreditKept` (`RecvState`) | `TypeOK`, `CreditBalance`, `MemoryBounded` |
| `NothingStranded` (`MCFlow`) | `StreamLimits`: `WaitBeyondLimit`, `OpenedIsUnderway`; `DataCredit`: `SchedulerComplete` |
| `LimitsGetThrough` (`MCFlow`) | `StreamLimits`: `LimitUnderway`, `SignalsPending`; `DataCredit`: `LimitUnderway`, `BlockedIsSaid`, `CreditAnnounced` |
| `LimitsSound` (`MCFlow`) | `StreamLimits`: `TypeOK`, `StreamsCounted`; `DataCredit`: `TypeOK`, `CreditSound`, `CountersAgree` |
| `BooksBalance` (`LossRecovery`) | `TypeOK`, `BytesAgree`, `TimersArmed` (the code's `assert_consistency`) |
| `ControllersSound` (`CongestionControl`) | `TypeOK`, `AssertionsHold`, `UndoCountsLost`, `EpisodesCounted`, `BackInStartup`, `IntervalInitialised` |
| `HandshakeSound` (`Handshake`) | `TypeOK`, `NoFalseAccusation`, `AssertionsHold`, `DiscardSafe`, `DelayedReplayed` |
| `KeysInStep` (`KeyUpdate`) | `TypeOK`, `NewestReadable`, `KeysKept`, `PhasesInStep` |
| `ClosesInOrder` (`ConnClose`) | `TypeOK`, `ToldOnce`, `NoStreamLeft`, `WaitsAndEnds`, `AnswersBackOff`, `ErrorsConveyed`, `IdleSince` |
| `AcksInOrder` (`PnSpace`) | `TypeOK`, `ProcessedOnce`, `AckPromised`, `ToleranceKept`, `WindowLeftBehind` |
| `RangesExact` (`Ranges`) | `HoldsTheSet`, `Canonical`, `FitsCapacity`, `FindsNextMissing` |
| `TreeExact` (`BPlusRanges`) | `HoldsWhatArrived`, `Balanced`, `SeparatorsExact`, `PointersValid` |
| `FormatsAgree` (`Codec`) | `FramesRead`, `FramesFit`, `AckExact`, `LayoutSound`, `NumbersRecovered`, `ParamsUnderstood` |
| `DatagramsSound` (`Datagrams`) | `SpaceGranted`, `SegmentsUniform`, `SplitsBack` |
| `NothingForgotten`, `PathsAndCids` (`CidExchange`) | `PendingInFront`, `NoCidForgotten`, `NoRetirementForgotten`; `PathsHoldCids`, `UsableIsActive` |

Every part, but for type invariants, has a faulty definition of its own, which TLC finds to violate it.

Why the bounds are enough:

- *Bytes.* Code that handles ranges distinguishes before, inside, at the end of and
  after a range. Three bytes allow two ranges with a gap, a frame that covers part of
  each, and a Reliable Size strictly between zero and the final size. Three entries allow a
  lost frame, its retransmission in different pieces and one that carries a marker, all
  with open fate. The proofs of section 5 remove this bound, as they do those of ranges, packet numbers, loss, CIDs, keys and closing.
- *Windows.* Windows as large as what is written let the second byte overtake the
  first; windows smaller than it make the transfer depend on
  credit that is returned, with MAX_DATA and MAX_STREAM_DATA arriving independently, so that either
  limit can be the one that holds a frame back. The two are separate settings because a
  stream long enough for both at once is beyond what TLC explores in minutes.
- *Ranges of a stream.* A receiver with one range has none for the second byte when that comes first. With two it never runs out of them within
  two bytes, so that whatever error it met would be a false one. `flow` allows one or two over
  four offsets, depending on how far the window reaches beyond the first range, to a peer that sends anything.
- *Limits.* A concurrency of 1 with 3 streams makes streams wait in a queue of two; a
  concurrency of 5 is the smallest at which MAX_STREAMS is held back until the limit is nearly used up. Two streams of
  limit 1 in a connection of limit 2 are held back by either; one byte more than the credit makes every limit be raised.
- *Packet numbers.* Five packets and two ranges reach the limit on ranges, so that
  ranges are dropped; tolerance 0 (1 in `progress`) asks for an ACK of every packet, 4 exceeds the cap `MaxTolerance`;
  thresholds 0 and 2 differ from the initial 1. That a packet given up by `do_on_ack_ack` passes for new takes
  nine packets and three ranges (section 6); the proof covers any number.
- *Loss.* Four packets and a packet threshold of 2 (3 in the code) give a packet that is lost by number, one lost by time, a retransmission
  and a probe; `KeepPackets` 2 makes old entries expire. Three units of time hold a PTO of 2 and a loss time of 1 beyond a
  first transmission. With speculative PTOs there are three packets and the alarm's assertion is left
  out (section 6).
- *Congestion.* Four packets allow a loss, a second one in the same episode, their late ACKs, and another
  episode; windows of 4 initially and 2 at least make the minimum be reached. Of the
  switches, those from reno to pico and from reno to cuback are left out (section 6).
- *Trees.* Fan-out 4 is the smallest even one with which nodes lend and merge; 6 ranges make a tree of height 2, 11 one
  of height 3; seeds in six orders give nodes that are nearly empty and full; any range over the whole
  space, bridging any number of others, is then added, twice to the smaller trees.
- *Handshake.* A limit of 2 packets per packet received makes the server stop in the middle of its flight; two packets under way
  are enough for the second to overtake the first, and for two to be delayed.
- *Keys.* Four packets with an update after each go through every slot twice.
- *Closing.* One error of the client and two of the server (one of them once only 1-RTT keys are left), a clock up to 3, with three PTOs of 1 and four of 2, and up to three packets received
  while closing, which the back-off answers only in part.
- *Formats.* Values on both sides of each length of an integer; up to four ranges and gaps on both sides of what eight bits hold, against two and one
  additional entries per record; spaces around 64 and 16384; packet numbers below 20 with windows of 2, 4 and 8.
- *Datagrams.* Frames of one byte (PING, HANDSHAKE_DONE), two and more; leftovers around each size at which another header fits or does not, also
  behind a packet of one byte, which is padded.
- *CIDs.* Four sequence numbers over two slots let every slot be reused and the
  numbers run out; a `retire_prior_to` of two asks for all that were there at first, and a queue of two retirements, where the code has twice the slots, overflows within these. The
  proofs remove these bounds.
- *Liveness* runs on the smallest instance that has a byte and a marker, so that they
  travel together or apart. Streams with more bytes differ by repetition.

Symmetry is used for error codes in `send_state` and `stream_transfer` and for streams in `flow`, which check safety only
(`StreamService`'s specification has no fairness). The views of `stream_transfer` and `progress`
leave out `got`, `got_eos`, `said` and `shifted`, variables that no guard reads and no
property of those runs mentions: states that differ only there have the same
behaviours, so that it is sound for safety and for liveness. Deadlock is checked in `stream_transfer` and `progress`, for the stream of `send_state` and
for the CIDs of `endpoint`, whose final states (`Terminated`, `Done`, `Closed`) stutter explicitly. In the others a
component may rightly come to its end: a handshake that is confirmed, a connection that was freed, everything sent, read and
acknowledged, the last packet number or unit of time used up. That nobody waits for ever where something remains to be
done is stated as properties there (`NeverStuck`, `NothingStranded`, `LimitsGetThrough`,
`WaitsAndEnds`, `TimersArmed`).

## 4. Fairness

Only `progress` assumes fairness.

- Weak fairness of `Send`, `SendAck`, `TimerExpires`, of the loss of what is not
  acknowledged and of the expiry of entries: the application calls `quicly_send` when
  `quicly_get_first_timeout` says so, and the loss timer and the lifetime of sentmap entries
  are among the times it reports. `Send` is a single condition for all frames of the stream:
  which of them goes first is not assumed. That the loss timer is set when it is needed is
  `TimersArmed` and `NoDataForgotten` of `recovery`.
- Weak fairness of `Read`: the receiving application reads what it is given, and the
  endpoint returns the credit. Without it a stream may rightly stall on flow control.
- Weak fairness of `Arrival \/ Drop`: a packet does not stay under way for ever. It
  may always be dropped.
- Strong fairness of an arrival in time and of an ACK in time: if packets of the stream
  are sent for ever, not all of them are lost, nor all of their ACKs. This is what a
  retransmitting protocol needs of its network. It is one condition over all frames, not one for
  each.
- No fairness of applications that write, end or reset a stream.

## 5. The proofs

Eight modules hold theorems, each about the module it extends; `PacketProofs` extends `PnSpace` and has `KeyUpdate` as an instance, `Keys`, and
`ConnectionProofs` extends `StreamLimits` and has `ConnClose` and `DataCredit` as instances, `CC` and `D`. Every theorem is for all values of the
constants that satisfy the named assumptions, and TLC evaluates these on the runs' instances.

| module | theorems (property of a run) | assumptions |
|---|---|---|
| `SendStateProofs` | `TypeCorrect`, `NothingForgotten` (`NoByteForgotten`), `MarkerKept`, `PendingAboveAcked`, `MarkerSendable`, `CompletionTrue`, `FinalSizeFixed`, `BufferAligned`: each invariant of `send_state`; `MarkerOrder`: its action property | `SizeAssumption`, `CodeAssumption`, `FrameBoundAssumption`: `MaxWritten` below `Inf`, `NoCode` not a code |
| `RecvStateProofs` | `CreditIsKept` (`CreditKept`), `EndIsToldOnce` (`EndToldOnce`), `NothingIsTakenBack` (`NeverTakenBack`) | `OffsetAssumption`, `RecvCodeAssumption`, `WindowAssumption`, `RangesAssumption`: offsets below `Inf`, windows and limits on ranges are numbers |
| `StreamTransferProofs` | `NeverAccused` (`NoFalseAccusation`), `CompletionAgreed` (`CompletionIsMutual`), `CreditComesBack` (`CreditReturned`), `Refinement` (`ProvidesService`) | `TransferAssumption`: those of both sides |
| `RangesProofs` | `RangesAreExact` (the component's share of `RangesExact`) | `LimitAssumption`: the space is not empty |
| `LossRecoveryProofs` | `BooksAreBalanced` (`BooksBalance`), `NothingIsForgotten` (`NoDataForgotten`), `GivenUpBehindAck` (`LostOnlyBehindAck`), `AlarmsStayAhead` (`AlarmsInFuture`, which is `AlarmsAhead` of the run, if `NumSpeculativePtos` = 0) | `TimeAssumption`, `LossAssumption`, `ItemAssumption`, `NeverAssumption`, see below |
| `CidExchangeProofs` | `TypesKept` (`TypeOK`), `NoneAccused` (`NoFalseAccusation`), `AllRemembered` (`NothingForgotten`), `PathsServed` (`PathsAndCids`): each invariant of CIDs of `endpoint` | `SizeAssumption`: at least two CIDs are given, as many slots or more, `None` not a number |
| `PacketProofs` | `AcksStayInOrder` (the component's share of `AcksInOrder`) | `PnAssumption`: packet numbers fit below `Wrap`; `BlockAssumption`: there may be a range; `FrequencyAssumption`: tolerances are numbers, thresholds below `Wrap` |
| | `KeysStayInStep` (the component's share of `KeysInStep`) | `PacketsPerKeyAssumption`: packet numbers and the next update stay below `UINT64_MAX` |
| `ConnectionProofs` | `LimitsAreKept` (the component's share of `NothingStranded`, `LimitsGetThrough` and `LimitsSound`) | `SettingsAssumption`: the peer allows at least one stream, and what is remembered of its limit is not more than it allows |
| | `CreditGetsThrough` (the component's share of `NothingStranded`, `LimitsGetThrough` and, without `CountersAgree`, `LimitsSound`) | `SettingsAssumption` of `DataCredit`: windows are not zero, and lowered ones not above the first; `NamesAssumption`: the connection is not a stream |
| | `CloseIsOrderly` (the component's share of `ClosesInOrder`) | `ClosingAssumption`: timeouts are numbers, errors are of the classes of the code |

`KeysStayInStep`, `RangesAreExact` and the theorems of `ConnectionProofs` state their assumption as a hypothesis, because `MCEndpoint`, `MCSendState` and `MCFlow` instantiate the modules; the run
evaluates it with the constants it gives them. The properties `AcksInOrder`, `KeysInStep` and `RangesExact` of `endpoint` and `ClosesInOrder` of `send_state` say that the component's property of the same
name holds while that component takes steps; section 3 lists which properties of `StreamLimits` and `DataCredit` those of `flow` stand for.

Each module defines an inductive invariant `Inv` (and `KeysInv` for the keys, `ClosingInv` for the end of the connection, `CreditInv` for credit) as a conjunction of named parts, proves that the initial
states satisfy it and that each action preserves it, and derives the properties. Each `Inv` was checked with TLC on a
small instance as well. None of the properties is inductive by itself; what has to be added, and why:

**SendState.** `NoByteForgotten` needs to know, when a frame is
sent and the rest of `pending` is cut off (`wrote_all`), that nothing above
`size_inflight` was written; and when the application writes more, that `pending` is
everything from `size_inflight` on, or that all that was written has been sent. `MarkerNeverBlocked` needs the order of `size_inflight`,
`final_size` and `max_stream_data` and that unsent bytes are pending; `FinalSizeNeverChanges` needs that what was said once is still the final size,
and `BufferInStep` that a buffer released early by STOP_SENDING has nothing pending.

| part | what it says |
|---|---|
| `Sizes` | `size_inflight` is at most what was written, the final size and the limit; a stream without a code ends with all that was written; after a plain reset the final size is what was sent |
| `ByteSets` | only bytes that were sent are acknowledged, and pending bytes are neither acknowledged nor beyond the end; what a reset gives up counts as acknowledged |
| `Unsent` | the bytes not sent so far are pending, all of them or, when nothing is left to send, none |
| `Covered` | each byte that was sent is acknowledged, pending or carried by a live entry or the cache |
| `Entries` | entries lie within what was sent and carry no marker stronger than the stream's |
| `Markers` | `NoMarkerForgotten`; a delivered marker was acknowledged; a destroyed stream had its marker delivered |
| `Buffer` | the buffer begins at the acknowledged prefix, unless STOP_SENDING or a reset has given up the rest |
| `Acknowledged` | what counts as acknowledged was, or was given up by a reset |
| `Said` | all that was told of the end is true of the present state, and nothing is left to be sent for the first time |

Lemmas about `PrefixEnd` (that it exists, is unique, and grows with the set) are proved first and cited by name.

**RecvState.** The peer is arbitrary: any frame, legal or not, but for the one that section 6 reports. `CreditBalance`
needs the order of what was read, received, promised and granted (`Ends`, `Limits`), since the handlers charge and
return differences of these numbers; that the end is told once needs that it is told exactly when the transfer is complete (`Told`).

**StreamTransfer.** The invariants of the two sides are instances of those above, and each step of a side is
a step of its module, so that nothing is proved twice. What joins them is new: every frame under way still tells
the truth about the sender, however late it arrives (`Frames`: its bytes were sent, its end is the end, a reset's Reliable
Size is not below the present one); the limits the sender knows lag behind the receiver's (`Granted`); what the receiver has
concluded of the end agrees with the sender, and it was charged what the sender charged itself (`View`); and what was acknowledged, in the
cache or late, has been heard (`Heard`). `NeverAccused` follows because a frame that is true cannot be illegal; what is left is a frame
that finds all ranges in use. `View` says that any error is this one, that the ranges are in use, and what the receiver has taken in agrees with the sender after it, too; only what was charged does not, as the frame that was
refused is charged for. `Refinement` maps the initial states to
initial states of `StreamService` and each action to a step of it or to none: an `Arrive` that extends the prefix delivers,
one that completes the transfer ends or resets the stream at the reader.

**Ranges.** What an array holds is stated without induction over it: `Ordered` relates any two ranges, not only neighbours, and
indices are found as least or greatest elements of sets of naturals. Every branch of `add` and `subtract` replaces a stretch of the array by at most two ranges;
`Splice` and its lemmas say what the result holds given which ranges lie below, within and above the stretch, and each branch is a use of it. An
empty first range is allowed for (`Filled`), because `quicly_ranges_init_with_range(0, 0)` leaves one.

**LossRecovery.** A sentmap changes in two ways only. Packets are acknowledged, lost, marked on a PTO or retired: the result
`Follows` the sentmap before, which is transitive, and each of the helpers (`Update`, `InitSentmapIter`, `DetectLoss`, `MarkOnPto`, `OnAckReceived`...) is shown to
keep to it and to keep the books balanced (`Ledger`), so that an action is a chain of such steps. Or a `Flight` is added
to it, of packets with new numbers that carry items that wait. `BytesAgree` follows from cardinalities of finite sets. `NoDataForgotten` needs more than itself: that an item
whose frames are in flight is in a packet that counts (`Honest`), that data of the application is never in a Handshake packet (or
discarding these would lose it), and that what is idle is nowhere else (`Apart`). That the alarm is armed needs a time that cannot be mistaken for `INT64_MAX`: `NeverAssumption` says that the backed-off PTO after as many
timeouts as packets were sent, added to the clock, stays below `Never`. The code relies on the same, with `assert(r->pto_count < 63)`
in `quicly_loss_update_alarm`. The invariant bounds `pto_count` by the packets sent, as each PTO sends one.

`AlarmsStayAhead` adds one part to this invariant, `Ahead`: the alarm is never later than its `Target`, the time for which `quicly_loss_update_alarm` would set it
now. A step that sends because the alarm went off has something that elicits an ACK, so that the new target is a PTO away, and a PTO takes time (`NeverAssumption` says
that it is at least 1); if the alarm has not gone off, neither has the target been reached. The other target is `loss_time`: `DetectLoss` leaves in
flight, behind an acknowledged packet, only what is not due, and the first of these is the oldest, as the sentmap is in the order of time. The hypothesis that there are no speculative
PTOs is needed: `loss_recovery_tail` shows the assertion fail with one.

**CidExchange.** The two endpoints are linked by a count. The issuer uses a new sequence number only for one that was taken back
(`Numbers`: `path_id` is at most `LocalSize` plus those); every sequence number up to `largest_sequence_expected` that the peer is done with was in a slot
once, and each slot holds one that it is not done with (`Holding`). As there are no fewer slots than CIDs given, whatever was issued is expected (`Room`): no CID is beyond the limit. In the other
direction, whatever the peer gives back was issued, since it lets go only of CIDs it has seen or that a later one asked it to
retire; and never all of it, because the frame leaves on the primary path, whose CID is not among them: so the issuer never finds
itself asked for the only one. The array holds exactly the CIDs issued and not taken back, each once, those that wait at its front in the order of `marked`
(`Sound`); each operation on it (`do_mark_pending`, `do_mark_delivered`, `on_sent`, `Vacated`, `Issue`) has a lemma that it
keeps this, on which rests that `UsableIsActive` and that `Find` finds what it looks for. `Matching` ties paths to slots and has a lemma for
each way in which a path changes: dissociated, removed, given a CID, promoted. That the primary path can
be given a CID is what `cid_exchange_primary` refutes, and no proof assumes it.

**PnSpace.** One queue serves for two purposes, and three things take packets out of it. That a packet is not processed twice
needs only that pruning leaves a part of the queue, and that what the limit drops is the lowest (`CappedIs`): a packet that was processed is in the queue, or below all of it; if
a packet below it passes for new because its number is the next expected, or not below the first, it too lies above what was dropped. Only what `do_on_ack_ack` removes escapes this,
and is in `ackacked` or `given_up`; the statement without `given_up` holds within the bounds of `endpoint` and is false beyond them, as the attempt to prove it showed (section 6). That `unacked_count` and the timer serve what waits is not inductive:
`Counted` says that the count is at least the number of packets that wait, which survives the reset in `do_on_ack_ack` because nothing is left in the queue then, and packets that the
queue drops. `Recollection` ties the ACKs under way to what was reported. The recursive functions that prune the queue are shown to exist by the least step at which they would
not (`Iterates`), and to leave a part of it by the least one at which they would not (`Throughout`): no induction over data is needed.

**KeyUpdate.** That the newest key can be read needs what packets under way tell of the endpoint that sent them (`InPhase`: packets from the last update on are protected by the
current key, one that acknowledges an update by that key or a later one) and of what an endpoint has read when it acknowledges (`SeenInPhase`). From these it
follows that neither is ever more than one phase ahead (`InStep`).

**StreamLimits.** `LimitUnderway` is about a race: b must not take a limit for delivered that a does not have, neither because an ACK comes
late, nor because STREAMS_BLOCKED does. So the invariant follows what is said, in both directions: a limit under way is one that b has committed to, and the limit at which
STREAMS_BLOCKED says that a is blocked is one that a has reached, since limits only grow (`Truth`). Hence an acknowledged value is Concurrency or one that a
has (`Truth`), and if the latest is not among these, the frame that carries it is in flight or due again (`Announced`, which is `LimitUnderway` with nothing said of `a.ready`). That b never refuses a
stream needs that none is scheduled or sent above the limit that a knows (`Admitted`), which is no more than b's (`Numbers`). `WaitBeyondLimit` is inductive given that `open_blocked_streams`
takes from the list exactly its part below the new limit (`OpenBlockedIs`). That `b.pending` is set whenever MAX_STREAMS is due is kept by the frame itself: after it is sent there is no reason to
send another (`SendMaxStreamsInv`), as the ratio is below 1.

**DataCredit.** The race is that of `StreamLimits`, for each stream and the connection, in both directions: limits that are raised, and BLOCKED frames that are acknowledged. `Known` says of each
flow that what the receiver takes for acknowledged is at most what the sender has, and that at most what the receiver has committed to; that the latest limit, if the sender does not have it, is in flight
or marked lost; and that the receiver knows of a sender whose BLOCKED frame for the latest limit was acknowledged. `FramesKnown` says that no frame that is under way or has arrived claims more. `BlockedIsSaid` is
not inductive, as a stream may stop and go on between the steps that it speaks of: the invariant says what each state of a BLOCKED frame stands for whether
or not the flow is stopped (`SaysSo`), and that a flow that is stopped has said so (`StoppedSays`). The sender's part is stated for all streams but those of a set `X`, because within one call of the code
a stream is at times neither linked nor without data: `SendStream` and `SendFirst` leave it for the stream in hand, `Relinked` and `Resched` make up for it. Every stage of `do_send` keeps this
part and is `Onward`, that is, it changes no limit and acknowledges nothing, so that `SendS` is a chain of such stages; the receiver's stages are treated in the same way (`ReceiverInv`, `LimitsRaised`). The two lists of
the scheduler share no stream (`Apart`), and neither has one twice (`Once`); lemmas say what appending, joining, cutting and unlinking do to such lists, and that the streams that
`MoveWaiting` takes are a part at the front (`FrontIs`, by the least index that is not among them). After a limit is sent there is no reason to send another (`RecordIs`): with a lowered window too, for which the code
repeats the limit it announced before.

**ConnClose.** `ErrorsConveyed` needs that a CONNECTION_CLOSE under way tells the reason of the one that sent it (`Carries`), `WaitsAndEnds` what the
timers stand for in each state (`Timed`), and `AnswersBackOff` that an answer is owed at most once for each
power of two among the packets received (`BackedOff`).

Only model-checked:

- liveness (`AckSent`, `EndIsSeen`, `EndIsDelivered`): fairness is out of reach of the proof system;
- the B+ tree and the codecs: what their recursive algorithms compute for every input would take induction over data, which the
  provers cannot do;
- `ControllersSound`;
- `CountersAgree` of `DataCredit`: that a counter is the sum over the streams would take induction over finite sets;
- the properties of `Handshake` and `Datagrams`, which are mostly a matter of the cases that TLC enumerates: not proved.

## 6. What the checks found

Six places where the code does not do what an assertion, a comment or a test says. Each has
a run whose counterexample shows it.

1. `recv_state_empty`. A STREAM frame with neither data nor FIN ahead of the
   data charges the connection's credit, but does not count as allocated; the bytes are
   charged again when they arrive (`quicly.c:2486`).
2. `cid_exchange_primary`. With a peer that uses `retire_prior_to`, a validated path
   without CID may be promoted; the CID of the former primary path is then retired, and the
   assertion in `quicly_send` fails (`quicly.c:6085`).
3. `loss_recovery_tail`. With `num_speculative_ptos` > 0 (not the default), a stream whose data waits is reset and the
   next transmission is an ACK only: the tail is taken for a new one, and the alarm computed from a transmission long ago lies in the past,
   where `SET_ALARM` asserts otherwise (`loss.h:391`, `loss.h:357`). Without speculative PTOs `recovery` checks
   (`AlarmsAhead`) and `AlarmsStayAhead` proves that the assertion holds.
4. `cc_switch`. `switch_to` leaves the undo information of the former controller in place; when reno
   is switched to pico, an undo then restores an interval of zero bytes, with which the growth loop of
   `pico_on_acked` does not end (`cc-pico.c:1061`, `cc-pico.c:754`).
5. `datagrams_empty_cid`. The estimate of a long header counts the destination CID twice and one of the
   two length bytes; with a CID of length zero it is a byte short (`quicly.c:4134`), and the assertion at
   `quicly.c:4218` fails. The estimate also leaves out the byte with which a packet of one byte is padded when another is
   coalesced behind it (`quicly.c:3989`): behind a Handshake PING, with 21 bytes and the length of the CID left, the same assertion fails for a CID of any length. `SpaceGranted`
   of `send_state` excepts packets behind such a padded one, and says that they lack no more than that byte.
6. `ranges_next_missing`. `quicly_ranges_next_missing` skips what is missing below
   the first range (`ranges.c:212`), although `ranges.h:69` promises the next missing number from the lower
   bound on. From the first range on it does as it says: `FindsNextMissing`.

Observations without a run of their own, made while modelling:

- *Streams.* A FIN that was acknowledged is put back in flight when the
  data frame before it is retransmitted (`quicly.c:4753`), and scheduled again if that is lost: harmless, but not what `sendstate.c:206` says.
- *Duplicates.* `is_duplicate_pn` says of itself that packets pruned by ACK-ACKs may be mistaken for new ones (`quicly.c:1802`). So may others: when subtracting
  an acknowledged ACK leaves more ranges than there may be, `do_on_ack_ack` drops the lowest of them, covered by an ACK or not (`quicly.c:3410`), and when the packet that brought the
  acknowledgement, which was found new before, is then recorded below them, they are no longer too old to tell. With a limit of three ranges (64 in the code), packets that arrive in the order
  0, 3, 5, 6, 4, 2, 8, 1, where 1 acknowledges two ACKs, one of 0, 3 and 5 and one of 0 and 3 to 6, leave 1 and 8 in the queue, and 2, processed and never acknowledged, passes for new. The proof of `ProcessedOnce` led to this;
  it is why the property excepts `given_up`.
- *ACKs.* `update_smallest_unreported_missing_on_send_ack` subtracts the
  threshold from a packet number that may be smaller (`quicly.c:1753`); the result is close to 2^64 and
  switches off immediate ACKs for reordering until the threshold changes. The model does the same; no property of `PnSpace` fails for it, as an ACK
  is still sent after the delay.
- *Loss.* `loss_time` is not set for a 1-RTT packet behind an unacknowledged handshake packet; the PTO takes its place.
- *Congestion.* Switching from reno to cuback in Rapid Start's first recovery makes the assertion at `cc-pico.c:728` fail. `recovery` leaves out this
  switch and that of finding 4, and has all others between the five controllers; with fewer than four initial packets Rapid Start's floor is
  below `QUICLY_MIN_CWND`; at the minimum window an undo may shrink it.
- *Credit.* Raising a window with `quicly_stream_set_receive_window` schedules nothing until the next read or receipt.
- *Closing.* After a stateless reset `enter_close` asks to be called at once, but `do_send_closed` still waits four PTOs (`loss.h:471`).
  `constants.h:102` says that STATE_EXHAUSTION is sent as an internal error; `send_connection_close` sends PROTOCOL_VIOLATION.
- *Handshake.* 0-RTT packets that were rejected use up slots of delayed packets; a packet may exceed the amplification limit, by less than an MTU.
- *Formats.* With 16385 to 16388 bytes left, a CRYPTO frame is up to two bytes shorter than it could be; `min_ack_delay` is sent as the constant of the
  library, whatever was configured.

## 7. What is not modelled

- *Tokens, Retry's integrity, CID encryption, the crypto engine*: cryptography over opaque bytes. What a Retry does to the handshake is in `Handshake`.
- *TLS* is picotls, not part of this repository; `Handshake` has what quicly sees of it.
- *RTT, pacing and rate estimation*: arithmetic on clocks and counters. `LossRecovery` takes the RTT, `CongestionControl` the rates as given, and
  `Send` of `LossRecovery` may be held back by the pacer.
- *Storage of the sentmap*: blocks and the iterator over them; a packet is a record of a function.
- *Paths*: addresses, and the timers of path challenges.
- *Timeouts and limits of the handshake* (`handshake_timeout_rtt_multiplier`, `max_initial_handshake_packets`), which only close the connection.
- *Packets decrypted by the application* beforehand (`quicly_decoded_packet_t.decrypted`) in `KeyUpdate`.
- *Programs, examples, fuzzers, tracing*: users of the library. Of `cli.c` the server's matching of packets and connections is in `Handshake`.
- *Limit on the state of the send side*: `check_amount_of_state` (`sendstate.c:133`, called at 178 and 213) ends the connection with STATE_EXHAUSTION when
  `acked` and `pending` together have 256 ranges or more and hold little data. `SendState` never does. The limit on the receiver's ranges is modelled for streams,
  not for CRYPTO data.
- *Closing with 0-RTT keys only*: a client whose only keys beyond Initial are those of 0-RTT also sends CONNECTION_CLOSE in a 0-RTT packet (`quicly.c:6043` goes through all epochs); `ConnClose` has
  Initial, Handshake and 1-RTT.
- *Order of fields in frames*: `FramesRead` has encoder and decoder from the one list of fields that `Formats` is, so that it shows lengths, counts and what is
  optional to agree; were one of the two C functions to swap two fields of the same kind, it would not show.
- Failing allocations: they close the connection.

## 8. The plan

Done: streams (`SendState`, `RecvState`, `StreamTransfer`), ranges, packet numbers, CIDs; then loss recovery, congestion control, flow
control and stream limits, the tree of ranges, handshake, key update, closing, datagrams and formats. Left:

1. Proofs: the handshake and datagrams. Done: the streams with the refinement of `StreamService`, ranges,
   packet numbers, loss recovery, connection IDs, stream limits and credit, key update, closing.
2. Abstract specifications: of credit (what is consumed, held and returned) for `RecvState` and `DataCredit`; of the
   packet number space (each packet handled at most once).
3. The application's stream buffer (`streambuf.c`), path validation timers, and the pacer.
