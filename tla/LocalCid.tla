------------------------------ MODULE LocalCid ------------------------------
(***************************************************************************)
(* The connection IDs that an endpoint issues (lib/local_cid.c): the array *)
(* of CIDs, with those to be sent at its front, the NEW_CONNECTION_ID      *)
(* frames in the sentmap, and RETIRE_CONNECTION_ID, which takes one CID    *)
(* away and makes room for another.                                        *)
(*                                                                         *)
(* A CID and its stateless reset token are the encryption of its sequence  *)
(* number (generate_cid), which stands for both.                           *)
(***************************************************************************)
EXTENDS Integers, FiniteSetsExt, SequencesExt

CONSTANTS
  None,       \* UINT64_MAX: no sequence number
  LocalSize,  \* local_cid_size: how many CIDs the peer is given
  MaxPathId,  \* QUICLY_MAX_PATH_ID: how many CIDs a connection may issue
  MaxLost     \* bound: lost frames whose packets are kept for a late ACK

VARIABLES
  cids,       \* the array: state and sequence number of each CID
  path_id,    \* plaintext.path_id: the next sequence number
  others,     \* QUICLY_PENDING_FLOW_OTHERS_BIT
  inflight,   \* sequence numbers of NEW_CONNECTION_ID frames in the sentmap
  lost,       \* those in it that have been deemed lost already
  error,      \* the transport error raised by a RETIRE_CONNECTION_ID
  marked      \* history: the pending CIDs in the order they became so

State == {"IDLE", "PENDING", "INFLIGHT", "DELIVERED"}
Sequence == 0 .. MaxPathId - 1

IsPending(set, i) == set[i].state = "PENDING"
PendingOf(set) == {i \in DOMAIN set : IsPending(set, i)}
has_pending(set) == IsPending(set, 1)

Active(set) == {set[i].sequence : i \in {j \in DOMAIN set : set[j].state # "IDLE"}}

Find(sequence) == {i \in DOMAIN cids : cids[i].sequence = sequence}

-----------------------------------------------------------------------------
(* The array *)

swap_cids(set, i, j) == [set EXCEPT ![i] = set[j], ![j] = set[i]]

\* faulty: a CID that has become pending jumps the queue
do_mark_pending_Jump(set, idx) ==
  swap_cids([set EXCEPT ![idx].state = "PENDING"], idx, 1)

\* the CID changes places with the first one that is not pending
do_mark_pending(set, idx) ==
  LET pending == [set EXCEPT ![idx].state = "PENDING"]
      ahead == {j \in 1 .. idx - 1 : ~ IsPending(pending, j)}
  IN  IF ahead = {} THEN pending ELSE swap_cids(pending, idx, Min(ahead))

\* the CID at idx moves behind the pending ones that follow it; where it ends up
Behind(set, idx) ==
  Max({k \in idx .. Len(set) : \A j \in idx + 1 .. k : IsPending(set, j)})

MoveBehind(set, idx) ==
  [i \in DOMAIN set |->
     IF i = Behind(set, idx) THEN set[idx]
     ELSE IF i \in idx .. Behind(set, idx) - 1 THEN set[i + 1]
     ELSE set[i]]

do_mark_delivered(set, idx) ==
  IF IsPending(set, idx)
  THEN [MoveBehind(set, idx) EXCEPT ![Behind(set, idx)].state = "DELIVERED"]
  ELSE [set EXCEPT ![idx].state = "DELIVERED"]

\* quicly_local_cid_on_sent: the first n are on their way, and the pending ones
\* after them move to the front.  Each of these changes places with the CID n
\* places before it, so that those sent end up rotated, by how much `turn` says.
on_sent(set, n) ==
  LET rest == IF n < Len(set) /\ IsPending(set, n + 1)
              THEN Behind(set, n + 1) - n ELSE 0
      turn == rest % n
      Sent(i) == [set[i] EXCEPT !.state = "INFLIGHT"]
  IN  [i \in DOMAIN set |->
         IF i <= rest THEN set[i + n]
         ELSE IF i <= rest + n - turn THEN Sent(i - rest + turn)
         ELSE IF i <= rest + n THEN Sent(i - rest + turn - n)
         ELSE set[i]]

\* generate_cid and do_mark_pending, unless all sequence numbers are used up
Issue(set, idx, id) ==
  IF id >= MaxPathId THEN set
  ELSE do_mark_pending([set EXCEPT ![idx].sequence = id], idx)

-----------------------------------------------------------------------------
(* The operations *)

\* quicly_local_cid_init_set: the CID that the handshake conveys
Init ==
  /\ cids = <<[state |-> "DELIVERED", sequence |-> 0]>>
  /\ path_id = 1
  /\ others = FALSE
  /\ inflight = {} /\ lost = {}
  /\ error = "none"
  /\ marked = <<>>

Running == error = "none"

\* update_traffic_key_cb, on the 1-RTT write key: quicly_local_cid_set_size.
\* Each new CID becomes pending, and so the first one moves back behind them.
SetSize ==
  LET last == Min({LocalSize, MaxPathId})
  IN  /\ Running /\ Len(cids) = 1
      /\ cids' = [i \in 1 .. LocalSize |->
                    IF i < last THEN [state |-> "PENDING", sequence |-> i]
                    ELSE IF i = last THEN cids[1]
                    ELSE [state |-> "IDLE", sequence |-> None]]
      /\ path_id' = last
      /\ others' = (others \/ last > 1)
      /\ marked' = [k \in 1 .. last - 1 |-> k]
      /\ UNCHANGED <<inflight, lost, error>>

\* faulty: the bit goes down although some of the frames did not fit
FlowsAfterSend_Always(bit, left) == FALSE

\* do_send: the bit goes down when send_other_control_frames has sent all; that
\* it may stay up for the sake of other frames is left out
FlowsAfterSend(bit, left) == bit /\ left

\* send_other_control_frames, the NEW_CONNECTION_ID frames: as many as there is
\* room for
SendNewConnectionIds(n) ==
  /\ Running /\ n <= Cardinality(PendingOf(cids))
  /\ cids' = on_sent(cids, n)
  /\ inflight' = inflight \union {cids[i].sequence : i \in 1 .. n}
  /\ others' = FlowsAfterSend(others, n < Cardinality(PendingOf(cids)))
  /\ marked' = SubSeq(marked, n + 1, Len(marked))
  /\ UNCHANGED <<path_id, lost, error>>

\* on_ack_new_connection_id, acked: quicly_local_cid_on_acked.  The packet may
\* have been deemed lost before.
Acked(sequence) ==
  /\ Running /\ sequence \in inflight \union lost
  /\ cids' = IF Find(sequence) = {} THEN cids
             ELSE do_mark_delivered(cids, Min(Find(sequence)))
  /\ \/ sequence \in inflight /\ inflight' = inflight \ {sequence}
          /\ UNCHANGED lost
     \/ sequence \in lost /\ lost' = lost \ {sequence} /\ UNCHANGED inflight
  /\ marked' = RemoveFirst(marked, sequence)
  /\ UNCHANGED <<path_id, others, error>>

\* quicly_local_cid_on_lost: the CID is to be sent again
LostAgain(set, i) == set[i].state # "DELIVERED"

\* on_ack_new_connection_id, lost or PTO: quicly_local_cid_on_lost.  The entry
\* stays for a late ACK, or goes with its packet.
Lost(sequence, keep) ==
  LET at == Find(sequence)
      again == at # {} /\ LostAgain(cids, Min(at))
  IN  /\ Running /\ sequence \in inflight
      /\ keep => Cardinality(lost) < MaxLost
      /\ inflight' = inflight \ {sequence}
      /\ lost' = IF keep THEN lost \union {sequence} ELSE lost
      /\ cids' = IF again THEN do_mark_pending(cids, Min(at)) ELSE cids
      /\ others' = (others \/ again \/ has_pending(cids))
      /\ marked' = IF again /\ ~ IsPending(cids, Min(at))
                   THEN Append(marked, sequence) ELSE marked
      /\ UNCHANGED <<path_id, error>>

Expire(sequence) ==
  /\ Running /\ sequence \in lost /\ lost' = lost \ {sequence}
  /\ UNCHANGED <<cids, path_id, others, inflight, error, marked>>

\* quicly_local_cid_retire: the array after the one at idx is gone
Vacated(idx) ==
  MoveBehind([cids EXCEPT ![idx] = [state |-> "IDLE", sequence |-> None]], idx)

\* handle_retire_connection_id_frame
ReceiveRetire(sequence) ==
  LET at == {i \in Find(sequence) : cids[i].state # "IDLE"}
      hole == Behind(cids, Min(at))
      new == Issue(Vacated(Min(at)), hole, path_id)
      issued == path_id < MaxPathId
      kept == RemoveFirst(marked, sequence)
  IN  /\ Running
      /\ UNCHANGED <<inflight, lost>>
      /\ IF sequence >= path_id \/ (at # {} /\ Active(cids) = {sequence})
         THEN /\ error' = "PROTOCOL_VIOLATION"
              /\ UNCHANGED <<cids, path_id, others, marked>>
         ELSE /\ cids' = IF at = {} THEN cids ELSE new
              /\ path_id' = IF at # {} /\ issued THEN path_id + 1 ELSE path_id
              /\ others' = (others \/ has_pending(cids'))
              /\ marked' = IF at # {} /\ issued THEN Append(kept, path_id)
                           ELSE kept
              /\ UNCHANGED error

-----------------------------------------------------------------------------
(* Properties *)

\* Types of the array and of what the sentmap holds; after set_size the array
\* has LocalSize elements for good.
TypeOK ==
  /\ Len(cids) \in {1, LocalSize}
  /\ \A i \in DOMAIN cids :
       cids[i] \in [state : State, sequence : Sequence \union {None}]
  /\ path_id \in 1 .. MaxPathId
  /\ others \in BOOLEAN
  /\ inflight \subseteq Sequence /\ lost \subseteq Sequence
  /\ error \in {"none", "PROTOCOL_VIOLATION"}
  /\ marked \in Seq(Sequence)

\* The header's comment: pending CIDs are at the front of the array, in the
\* order in which they became pending, through every sequence of losses,
\* late ACKs, partial transmissions and retirements; so that
\* send_other_control_frames, which stops at the first CID that is not
\* pending, overlooks none and sends the one that has waited longest.
PendingInFront ==
  /\ PendingOf(cids) = 1 .. Len(marked)
  /\ \A i \in DOMAIN marked : cids[i].sequence = marked[i]

\* A CID that has been issued and not retired is to be sent, and the send loop
\* knows; or it is in a packet whose fate is open; or it was acknowledged.
NoCidForgotten ==
  \A i \in DOMAIN cids :
    /\ cids[i].state = "PENDING" => others
    /\ cids[i].state = "INFLIGHT" => cids[i].sequence \in inflight
=============================================================================
