------------------------------ MODULE RemoteCid ------------------------------
(***************************************************************************)
(* The connection IDs that an endpoint has been given (lib/remote_cid.c),  *)
(* the paths that use them (lib/quicly.c) and the RETIRE_CONNECTION_ID     *)
(* frames that give them back.                                             *)
(*                                                                         *)
(* The array of slots is the function from the sequence numbers in it to   *)
(* their states, the queue `retired` the set of its entries: the order of  *)
(* either decides nothing but which frame leaves first.  A CID and its     *)
(* token are determined by the sequence number (generate_cid), so that     *)
(* NEW_CONNECTION_ID frames do not contradict one another.  CIDs of length *)
(* zero, which do without all this, are left out.                          *)
(***************************************************************************)
EXTENDS Integers, FiniteSetsExt

CONSTANTS
  None,          \* UINT64_MAX: no sequence number
  Slots,         \* QUICLY_LOCAL_ACTIVE_CONNECTION_ID_LIMIT, also of paths
  MaxRetired     \* capacity of the queue: twice as many

VARIABLES
  slots,                      \* the states of the CIDs held or expected
  largest_sequence_expected,
  retired,                    \* sequence numbers to be sent in RETIRE frames
  paths,                      \* state and dcid of each path
  others,                     \* QUICLY_PENDING_FLOW_OTHERS_BIT
  inflight,                   \* RETIRE_CONNECTION_ID frames in the sentmap
  error                       \* what closed the connection

Path == 0 .. Slots - 1

\* of a path: no path, PATH_CHALLENGE to be sent, sent, answered
PathState == {"NULL", "NEW", "PROBED", "VALIDATED"}

NoPath == [state |-> "NULL", probe_only |-> TRUE, dcid |-> None]
NewPath == [state |-> "NEW", probe_only |-> TRUE, dcid |-> None]

InState(held, state) == {s \in DOMAIN held : held[s] = state}

\* the fields of quicly_remote_cid_set_t as one value, for functions of it
CidSet == [slots |-> slots, largest |-> largest_sequence_expected,
           retired |-> retired]

SetTo(set) ==
  /\ slots' = set.slots
  /\ largest_sequence_expected' = set.largest
  /\ retired' = set.retired

\* quicly_remote_cid_push_retired fails
Exhausted(set) == Cardinality(set.retired) > MaxRetired

-----------------------------------------------------------------------------
(* quicly_remote_cid_set_t *)

\* do_unregister, of all sequence numbers in `gone` and those below `prior` whose
\* turn would come: each slot is reserved for the next sequence number
Unregistered(set, gone, prior) ==
  LET skipped == IF gone = {} THEN {} ELSE set.largest + 1 .. prior - 1
      from == Max({set.largest, prior - 1})
      next == IF gone = {} THEN {} ELSE from + 1 .. from + Cardinality(gone)
  IN  [slots |-> [s \in (DOMAIN set.slots \ gone) \union next |->
                    IF s \in next THEN "UNAVAILABLE" ELSE set.slots[s]],
       largest |-> IF gone = {} THEN set.largest ELSE Max(next),
       retired |-> set.retired \union gone \union skipped]

\* unregister_prior_to
PriorTo(set, prior) ==
  Unregistered(set, {s \in DOMAIN set.slots : s < prior}, prior)

\* faulty: takes a CID that has been retired for a new one
Registered_Retired(set, sequence) ==
  [set EXCEPT !.slots = [s \in DOMAIN @ \union {sequence} |->
     IF s = sequence /\ s \notin InState(@, "IN_USE") THEN "AVAILABLE" ELSE @[s]]]

\* do_register: a slot waits for the CID, or else it is a copy or retired already
Registered(set, sequence) ==
  [set EXCEPT !.slots = [s \in DOMAIN @ |->
     IF s = sequence /\ @[s] = "UNAVAILABLE" THEN "AVAILABLE" ELSE @[s]]]

\* faulty: one less
BeyondLimit_One(set, sequence) == sequence >= set.largest

\* do_register: more CIDs than there is room for
BeyondLimit(set, sequence) == sequence > set.largest

-----------------------------------------------------------------------------
(* Paths and their CIDs *)

\* faulty: keeps the CID
Dissociated_Keeps(map, gone) == map

\* dissociate_cid
Dissociated(map, gone) ==
  [i \in Path |-> IF map[i].dcid \in gone THEN [map[i] EXCEPT !.dcid = None]
                  ELSE map[i]]

\* setup_path_dcid: the available CID with the smallest sequence number
DcidFor(held) ==
  IF InState(held, "AVAILABLE") = {} THEN None
  ELSE Min(InState(held, "AVAILABLE"))

\* faulty: retires the CID and keeps it for the next path
Released_Reused(set, path) ==
  IF path.dcid = None THEN set
  ELSE [set EXCEPT !.slots[path.dcid] = "AVAILABLE",
                   !.retired = @ \union {path.dcid}]

\* do_delete_path: the CID of a path that is given up is retired
Released(set, path) ==
  IF path.dcid = None THEN set ELSE Unregistered(set, {path.dcid}, 0)

\* the connection ends when the queue is full
Close(set) == error' = IF Exhausted(set) THEN "STATE_EXHAUSTION" ELSE "none"

-----------------------------------------------------------------------------
(* Receiving *)

Running == error = "none"

\* quicly_remote_cid_init_set, new_path
Init ==
  /\ slots = [s \in 0 .. Slots - 1 |-> IF s = 0 THEN "IN_USE" ELSE "UNAVAILABLE"]
  /\ largest_sequence_expected = Slots - 1
  /\ retired = {}
  /\ paths = [i \in Path |->
                IF i = 0 THEN [state |-> "VALIDATED", probe_only |-> FALSE,
                               dcid |-> 0]
                ELSE NoPath]
  /\ others = FALSE
  /\ inflight = {}
  /\ error = "none"

\* handle_new_connection_id_frame; an error leaves the set as it was
ReceiveNewConnectionId(sequence, retire_prior_to) ==
  LET set == PriorTo(CidSet, retire_prior_to)
  IN  /\ Running
      /\ UNCHANGED inflight
      /\ IF Exhausted(set) \/ BeyondLimit(set, sequence)
         THEN /\ error' = IF Exhausted(set) THEN "STATE_EXHAUSTION"
                          ELSE "CONNECTION_ID_LIMIT"
              /\ UNCHANGED <<slots, largest_sequence_expected, retired, paths,
                             others>>
         ELSE /\ SetTo(Registered(set, sequence))
              /\ paths' = Dissociated(paths, set.retired \ retired)
              /\ others' = (others \/ set.retired # retired)
              /\ UNCHANGED error

\* quicly_receive, a packet from an address that is not known: open_path takes
\* an empty slot, or else that of a validated path, whichever has been silent
\* longest; if there is neither the packet is dropped
OpenPath(i) ==
  LET empty == {j \in Path \ {0} : paths[j].state = "NULL"}
      set == Released(CidSet, paths[i])
  IN  /\ Running /\ i # 0
      /\ IF empty = {} THEN paths[i].state = "VALIDATED" ELSE i = Min(empty)
      /\ SetTo(set) /\ Close(set)
      /\ paths' = [paths EXCEPT ![i] = NewPath]
      /\ others' = (others \/ paths[i].dcid # None)
      /\ UNCHANGED inflight

\* quicly_receive, a packet on path i, that may carry the PATH_RESPONSE and more
\* than probing frames; promote_path, if it is valid now and not for probing
ReceiveOnPath(i, response, non_probing) ==
  LET path == [paths[i] EXCEPT
                 !.state = IF response THEN "VALIDATED" ELSE @,
                 !.probe_only = @ /\ ~ non_probing]
      promote == path.state = "VALIDATED" /\ ~ path.probe_only
      set == IF promote THEN Released(CidSet, paths[0]) ELSE CidSet
  IN  /\ Running /\ i # 0 /\ paths[i].state # "NULL"
      /\ response => paths[i].state = "PROBED"
      /\ SetTo(set) /\ Close(set)
      /\ paths' = IF promote THEN [paths EXCEPT ![0] = path, ![i] = NoPath]
                  ELSE [paths EXCEPT ![i] = path]
      /\ others' = (others \/ (promote /\ paths[0].dcid # None))
      /\ UNCHANGED inflight

-----------------------------------------------------------------------------
(* Sending *)

\* quicly_send: the primary path is given a CID first, if it has none
PrimaryDcid == IF paths[0].dcid = None THEN DcidFor(slots) ELSE paths[0].dcid

WithPrimary ==
  [CidSet EXCEPT !.slots = [s \in DOMAIN @ |->
                              IF s = PrimaryDcid THEN "IN_USE" ELSE @[s]]]

PathsWithPrimary == [paths EXCEPT ![0].dcid = PrimaryDcid]

\* quicly_send, one backup path that has to be probed or answered.  It is given
\* a CID if it has none, and given up if there is none to give.
SendProbe(i) ==
  LET held == WithPrimary.slots
      dcid == IF paths[i].dcid = None THEN DcidFor(held) ELSE paths[i].dcid
      path == [paths[i] EXCEPT !.dcid = dcid,
                               !.state = IF @ = "NEW" THEN "PROBED" ELSE @]
  IN  /\ Running /\ i # 0 /\ paths[i].state # "NULL"
      /\ PrimaryDcid # None                 \* assertion
      /\ SetTo([WithPrimary EXCEPT !.slots =
                  [s \in DOMAIN @ |-> IF s = dcid THEN "IN_USE" ELSE @[s]]])
      /\ paths' = [PathsWithPrimary EXCEPT ![i] =
                     IF dcid = None THEN NoPath ELSE path]
      /\ UNCHANGED <<others, inflight, error>>

\* quicly_send, more than max_probe_packets were sent in vain: delete_path
GiveUpPath(i) ==
  LET set == Released(WithPrimary, paths[i])
  IN  /\ Running /\ i # 0 /\ paths[i].state \in {"PROBED", "VALIDATED"}
      /\ PrimaryDcid # None
      /\ SetTo(set) /\ Close(set)
      /\ paths' = [PathsWithPrimary EXCEPT ![i] = NoPath]
      /\ others' = (others \/ paths[i].dcid # None)
      /\ UNCHANGED inflight

\* do_send: the bit goes down when send_other_control_frames has sent all
FlowsAfterSend(bit, left) == bit /\ left

\* do_send on the primary path, the RETIRE_CONNECTION_ID frames: as many as
\* there is room for
SendRetire(sent) ==
  /\ Running /\ sent \subseteq retired
  /\ PrimaryDcid # None
  /\ SetTo([WithPrimary EXCEPT !.retired = @ \ sent])
  /\ paths' = PathsWithPrimary
  /\ inflight' = inflight \union sent
  /\ others' = FlowsAfterSend(others, sent # retired)
  /\ UNCHANGED error

\* on_ack_retire_connection_id, acked
RetireAcked(sequence) ==
  /\ Running /\ sequence \in inflight
  /\ inflight' = inflight \ {sequence}
  /\ UNCHANGED <<slots, largest_sequence_expected, retired, paths, others, error>>

\* faulty: a frame that was lost is not sent again
Requeued_Not(set, sequence) == set

\* quicly_remote_cid_push_retired
Requeued(set, sequence) == [set EXCEPT !.retired = @ \union {sequence}]

\* on_ack_retire_connection_id, lost or PTO
RetireLost(sequence) ==
  LET set == Requeued(CidSet, sequence)
  IN  /\ Running /\ sequence \in inflight
      /\ inflight' = inflight \ {sequence}
      /\ SetTo(IF Exhausted(set) THEN CidSet ELSE set) /\ Close(set)
      /\ others' = (others \/ ~ Exhausted(set))
      /\ UNCHANGED paths

-----------------------------------------------------------------------------
(* Properties *)

\* Types; every slot waits for or holds exactly one sequence number, none of
\* them above the largest that is expected (quicly_remote_cid_set_t).
TypeOK ==
  /\ largest_sequence_expected \in Nat
  /\ DOMAIN slots \subseteq 0 .. largest_sequence_expected
  /\ Cardinality(DOMAIN slots) = Slots
  /\ \A s \in DOMAIN slots : slots[s] \in {"UNAVAILABLE", "IN_USE", "AVAILABLE"}
  /\ retired \subseteq 0 .. largest_sequence_expected
  /\ \A i \in Path : /\ paths[i].state \in PathState
                     /\ paths[i].probe_only \in BOOLEAN
                     /\ paths[i].dcid = None \/ paths[i].dcid \in Nat
  /\ others \in BOOLEAN
  /\ inflight \subseteq 0 .. largest_sequence_expected
  /\ error \in {"none", "STATE_EXHAUSTION", "CONNECTION_ID_LIMIT"}

\* Paths and CIDs match (setup_path_dcid, dissociate_cid, do_delete_path): the
\* CID of a path is in a slot and marked as used, no two paths share one, and
\* no CID stays marked as used when its path is gone, however probing,
\* promotion, deletion and retire_prior_to follow one another.  With it, the
\* assertions "CID lookup failure" and "invalid CID sequence number" hold.
PathsHoldCids ==
  /\ \A i, j \in Path : i # j /\ paths[i].dcid # None
                          => paths[i].dcid # paths[j].dcid
  /\ {paths[i].dcid : i \in Path} \ {None} = InState(slots, "IN_USE")

\* The comment and the assertion in quicly_send: the primary path can always be
\* given a CID, "as the protocol guarantees that there will always be at
\* least one non-retired CID available".
PrimaryHasCid == Running => PrimaryDcid # None
=============================================================================
