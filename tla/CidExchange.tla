----------------------------- MODULE CidExchange -----------------------------
(***************************************************************************)
(* An endpoint that issues connection IDs (LocalCid), its peer that uses   *)
(* them (RemoteCid), and a network that loses, delays and reorders.  What  *)
(* was sent once may arrive at any later time and, as both ends retransmit,*)
(* any number of times.                                                    *)
(*                                                                         *)
(* quicly sends a retire_prior_to of zero; another implementation as issuer*)
(* may ask for more, up to RetireLimit.                                    *)
(***************************************************************************)
EXTENDS Integers, FiniteSets

CONSTANTS None, LocalSize, MaxPathId, Slots, MaxRetired,
  MaxLost,       \* bound: see LocalCid
  RetireLimit    \* the largest retire_prior_to that the issuer asks for

ASSUME SizeAssumption ==
  /\ LocalSize \in Nat /\ LocalSize >= 2
  /\ Slots \in Nat /\ Slots >= LocalSize
  /\ MaxRetired \in Nat
  /\ MaxPathId \in Nat \ {0}
  /\ RetireLimit \in Nat /\ MaxLost \in Nat
  /\ None \notin Nat

VARIABLES
  \* the issuer
  cids, path_id, others, inflight, lost, error, marked,
  \* its peer
  slots, largest_sequence_expected, retired, paths, r_others, r_inflight,
  r_error,
  \* the network
  ask,           \* NEW_CONNECTION_ID: retire_prior_to of each that was sent
  arrived,       \* those that have arrived
  given_back,    \* RETIRE_CONNECTION_ID frames sent
  taken_back     \* those that have arrived

L == INSTANCE LocalCid
R == INSTANCE RemoteCid WITH others <- r_others, inflight <- r_inflight,
                             error <- r_error

issuer == <<cids, path_id, others, inflight, lost, error, marked>>
peer == <<slots, largest_sequence_expected, retired, paths, r_others,
          r_inflight, r_error>>
vars == <<issuer, peer, ask, arrived, given_back, taken_back>>

Init == L!Init /\ R!Init /\ ask = <<>> /\ arrived = {}
          /\ given_back = {} /\ taken_back = {}

-----------------------------------------------------------------------------
(* The issuer *)

\* what the frames sent now ask for: nothing, or to retire all that came before;
\* one that is sent again asks for the same
AskFor(sent) ==
  {f \in [DOMAIN ask \union sent -> 0 .. RetireLimit] :
     /\ \A s \in DOMAIN ask : f[s] = ask[s]
     /\ \A s \in sent \ DOMAIN ask : f[s] \in {0, s}}

SendNewConnectionIds ==
  /\ \E n \in 1 .. LocalSize : L!SendNewConnectionIds(n)
  /\ ask' \in AskFor(inflight' \ inflight)
  /\ UNCHANGED <<peer, arrived, given_back, taken_back>>

IssuerStep ==
  /\ \/ L!SetSize
     \/ \E s \in arrived : L!Acked(s)
     \/ \E s \in inflight, keep \in BOOLEAN : L!Lost(s, keep)
     \/ \E s \in lost : L!Expire(s)
  /\ UNCHANGED <<peer, ask, arrived, given_back, taken_back>>

\* a RETIRE_CONNECTION_ID arrives
TakeBack(s) ==
  /\ L!ReceiveRetire(s)
  /\ taken_back' = taken_back \union {s}
  /\ UNCHANGED <<peer, ask, arrived, given_back>>

-----------------------------------------------------------------------------
(* Its peer *)

\* a NEW_CONNECTION_ID arrives
Arrive(s) ==
  /\ R!ReceiveNewConnectionId(s, ask[s])
  /\ arrived' = arrived \union {s}
  /\ UNCHANGED <<issuer, ask, given_back, taken_back>>

PathStep ==
  /\ \E i \in R!Path :
       \/ R!OpenPath(i)
       \/ \E response, non_probing \in BOOLEAN :
            R!ReceiveOnPath(i, response, non_probing)
       \/ R!SendProbe(i)
       \/ R!GiveUpPath(i)
  /\ UNCHANGED <<issuer, ask, arrived, given_back, taken_back>>

SendRetire ==
  /\ \E sent \in SUBSET retired :
       /\ R!SendRetire(sent)
       /\ given_back' = given_back \union sent
  /\ UNCHANGED <<issuer, ask, arrived, taken_back>>

RetireStep ==
  /\ \E s \in r_inflight : (s \in taken_back /\ R!RetireAcked(s)) \/ R!RetireLost(s)
  /\ UNCHANGED <<issuer, ask, arrived, given_back, taken_back>>

Next ==
  \/ SendNewConnectionIds
  \/ IssuerStep
  \/ \E s \in given_back : TakeBack(s)
  \/ \E s \in DOMAIN ask : Arrive(s)
  \/ PathStep
  \/ SendRetire
  \/ RetireStep

Spec == Init /\ [][Next]_vars

-----------------------------------------------------------------------------
(* Properties *)

\* Types of the two endpoints; what arrives was sent.
TypeOK ==
  /\ L!TypeOK /\ R!TypeOK
  /\ arrived \subseteq DOMAIN ask /\ DOMAIN ask \subseteq L!Sequence
  /\ taken_back \subseteq given_back

\* The issuer's CIDs to be sent are at the front of its array, oldest first
\* (local_cid.c).
PendingInFront == L!PendingInFront

\* The issuer forgets no CID that it has yet to convey (local_cid.c).
NoCidForgotten == L!NoCidForgotten

\* At the peer, paths and CIDs in use match (remote_cid.c, quicly.c).
PathsHoldCids == R!PathsHoldCids

\* At the peer, the primary path can always be given a CID (quicly_send).
PrimaryHasCid == R!PrimaryHasCid

\* Neither endpoint accuses the other: the issuer never exceeds the number of
\* CIDs its peer has room for (CONNECTION_ID_LIMIT), and the peer never gives back
\* a CID that was not issued or the only one (PROTOCOL_VIOLATION), whatever is
\* lost, repeated and reordered and also when all sequence numbers are used up.
\* Of the CIDs that the peer is giving back, at most LocalSize are news to the
\* issuer: its queue overflows (STATE_EXHAUSTION) only with frames that arrived
\* and were deemed lost nevertheless.
NoFalseAccusation ==
  /\ error = "none" /\ r_error # "CONNECTION_ID_LIMIT"
  /\ Cardinality((retired \union r_inflight) \ taken_back) <= LocalSize

\* A CID that the peer sends packets with, or may begin to, is one that the
\* issuer has not taken out of its set.
UsableIsActive ==
  R!InState(slots, "IN_USE") \union R!InState(slots, "AVAILABLE")
    \subseteq L!Active(cids)

\* No retirement is forgotten: a sequence number that the peer has let go of is
\* to be sent, and the send loop knows, or is in a packet whose fate is
\* open, or the issuer has been told; so that it can issue another.
NoRetirementForgotten ==
  /\ r_error = "none" =>
       0 .. largest_sequence_expected
         = DOMAIN slots \union retired \union r_inflight \union taken_back
  /\ retired # {} => r_others

\* Nothing that one endpoint owes the other is forgotten, whatever frames are
\* lost: a CID that is to be conveyed keeps its place in the issuer's array
\* (local_cid.c), and every sequence number the peer has let go of is given back
\* (retire_connection_id, on_ack_retire_connection_id).
NothingForgotten == PendingInFront /\ NoCidForgotten /\ NoRetirementForgotten

\* Paths and CIDs match at both ends: each path of the peer has a CID of its own
\* that the issuer still answers to (quicly_remote_cid_register,
\* dissociate_cid, quicly_local_cid_retire).
PathsAndCids == PathsHoldCids /\ UsableIsActive
=============================================================================
