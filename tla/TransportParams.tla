-------------------------- MODULE TransportParams --------------------------
(* quicly_encode_transport_parameter_list and its counterpart: a list of    *)
(* parameters, each with its identifier and value.  Parameters that equal   *)
(* the default are left out; those that only tell a constant of quicly      *)
(* (max_ack_delay, ack_delay_exponent, the limit on CIDs) take their value  *)
(* from it.                                                                 *)
EXTENDS Naturals, FiniteSets, SequencesExt

CONSTANTS Unset     \* UINT64_MAX, a CID of length UINT8_MAX, a NULL pointer

QUICLY_DEFAULT_MAX_ACK_DELAY == 25
QUICLY_LOCAL_MAX_ACK_DELAY == 25
QUICLY_DEFAULT_ACTIVE_CONNECTION_ID_LIMIT == 2
QUICLY_LOCAL_ACTIVE_CONNECTION_ID_LIMIT == 4
QUICLY_MIN_ACTIVE_CONNECTION_ID_LIMIT == 2
QUICLY_DEFAULT_MAX_UDP_PAYLOAD_SIZE == 65527
QUICLY_DEFAULT_ACK_DELAY_EXPONENT == 3
QUICLY_LOCAL_ACK_DELAY_EXPONENT == 3
UINT16_MAX == 65535

default_transport_params ==
    [max_udp_payload_size |-> QUICLY_DEFAULT_MAX_UDP_PAYLOAD_SIZE, bidi_local |-> 0, bidi_remote |-> 0, uni |-> 0, max_data |-> 0,
     max_idle_timeout |-> 0, max_streams_bidi |-> 0, max_streams_uni |-> 0, ack_delay_exponent |-> QUICLY_DEFAULT_ACK_DELAY_EXPONENT,
     max_ack_delay |-> QUICLY_DEFAULT_MAX_ACK_DELAY, min_ack_delay_usec |-> Unset,
     active_connection_id_limit |-> QUICLY_DEFAULT_ACTIVE_CONNECTION_ID_LIMIT,
     disable_active_migration |-> FALSE, reset_stream_at |-> FALSE, max_datagram_frame_size |-> 0]

(* Parameters that are sent as they are, unless they are zero.              *)
Plain == <<"bidi_local", "bidi_remote", "uni", "max_data", "max_idle_timeout", "max_streams_bidi", "max_streams_uni",
           "max_datagram_frame_size">>
Flags == <<"disable_active_migration", "reset_stream_at">>
CidParams == <<"original_dcid", "initial_scid", "retry_scid">>

Tp(id, v) == [id |-> id, v |-> v]
PushIf(cond, id, v) == IF cond THEN <<Tp(id, v)>> ELSE <<>>

(* cids: the three CIDs, Unset where a NULL pointer is passed.              *)
encode_transport_parameter_list(params, cids, stateless_reset_token, expand_by) ==
    PushIf(TRUE, "max_udp_payload_size", params.max_udp_payload_size)
    \o FlattenSeq([i \in DOMAIN Plain |-> PushIf(params[Plain[i]] # 0, Plain[i], params[Plain[i]])])
    \o FlattenSeq([i \in DOMAIN CidParams |-> PushIf(cids[CidParams[i]] # Unset, CidParams[i], cids[CidParams[i]])])
    \o PushIf(stateless_reset_token # Unset, "stateless_reset_token", stateless_reset_token)
    \o PushIf(QUICLY_LOCAL_ACK_DELAY_EXPONENT # QUICLY_DEFAULT_ACK_DELAY_EXPONENT,
              "ack_delay_exponent", QUICLY_LOCAL_ACK_DELAY_EXPONENT)
    \o PushIf(QUICLY_LOCAL_MAX_ACK_DELAY # QUICLY_DEFAULT_MAX_ACK_DELAY, "max_ack_delay", QUICLY_LOCAL_MAX_ACK_DELAY)
    \o PushIf(params.min_ack_delay_usec # Unset, "min_ack_delay_usec", QUICLY_LOCAL_MAX_ACK_DELAY * 1000)
    \o FlattenSeq([i \in DOMAIN Flags |-> PushIf(params[Flags[i]], Flags[i], TRUE)])
    \o PushIf(QUICLY_LOCAL_ACTIVE_CONNECTION_ID_LIMIT # QUICLY_DEFAULT_ACTIVE_CONNECTION_ID_LIMIT,
              "active_connection_id_limit", QUICLY_LOCAL_ACTIVE_CONNECTION_ID_LIMIT)
    \o PushIf(expand_by, "grease", 0)

----------------------------------------------------------------------------
(* What a caller passes for a CID or the reset token: "want" a variable,    *)
(* "ignore" &tp_cid_ignore, "null" a NULL pointer.                          *)
AtMost(v, limit) == IF v > limit THEN limit ELSE v

(* The value of a parameter is admissible.                                  *)
Admissible(tp, wants) ==
    CASE tp.id \in ToSet(CidParams) -> wants[tp.id] # "null"
      [] tp.id = "stateless_reset_token" -> wants.stateless_reset_token # "null"
      [] tp.id = "max_udp_payload_size" -> tp.v >= 1200
      [] tp.id = "ack_delay_exponent" -> tp.v <= 20
      [] tp.id = "max_ack_delay" -> tp.v < 16384
      [] tp.id = "active_connection_id_limit" -> tp.v >= QUICLY_MIN_ACTIVE_CONNECTION_ID_LIMIT
      [] OTHER -> TRUE

Store(x, tp, wants) ==
    CASE tp.id \in DOMAIN x.params ->
            [x EXCEPT !.params[tp.id] = IF tp.id \in {"max_udp_payload_size", "max_datagram_frame_size"}
                                        THEN AtMost(tp.v, UINT16_MAX) ELSE tp.v]
      [] tp.id \in DOMAIN x.cids -> IF wants[tp.id] = "want" THEN [x EXCEPT !.cids[tp.id] = tp.v] ELSE x
      [] OTHER -> x

Known == DOMAIN default_transport_params \cup ToSet(CidParams) \cup {"stateless_reset_token"}

(* faulty: duplicates are not detected *)
DecodeOne_Again(x, tp, wants) ==
    IF ~x.ok \/ tp.id \notin Known THEN x
    ELSE IF ~Admissible(tp, wants) THEN [x EXCEPT !.ok = FALSE]
    ELSE Store([x EXCEPT !.found = @ \cup {tp.id}], tp, wants)

(* DECODE_TP: a parameter may appear once; unknown ones are skipped.        *)
DecodeOne(x, tp, wants) ==
    IF ~x.ok \/ tp.id \notin Known THEN x
    ELSE IF tp.id \in x.found \/ ~Admissible(tp, wants) THEN [x EXCEPT !.ok = FALSE]
    ELSE Store([x EXCEPT !.found = @ \cup {tp.id}], tp, wants)

decode_transport_parameter_list(list, wants) ==
    LET x == FoldLeft(LAMBDA y, tp : DecodeOne(y, tp, wants),
                      [ok |-> TRUE, found |-> {}, params |-> default_transport_params,
                       cids |-> [id \in ToSet(CidParams) |-> Unset]], list)
    IN  [ok |-> /\ x.ok
                /\ \/ x.params.min_ack_delay_usec = Unset
                   \/ x.params.min_ack_delay_usec <= x.params.max_ack_delay * 1000
                /\ \A id \in ToSet(CidParams) : wants[id] = "want" => x.cids[id] # Unset,
         params |-> x.params, cids |-> x.cids]

----------------------------------------------------------------------------
(* The callers.  auth: needs_cid_auth, the version authenticates CIDs;      *)
(* retry: is_retry.  quicly_connect and server_collected_extensions encode, *)
(* client_collected_extensions and server_collected_extensions decode.      *)
ClientCids(cids) == [cids EXCEPT !.original_dcid = Unset, !.retry_scid = Unset]
ServerCids(cids, auth, retry) ==
    [original_dcid |-> IF auth \/ retry THEN cids.original_dcid ELSE Unset,
     initial_scid |-> IF auth THEN cids.initial_scid ELSE Unset,
     retry_scid |-> IF auth /\ retry THEN cids.retry_scid ELSE Unset]
ClientWants(auth, retry) ==
    [original_dcid |-> IF auth \/ retry THEN "want" ELSE "null",
     initial_scid |-> IF auth THEN "want" ELSE "ignore",
     retry_scid |-> IF auth THEN IF retry THEN "want" ELSE "null" ELSE "ignore",
     stateless_reset_token |-> "want"]
ServerWants(auth) ==
    [original_dcid |-> IF auth THEN "null" ELSE "ignore", initial_scid |-> IF auth THEN "want" ELSE "ignore",
     retry_scid |-> IF auth THEN "null" ELSE "ignore", stateless_reset_token |-> "null"]

(* ZERORTT_VALIDATE: what was promised when the session was established may *)
(* not be taken back once early data has been accepted.                     *)
ZeroRttKept(params, remembered) ==
    /\ \A id \in {"max_data", "bidi_local", "bidi_remote", "uni", "max_streams_bidi", "max_streams_uni"} :
          params[id] >= remembered[id]
    /\ remembered.reset_stream_at => params.reset_stream_at
=============================================================================
