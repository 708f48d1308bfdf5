----------------------------- MODULE MCProgress -----------------------------
(* PnSpace and StreamTransfer for TLC, one at a time: what an endpoint owes  *)
(* its peer happens in the end, ACKs and the end of a stream.                *)
EXTENDS PnSpace

CONSTANTS Inf, MaxWritten, Codes, NoCode, MaxFrames, StreamWindow, ConnWindow,
          MinMaxRanges, MaxRanges, BytesPerRange

VARIABLES
  part,   \* the component that takes steps: "acks" or "stream"
  acked, pending, size_inflight, final_size, app_error_code, reliable_size,
  eos_state, max_stream_data, written, shifted, frames, cache, recv_complete,
  alive, got, got_eos, said, permitted, ended, net, arrived,
  r_received, r_data_off, r_eos, r_app_error_code, r_max_stream_data,
  r_bytes_consumed, r_bytes_shifted, r_max_data, r_other, r_send_complete,
  r_alive, r_told, r_error

Transfer == INSTANCE StreamTransfer

transfer ==
  <<acked, pending, size_inflight, final_size, app_error_code, reliable_size,
    eos_state, max_stream_data, written, shifted, frames, cache, recv_complete,
    alive, got, got_eos, said, permitted, ended, net, arrived,
    r_received, r_data_off, r_eos, r_app_error_code, r_max_stream_data,
    r_bytes_consumed, r_bytes_shifted, r_max_data, r_other, r_send_complete,
    r_alive, r_told, r_error>>

InAcks == part = "acks" /\ UNCHANGED <<part, transfer>>
InStream == part = "stream" /\ UNCHANGED <<part, vars>>

AllVars == <<part, vars, transfer>>
AllInit == part \in {"acks", "stream"} /\ Init /\ Transfer!Init
AllNext == (InAcks /\ Next) \/ (InStream /\ Transfer!Next)

\* The application calls quicly_send when quicly_get_first_timeout says so, and
\* a sent packet does not stay in the sentmap for ever.
AckFairness ==
  /\ WF_AllVars(InAcks /\ TimerExpires)
  /\ WF_AllVars(InAcks /\ SendAck)
  /\ \A i \in 1 .. MaxAcks : WF_AllVars(InAcks /\ i \in DOMAIN acks /\ AckExpires(i))

\* The endpoints do what they have to, timers included, and the reader reads;
\* of the frames that are sent again and again some arrive and are acknowledged
\* before the loss timer gives them up.
StreamFairness ==
  /\ WF_AllVars(InStream /\ Transfer!Send) /\ WF_AllVars(InStream /\ Transfer!Credit)
  /\ WF_AllVars(InStream /\ Transfer!Read)
  /\ WF_AllVars(InStream /\ (Transfer!Arrival \/ Transfer!Drop))
  /\ WF_AllVars(InStream /\ Transfer!S!AckCached /\ Transfer!SenderOnly)
  /\ WF_AllVars(InStream /\ (\E f \in frames : Transfer!S!Expire(f)) /\ Transfer!SenderOnly)
  /\ WF_AllVars(InStream /\ (\E f \in frames : Transfer!S!Lost(f, TRUE)) /\ Transfer!SenderOnly)
  /\ SF_AllVars(InStream /\ \E m \in net : Transfer!InTime(m) /\ Transfer!Arrive(m))
  /\ SF_AllVars(InStream /\ (\E f \in frames : Transfer!HasArrived(f) /\ Transfer!S!AckInFlight(f))
                /\ Transfer!SenderOnly)

AllSpec == AllInit /\ [][AllNext]_AllVars /\ AckFairness /\ StreamFairness

\* the history variables of SendState do not tell states apart
View ==
  <<part, vars, acked, pending, size_inflight, final_size, app_error_code, reliable_size,
    eos_state, max_stream_data, written, frames, cache,
    recv_complete, alive, permitted, ended, net, arrived, Transfer!receiver>>

\* A stream that has been ended is seen to end by the receiver's application.
EndIsSeen == Transfer!EndIsSeen

\* And the sender gets to know: its last marker is delivered and the transfer complete
\* (quicly_sendstate_lost, on_ack_stream, quicly_send_stream), unless every packet is lost.
EndIsDelivered == Transfer!EndIsDelivered
=============================================================================
