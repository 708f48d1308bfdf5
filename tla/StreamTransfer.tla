--------------------------- MODULE StreamTransfer ---------------------------
(***************************************************************************)
(* One unidirectional stream between two quicly endpoints: SendState at    *)
(* the one, RecvState at the other, and between them a network that loses, *)
(* delays and reorders.  A packet that was sent may arrive at any later    *)
(* time or never; a copy of one that has arrived is dropped before its     *)
(* frames are looked at (is_duplicate_pn).  An ACK may come back for what  *)
(* has arrived.  MAX_STREAM_DATA and MAX_DATA carry the limits that the    *)
(* receiver has committed to.                                              *)
(***************************************************************************)
EXTENDS Integers, FiniteSets

CONSTANTS Inf, MaxWritten, Codes, NoCode, MaxFrames, StreamWindow, ConnWindow,
          MinMaxRanges, MaxRanges, BytesPerRange

ASSUME TransferAssumption ==
  /\ Inf \in Nat /\ MaxWritten \in Nat /\ MaxWritten < Inf
  /\ MaxFrames \in Nat /\ StreamWindow \in Nat /\ ConnWindow \in Nat
  /\ NoCode \notin Codes /\ NoCode \notin 0 .. MaxWritten
  /\ MinMaxRanges \in Nat /\ MaxRanges \in Nat
  /\ BytesPerRange \in Nat \ {0}

VARIABLES
  \* the sender, as in SendState
  acked, pending, size_inflight, final_size, app_error_code, reliable_size,
  eos_state, max_stream_data, written, shifted, frames, cache, recv_complete,
  alive, got, got_eos, said,
  permitted,            \* egress.max_data.permitted; .sent is size_inflight
  ended,                \* history: the application has shut the stream down
  \* the network
  net,                  \* frames of the stream in packets under way
  arrived,              \* those in the sentmap that have arrived
  \* the receiver, as in RecvState
  r_received, r_data_off, r_eos, r_app_error_code, r_max_stream_data,
  r_bytes_consumed, r_bytes_shifted, r_max_data, r_other, r_send_complete,
  r_alive, r_told, r_error

S == INSTANCE SendState

R == INSTANCE RecvState WITH
       MaxOffset <- MaxWritten, MaxConsumed <- MaxWritten,
       received <- r_received, data_off <- r_data_off, eos <- r_eos,
       app_error_code <- r_app_error_code,
       max_stream_data <- r_max_stream_data,
       bytes_consumed <- r_bytes_consumed, bytes_shifted <- r_bytes_shifted,
       max_data <- r_max_data, other <- r_other,
       send_complete <- r_send_complete, alive <- r_alive, told <- r_told,
       error <- r_error

sender == <<acked, pending, size_inflight, final_size, app_error_code,
            reliable_size, eos_state, max_stream_data, written, shifted,
            frames, cache, recv_complete, alive, got, got_eos, said>>
receiver == <<r_received, r_data_off, r_eos, r_app_error_code,
              r_max_stream_data, r_bytes_consumed, r_bytes_shifted,
              r_max_data, r_other, r_send_complete, r_alive, r_told, r_error>>
vars == <<sender, permitted, ended, net, arrived, receiver>>

Init ==
  /\ S!Init /\ recv_complete = TRUE /\ max_stream_data = StreamWindow
  /\ permitted = ConnWindow /\ ended = FALSE
  /\ net = {} /\ arrived = {}
  /\ R!Init /\ r_send_complete = TRUE

\* what a frame says: a sentmap entry and what was encoded beside it
FrameOf(f) == [start |-> f.start, end |-> f.end, eos_type |-> f.eos_type,
               code |-> app_error_code, reliable |-> reliable_size]

SameEntry(m, f) == /\ m.start = f.start /\ m.end = f.end
                   /\ m.eos_type = f.eos_type

\* an arrival matters to the sender for as long as it may be acknowledged
SenderOnly ==
  /\ arrived' = {m \in arrived : \E f \in frames' : SameEntry(m, f)}
  /\ UNCHANGED <<permitted, ended, net, receiver>>

-----------------------------------------------------------------------------
(* The sender *)

\* the applications at both ends: the peer's may ask to stop at any time
AppStep ==
  \/ /\ \/ \E len \in 1 .. MaxWritten : S!Write(len)
        \/ \E code \in Codes :
             \/ S!ResetStream(code)
             \/ S!ReceiveStopSending(code)
             \/ \E reliable \in 1 .. MaxWritten :
                  S!SetResetStreamAt(code, reliable)
     /\ SenderOnly
  \/ /\ S!Shutdown /\ ended' = TRUE
     /\ UNCHANGED <<permitted, net, arrived, receiver>>

\* faulty: lets a frame begin at the limit
WithinConnLimit_Begins == size_inflight <= permitted

\* the cap by max_data of quicly_send_stream: bytes sent for the first time,
\* which is what raises size_inflight, are held against the limit
WithinConnLimit == size_inflight' <= permitted

Send ==
  /\ Cardinality(net) < MaxFrames     \* bound: frames under way
  /\ S!SendStep
  /\ WithinConnLimit
  /\ net' = net \cup {FrameOf(f) : f \in frames' \ frames}
  /\ UNCHANGED <<permitted, ended, arrived, receiver>>

Credit ==
  \/ /\ \E limit \in 1 .. r_max_stream_data : S!ReceiveMaxStreamData(limit)
     /\ SenderOnly
  \/ /\ S!Idle /\ permitted < r_max_data     \* handle_max_data_frame
     /\ permitted' \in permitted + 1 .. r_max_data
     /\ UNCHANGED <<sender, ended, net, arrived, receiver>>

HasArrived(f) == \E m \in arrived : SameEntry(m, f)

Ack ==
  /\ \/ S!AckCached
     \/ \E f \in frames : HasArrived(f) /\ (S!AckInFlight(f) \/ S!AckLate(f))
     \/ S!Orphan
  /\ SenderOnly

\* an entry that goes with its packet is one that is lost and then expires
Loss == (\E f \in frames : S!Lost(f, TRUE) \/ S!Expire(f)) /\ SenderOnly

-----------------------------------------------------------------------------
(* The receiver *)

\* the handler of the frame m; after the end of the stream it is ignored
Handle(m) ==
  IF m.eos_type \in {S!NONE, S!FIN} THEN
    \/ R!ReceiveStream(m.start, m.end - m.start, m.eos_type = S!FIN, 0)
    \/ R!RejectStream(m.start, m.end - m.start, m.eos_type = S!FIN)
    \/ (~r_alive \/ R!TransferComplete) /\ UNCHANGED receiver
  ELSE
    \/ R!ReceiveReset(m.end, m.reliable, m.code, 0)
    \/ R!RejectReset(m.end, m.reliable, m.code)
    \/ (~r_alive \/ R!TransferComplete) /\ UNCHANGED receiver

\* a packet whose handling fails is not recorded for acknowledgement
Arrive(m) ==
  /\ m \in net /\ R!Running
  /\ Handle(m)
  /\ net' = net \ {m}
  /\ arrived' = {n \in arrived \cup {m} : (\E f \in frames : SameEntry(n, f))
                                         /\ (r_error' = "none" \/ n # m)}
  /\ UNCHANGED <<sender, permitted, ended>>

Arrival == \E m \in net : Arrive(m)

\* the network loses the packet
Drop ==
  /\ \E m \in net : net' = net \ {m}
  /\ UNCHANGED <<sender, permitted, ended, arrived, receiver>>

\* the application reads, credit is returned (bound: none beyond MaxWritten,
\* which could not be used)
Read ==
  /\ \/ \E amount \in 1 .. MaxWritten : R!Shift(amount)
     \/ r_max_stream_data < MaxWritten /\ R!SendMaxStreamData
     \/ r_max_data < MaxWritten /\ R!SendMaxData
  /\ UNCHANGED <<sender, permitted, ended, net, arrived>>

Done == ~alive /\ frames = {} /\ cache = {} /\ UNCHANGED vars

Next == AppStep \/ Send \/ Credit \/ Ack \/ Loss \/ Arrival \/ Drop \/ Read
          \/ Done

Spec == Init /\ [][Next]_vars

\* the packet has not been given up yet
InTime(m) == \E f \in frames : f.live /\ SameEntry(m, f)

\* the endpoints do what they have to, timers included, and the reader reads;
\* of the frames that are sent again and again some arrive and are
\* acknowledged before the loss timer gives them up
Fairness ==
  /\ WF_vars(Send) /\ WF_vars(Credit) /\ WF_vars(Read)
  /\ WF_vars(Arrival \/ Drop)
  /\ WF_vars(S!AckCached /\ SenderOnly)
  /\ WF_vars((\E f \in frames : S!Expire(f)) /\ SenderOnly)
  /\ WF_vars((\E f \in frames : S!Lost(f, TRUE)) /\ SenderOnly)
  /\ SF_vars(\E m \in net : InTime(m) /\ Arrive(m))
  /\ SF_vars((\E f \in frames : HasArrived(f) /\ S!AckInFlight(f)) /\ SenderOnly)

FairSpec == Spec /\ Fairness

-----------------------------------------------------------------------------
(* Properties *)

\* Two quicly endpoints do not accuse one another of breaking the protocol:
\* whatever the network and the applications do, no frame that SendState emits
\* raises FLOW_CONTROL, FINAL_SIZE or STREAM_STATE at the receiver
\* (apply_stream_frame, handle_reset_stream_frame, recvstate.c).  The one error
\* that reordering can cause is STATE_EXHAUSTION, and only while the stream
\* holds as many ranges as calc_max_ranges lets it.
NoFalseAccusation ==
  \/ r_error = "none"
  \/ r_error = "STATE_EXHAUSTION" /\ R!RangesFull

\* The sender's view is true of the receiver (quicly_sendstate_transfer_complete
\* against quicly_recvstate_transfer_complete): when the sender deems the transfer
\* complete after FIN or a reliable reset, the receiver has reached its end
\* and its application has been told.
CompletionIsMutual ==
  S!TransferComplete /\ S!eos_type # S!RESET =>
    r_told = 1 /\ r_eos >= IF S!eos_type = S!FIN THEN final_size
                           ELSE reliable_size

\* The connection's credit is counted alike at both ends once the stream is gone
\* at the receiver (max_data.sent against max_data.bytes_consumed and
\* bytes_shifted): not a byte that the sender has charged itself for is lost
\* to the connection.
CreditReturned ==
  ~r_alive /\ S!TransferComplete =>
    r_bytes_consumed = size_inflight /\ r_bytes_shifted = size_inflight

\* The sender and the receiver together provide the stream service.
Promise == IF app_error_code = NoCode THEN NoCode ELSE reliable_size
Seen == IF ~R!TransferComplete THEN "none"
        ELSE IF r_app_error_code = NoCode THEN "end" ELSE "reset"

Service == INSTANCE StreamService WITH
             None <- NoCode, promise <- Promise,
             delivered <- R!PrefixEnd(r_received), seen <- Seen

\* Refinement: every step of the two endpoints and the network is a step of
\* StreamService, or invisible to the applications.
ProvidesService == Service!Spec

\* A stream that has been ended is seen to end by the receiver's application,
\* unless the receiver has run out of ranges.
EndIsSeen == final_size # Inf ~> r_told = 1 \/ r_error = "STATE_EXHAUSTION"

\* And the sender gets to know: the last marker that the stream was given, by
\* shutdown, reset or STOP_SENDING, is delivered and the transfer complete
\* (quicly_sendstate_lost, on_ack_stream, quicly_send_stream), unless every
\* packet is lost or the receiver has run out of ranges.
EndIsDelivered ==
  final_size # Inf ~> \/ S!TransferComplete /\ eos_state = "DELIVERED"
                      \/ r_error = "STATE_EXHAUSTION"
=============================================================================
