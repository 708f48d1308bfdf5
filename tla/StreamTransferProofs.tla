------------------------ MODULE StreamTransferProofs ------------------------
(***************************************************************************)
(* The two ends of a stream together, for any size of stream, any windows, *)
(* any set of error codes and any number of frames under way.  The         *)
(* invariants of the two sides are those of SendStateProofs and            *)
(* RecvStateProofs.  What joins them is that every frame still tells the   *)
(* truth about the sender when it arrives, however late (Frames), that     *)
(* limits are only ever behind the receiver's (Granted), that what the     *)
(* receiver has concluded agrees with the sender (View), and that what was *)
(* acknowledged has been heard (Heard).                                    *)
(***************************************************************************)
EXTENDS StreamTransfer, TLAPS

SP == INSTANCE SendStateProofs

RP == INSTANCE RecvStateProofs WITH
        MaxOffset <- MaxWritten, MaxConsumed <- MaxWritten,
        received <- r_received, data_off <- r_data_off, eos <- r_eos,
        app_error_code <- r_app_error_code,
        max_stream_data <- r_max_stream_data,
        bytes_consumed <- r_bytes_consumed, bytes_shifted <- r_bytes_shifted,
        max_data <- r_max_data, other <- r_other,
        send_complete <- r_send_complete, alive <- r_alive, told <- r_told,
        error <- r_error

Packet == [start : 0 .. MaxWritten, end : 0 .. MaxWritten, eos_type : SP!EosType,
           code : Codes \cup {NoCode}, reliable : 0 .. MaxWritten]

\* what the frame says is true of the sender, now as when it was sent
StillTrue(m) ==
  /\ m.start <= m.end /\ m.end <= size_inflight
  /\ m.eos_type <= SP!eos_type
  /\ m.eos_type = SP!NONE => m.start < m.end
  /\ m.eos_type # SP!NONE => m.end = final_size
  /\ m.eos_type = SP!FIN => ended /\ final_size = written
  /\ m.eos_type \in {SP!RESET_AT, SP!RESET} =>
       /\ m.start = m.end /\ m.code = app_error_code /\ m.code # NoCode
       /\ reliable_size <= m.reliable /\ m.reliable <= m.end
  /\ m.eos_type = SP!RESET_AT /\ SP!eos_type = SP!RESET_AT => m.reliable = reliable_size

Frames == /\ net \subseteq Packet /\ arrived \subseteq Packet
          /\ \A m \in net \cup arrived : StillTrue(m)

\* the limits that the sender knows of are not above those of the receiver
Granted ==
  /\ permitted \in Nat /\ size_inflight <= permitted /\ permitted <= r_max_data
  /\ max_stream_data <= r_max_stream_data

\* the end that the receiver knows of is the one that the sender has set, and the
\* receiver has been charged for what the sender has charged itself for; all it can
\* have failed with is that it ran out of ranges
View ==
  /\ r_error # "none" => r_error = "STATE_EXHAUSTION" /\ R!RangesFull /\ r_alive
  /\ r_other = 0 /\ r_send_complete = TRUE
  /\ RP!LastEnd(r_received) <= size_inflight
  /\ r_eos # Inf => final_size = size_inflight /\ r_eos <= final_size
  /\ r_eos # Inf /\ r_app_error_code = NoCode =>
       r_eos = final_size /\ final_size = written /\ ended
  /\ r_app_error_code # NoCode => r_app_error_code = app_error_code
  /\ reliable_size <= r_eos
  /\ r_error = "none" =>
       r_bytes_consumed = IF r_app_error_code = NoCode THEN RP!Allocated ELSE size_inflight

\* the receiver has the bytes, or they are beyond the end it knows of
HeardBytes(bytes) == \A b \in bytes : b < r_eos => b \in r_received

\* the receiver knows of the end, and of the bytes that are still to come
HeardMarker(type) ==
  /\ type = SP!FIN => r_eos # Inf
  /\ type = SP!RESET_AT /\ SP!eos_type = SP!RESET_AT =>
       RP!TransferComplete \/ r_eos <= reliable_size

HeardEntry(e) == HeardBytes(SP!Bytes(e.start, e.end)) /\ HeardMarker(e.eos_type)

Heard ==
  /\ \A m \in arrived : HeardEntry(m)
  /\ \A a \in cache : HeardEntry(a)
  /\ HeardBytes(got)
  /\ \A t \in got_eos : HeardMarker(t) /\ t <= SP!eos_type

\* the application shuts the stream down once, or resets it
Ended == /\ ended \in BOOLEAN
         /\ ended => ~SP!IsOpen
         /\ ~SP!IsOpen /\ app_error_code = NoCode => ended

Inv == SP!Inv /\ RP!Inv /\ Frames /\ Granted /\ View /\ Heard /\ Ended
-----------------------------------------------------------------------------
(* The steps of the two sides are steps of the modules they were proved in *)

USE TransferAssumption

\* The sender's steps, here and in SendStateProofs.
LEMMA SenderSteps ==
  /\ \A len : S!Write(len) => SP!Write(len)
  /\ S!Shutdown => SP!Shutdown
  /\ \A code : S!ResetStream(code) => SP!ResetStream(code)
  /\ \A code, reliable : S!SetResetStreamAt(code, reliable) => SP!SetResetStreamAt(code, reliable)
  /\ \A code : S!ReceiveStopSending(code) => SP!ReceiveStopSending(code)
  /\ \A limit : S!ReceiveMaxStreamData(limit) => SP!ReceiveMaxStreamData(limit)
  /\ \A off, len : S!SendStream(off, len) => SP!SendStream(off, len)
  /\ S!SendFinOnly => SP!SendFinOnly
  /\ S!SendResetStreamAt => SP!SendResetStreamAt
  /\ S!SendResetStream => SP!SendResetStream
  /\ S!AckCached => SP!AckCached
  /\ \A f : S!AckInFlight(f) => SP!AckInFlight(f)
  /\ \A f : S!AckLate(f) => SP!AckLate(f)
  /\ \A f : S!Lost(f, TRUE) => SP!Lost(f, TRUE)
  /\ \A f : S!Expire(f) => SP!Expire(f)
  /\ S!Orphan => SP!Orphan
<1>1. /\ \A len : S!Write(len) => SP!Write(len)
      /\ S!Shutdown => SP!Shutdown
  BY DEF S!Write, SP!Write, S!Shutdown, SP!Shutdown, S!Activated, SP!Activated, S!Idle,
         SP!Idle, S!IsOpen, SP!IsOpen, S!Bytes, SP!Bytes, S!history, SP!history
<1>2. /\ \A code : S!ResetStream(code) => SP!ResetStream(code)
      /\ \A code, reliable : S!SetResetStreamAt(code, reliable) => SP!SetResetStreamAt(code, reliable)
      /\ \A code : S!ReceiveStopSending(code) => SP!ReceiveStopSending(code)
  BY DEF S!ResetStream, SP!ResetStream, S!SetResetStreamAt, SP!SetResetStreamAt,
         S!ReceiveStopSending, SP!ReceiveStopSending, S!StopCode, SP!StopCode,
         S!StopShift, SP!StopShift, S!Reset, SP!Reset, S!ResetFinalSize,
         SP!ResetFinalSize, S!Activated, SP!Activated, S!TransferComplete,
         SP!TransferComplete, S!CompleteOf, SP!CompleteOf, S!PrefixEnd, SP!PrefixEnd,
         S!IsPrefixEnd, SP!IsPrefixEnd, S!Idle, SP!Idle, S!IsOpen, SP!IsOpen, S!Bytes,
         SP!Bytes, S!history, SP!history, S!EosTypeOf, SP!EosTypeOf, S!eos_type,
         SP!eos_type, S!NONE, SP!NONE, S!FIN, SP!FIN, S!RESET_AT, SP!RESET_AT,
         S!RESET, SP!RESET
<1>3. \A limit : S!ReceiveMaxStreamData(limit) => SP!ReceiveMaxStreamData(limit)
  BY DEF S!ReceiveMaxStreamData, SP!ReceiveMaxStreamData, S!Idle, SP!Idle, S!history,
         SP!history, S!sendstate, SP!sendstate
<1>4. \A off, len : S!SendStream(off, len) => SP!SendStream(off, len)
  BY DEF S!SendStream, SP!SendStream, S!CanAllocate, SP!CanAllocate, S!Cardinality,
         SP!Cardinality, S!WithinStreamLimit, SP!WithinStreamLimit, S!Sent, SP!Sent,
         S!Saying, SP!Saying, S!Idle, SP!Idle, S!Bytes, SP!Bytes, S!NONE, SP!NONE,
         S!FIN, SP!FIN
<1>5. /\ S!SendFinOnly => SP!SendFinOnly
      /\ S!SendResetStreamAt => SP!SendResetStreamAt
      /\ S!SendResetStream => SP!SendResetStream
  BY DEF S!CanAllocate, SP!CanAllocate, S!Cardinality, SP!Cardinality, S!Sent, SP!Sent,
         S!Saying, SP!Saying, S!SendFinOnly, SP!SendFinOnly, S!SendMarker,
         SP!SendMarker, S!SendResetStreamAt, SP!SendResetStreamAt, S!SendResetStream,
         SP!SendResetStream, S!Idle, SP!Idle, S!IsOpen, SP!IsOpen, S!EosTypeOf,
         SP!EosTypeOf, S!eos_type, SP!eos_type, S!NONE, SP!NONE, S!FIN, SP!FIN,
         S!RESET_AT, SP!RESET_AT, S!RESET, SP!RESET
<1>6. /\ S!AckCached => SP!AckCached
      /\ \A f : S!AckInFlight(f) => SP!AckInFlight(f)
      /\ \A f : S!AckLate(f) => SP!AckLate(f)
  BY DEF S!AckCached, SP!AckCached, S!AckOne, SP!AckOne, S!AckedEosState,
         SP!AckedEosState, S!AckedPending, SP!AckedPending, S!BytesToShift,
         SP!BytesToShift, S!PrefixEnd, SP!PrefixEnd, S!IsPrefixEnd, SP!IsPrefixEnd,
         S!CompleteOf, SP!CompleteOf, S!Destroyable, SP!Destroyable, S!AckInFlight,
         SP!AckInFlight, S!ArgsOf, SP!ArgsOf, S!Merged, SP!Merged, S!Larger,
         SP!Larger, S!AckLate, SP!AckLate, S!Idle, SP!Idle, S!IsOpen, SP!IsOpen,
         S!Bytes, SP!Bytes, S!history, SP!history, S!sendstate, SP!sendstate,
         S!EosTypeOf, SP!EosTypeOf, S!eos_type, SP!eos_type, S!NONE, SP!NONE, S!FIN,
         SP!FIN, S!RESET_AT, SP!RESET_AT, S!RESET, SP!RESET
<1>7. /\ \A f : S!Lost(f, TRUE) => SP!Lost(f, TRUE)
      /\ \A f : S!Expire(f) => SP!Expire(f)
      /\ S!Orphan => SP!Orphan
  BY DEF S!Lost, SP!Lost, S!Expire, SP!Expire, S!Orphan, SP!Orphan, S!LostPending,
         SP!LostPending, S!LostEosState, SP!LostEosState, S!Idle, SP!Idle, S!Bytes,
         SP!Bytes, S!history, SP!history, S!sendstate, SP!sendstate, S!EosTypeOf,
         SP!EosTypeOf, S!eos_type, SP!eos_type, S!NONE, SP!NONE, S!FIN, SP!FIN,
         S!RESET_AT, SP!RESET_AT, S!RESET, SP!RESET
<1>8. QED
  BY <1>1, <1>2, <1>3, <1>4, <1>5, <1>6, <1>7

\* A step of the sender, or of anyone else, keeps the sender's invariant.
LEMMA SenderKept ==
  ASSUME SP!Inv,
         \/ SP!AppStep \/ SP!PeerStep \/ SP!SendStep \/ SP!AckStep \/ SP!LossStep \/ SP!Orphan
         \/ UNCHANGED sender
  PROVE  SP!Inv'
<1>1. UNCHANGED sender => UNCHANGED SP!vars
  BY DEF sender, SP!vars, SP!sendstate, SP!history
<1>2. [SP!Next]_SP!vars
  BY <1>1 DEF SP!Next
<1>3. QED
  BY <1>2, SP!StepInv

\* The receiver's steps, here and in RecvStateProofs.
LEMMA ReceiverSteps ==
  /\ \A off, len, fin, shift :
           R!ReceiveStream(off, len, fin, shift) => RP!ReceiveStream(off, len, fin, shift)
  /\ \A off, len, fin :
           R!RejectStream(off, len, fin) => RP!RejectStream(off, len, fin)
  /\ \A final, reliable, code, shift :
           R!ReceiveReset(final, reliable, code, shift) => RP!ReceiveReset(final, reliable, code, shift)
  /\ \A final, reliable, code :
           R!RejectReset(final, reliable, code) => RP!RejectReset(final, reliable, code)
  /\ \A amount :
           R!Shift(amount) => RP!Shift(amount)
  /\ R!SendMaxStreamData => RP!SendMaxStreamData
  /\ R!SendMaxData => RP!SendMaxData
  /\ R!TransferComplete <=> RP!TransferComplete
<1>1. \A off, len, fin, shift :
           R!ReceiveStream(off, len, fin, shift) => RP!ReceiveStream(off, len, fin, shift)
  BY DEF R!ReceiveStream, RP!ReceiveStream, R!StateExhausted, RP!StateExhausted,
         R!RangesFull, RP!RangesFull, R!NumRanges, RP!NumRanges, R!MaxRangesOf,
         RP!MaxRangesOf, R!Cardinality, RP!Cardinality,
         R!NewlyReceived, RP!NewlyReceived,
         R!StreamFinalSizeError, RP!StreamFinalSizeError, R!Taken, RP!Taken,
         R!OnReceiveCalled, RP!OnReceiveCalled, R!Running, RP!Running,
         R!TransferComplete, RP!TransferComplete, R!CompleteOf, RP!CompleteOf,
         R!PrefixEnd, RP!PrefixEnd, R!LastEnd, RP!LastEnd, R!Allocated, RP!Allocated,
         R!AllocatedOf, RP!AllocatedOf, R!AvailableEnd, RP!AvailableEnd, R!Smaller,
         RP!Smaller, R!Larger, RP!Larger, R!Bytes, RP!Bytes, R!Settle, RP!Settle
<1>2. \A off, len, fin :
           R!RejectStream(off, len, fin) => RP!RejectStream(off, len, fin)
  <2>1. \A taken : R!StateExhausted(taken) <=> RP!StateExhausted(taken)
    BY DEF R!StateExhausted, RP!StateExhausted, R!RangesFull, RP!RangesFull, R!NumRanges,
           RP!NumRanges, R!MaxRangesOf, RP!MaxRangesOf, R!Cardinality, RP!Cardinality,
           R!PrefixEnd, RP!PrefixEnd, R!Smaller, RP!Smaller, R!Larger, RP!Larger
  <2>2. /\ \A off, end, upto : R!Taken(off, end, upto) = RP!Taken(off, end, upto)
        /\ \A end, fin : R!StreamFinalSizeError(end, fin) <=> RP!StreamFinalSizeError(end, fin)
        /\ \A end : R!NewlyReceived(end) = RP!NewlyReceived(end)
        /\ \A err : R!Fail(err) <=> RP!Fail(err)
        /\ (R!Running <=> RP!Running) /\ (R!TransferComplete <=> RP!TransferComplete)
    BY DEF R!Taken, RP!Taken, R!Smaller, RP!Smaller, R!Larger, RP!Larger, R!Bytes, RP!Bytes,
           R!Fail, RP!Fail, R!NewlyReceived, RP!NewlyReceived, R!StreamFinalSizeError,
           RP!StreamFinalSizeError, R!recvstate, RP!recvstate, R!Running, RP!Running,
           R!TransferComplete, RP!TransferComplete, R!CompleteOf, RP!CompleteOf,
           R!PrefixEnd, RP!PrefixEnd, R!LastEnd, RP!LastEnd, R!Allocated, RP!Allocated,
           R!AllocatedOf, RP!AllocatedOf
  <2>3. QED
    BY <2>1, <2>2 DEF R!RejectStream, RP!RejectStream
<1>3. \A final, reliable, code, shift :
           R!ReceiveReset(final, reliable, code, shift) => RP!ReceiveReset(final, reliable, code, shift)
  BY DEF R!ReceiveReset, RP!ReceiveReset, R!ResetEos, RP!ResetEos, R!FirstReset,
         RP!FirstReset, R!ResetError, RP!ResetError, R!BytesMissing, RP!BytesMissing,
         R!AllocatedBefore, RP!AllocatedBefore, R!Running, RP!Running,
         R!TransferComplete, RP!TransferComplete, R!CompleteOf, RP!CompleteOf,
         R!PrefixEnd, RP!PrefixEnd, R!LastEnd, RP!LastEnd, R!Allocated, RP!Allocated,
         R!AllocatedOf, RP!AllocatedOf, R!AvailableEnd, RP!AvailableEnd, R!Smaller,
         RP!Smaller, R!Larger, RP!Larger, R!Bytes, RP!Bytes, R!Settle, RP!Settle
<1>4. \A final, reliable, code :
           R!RejectReset(final, reliable, code) => RP!RejectReset(final, reliable, code)
  BY DEF R!RejectReset, RP!RejectReset, R!Fail, RP!Fail, R!FirstReset, RP!FirstReset,
         R!ResetError, RP!ResetError, R!BytesMissing, RP!BytesMissing, R!recvstate,
         RP!recvstate, R!Running, RP!Running, R!TransferComplete, RP!TransferComplete,
         R!CompleteOf, RP!CompleteOf, R!PrefixEnd, RP!PrefixEnd, R!LastEnd,
         RP!LastEnd, R!Allocated, RP!Allocated, R!AllocatedOf, RP!AllocatedOf
<1>5. \A amount :
           R!Shift(amount) => RP!Shift(amount)
  BY DEF R!Shift, RP!Shift, R!Running, RP!Running, R!AvailableEnd, RP!AvailableEnd,
         R!CompleteOf, RP!CompleteOf, R!PrefixEnd, RP!PrefixEnd, R!Smaller,
         RP!Smaller, R!Allocated, RP!Allocated, R!AllocatedOf, RP!AllocatedOf,
         R!LastEnd, RP!LastEnd
<1>6. /\ R!SendMaxStreamData => RP!SendMaxStreamData
      /\ R!SendMaxData => RP!SendMaxData
  BY DEF R!SendMaxStreamData, RP!SendMaxStreamData, R!SendMaxData, RP!SendMaxData,
         R!MaxDataValue, RP!MaxDataValue, R!Running, RP!Running, R!recvstate,
         RP!recvstate, R!credit, RP!credit
<1>7. R!TransferComplete <=> RP!TransferComplete
  BY DEF R!TransferComplete, RP!TransferComplete, R!CompleteOf, RP!CompleteOf,
         R!PrefixEnd, RP!PrefixEnd
<1>8. QED
  BY <1>1, <1>2, <1>3, <1>4, <1>5, <1>6, <1>7

-----------------------------------------------------------------------------
(* The sender *)

\* What is known of the sender, in numbers.
Numbers ==
  /\ size_inflight \in Nat /\ size_inflight <= MaxWritten
  /\ written \in Nat /\ written <= MaxWritten /\ size_inflight <= written
  /\ max_stream_data \in Nat /\ size_inflight <= max_stream_data
  /\ reliable_size \in Nat /\ reliable_size <= MaxWritten
  /\ final_size \in Nat /\ (final_size <= MaxWritten \/ final_size = Inf)
  /\ final_size = Inf => app_error_code = NoCode
  /\ final_size # Inf => /\ size_inflight <= final_size /\ final_size <= written
                         /\ reliable_size <= final_size
  /\ final_size # Inf /\ app_error_code = NoCode => final_size = written
  /\ app_error_code = NoCode => reliable_size = 0
  /\ app_error_code \in Codes \cup {NoCode}
  /\ SP!eos_type = IF final_size = Inf THEN 0 ELSE IF app_error_code = NoCode THEN 1
                   ELSE IF reliable_size # 0 THEN 2 ELSE 3

\* They follow from its invariant, before and after a step.
LEMMA SenderNumbers == (SP!Inv => Numbers) /\ (SP!Inv' => Numbers')
BY DEF Numbers, SP!Inv, SP!TypeOK, SP!Sizes, SP!IsOpen, SP!eos_type, SP!EosTypeOf,
       SP!NONE, SP!FIN, SP!RESET_AT, SP!RESET

\* The types of the markers.
LEMMA EosTypes ==
  SP!NONE = 0 /\ SP!FIN = 1 /\ SP!RESET_AT = 2 /\ SP!RESET = 3 /\ SP!EosType = 0 .. 3
BY DEF SP!NONE, SP!FIN, SP!RESET_AT, SP!RESET, SP!EosType

\* The sender never goes back on what it may have told: more is sent, the end is
\* set once, and a reset keeps its code.
Onward ==
  /\ size_inflight <= size_inflight'
  /\ size_inflight = final_size => final_size' = final_size
  /\ final_size # Inf => written' = written /\ final_size' # Inf
  /\ ended => ended'
  /\ app_error_code # NoCode => /\ app_error_code' = app_error_code
                                /\ reliable_size' = reliable_size \/ reliable_size' = 0

\* So the frames under way stay true.
LEMMA OnwardFrame ==
  ASSUME SP!Inv, SP!Inv', Onward, NEW m \in Packet, StillTrue(m)
  PROVE  StillTrue(m)'
<1>1. Numbers /\ Numbers'
  BY SenderNumbers
<1>2. /\ m.start \in Nat /\ m.end \in Nat /\ m.end <= MaxWritten /\ m.reliable \in Nat
      /\ m.eos_type \in 0 .. 3
  BY EosTypes DEF Packet
<1>3. QED
  BY <1>1, <1>2, EosTypes DEF Onward, StillTrue, Numbers

\* What the receiver has concluded stays true.
LEMMA OnwardView ==
  ASSUME Inv, SP!Inv', Onward, UNCHANGED receiver
  PROVE  View'
<1>1. UNCHANGED <<r_received, r_eos, r_app_error_code, r_bytes_consumed, r_other,
                  r_send_complete, r_alive, r_error>> /\ R!RangesFull' = R!RangesFull
  BY DEF receiver, R!RangesFull
<1>2. RP!LastEnd(r_received)' = RP!LastEnd(r_received) /\ RP!Allocated' = RP!Allocated
  BY <1>1 DEF RP!Allocated
<1>3. RP!LastEnd(r_received) \in Nat /\ r_eos \in Nat /\ (r_app_error_code # NoCode => r_eos # Inf)
      /\ r_eos <= Inf
  BY RP!Facts DEF Inv, RP!Inv, RP!Ends
<1>4. Numbers /\ Numbers' /\ View
  BY SenderNumbers DEF Inv
<1>5. QED
  BY <1>1, <1>2, <1>3, <1>4 DEF Onward, View, Numbers

\* And what it has heard is still what there is to hear.
LEMMA OnwardHeard ==
  ASSUME Inv, SP!Inv', Onward, UNCHANGED receiver
  PROVE  /\ \A bytes : HeardBytes(bytes) => HeardBytes(bytes)'
         /\ \A type \in 0 .. 3 : HeardMarker(type) /\ type <= SP!eos_type =>
              HeardMarker(type)' /\ (type <= SP!eos_type)'
<1>1. UNCHANGED <<r_received, r_eos>>
  BY DEF receiver
<1>2. RP!TransferComplete' = RP!TransferComplete
  BY <1>1 DEF RP!TransferComplete
<1>3. Numbers /\ Numbers'
  BY SenderNumbers DEF Inv
<1>4. ASSUME NEW type \in 0 .. 3, HeardMarker(type), type <= SP!eos_type
      PROVE  HeardMarker(type)' /\ (type <= SP!eos_type)'
  BY <1>1, <1>2, <1>3, <1>4, EosTypes DEF HeardMarker, Onward, Numbers
<1>5. ASSUME NEW bytes, HeardBytes(bytes) PROVE HeardBytes(bytes)'
  BY <1>1, <1>5 DEF HeardBytes
<1>6. QED
  BY <1>4, <1>5

\* all that the sender takes for acknowledged after the step has been heard
HeardNext ==
  /\ \A a \in cache' : HeardEntry(a) /\ a.eos_type \in 0 .. 3 /\ a.eos_type <= SP!eos_type
  /\ HeardBytes(got')
  /\ \A t \in got_eos' : HeardMarker(t) /\ t \in 0 .. 3 /\ t <= SP!eos_type

\* Nothing is acknowledged, so that nothing has to be heard.
LEMMA HeardSame ==
  ASSUME Inv, UNCHANGED <<cache, got, got_eos>>
  PROVE  HeardNext
<1>1. \A a \in cache : a.eos_type \in 0 .. 3 /\ a.eos_type <= SP!eos_type
  BY EosTypes DEF Inv, SP!Inv, SP!TypeOK, SP!Args, SP!Entries, SP!WellFormed
<1>2. got_eos \subseteq 0 .. 3
  BY EosTypes DEF Inv, SP!Inv, SP!TypeOK
<1>3. QED
  BY <1>1, <1>2 DEF Inv, Heard, HeardNext

\* A step of the sender: what it has to see to.
LEMMA SenderSide ==
  ASSUME Inv, SP!Inv', Onward, HeardNext, Ended', Granted', UNCHANGED receiver,
         net' \subseteq Packet, arrived' \subseteq arrived,
         \A m \in net' : m \in net \/ StillTrue(m)'
  PROVE  Inv'
<1>1. RP!Inv'
  <2>1. UNCHANGED RP!vars
    BY DEF receiver, RP!vars, RP!recvstate, RP!credit
  <2>2. QED
    BY <2>1, RP!NextKept DEF Inv, RP!Kept
<1>2. Frames'
  <2>1. \A m \in net \cup arrived : m \in Packet /\ StillTrue(m)
    BY DEF Inv, Frames
  <2>2. \A m \in net \cup arrived : StillTrue(m)'
    BY <2>1, OnwardFrame DEF Inv
  <2>3. QED
    BY <2>1, <2>2 DEF Frames
<1>3. View'
  BY OnwardView
<1>4. Heard'
  <2>1. ASSUME NEW m \in arrived PROVE HeardEntry(m)'
    <3>1. m.eos_type \in 0 .. 3 /\ m.eos_type <= SP!eos_type /\ HeardEntry(m)
      BY EosTypes DEF Inv, Frames, Packet, StillTrue, Heard
    <3>2. QED
      BY <3>1, OnwardHeard DEF HeardEntry, SP!Bytes
  <2>2. ASSUME NEW a \in cache' PROVE HeardEntry(a)'
    <3>1. a.eos_type \in 0 .. 3 /\ a.eos_type <= SP!eos_type /\ HeardEntry(a)
      BY DEF HeardNext
    <3>2. QED
      BY <3>1, OnwardHeard DEF HeardEntry, SP!Bytes
  <2>3. HeardBytes(got)'
    BY DEF HeardNext, HeardBytes, receiver
  <2>4. ASSUME NEW t \in got_eos' PROVE HeardMarker(t)' /\ (t <= SP!eos_type)'
    BY OnwardHeard DEF HeardNext
  <2>5. QED
    BY <2>1, <2>2, <2>3, <2>4 DEF Heard
<1>5. QED
  BY <1>1, <1>2, <1>3, <1>4 DEF Inv

\* Steps that leave what was sent and what was said about the end alone.
LEMMA QuietSender ==
  ASSUME Inv, SP!Inv', HeardNext, UNCHANGED receiver,
         UNCHANGED <<size_inflight, final_size, app_error_code, reliable_size, written, ended>>,
         net' \subseteq net, arrived' \subseteq arrived,
         permitted' \in Nat, permitted <= permitted', permitted' <= r_max_data,
         max_stream_data' <= r_max_stream_data
  PROVE  Inv'
<1>1. Onward
  BY SenderNumbers DEF Inv, Onward, Numbers
<1>2. Ended'
  BY DEF Inv, Ended, SP!IsOpen
<1>3. Granted'
  BY SenderNumbers DEF Inv, Granted, receiver, Numbers
<1>4. net' \subseteq Packet /\ \A m \in net' : m \in net
  BY DEF Inv, Frames
<1>5. QED
  BY <1>1, <1>2, <1>3, <1>4, SenderSide

\* A reset keeps the final size that may have been told, and its code.
LEMMA ResetOnward ==
  ASSUME Inv, NEW code \in Codes, NEW reliable \in 0 .. MaxWritten, SP!Reset(code, reliable),
         app_error_code # NoCode => code = app_error_code /\ reliable = 0,
         UNCHANGED <<written, ended>>
  PROVE  Onward /\ Ended' /\ size_inflight' = size_inflight
<1>1. /\ final_size' = SP!ResetFinalSize(reliable) /\ app_error_code' = code
      /\ reliable_size' = reliable /\ size_inflight' = size_inflight /\ code # NoCode
  BY DEF SP!Reset
<1>2. Numbers /\ Ended
  BY SenderNumbers DEF Inv
<1>3. /\ final_size' \in Nat /\ final_size' # Inf
      /\ size_inflight = final_size => final_size' = final_size
  BY <1>1, <1>2 DEF Numbers, SP!ResetFinalSize
<1>4. QED
  BY <1>1, <1>2, <1>3 DEF Numbers, Onward, Ended, SP!IsOpen

\* The applications at both ends (Write, Shutdown, the resets, STOP_SENDING).
LEMMA AppInv ==
  ASSUME Inv, AppStep
  PROVE  Inv'
<1>1. Numbers /\ Ended /\ Granted /\ net \subseteq Packet
  BY SenderNumbers DEF Inv, Frames
<1>2. SUFFICES ASSUME SP!Inv', Onward, Ended', size_inflight' = size_inflight,
                      UNCHANGED <<max_stream_data, cache, got, got_eos, permitted, net, receiver>>,
                      arrived' \subseteq arrived
               PROVE  Inv'
  <2>1. ASSUME NEW len \in 1 .. MaxWritten, S!Write(len), SenderOnly
        PROVE  Inv'
    <3>1. SP!Write(len)
      BY <2>1, SenderSteps
    <3>2. SP!Inv'
      BY <3>1, SenderKept DEF Inv, SP!AppStep
    <3>3. /\ UNCHANGED <<size_inflight, final_size, app_error_code, reliable_size,
                         max_stream_data, cache, got, got_eos>>
          /\ final_size = Inf
      BY <3>1 DEF SP!Write, SP!IsOpen, SP!history
    <3>4. UNCHANGED <<permitted, ended, net, receiver>> /\ arrived' \subseteq arrived
      BY <2>1 DEF SenderOnly
    <3>5. Onward /\ Ended'
      BY <1>1, <3>3, <3>4 DEF Numbers, Onward, Ended, SP!IsOpen
    <3>6. QED
      BY <1>2, <3>2, <3>3, <3>4, <3>5
  <2>2. ASSUME NEW code \in Codes, S!ResetStream(code), SenderOnly
        PROVE  Inv'
    <3>1. SP!ResetStream(code)
      BY <2>2, SenderSteps
    <3>2. SP!Inv'
      BY <3>1, SenderKept DEF Inv, SP!AppStep
    <3>3. /\ SP!Reset(code, 0) /\ app_error_code \in {NoCode, code}
          /\ UNCHANGED <<written, max_stream_data, cache, got, got_eos>>
      BY <3>1 DEF SP!ResetStream, SP!history
    <3>4. UNCHANGED <<permitted, ended, net, receiver>> /\ arrived' \subseteq arrived
      BY <2>2 DEF SenderOnly
    <3>5. Onward /\ Ended' /\ size_inflight' = size_inflight
      BY <3>3, <3>4, ResetOnward
    <3>6. QED
      BY <1>2, <3>2, <3>3, <3>4, <3>5
  <2>3. ASSUME NEW code \in Codes, S!ReceiveStopSending(code), SenderOnly
        PROVE  Inv'
    <3>1. SP!ReceiveStopSending(code)
      BY <2>3, SenderSteps
    <3>2. SP!Inv'
      BY <3>1, SenderKept DEF Inv, SP!PeerStep
    <3>3. /\ SP!Reset(SP!StopCode(code), 0) /\ SP!eos_type # SP!RESET
          /\ UNCHANGED <<written, max_stream_data, cache, got, got_eos>>
      BY <3>1 DEF SP!ReceiveStopSending, SP!history
    <3>4. UNCHANGED <<permitted, ended, net, receiver>> /\ arrived' \subseteq arrived
      BY <2>3 DEF SenderOnly
    <3>5. /\ SP!StopCode(code) \in Codes
          /\ app_error_code # NoCode => SP!StopCode(code) = app_error_code
      BY <1>1, <3>3, EosTypes DEF SP!StopCode, Numbers
    <3>6. Onward /\ Ended' /\ size_inflight' = size_inflight
      BY <3>3, <3>4, <3>5, ResetOnward
    <3>7. QED
      BY <1>2, <3>2, <3>3, <3>4, <3>6
  <2>4. ASSUME NEW code \in Codes, NEW reliable \in 1 .. MaxWritten,
               S!SetResetStreamAt(code, reliable), SenderOnly
        PROVE  Inv'
    <3>1. SP!SetResetStreamAt(code, reliable)
      BY <2>4, SenderSteps
    <3>2. SP!Inv'
      BY <3>1, SenderKept DEF Inv, SP!AppStep
    <3>3. /\ SP!Reset(code, reliable) /\ app_error_code = NoCode
          /\ UNCHANGED <<written, max_stream_data, cache, got, got_eos>>
      BY <3>1 DEF SP!SetResetStreamAt, SP!history
    <3>4. UNCHANGED <<permitted, ended, net, receiver>> /\ arrived' \subseteq arrived
      BY <2>4 DEF SenderOnly
    <3>5. Onward /\ Ended' /\ size_inflight' = size_inflight
      BY <3>3, <3>4, ResetOnward
    <3>6. QED
      BY <1>2, <3>2, <3>3, <3>4, <3>5
  <2>5. ASSUME S!Shutdown, ended' = TRUE, UNCHANGED <<permitted, net, arrived, receiver>>
        PROVE  Inv'
    <3>1. SP!Shutdown
      BY <2>5, SenderSteps
    <3>2. SP!Inv'
      BY <3>1, SenderKept DEF Inv, SP!AppStep
    <3>3. /\ UNCHANGED <<size_inflight, app_error_code, reliable_size, written,
                         max_stream_data, cache, got, got_eos>>
          /\ final_size = Inf /\ final_size' = written
      BY <3>1 DEF SP!Shutdown, SP!IsOpen, SP!history
    <3>4. Onward /\ Ended'
      BY <1>1, <2>5, <3>3 DEF Numbers, Onward, Ended, SP!IsOpen
    <3>5. QED
      BY <1>2, <2>5, <3>2, <3>3, <3>4
  <2>6. QED
    BY <2>1, <2>2, <2>3, <2>4, <2>5 DEF AppStep
<1>3. HeardNext
  BY <1>2, HeardSame
<1>4. Granted'
  BY <1>1, <1>2 DEF Granted, receiver
<1>5. QED
  BY <1>1, <1>2, <1>3, <1>4, SenderSide

\* A frame is sent: it has to be true of the sender, and within the limits.
LEMMA NewFrame ==
  ASSUME Inv, SP!Inv', NEW g, NEW m \in Packet, m = FrameOf(g), StillTrue(m)',
         frames' = frames \cup {g}, net' = net \cup {FrameOf(f) : f \in frames' \ frames},
         UNCHANGED <<final_size, app_error_code, reliable_size, written, max_stream_data,
                     cache, got, got_eos, permitted, ended, arrived, receiver>>,
         size_inflight <= size_inflight', size_inflight' <= permitted
  PROVE  Inv'
<1>1. Numbers /\ Numbers' /\ Granted /\ net \subseteq Packet
  BY SenderNumbers DEF Inv, Frames
<1>2. Onward
  BY <1>1 DEF Onward, Numbers
<1>3. HeardNext
  BY HeardSame
<1>4. Ended'
  BY DEF Inv, Ended, SP!IsOpen
<1>5. Granted'
  BY <1>1 DEF Granted, receiver
<1>6. net' \subseteq net \cup {m}
  OBVIOUS
<1>7. QED
  BY <1>1, <1>2, <1>3, <1>4, <1>5, <1>6, SenderSide

\* quicly_send_stream and send_reset_stream.
LEMMA SendInv ==
  ASSUME Inv, Send
  PROVE  Inv'
<1>1. Numbers /\ Ended
  BY SenderNumbers DEF Inv
<1>2. /\ S!SendStep /\ size_inflight' <= permitted
      /\ net' = net \cup {FrameOf(f) : f \in frames' \ frames}
      /\ UNCHANGED <<permitted, ended, arrived, receiver>>
  BY DEF Send, WithinConnLimit
<1>3. ASSUME NEW off \in pending, NEW len \in 1 .. MaxWritten, S!SendStream(off, len)
      PROVE  Inv'
  <2> DEFINE end == off + len
             type == IF end = final_size /\ app_error_code = NoCode THEN SP!FIN ELSE SP!NONE
             g == [start |-> off, end |-> end, eos_type |-> type, live |-> TRUE]
             m == [start |-> off, end |-> end, eos_type |-> type, code |-> app_error_code,
                   reliable |-> reliable_size]
  <2>1. SP!SendStream(off, len)
    BY <1>3, SenderSteps
  <2>2. SP!Inv'
    BY <2>1, SenderKept DEF Inv, SP!SendStep
  <2>3. /\ frames' = frames \cup {g} /\ end <= written
        /\ size_inflight' = IF size_inflight < end THEN end ELSE size_inflight
        /\ UNCHANGED <<final_size, app_error_code, reliable_size, written, max_stream_data,
                       cache, got, got_eos>>
    BY <2>1 DEF SP!SendStream, SP!Sent
  <2>4. off \in Nat /\ end \in Nat /\ end <= MaxWritten /\ off < end /\ type \in 0 .. 1
    BY <1>1, <2>3, EosTypes DEF Numbers, Inv, SP!Inv, SP!TypeOK
  <2>5. m \in Packet /\ m = FrameOf(g)
    BY <1>1, <2>4, EosTypes DEF Packet, FrameOf, Numbers
  <2>6. size_inflight <= size_inflight' /\ end <= size_inflight'
    BY <1>1, <2>3, <2>4 DEF Numbers
  <2>7. type = 1 => end = final_size /\ final_size # Inf /\ app_error_code = NoCode
    BY <2>4, EosTypes
  <2>8. SP!eos_type' = SP!eos_type
    BY <2>3 DEF SP!eos_type
  <2>9. PICK n : n = m
    OBVIOUS
  <2>10. StillTrue(n)'
    <3>1. PICK e, t : e = end /\ t = type
      OBVIOUS
    <3>2. /\ n.start = off /\ n.end = e /\ n.eos_type = t /\ n.code = app_error_code
          /\ n.reliable = reliable_size
      BY <2>9, <3>1
    <3>3. /\ e \in Nat /\ off \in Nat /\ off < e /\ t \in 0 .. 1 /\ e <= size_inflight'
          /\ t = 1 => e = final_size /\ final_size # Inf /\ app_error_code = NoCode
      BY <2>4, <2>6, <2>7, <3>1
    <3> HIDE DEF m, type, end
    <3>4. QED
      BY <1>1, <1>2, <2>3, <2>8, <3>2, <3>3, EosTypes
         DEF StillTrue, Numbers, Ended, SP!IsOpen
  <2>11. QED
    BY <1>2, <2>2, <2>3, <2>5, <2>6, <2>9, <2>10, NewFrame
<1>4. ASSUME NEW type \in {1, 2, 3}, SP!SendMarker(type), SP!Inv', SP!eos_type = type,
             size_inflight = final_size
      PROVE  Inv'
  <2> DEFINE g == [start |-> final_size, end |-> final_size, eos_type |-> type, live |-> TRUE]
             m == [start |-> final_size, end |-> final_size, eos_type |-> type,
                   code |-> app_error_code, reliable |-> reliable_size]
  <2>1. /\ frames' = frames \cup {g}
        /\ UNCHANGED <<size_inflight, final_size, app_error_code, reliable_size, written,
                       max_stream_data, cache, got, got_eos>>
    BY <1>4 DEF SP!SendMarker, SP!Sent
  <2>2. m \in Packet /\ m = FrameOf(g)
    BY <1>1, <1>4, EosTypes DEF Packet, FrameOf, Numbers
  <2>3. SP!eos_type' = SP!eos_type
    BY <2>1 DEF SP!eos_type
  <2>4. PICK n : n = m
    OBVIOUS
  <2>5. StillTrue(n)'
    <3>1. /\ n.start = final_size /\ n.end = final_size /\ n.eos_type = type
          /\ n.code = app_error_code /\ n.reliable = reliable_size
      BY <2>4
    <3> HIDE DEF m
    <3>2. QED
      BY <1>1, <1>2, <1>4, <2>1, <2>3, <3>1, EosTypes DEF StillTrue, Numbers, Ended, SP!IsOpen
  <2>6. size_inflight <= size_inflight'
    BY <1>1, <2>1 DEF Numbers
  <2>7. QED
    BY <1>2, <1>4, <2>1, <2>2, <2>4, <2>5, <2>6, NewFrame
<1>5. ASSUME pending = {}, final_size # Inf PROVE size_inflight = final_size
  <2>1. SP!Bytes(size_inflight, final_size) = {}
    BY <1>5 DEF Inv, SP!Inv, SP!Unsent, SP!IsOpen
  <2>2. size_inflight \notin SP!Bytes(size_inflight, final_size)
    BY <2>1
  <2>3. QED
    BY <1>1, <1>5, <2>2 DEF Numbers, SP!Bytes
<1>6. CASE S!SendFinOnly
  <2>1. SP!SendFinOnly
    BY <1>6, SenderSteps
  <2>2. SP!Inv'
    BY <2>1, SenderKept DEF Inv, SP!SendStep
  <2>3. /\ SP!SendMarker(1) /\ pending = {} /\ final_size # Inf /\ app_error_code = NoCode
    BY <2>1, EosTypes DEF SP!SendFinOnly, SP!IsOpen
  <2>4. SP!eos_type = 1
    BY <1>1, <2>3 DEF Numbers
  <2>5. QED
    BY <1>4, <1>5, <2>2, <2>3, <2>4
<1>7. CASE S!SendResetStreamAt
  <2>1. SP!SendResetStreamAt
    BY <1>7, SenderSteps
  <2>2. SP!Inv'
    BY <2>1, SenderKept DEF Inv, SP!SendStep
  <2>3. SP!SendMarker(2) /\ pending = {} /\ SP!eos_type = 2
    BY <2>1, EosTypes DEF SP!SendResetStreamAt
  <2>4. final_size # Inf
    BY <1>1, <2>3 DEF Numbers
  <2>5. QED
    BY <1>4, <1>5, <2>2, <2>3, <2>4
<1>8. CASE S!SendResetStream
  <2>1. SP!SendResetStream
    BY <1>8, SenderSteps
  <2>2. SP!Inv'
    BY <2>1, SenderKept DEF Inv, SP!SendStep
  <2>3. SP!SendMarker(3) /\ SP!eos_type = 3
    BY <2>1, EosTypes DEF SP!SendResetStream
  <2>4. size_inflight = final_size
    BY <2>3, EosTypes DEF Inv, SP!Inv, SP!Sizes
  <2>5. QED
    BY <1>4, <2>2, <2>3, <2>4
<1>9. QED
  BY <1>2, <1>3, <1>6, <1>7, <1>8 DEF S!SendStep

\* MAX_STREAM_DATA and MAX_DATA tell the sender limits that the receiver has set.
LEMMA CreditInv ==
  ASSUME Inv, Credit
  PROVE  Inv'
<1>1. Numbers /\ Granted
  BY SenderNumbers DEF Inv
<1>2. r_max_stream_data \in Nat /\ r_max_data \in Nat
  BY DEF Inv, RP!Inv, RP!TypeOK
<1>3. ASSUME NEW limit \in 1 .. r_max_stream_data, S!ReceiveMaxStreamData(limit), SenderOnly
      PROVE  Inv'
  <2>1. SP!ReceiveMaxStreamData(limit)
    BY <1>3, SenderSteps
  <2>2. /\ max_stream_data' = limit /\ limit \in 1 .. MaxWritten
        /\ UNCHANGED <<size_inflight, final_size, app_error_code, reliable_size, written,
                       cache, got, got_eos>>
    BY <1>1, <2>1 DEF SP!ReceiveMaxStreamData, SP!sendstate, SP!history, Numbers
  <2>3. SP!Inv'
    BY <2>1, <2>2, SenderKept DEF Inv, SP!PeerStep
  <2>4. UNCHANGED <<permitted, ended, net, receiver>> /\ arrived' \subseteq arrived
    BY <1>3 DEF SenderOnly
  <2>5. HeardNext
    BY <2>2, HeardSame
  <2>6. QED
    BY <1>1, <1>2, <1>3, <2>2, <2>3, <2>4, <2>5, QuietSender DEF Granted
<1>4. ASSUME permitted' \in permitted + 1 .. r_max_data,
             UNCHANGED <<sender, ended, net, arrived, receiver>>
      PROVE  Inv'
  <2>1. SP!Inv'
    BY <1>4, SenderKept DEF Inv
  <2>2. UNCHANGED <<size_inflight, final_size, app_error_code, reliable_size, written,
                    max_stream_data, cache, got, got_eos>>
    BY <1>4 DEF sender
  <2>3. HeardNext
    BY <2>2, HeardSame
  <2>4. QED
    BY <1>1, <1>2, <1>4, <2>1, <2>2, <2>3, QuietSender DEF Granted
<1>5. QED
  BY <1>3, <1>4 DEF Credit

\* An entry of the sentmap that has arrived was heard.
LEMMA ArrivedHeard ==
  ASSUME Inv, NEW f \in frames, HasArrived(f)
  PROVE  HeardEntry(f) /\ f.eos_type \in 0 .. 3 /\ f.eos_type <= SP!eos_type
<1>1. PICK m \in arrived : m.start = f.start /\ m.end = f.end /\ m.eos_type = f.eos_type
  BY DEF HasArrived, SameEntry
<1>2. QED
  BY <1>1, EosTypes DEF Inv, Heard, HeardEntry, Frames, StillTrue, Packet

\* quicly_sendstate_acked for a range that was heard.
LEMMA AckOneHeard ==
  ASSUME Inv, NEW args, SP!AckOne(args), HeardEntry(args), args.eos_type \in 0 .. 3,
         args.eos_type <= SP!eos_type
  PROVE  /\ HeardBytes(got')
         /\ \A t \in got_eos' : HeardMarker(t) /\ t \in 0 .. 3 /\ t <= SP!eos_type
         /\ UNCHANGED <<size_inflight, final_size, app_error_code, reliable_size,
                        max_stream_data, written>>
<1>1. /\ got' = got \cup SP!Bytes(args.start, args.end)
      /\ \A t \in got_eos' : t \in got_eos \/ t = args.eos_type
      /\ UNCHANGED <<size_inflight, final_size, app_error_code, reliable_size,
                     max_stream_data, written>>
  BY DEF SP!AckOne
<1>2. got_eos \subseteq 0 .. 3
  BY EosTypes DEF Inv, SP!Inv, SP!TypeOK
<1>3. QED
  BY <1>1, <1>2 DEF Inv, Heard, HeardEntry, HeardBytes

\* An ACK comes back for what has arrived (on_ack_stream and its cache).
LEMMA AckInv ==
  ASSUME Inv, Ack
  PROVE  Inv'
<1>1. Numbers /\ Granted
  BY SenderNumbers DEF Inv
<1>2. \A a \in cache : HeardEntry(a) /\ a.eos_type \in 0 .. 3 /\ a.eos_type <= SP!eos_type
                       /\ a.start \in Nat /\ a.end \in Nat
  BY EosTypes DEF Inv, Heard, SP!Inv, SP!TypeOK, SP!Args, SP!Entries, SP!WellFormed
<1>3. SUFFICES ASSUME SP!Inv', HeardNext,
                      UNCHANGED <<size_inflight, final_size, app_error_code, reliable_size,
                                  written, max_stream_data>>
               PROVE  Inv'
  <2>1. CASE S!AckCached
    <3>1. SP!AckCached
      BY <2>1, SenderSteps
    <3>2. SP!Inv'
      BY <3>1, SenderKept DEF Inv, SP!AckStep
    <3>3. PICK args \in cache : SP!AckOne(args) /\ cache' = {}
      BY <3>1 DEF SP!AckCached
    <3>4. QED
      BY <1>2, <1>3, <3>2, <3>3, AckOneHeard DEF HeardNext
  <2>2. ASSUME NEW f \in frames, HasArrived(f), S!AckInFlight(f)
        PROVE  Inv'
    <3>1. SP!AckInFlight(f)
      BY <2>2, SenderSteps
    <3>2. SP!Inv'
      BY <3>1, SenderKept DEF Inv, SP!AckStep
    <3>3. /\ UNCHANGED <<size_inflight, final_size, app_error_code, reliable_size, written,
                         max_stream_data, got, got_eos>>
          /\ \/ cache' = {SP!ArgsOf(f)}
             \/ \E args \in cache : args.end = f.start /\ cache' = {SP!Merged(args, f)}
      BY <3>1 DEF SP!AckInFlight, SP!sendstate, SP!history
    <3>4. HeardEntry(f) /\ f.eos_type \in 0 .. 3 /\ f.eos_type <= SP!eos_type
      BY <2>2, ArrivedHeard
    <3>5. f.start \in Nat /\ f.end \in Nat
      BY DEF Inv, SP!Inv, SP!TypeOK, SP!Frame
    <3>6. \A a \in cache' : HeardEntry(a) /\ a.eos_type \in 0 .. 3 /\ a.eos_type <= SP!eos_type
      <4>1. CASE cache' = {SP!ArgsOf(f)}
        BY <3>4, <4>1 DEF SP!ArgsOf, HeardEntry
      <4>2. ASSUME NEW args \in cache, args.end = f.start, cache' = {SP!Merged(args, f)}
            PROVE  \A a \in cache' : HeardEntry(a) /\ a.eos_type \in 0 .. 3
                                     /\ a.eos_type <= SP!eos_type
        <5>1. PICK a : a = SP!Merged(args, f)
          OBVIOUS
        <5>2. /\ a.start = args.start /\ a.end = f.end
              /\ a.eos_type = args.eos_type \/ a.eos_type = f.eos_type
          BY <5>1 DEF SP!Merged, SP!Larger
        <5>3. \A b \in SP!Bytes(a.start, a.end) :
                b \in SP!Bytes(args.start, args.end) \/ b \in SP!Bytes(f.start, f.end)
          BY <1>2, <3>5, <4>2, <5>2 DEF SP!Bytes
        <5>4. HeardBytes(SP!Bytes(a.start, a.end))
          BY <1>2, <3>4, <5>3 DEF HeardEntry, HeardBytes
        <5>5. QED
          BY <1>2, <3>4, <4>2, <5>1, <5>2, <5>4 DEF HeardEntry
      <4>3. QED
        BY <3>3, <4>1, <4>2
    <3>7. HeardNext
      BY <3>3, <3>6, HeardSame DEF HeardNext, Inv, Heard, SP!Inv, SP!TypeOK, SP!EosType,
                                   SP!NONE, SP!RESET
    <3>8. QED
      BY <1>3, <3>2, <3>3, <3>7
  <2>3. ASSUME NEW f \in frames, HasArrived(f), S!AckLate(f)
        PROVE  Inv'
    <3>1. SP!AckLate(f)
      BY <2>3, SenderSteps
    <3>2. SP!Inv'
      BY <3>1, SenderKept DEF Inv, SP!AckStep
    <3>3. SP!AckOne(SP!ArgsOf(f)) /\ UNCHANGED cache
      BY <3>1 DEF SP!AckLate
    <3>4. HeardEntry(f) /\ f.eos_type \in 0 .. 3 /\ f.eos_type <= SP!eos_type
      BY <2>3, ArrivedHeard
    <3>5. PICK args : args = SP!ArgsOf(f)
      OBVIOUS
    <3>6. HeardEntry(args) /\ args.eos_type \in 0 .. 3 /\ args.eos_type <= SP!eos_type
      BY <3>4, <3>5 DEF HeardEntry, SP!ArgsOf
    <3>7. QED
      BY <1>2, <1>3, <3>2, <3>3, <3>5, <3>6, AckOneHeard DEF HeardNext
  <2>4. CASE S!Orphan
    <3>1. SP!Orphan
      BY <2>4, SenderSteps
    <3>2. SP!Inv'
      BY <3>1, SenderKept DEF Inv
    <3>3. /\ cache' = {}
          /\ UNCHANGED <<size_inflight, final_size, app_error_code, reliable_size, written,
                         max_stream_data, got, got_eos>>
      BY <3>1 DEF SP!Orphan, SP!sendstate, SP!history
    <3>4. HeardNext
      BY <3>3 DEF HeardNext, Inv, Heard, SP!Inv, SP!TypeOK, SP!EosType, SP!NONE, SP!RESET
    <3>5. QED
      BY <1>3, <3>2, <3>3, <3>4
  <2>5. QED
    BY <2>1, <2>2, <2>3, <2>4 DEF Ack
<1>4. UNCHANGED <<permitted, ended, net, receiver>> /\ arrived' \subseteq arrived
  BY DEF Ack, SenderOnly
<1>5. QED
  BY <1>1, <1>3, <1>4, QuietSender DEF Granted, Numbers

\* Loss, at the sender and in the network, and the end of it all.
LEMMA LossInv ==
  ASSUME Inv, Loss \/ Drop \/ Done \/ UNCHANGED vars
  PROVE  Inv'
<1>1. Numbers /\ Granted
  BY SenderNumbers DEF Inv
<1>2. SP!LossStep \/ UNCHANGED sender
  BY SenderSteps DEF Loss, Drop, Done, vars, SP!LossStep
<1>3. SP!Inv'
  BY <1>2, SenderKept DEF Inv
<1>4. UNCHANGED <<size_inflight, final_size, app_error_code, reliable_size, written,
                  max_stream_data, cache, got, got_eos>>
  BY <1>2 DEF SP!LossStep, SP!Lost, SP!Expire, SP!sendstate, SP!history, sender
<1>5. UNCHANGED <<permitted, ended, receiver>> /\ net' \subseteq net /\ arrived' \subseteq arrived
  BY DEF Loss, Drop, Done, vars, SenderOnly
<1>6. HeardNext
  BY <1>4, HeardSame
<1>7. QED
  BY <1>1, <1>3, <1>4, <1>5, <1>6, QuietSender DEF Granted, Numbers

-----------------------------------------------------------------------------
(* The receiver *)

\* What is known of the receiver, in numbers.
LEMMA ReceiverNumbers ==
  ASSUME Inv
  PROVE  /\ RP!PrefixEnd(r_received) \in Nat /\ RP!LastEnd(r_received) \in Nat
         /\ RP!PrefixEnd(r_received) <= RP!LastEnd(r_received)
         /\ RP!PrefixEnd(r_received) <= MaxWritten
         /\ \A b \in 0 .. RP!PrefixEnd(r_received) - 1 : b \in r_received
         /\ r_data_off \in Nat /\ r_data_off <= RP!PrefixEnd(r_received)
         /\ r_eos \in Nat /\ r_eos <= Inf
         /\ RP!Allocated \in Nat /\ RP!Allocated <= size_inflight
         /\ r_app_error_code # NoCode => r_eos # Inf
         /\ RP!TransferComplete <=> RP!PrefixEnd(r_received) >= r_eos
         /\ ~r_alive => RP!TransferComplete
         /\ r_bytes_consumed \in Nat /\ r_max_data \in Nat /\ r_max_stream_data \in Nat
<1>1. r_received \subseteq RP!Bytes(0, MaxWritten) /\ View /\ Numbers
  BY SenderNumbers DEF Inv, RP!Inv, RP!Ends
<1>2. /\ RP!PrefixEnd(r_received) \in Nat /\ RP!LastEnd(r_received) \in Nat
      /\ RP!PrefixEnd(r_received) <= RP!LastEnd(r_received)
      /\ r_data_off \in Nat /\ r_data_off <= RP!PrefixEnd(r_received)
      /\ r_eos \in Nat /\ r_eos <= Inf /\ RP!Allocated \in Nat
      /\ RP!PrefixEnd(r_received) <= MaxWritten
  BY RP!Facts DEF Inv
<1>3. RP!Allocated <= size_inflight
  BY <1>1, <1>2 DEF View, Numbers, RP!Allocated, RP!AllocatedOf
<1>4. \A b \in 0 .. RP!PrefixEnd(r_received) - 1 : b \in r_received
  BY <1>1, RP!PrefixEndIs
<1>5. QED
  BY <1>2, <1>3, <1>4 DEF Inv, RP!Inv, RP!Ends, RP!Told, RP!TypeOK, RP!TransferComplete, RP!CompleteOf

\* A frame under way, in numbers.
LEMMA FrameFacts ==
  ASSUME Inv, NEW m \in net
  PROVE  /\ m.start \in Nat /\ m.end \in Nat /\ m.end <= MaxWritten /\ m.start <= m.end
         /\ m.end <= size_inflight /\ m.reliable \in Nat
         /\ m.eos_type \in 0 .. 3 /\ m.eos_type <= SP!eos_type
         /\ m.eos_type = 0 => m.start < m.end
         /\ m.eos_type # 0 => m.end = final_size /\ final_size = size_inflight
         /\ m.eos_type = 1 => ended /\ final_size = written
         /\ m.eos_type \in {2, 3} =>
              /\ m.start = m.end /\ m.code = app_error_code /\ m.code \in Codes
              /\ reliable_size <= m.reliable /\ m.reliable <= m.end
         /\ m.eos_type = 2 /\ SP!eos_type = 2 => m.reliable = reliable_size
<1>1. m \in Packet /\ StillTrue(m) /\ Numbers
  BY SenderNumbers DEF Inv, Frames
<1>2. QED
  BY <1>1, EosTypes DEF Packet, StillTrue, Numbers

\* The receiver finds nothing wrong with a STREAM frame, though it may have no range
\* left for its bytes.
LEMMA StreamAccepted ==
  ASSUME Inv, NEW m \in net, m.eos_type \in {0, 1},
         R!RejectStream(m.start, m.end - m.start, m.eos_type = 1)
  PROVE  /\ r_error' = "STATE_EXHAUSTION" /\ R!RangesFull
         /\ r_alive /\ ~RP!TransferComplete
         /\ UNCHANGED <<r_received, r_data_off, r_eos, r_app_error_code, r_max_stream_data,
                        r_bytes_shifted, r_max_data, r_other, r_send_complete, r_alive, r_told>>
<1>1. Numbers /\ Granted /\ View /\ r_error = "none"
  <2>1. r_error = "none"
    BY DEF R!RejectStream, R!Running
  <2>2. QED
    BY <2>1, SenderNumbers DEF Inv
<1>2. m.start + (m.end - m.start) = m.end
  BY FrameFacts
<1>3. m.end <= r_max_stream_data
  BY <1>1, FrameFacts, ReceiverNumbers DEF Granted, Numbers
<1>4. r_bytes_consumed + RP!NewlyReceived(m.end) <= r_max_data
  BY <1>1, FrameFacts, ReceiverNumbers DEF Granted, Numbers, View, RP!NewlyReceived
<1>5. ~RP!StreamFinalSizeError(m.end, m.eos_type = 1)
  BY <1>1, FrameFacts, ReceiverNumbers DEF View, Numbers, RP!StreamFinalSizeError
<1>6. ~(m.end > r_max_stream_data) /\ ~(r_bytes_consumed + RP!NewlyReceived(m.end) > r_max_data)
  <2>1. RP!NewlyReceived(m.end) \in Nat
    BY FrameFacts, ReceiverNumbers DEF RP!NewlyReceived
  <2>2. QED
    BY <1>3, <1>4, <2>1, FrameFacts, ReceiverNumbers
<1>7. RP!RejectStream(m.start, m.end - m.start, m.eos_type = 1)
  BY ReceiverSteps
<1>8. /\ RP!Fail("STATE_EXHAUSTION") /\ r_alive /\ ~RP!TransferComplete
  BY <1>2, <1>5, <1>6, <1>7 DEF RP!RejectStream
<1>9. r_error' = "STATE_EXHAUSTION" => R!RangesFull
  BY DEF R!RejectStream, R!Fail, R!StateExhausted
<1>10. QED
  BY <1>8, <1>9 DEF RP!Fail, RP!recvstate

\* Nor with a reset.
LEMMA ResetAccepted ==
  ASSUME Inv, NEW m \in net, m.eos_type \in {2, 3}
  PROVE  ~RP!RejectReset(m.end, m.reliable, m.code)
<1> SUFFICES ASSUME RP!RejectReset(m.end, m.reliable, m.code) PROVE FALSE
  OBVIOUS
<1>1. Numbers /\ Granted /\ View /\ r_error = "none"
  BY SenderNumbers DEF Inv, RP!RejectReset, RP!Running
<1>2. ~(m.end > r_max_stream_data)
  BY <1>1, FrameFacts, ReceiverNumbers DEF Granted, Numbers
<1>3. RP!ResetError(m.end, m.code) = "none"
  BY <1>1, FrameFacts, ReceiverNumbers DEF View, Numbers, RP!ResetError, RP!FirstReset
<1>4. ~(r_bytes_consumed + RP!BytesMissing(m.end) > r_max_data)
  BY <1>1, FrameFacts, ReceiverNumbers DEF View, Granted, Numbers, RP!BytesMissing, RP!FirstReset
<1>5. QED
  BY <1>2, <1>3, <1>4 DEF RP!RejectReset

\* the receiver after a step: it knows no less than before
Grown ==
  /\ RP!Inv' /\ View'
  /\ r_received \subseteq r_received' /\ r_eos' <= r_eos
  /\ RP!TransferComplete => RP!TransferComplete'
  /\ r_max_data <= r_max_data' /\ r_max_stream_data <= r_max_stream_data'

\* A STREAM frame is taken in (apply_stream_frame).
LEMMA StreamTaken ==
  ASSUME Inv, NEW m \in net, m.eos_type \in {0, 1}, UNCHANGED <<sender, permitted, ended>>,
         RP!ReceiveStream(m.start, m.end - m.start, m.eos_type = 1, 0)
  PROVE  Grown /\ HeardEntry(m)'
<1> DEFINE newEos == IF r_eos = Inf /\ m.eos_type = 1 THEN m.end ELSE r_eos
           taken == RP!Bytes(RP!Larger(m.start, r_data_off), RP!Smaller(m.end, newEos))
<1>1. Numbers /\ View /\ UNCHANGED <<size_inflight, final_size, app_error_code, reliable_size, written>>
  BY SenderNumbers DEF Inv, sender
<1>2. m.start + (m.end - m.start) = m.end
  BY FrameFacts
<1>3. /\ ~RP!TransferComplete /\ r_error = "none"
      /\ r_bytes_consumed' = r_bytes_consumed + RP!NewlyReceived(m.end)
      /\ r_received' = r_received \cup taken /\ r_eos' = newEos
      /\ UNCHANGED <<r_app_error_code, r_max_stream_data, r_max_data, r_other, r_send_complete,
                     r_error>>
  BY <1>2 DEF RP!ReceiveStream, RP!Running, RP!Taken, RP!Settle
<1>4. /\ RP!Inv'
      /\ r_bytes_consumed' = r_bytes_consumed + (RP!Allocated' - RP!Allocated)
      /\ RP!LastEnd(r_received)' <= RP!Larger(RP!LastEnd(r_received), m.end)
  <2>1. m.start \in RP!Offsets /\ m.end \in RP!Offsets /\ 0 \in RP!Offsets /\ (m.eos_type = 1) \in BOOLEAN
    BY FrameFacts DEF RP!Offsets
  <2>2. m.start <= m.end /\ (m.start < m.end \/ m.eos_type = 1)
    BY FrameFacts
  <2>3. QED
    BY <2>1, <2>2, RP!ReceiveStreamInv DEF Inv, RP!Kept
<1>5. newEos \in Nat /\ newEos <= r_eos
  BY FrameFacts, ReceiverNumbers
<1>6. RP!LastEnd(r_received)' <= size_inflight
  <2>1. RP!LastEnd(r_received)' \in Nat
    BY <1>4, RP!LastEndIs DEF RP!Inv, RP!Ends
  <2>2. QED
    BY <1>1, <1>4, <2>1, FrameFacts, ReceiverNumbers DEF Numbers, View, RP!Larger
<1>7. r_bytes_consumed' = IF r_app_error_code = NoCode THEN RP!Allocated' ELSE size_inflight
  <2>1. RP!Allocated' \in Nat
    BY <1>3, <1>4, <1>5, ReceiverNumbers, RP!LastEndIs
       DEF RP!Inv, RP!Ends, RP!Allocated, RP!AllocatedOf
  <2>2. QED
    BY <1>1, <1>3, <1>4, <2>1, ReceiverNumbers DEF View, RP!NewlyReceived, Numbers
<1>8. View'
  BY <1>1, <1>3, <1>6, <1>7, FrameFacts, ReceiverNumbers DEF View, Numbers
<1>9. HeardEntry(m)'
  <2>1. \A b \in SP!Bytes(m.start, m.end) : b < newEos => b \in r_received \cup taken
    <3>1. SUFFICES ASSUME NEW b \in SP!Bytes(m.start, m.end), b < newEos, ~(b < r_data_off)
                   PROVE  b \in taken
      BY ReceiverNumbers DEF SP!Bytes
    <3>2. QED
      BY <1>5, <3>1, FrameFacts, ReceiverNumbers DEF SP!Bytes, RP!Bytes, RP!Larger, RP!Smaller
  <2>2. HeardBytes(SP!Bytes(m.start, m.end))'
    BY <1>3, <2>1 DEF HeardBytes, SP!Bytes
  <2>3. m.eos_type = 1 => newEos # Inf
    BY FrameFacts
  <2>4. QED
    BY <1>3, <2>2, <2>3, EosTypes DEF HeardEntry, HeardMarker
<1>10. QED
  BY <1>3, <1>4, <1>5, <1>8, <1>9, ReceiverNumbers DEF Grown

\* A reset is taken in (handle_reset_stream_frame).
LEMMA ResetTaken ==
  ASSUME Inv, NEW m \in net, m.eos_type \in {2, 3}, UNCHANGED <<sender, permitted, ended>>,
         RP!ReceiveReset(m.end, m.reliable, m.code, 0)
  PROVE  Grown /\ HeardEntry(m)'
<1>1. Numbers /\ View /\ UNCHANGED <<size_inflight, final_size, app_error_code, reliable_size, written>>
  BY SenderNumbers DEF Inv, sender
<1>2. /\ ~RP!TransferComplete /\ r_error = "none"
      /\ r_bytes_consumed' = r_bytes_consumed + RP!BytesMissing(m.end)
      /\ r_app_error_code' = m.code
      /\ r_received' = r_received /\ r_eos' = RP!ResetEos(m.reliable)
      /\ UNCHANGED <<r_max_stream_data, r_max_data, r_other, r_send_complete, r_error>>
  BY DEF RP!ReceiveReset, RP!Running, RP!Settle
<1>3. RP!Inv'
  <2>1. m.end \in RP!Offsets /\ m.reliable \in RP!Offsets /\ 0 \in RP!Offsets /\ m.reliable <= m.end
        /\ m.code \in Codes
    BY FrameFacts DEF RP!Offsets
  <2>2. QED
    BY <2>1, RP!ReceiveResetInv DEF Inv, RP!Kept
<1>4. /\ r_eos' \in Nat /\ r_eos' <= r_eos /\ r_eos' <= final_size /\ reliable_size <= r_eos'
      /\ r_eos' <= m.reliable \/ r_eos' <= RP!PrefixEnd(r_received)
  BY <1>1, <1>2, FrameFacts, ReceiverNumbers DEF RP!ResetEos, RP!FirstReset, RP!Larger, View, Numbers
<1>5. r_bytes_consumed' = size_inflight
  BY <1>1, <1>2, FrameFacts, ReceiverNumbers DEF RP!BytesMissing, RP!FirstReset, View, Numbers
<1>6. RP!LastEnd(r_received)' <= size_inflight
  BY <1>1, <1>2 DEF View
<1>7. View'
  BY <1>1, <1>2, <1>4, <1>5, <1>6, FrameFacts DEF View, Numbers
<1>8. HeardEntry(m)'
  <2>1. SP!Bytes(m.start, m.end) = {}
    BY FrameFacts DEF SP!Bytes
  <2>2. RP!TransferComplete' <=> RP!PrefixEnd(r_received) >= r_eos'
    BY <1>2 DEF RP!TransferComplete, RP!CompleteOf
  <2>3. SP!eos_type' = SP!eos_type
    BY <1>1 DEF SP!eos_type
  <2>4. HeardMarker(m.eos_type)'
    BY <1>1, <1>2, <1>4, <2>2, <2>3, FrameFacts, ReceiverNumbers, EosTypes DEF HeardMarker, Numbers
  <2>5. QED
    BY <2>1, <2>4 DEF HeardEntry, HeardBytes, SP!Bytes
<1>9. QED
  BY <1>2, <1>3, <1>4, <1>7, <1>8, ReceiverNumbers DEF Grown

\* A STREAM frame that finds no range ends the receiver, and leaves the stream as
\* it is.
LEMMA StreamRefused ==
  ASSUME Inv, NEW m \in net, m.eos_type \in {0, 1}, UNCHANGED <<sender, permitted, ended>>,
         R!RejectStream(m.start, m.end - m.start, m.eos_type = 1)
  PROVE  Grown /\ r_error' = "STATE_EXHAUSTION"
<1>1. /\ r_error' = "STATE_EXHAUSTION" /\ R!RangesFull
      /\ r_alive /\ ~RP!TransferComplete
      /\ UNCHANGED <<r_received, r_data_off, r_eos, r_app_error_code, r_max_stream_data,
                     r_bytes_shifted, r_max_data, r_other, r_send_complete, r_alive, r_told>>
  BY StreamAccepted
<1>2. RP!Inv'
  <2>1. m.start \in RP!Offsets /\ m.end \in RP!Offsets /\ m.start <= m.end
        /\ (m.eos_type = 1) \in BOOLEAN
    BY FrameFacts DEF RP!Offsets
  <2>2. RP!RejectStream(m.start, m.end - m.start, m.eos_type = 1)
    BY ReceiverSteps
  <2>3. QED
    BY <2>1, <2>2, RP!RejectInv DEF Inv, RP!Kept
<1>3. R!RangesFull'
  BY <1>1 DEF R!RangesFull
<1>4. View'
  BY <1>1, <1>3 DEF Inv, View, sender
<1>5. RP!TransferComplete' = RP!TransferComplete
  BY <1>1 DEF RP!TransferComplete
<1>6. QED
  BY <1>1, <1>2, <1>4, <1>5, ReceiverNumbers DEF Grown

\* A frame for a stream that is complete has nothing to add.
LEMMA FrameIgnored ==
  ASSUME Inv, NEW m \in net, RP!TransferComplete
  PROVE  HeardEntry(m)
<1>1. \A b \in SP!Bytes(m.start, m.end) : b < r_eos => b \in r_received
  BY ReceiverNumbers DEF SP!Bytes
<1>2. r_eos # Inf
  BY ReceiverNumbers
<1>3. QED
  BY <1>1, <1>2 DEF HeardEntry, HeardBytes, HeardMarker

\* A step of the receiver: what it has to see to.
LEMMA ReceiverSide ==
  ASSUME Inv, Grown, UNCHANGED <<sender, permitted, ended>>,
         net' \subseteq net, arrived' \subseteq arrived \cup net,
         \A m \in arrived' : m \in arrived \/ HeardEntry(m)'
  PROVE  Inv'
<1>1. UNCHANGED <<size_inflight, final_size, app_error_code, reliable_size, written,
                  max_stream_data, cache, got, got_eos>>
  BY DEF sender
<1>2. SP!eos_type' = SP!eos_type
  BY <1>1 DEF SP!eos_type
<1>3. SP!Inv'
  BY SenderKept DEF Inv
<1>4. Frames'
  BY <1>1, <1>2 DEF Inv, Frames, StillTrue
<1>5. Granted' /\ Ended'
  <2>1. Numbers /\ Granted /\ Ended
    BY SenderNumbers DEF Inv
  <2>2. r_max_data' \in Nat /\ r_max_stream_data' \in Nat /\ r_max_data \in Nat
        /\ r_max_stream_data \in Nat
    BY ReceiverNumbers DEF Grown, RP!Inv, RP!TypeOK
  <2>3. QED
    BY <1>1, <2>1, <2>2 DEF Grown, Granted, Ended, Numbers, SP!IsOpen
<1>6. r_eos \in Nat /\ r_eos' \in Nat /\ reliable_size \in Nat /\ r_eos <= Inf
  BY ReceiverNumbers, SenderNumbers DEF Grown, RP!Inv, RP!TypeOK, RP!Offsets, Inv, Numbers
<1>7. ASSUME NEW bytes, bytes \subseteq Nat, HeardBytes(bytes) PROVE HeardBytes(bytes)'
  BY <1>6, <1>7 DEF Grown, HeardBytes
<1>8. ASSUME NEW type, HeardMarker(type) PROVE HeardMarker(type)'
  BY <1>1, <1>2, <1>6, <1>8 DEF Grown, HeardMarker
<1>9. ASSUME NEW e, HeardEntry(e) PROVE HeardEntry(e)'
  <2>1. SP!Bytes(e.start, e.end) \subseteq Nat
    BY DEF SP!Bytes
  <2>2. HeardBytes(SP!Bytes(e.start, e.end))' /\ HeardMarker(e.eos_type)'
    BY <1>7, <1>8, <1>9, <2>1 DEF HeardEntry, SP!Bytes
  <2>3. QED
    BY <2>2 DEF HeardEntry
<1>10. Heard'
  <2>1. \A m \in arrived' : HeardEntry(m)'
    BY <1>9 DEF Inv, Heard
  <2>2. \A a \in cache' : HeardEntry(a)'
    BY <1>1, <1>9 DEF Inv, Heard
  <2>3. HeardBytes(got)'
    <3>1. got \subseteq Nat /\ HeardBytes(got)
      BY DEF Inv, Heard, SP!Inv, SP!TypeOK
    <3>2. QED
      BY <1>1, <1>6, <3>1 DEF HeardBytes, Grown
  <2>4. \A t \in got_eos' : HeardMarker(t)' /\ (t <= SP!eos_type)'
    BY <1>1, <1>2, <1>8 DEF Inv, Heard
  <2>5. QED
    BY <2>1, <2>2, <2>3, <2>4 DEF Heard
<1>11. QED
  BY <1>3, <1>4, <1>5, <1>10 DEF Inv, Grown

\* Nothing that the receiver knows changes.
LEMMA GrownSame ==
  ASSUME Inv, UNCHANGED <<sender, ended, receiver>>
  PROVE  Grown
<1>1. UNCHANGED RP!vars
  BY DEF receiver, RP!vars, RP!recvstate, RP!credit
<1>2. RP!Inv'
  BY <1>1, RP!NextKept DEF Inv, RP!Kept
<1>3. View'
  BY DEF Inv, View, sender, receiver, RP!Allocated, R!RangesFull
<1>4. RP!TransferComplete' = RP!TransferComplete
  BY DEF RP!TransferComplete, receiver
<1>5. QED
  BY <1>2, <1>3, <1>4, ReceiverNumbers DEF Grown, receiver

\* The handler of a frame that arrives.
LEMMA HandleGrows ==
  ASSUME Inv, NEW m \in net, Handle(m), UNCHANGED <<sender, permitted, ended>>
  PROVE  Grown /\ (r_error' = "none" => HeardEntry(m)')
<1>1. S!NONE = 0 /\ S!FIN = 1
  BY DEF S!NONE, S!FIN
<1>2. CASE (~r_alive \/ R!TransferComplete) /\ UNCHANGED receiver
  <2>1. RP!TransferComplete
    BY <1>2, ReceiverSteps, ReceiverNumbers
  <2>2. HeardEntry(m) /\ Grown
    BY <1>2, <2>1, FrameIgnored, GrownSame
  <2>3. UNCHANGED <<r_received, r_eos, final_size, app_error_code, reliable_size>>
    BY <1>2 DEF receiver, sender
  <2>4. HeardEntry(m)'
    BY <2>2, <2>3 DEF HeardEntry, HeardBytes, HeardMarker, RP!TransferComplete, SP!eos_type
  <2>5. QED
    BY <2>2, <2>4
<1>3. CASE m.eos_type \in {0, 1}
  <2>1. \/ R!ReceiveStream(m.start, m.end - m.start, m.eos_type = 1, 0)
        \/ R!RejectStream(m.start, m.end - m.start, m.eos_type = 1)
        \/ (~r_alive \/ R!TransferComplete) /\ UNCHANGED receiver
    BY <1>1, <1>3 DEF Handle
  <2>2. CASE R!ReceiveStream(m.start, m.end - m.start, m.eos_type = 1, 0)
    BY <1>3, <2>2, ReceiverSteps, StreamTaken
  <2>3. CASE R!RejectStream(m.start, m.end - m.start, m.eos_type = 1)
    BY <1>3, <2>3, StreamRefused
  <2>4. QED
    BY <1>2, <2>1, <2>2, <2>3
<1>4. CASE m.eos_type \in {2, 3}
  <2>1. \/ R!ReceiveReset(m.end, m.reliable, m.code, 0)
        \/ R!RejectReset(m.end, m.reliable, m.code)
        \/ (~r_alive \/ R!TransferComplete) /\ UNCHANGED receiver
    BY <1>1, <1>4 DEF Handle
  <2>2. CASE R!ReceiveReset(m.end, m.reliable, m.code, 0)
    BY <1>4, <2>2, ReceiverSteps, ResetTaken
  <2>3. ~R!RejectReset(m.end, m.reliable, m.code)
    BY <1>4, ReceiverSteps, ResetAccepted
  <2>4. QED
    BY <1>2, <2>1, <2>2, <2>3
<1>5. QED
  BY <1>3, <1>4, FrameFacts

\* A frame arrives.
LEMMA ArrivalInv ==
  ASSUME Inv, Arrival
  PROVE  Inv'
<1>1. PICK m \in net : Arrive(m)
  BY DEF Arrival
<1>2. /\ Handle(m) /\ net' \subseteq net /\ arrived' \subseteq arrived \cup {m}
      /\ r_error' # "none" => arrived' \subseteq arrived
      /\ UNCHANGED <<sender, permitted, ended>>
  BY <1>1 DEF Arrive
<1>3. Grown /\ (r_error' = "none" => HeardEntry(m)')
  BY <1>2, HandleGrows
<1>4. QED
  BY <1>2, <1>3, ReceiverSide

\* The application reads, and limits are raised.
LEMMA ReadInv ==
  ASSUME Inv, Read
  PROVE  Inv'
<1>1. \/ \E amount \in 1 .. MaxWritten : RP!Shift(amount)
      \/ RP!SendMaxStreamData \/ RP!SendMaxData
  BY ReceiverSteps DEF Read
<1>2. RP!Inv'
  BY <1>1, RP!ShiftInv, RP!CreditInv DEF Inv, RP!Kept
<1>3. /\ UNCHANGED <<r_received, r_eos, r_app_error_code, r_bytes_consumed, r_other,
                     r_send_complete, r_error>>
      /\ r_error = "none"
      /\ r_max_data <= r_max_data' /\ r_max_stream_data <= r_max_stream_data'
  <2>1. r_max_data \in Nat /\ r_max_stream_data \in Nat /\ r_data_off \in Nat /\ r_bytes_shifted \in Nat
    BY ReceiverNumbers DEF Inv, RP!Inv, RP!TypeOK
  <2>2. QED
    BY <1>1, <2>1 DEF RP!Shift, RP!SendMaxStreamData, RP!SendMaxData, RP!MaxDataValue,
                      RP!Running, RP!recvstate, RP!credit
<1>4. UNCHANGED <<sender, permitted, ended, net, arrived>>
  BY DEF Read
<1>5. View'
  BY <1>3, <1>4 DEF Inv, View, sender, RP!Allocated
<1>6. RP!TransferComplete' = RP!TransferComplete
  BY <1>3 DEF RP!TransferComplete
<1>7. Grown
  BY <1>2, <1>3, <1>5, <1>6, ReceiverNumbers DEF Grown
<1>8. QED
  BY <1>4, <1>7, ReceiverSide

-----------------------------------------------------------------------------
(* The invariant is inductive *)

\* A new stream.
LEMMA InitInv == Init => Inv
<1> SUFFICES ASSUME Init PROVE Inv
  OBVIOUS
<1>1. SP!Inv
  <2>1. SP!Init
    BY DEF Init, S!Init, SP!Init
  <2>2. QED
    BY <2>1, SP!InitInv
<1>2. RP!Inv
  <2>1. RP!Init
    BY DEF Init, R!Init, RP!Init
  <2>2. QED
    BY <2>1, RP!InitInv
<1>3. Frames /\ Heard
  BY DEF Init, S!Init, Frames, Heard, HeardBytes
<1>4. Granted /\ Ended
  <2>1. Granted
    BY DEF Init, S!Init, R!Init, Granted
  <2>2. Ended
    BY DEF Init, S!Init, Ended, SP!IsOpen
  <2>3. QED
    BY <2>1, <2>2
<1>5. View
  <2>1. RP!LastEnd({}) = 0
    BY RP!LastEndIs
  <2>2. QED
    BY <2>1 DEF Init, S!Init, R!Init, View, RP!Allocated, RP!AllocatedOf
<1>6. QED
  BY <1>1, <1>2, <1>3, <1>4, <1>5 DEF Inv

\* Every step of the endpoints, the applications and the network.
LEMMA StepInv == Inv /\ [Next]_vars => Inv'
BY AppInv, SendInv, CreditInv, AckInv, LossInv, ArrivalInv, ReadInv DEF Next

\* The inductive invariant holds in every reachable state.
THEOREM Invariance == Spec => []Inv
BY InitInv, StepInv, PTL DEF Spec

-----------------------------------------------------------------------------
(* What follows from it *)

\* No frame of a quicly sender makes a quicly receiver raise a protocol error, for
\* any loss, delay and order of frames, any windows and anything that the
\* applications do (apply_stream_frame, handle_reset_stream_frame).  The receiver
\* fails with STATE_EXHAUSTION alone, and then it does hold as many ranges as
\* calc_max_ranges permits.
THEOREM NeverAccused == Spec => []NoFalseAccusation
<1>1. Inv => NoFalseAccusation
  BY DEF Inv, View, NoFalseAccusation
<1>2. QED
  BY <1>1, Invariance, PTL

\* When the sender deems the transfer complete, the receiver has reached its end
\* and its application was told (quicly_sendstate_transfer_complete against
\* quicly_recvstate_transfer_complete).
THEOREM CompletionAgreed == Spec => []CompletionIsMutual
<1>1. Inv => CompletionIsMutual
  <2>1. SUFFICES ASSUME Inv, S!TransferComplete, S!eos_type # S!RESET
                 PROVE  /\ RP!TransferComplete
                        /\ r_eos >= IF S!eos_type = S!FIN THEN final_size ELSE reliable_size
    BY DEF CompletionIsMutual, Inv, RP!Inv, RP!Told
  <2>2. /\ SP!TransferComplete /\ SP!eos_type # 3 /\ S!eos_type = SP!eos_type /\ S!FIN = 1
        /\ final_size # Inf
    BY <2>1 DEF S!TransferComplete, SP!TransferComplete, S!CompleteOf, SP!CompleteOf,
                S!IsPrefixEnd, SP!IsPrefixEnd, S!Bytes, SP!Bytes, S!eos_type, SP!eos_type,
                S!EosTypeOf, SP!EosTypeOf, S!NONE, SP!NONE, S!FIN, SP!FIN,
                S!RESET_AT, SP!RESET_AT, S!RESET, SP!RESET
  <2>3. Numbers /\ View
    BY <2>1, SenderNumbers DEF Inv
  <2>4. SP!eos_type \in {1, 2}
    BY <2>2, <2>3 DEF Numbers
  <2>5. /\ SP!Bytes(0, IF SP!eos_type = 1 THEN final_size ELSE reliable_size) \subseteq got
        /\ SP!eos_type \in got_eos
    BY <2>1, <2>2, SP!CompleteDelivered, EosTypes DEF Inv, SP!CompleteMeansDelivered
  <2>6. HeardBytes(got) /\ HeardMarker(SP!eos_type)
    BY <2>1, <2>5 DEF Inv, Heard
  <2>7. RP!PrefixEnd(r_received) \notin r_received
    BY <2>1, RP!PrefixEndIs DEF Inv, RP!Inv, RP!Ends
  <2>8. CASE SP!eos_type = 1
    <3>1. r_eos # Inf /\ app_error_code = NoCode
      BY <2>3, <2>6, <2>8, EosTypes DEF HeardMarker, Numbers
    <3>2. r_eos = final_size
      BY <2>3, <3>1 DEF View
    <3>3. RP!PrefixEnd(r_received) >= r_eos
      BY <2>1, <2>3, <2>5, <2>6, <2>7, <2>8, <3>2, ReceiverNumbers DEF HeardBytes, SP!Bytes, Numbers
    <3>4. QED
      BY <2>1, <2>2, <2>3, <2>8, <3>2, <3>3, ReceiverNumbers DEF Numbers
  <2>9. CASE SP!eos_type = 2
    <3>1. RP!TransferComplete \/ r_eos <= reliable_size
      BY <2>6, <2>9, EosTypes DEF HeardMarker
    <3>2. ASSUME r_eos <= reliable_size PROVE RP!PrefixEnd(r_received) >= r_eos
      BY <2>1, <2>3, <2>5, <2>6, <2>7, <2>9, <3>2, ReceiverNumbers DEF HeardBytes, SP!Bytes, Numbers
    <3>3. RP!TransferComplete
      BY <2>1, <3>1, <3>2, ReceiverNumbers
    <3>4. r_eos >= reliable_size
      BY <2>1, <2>3, ReceiverNumbers DEF View, Numbers
    <3>5. QED
      BY <2>2, <2>9, <3>3, <3>4
  <2>10. QED
    BY <2>4, <2>8, <2>9
<1>2. QED
  BY <1>1, Invariance, PTL

\* When the stream is gone at the receiver, every byte of connection credit that
\* the sender charged itself for has been consumed and returned (destroy_stream).
THEOREM CreditComesBack == Spec => []CreditReturned
<1>1. Inv => CreditReturned
  <2>1. SUFFICES ASSUME Inv, ~r_alive
                 PROVE  r_bytes_consumed = size_inflight /\ r_bytes_shifted = size_inflight
    BY DEF CreditReturned
  <2>2. Numbers /\ View
    BY <2>1, SenderNumbers DEF Inv
  <2>3. RP!TransferComplete /\ r_eos # Inf /\ r_error = "none"
    BY <2>1, <2>2, ReceiverNumbers DEF View
  <2>4. r_bytes_consumed = size_inflight
    <3>1. CASE r_app_error_code # NoCode
      BY <2>2, <2>3, <3>1 DEF View
    <3>2. CASE r_app_error_code = NoCode
      BY <2>1, <2>2, <2>3, <3>2, ReceiverNumbers DEF View, Numbers, RP!Allocated, RP!AllocatedOf
    <3>3. QED
      BY <3>1, <3>2
  <2>5. r_bytes_consumed - r_bytes_shifted = 0 /\ r_bytes_shifted \in Nat
    BY <2>1, <2>2, <2>3 DEF Inv, RP!Inv, RP!CreditBalance, RP!Running, RP!TypeOK, View
  <2>6. QED
    BY <2>2, <2>4, <2>5 DEF Numbers
<1>2. QED
  BY <1>1, Invariance, PTL

-----------------------------------------------------------------------------
(* The stream service *)

\* The receiver's view, with the operators that were proved about.
LEMMA SeenIs ==
  /\ R!PrefixEnd(r_received) = RP!PrefixEnd(r_received)
  /\ R!PrefixEnd(r_received)' = RP!PrefixEnd(r_received)'
  /\ Seen = IF ~RP!TransferComplete THEN "none"
            ELSE IF r_app_error_code = NoCode THEN "end" ELSE "reset"
  /\ Seen' = IF ~RP!TransferComplete' THEN "none"
             ELSE IF r_app_error_code' = NoCode THEN "end" ELSE "reset"
BY DEF R!PrefixEnd, RP!PrefixEnd, Seen, R!TransferComplete, RP!TransferComplete,
       R!CompleteOf, RP!CompleteOf

\* No reset has been issued as long as there is no promise.
LEMMA PromiseIs ==
  ASSUME SP!Inv
  PROVE  Promise = NoCode <=> app_error_code = NoCode
BY SenderNumbers DEF Numbers, Promise

\* Nobody sees a step that leaves the applications' state alone.
LEMMA Unseen ==
  ASSUME UNCHANGED <<written, ended, app_error_code, reliable_size, r_received, r_eos,
                     r_app_error_code>>
  PROVE  UNCHANGED Service!vars
BY DEF Service!vars, Promise, Seen, R!TransferComplete

\* The applications write, end and reset.
LEMMA AppServed ==
  ASSUME Inv, AppStep
  PROVE  [Service!Next]_(Service!vars)
<1>1. Numbers /\ Ended /\ (Promise = NoCode <=> app_error_code = NoCode)
  BY SenderNumbers, PromiseIs DEF Inv
<1>2. UNCHANGED <<r_received, r_eos, r_app_error_code>>
  BY DEF AppStep, SenderOnly, receiver
<1>3. UNCHANGED <<R!PrefixEnd(r_received), Seen>>
  BY <1>2 DEF Seen, R!TransferComplete
<1>4. ASSUME NEW len \in 1 .. MaxWritten, S!Write(len), SenderOnly
      PROVE  Service!Write
  <2>1. SP!Write(len)
    BY <1>4, SenderSteps
  <2>2. /\ final_size = Inf /\ written' = written + len /\ written + len <= MaxWritten
        /\ UNCHANGED <<app_error_code, reliable_size, ended>>
    BY <1>4, <2>1 DEF SP!Write, SP!IsOpen, SenderOnly
  <2>3. /\ ~ended /\ Promise = NoCode /\ Promise' = Promise
        /\ written' \in written + 1 .. MaxWritten
    BY <1>1, <2>2 DEF Numbers, Ended, SP!IsOpen, Promise
  <2>4. QED
    BY <1>3, <2>2, <2>3 DEF Service!Write
<1>5. ASSUME NEW code \in Codes, NEW reliable \in 0 .. written,
             app_error_code' = code, reliable_size' = reliable, UNCHANGED <<written, ended>>,
             app_error_code # NoCode => reliable = 0 /\ reliable_size # 0
      PROVE  Service!Reset
  <2>1. Promise' = reliable
    BY <1>5 DEF Promise
  <2>2. reliable # NoCode
    BY <1>1, <1>5 DEF Numbers
  <2>3. app_error_code # NoCode => Promise = reliable_size
    BY DEF Promise
  <2>4. QED
    BY <1>1, <1>3, <1>5, <2>1, <2>2, <2>3 DEF Service!Reset
<1>6. ASSUME NEW code \in Codes, S!ResetStream(code), SenderOnly
      PROVE  Service!Reset
  <2>1. SP!ResetStream(code)
    BY <1>6, SenderSteps
  <2>2. /\ app_error_code' = code /\ reliable_size' = 0 /\ UNCHANGED <<written, ended>>
        /\ SP!eos_type # 3
    BY <1>6, <2>1, EosTypes DEF SP!ResetStream, SP!Reset, SenderOnly
  <2>3. app_error_code # NoCode => reliable_size # 0
    BY <1>1, <2>2 DEF Numbers
  <2>4. QED
    BY <1>1, <1>5, <2>2, <2>3 DEF Numbers
<1>7. ASSUME NEW code \in Codes, S!ReceiveStopSending(code), SenderOnly
      PROVE  Service!Reset
  <2>1. SP!ReceiveStopSending(code)
    BY <1>7, SenderSteps
  <2>2. /\ app_error_code' = SP!StopCode(code) /\ reliable_size' = 0
        /\ UNCHANGED <<written, ended>> /\ SP!eos_type # 3
    BY <1>7, <2>1, EosTypes DEF SP!ReceiveStopSending, SP!Reset, SenderOnly
  <2>3. SP!StopCode(code) \in Codes /\ (app_error_code # NoCode => reliable_size # 0)
    BY <1>1, <2>2, EosTypes DEF Numbers, SP!StopCode
  <2>4. QED
    BY <1>1, <1>5, <2>2, <2>3 DEF Numbers
<1>8. ASSUME NEW code \in Codes, NEW reliable \in 1 .. MaxWritten,
             S!SetResetStreamAt(code, reliable), SenderOnly
      PROVE  Service!Reset
  <2>1. SP!SetResetStreamAt(code, reliable)
    BY <1>8, SenderSteps
  <2>2. /\ app_error_code' = code /\ reliable_size' = reliable /\ reliable \in 1 .. written
        /\ UNCHANGED <<written, ended>> /\ app_error_code = NoCode
    BY <1>8, <2>1 DEF SP!SetResetStreamAt, SP!Reset, SenderOnly
  <2>3. QED
    BY <1>1, <1>5, <2>2 DEF Numbers
<1>9. ASSUME S!Shutdown, ended' = TRUE
      PROVE  Service!End
  <2>1. SP!Shutdown
    BY <1>9, SenderSteps
  <2>2. final_size = Inf /\ UNCHANGED <<app_error_code, reliable_size, written>>
    BY <2>1 DEF SP!Shutdown, SP!IsOpen
  <2>3. ~ended /\ Promise = NoCode /\ Promise' = Promise
    BY <1>1, <2>2 DEF Numbers, Ended, SP!IsOpen, Promise
  <2>4. QED
    BY <1>3, <1>9, <2>2, <2>3 DEF Service!End
<1>10. QED
  BY <1>4, <1>6, <1>7, <1>8, <1>9 DEF AppStep, Service!Next

\* A frame arrives: bytes are delivered, or the end is seen.
LEMMA ArrivalServed ==
  ASSUME Inv, Inv', Arrival
  PROVE  [Service!Next]_(Service!vars)
<1>1. PICK m \in net : Handle(m) /\ UNCHANGED <<sender, permitted, ended>>
  BY DEF Arrival, Arrive
<1>2. Grown
  BY <1>1, HandleGrows
<1>3. Numbers /\ View /\ (Promise = NoCode <=> app_error_code = NoCode)
  BY SenderNumbers, PromiseIs DEF Inv
<1>4. UNCHANGED <<written, ended, size_inflight, final_size, app_error_code, reliable_size>>
  BY <1>1 DEF sender
<1>5. Promise' = Promise
  BY <1>4 DEF Promise
<1>6. CASE UNCHANGED receiver
  BY <1>4, <1>6, Unseen DEF receiver
<1>7. CASE ~RP!TransferComplete
  <2> DEFINE was == RP!PrefixEnd(r_received)
             now == RP!PrefixEnd(r_received)'
  <2>1. /\ was \in Nat /\ r_eos \in Nat /\ r_eos <= Inf
        /\ RP!TransferComplete <=> was >= r_eos
    BY ReceiverNumbers
  <2>2. /\ now \in Nat /\ now <= MaxWritten /\ now <= RP!LastEnd(r_received)'
        /\ RP!LastEnd(r_received)' \in Nat /\ r_eos' \in Nat
        /\ RP!TransferComplete' <=> now >= r_eos'
        /\ r_app_error_code' # NoCode => r_eos' # Inf
        /\ now \notin r_received'
    <3>1. r_received' \subseteq RP!Bytes(0, MaxWritten)
      BY DEF Inv, RP!Inv, RP!Ends
    <3>2. /\ now \in 0 .. MaxWritten /\ RP!LastEnd(r_received') \in 0 .. MaxWritten
          /\ now <= RP!LastEnd(r_received') /\ now \notin r_received'
      BY <3>1, RP!PrefixEndIs, RP!LastEndIs, RP!PrefixBelowLast
    <3>3. r_eos' \in Nat /\ (r_app_error_code' # NoCode => r_eos' # Inf)
      BY DEF Inv, RP!Inv, RP!Ends, RP!TypeOK, RP!Offsets
    <3>4. RP!TransferComplete' <=> now >= r_eos'
      BY DEF RP!TransferComplete, RP!CompleteOf
    <3>5. QED
      BY <3>2, <3>3, <3>4
  <2>3. was <= now
    <3>1. \A b \in 0 .. was - 1 : b \in r_received'
      BY <1>2, ReceiverNumbers DEF Grown
    <3>2. QED
      BY <2>1, <2>2, <3>1
  <2>4. now <= size_inflight /\ now <= written
    BY <1>2, <1>3, <1>4, <2>2 DEF Grown, View, Numbers
  <2>5. Seen = "none"
    BY <1>7, SeenIs
  <2>6. R!PrefixEnd(r_received) = was /\ R!PrefixEnd(r_received)' = now
    BY SeenIs
  <2>7. CASE ~RP!TransferComplete'
    <3>1. Seen' = "none"
      BY <2>7, SeenIs
    <3>2. CASE now = was
      BY <1>4, <1>5, <2>5, <2>6, <3>1, <3>2 DEF Service!vars
    <3>3. CASE now # was
      <4>1. now \in was + 1 .. written
        BY <1>3, <2>1, <2>2, <2>3, <2>4, <3>3 DEF Numbers
      <4>2. Service!Deliver
        BY <1>4, <1>5, <2>5, <2>6, <3>1, <4>1 DEF Service!Deliver
      <4>3. QED
        BY <4>2 DEF Service!Next
    <3>4. QED
      BY <3>2, <3>3
  <2>8. CASE RP!TransferComplete' /\ r_app_error_code' = NoCode
    <3>1. r_eos' # Inf /\ now >= r_eos'
      BY <2>2, <2>8
    <3>2. r_eos' = written /\ ended
      BY <1>2, <1>4, <2>8, <3>1 DEF Grown, View
    <3>3. now = written
      BY <1>3, <2>2, <2>4, <3>1, <3>2 DEF Numbers
    <3>4. Seen' = "end"
      BY <2>8, SeenIs
    <3>5. Service!SeeEnd
      BY <1>4, <1>5, <2>5, <2>6, <3>2, <3>3, <3>4 DEF Service!SeeEnd
    <3>6. QED
      BY <3>5 DEF Service!Next
  <2>9. CASE RP!TransferComplete' /\ r_app_error_code' # NoCode
    <3>1. app_error_code # NoCode /\ now >= r_eos' /\ reliable_size <= r_eos'
      BY <1>2, <1>4, <2>2, <2>9 DEF Grown, View
    <3>2. Promise = reliable_size /\ Promise # NoCode
      BY <1>3, <3>1 DEF Promise
    <3>3. now \in was .. written /\ now >= reliable_size
      BY <1>3, <2>1, <2>2, <2>3, <2>4, <3>1 DEF Numbers
    <3>4. Seen' = "reset"
      BY <2>9, SeenIs
    <3>5. Service!SeeReset
      BY <1>4, <1>5, <2>5, <2>6, <3>2, <3>3, <3>4 DEF Service!SeeReset
    <3>6. QED
      BY <3>5 DEF Service!Next
  <2>10. QED
    BY <2>7, <2>8, <2>9
<1>8. CASE RP!TransferComplete
  <2>1. UNCHANGED receiver
    <3>1. /\ ~RP!ReceiveStream(m.start, m.end - m.start, m.eos_type = 1, 0)
          /\ ~RP!ReceiveReset(m.end, m.reliable, m.code, 0)
      BY <1>8 DEF RP!ReceiveStream, RP!ReceiveReset
    <3>2. S!NONE = 0 /\ S!FIN = 1
      BY DEF S!NONE, S!FIN
    <3>3. /\ m.eos_type \in {0, 1} => ~R!RejectStream(m.start, m.end - m.start, m.eos_type = 1)
          /\ m.eos_type \in {2, 3} => ~R!RejectReset(m.end, m.reliable, m.code)
          /\ m.eos_type \in 0 .. 3
      BY <1>8, StreamAccepted, ResetAccepted, ReceiverSteps, FrameFacts
    <3>4. QED
      BY <1>1, <3>1, <3>2, <3>3, ReceiverSteps DEF Handle
  <2>2. QED
    BY <1>6, <2>1
<1>9. QED
  BY <1>7, <1>8

\* Sender, receiver and network implement the stream service: the reader gets a
\* growing prefix of what was written, a clean end only after all of it, and a
\* reset only if there was one and after the bytes that it commits to.
THEOREM Refinement == Spec => ProvidesService
<1>1. Init => Service!Init
  <2> SUFFICES ASSUME Init PROVE Service!Init
    OBVIOUS
  <2>1. RP!PrefixEnd({}) = 0
    BY RP!PrefixEndIs
  <2>2. r_received = {} /\ r_eos = Inf /\ app_error_code = NoCode /\ written = 0 /\ ended = FALSE
    BY DEF Init, S!Init, R!Init
  <2>3. R!PrefixEnd(r_received) = 0 /\ Promise = NoCode /\ Seen = "none"
    BY <2>1, <2>2, SeenIs DEF Promise, RP!TransferComplete, RP!CompleteOf
  <2>4. QED
    BY <2>2, <2>3 DEF Service!Init
<1>2. Inv /\ Inv' /\ [Next]_vars => [Service!Next]_(Service!vars)
  <2> SUFFICES ASSUME Inv, Inv', [Next]_vars PROVE [Service!Next]_(Service!vars)
    OBVIOUS
  <2>1. CASE Send \/ Credit \/ Ack \/ Loss
    <3>1. UNCHANGED <<ended, receiver>>
      BY <2>1 DEF Send, Credit, Ack, Loss, SenderOnly
    <3>2. UNCHANGED <<written, app_error_code, reliable_size>>
      <4>1. CASE Send
        BY <4>1 DEF Send, S!SendStep, S!SendStream, S!SendFinOnly, S!SendResetStreamAt,
                    S!SendResetStream, S!SendMarker
      <4>2. CASE Credit
        BY <4>2 DEF Credit, S!ReceiveMaxStreamData, S!sendstate, sender
      <4>3. CASE Ack
        BY <4>3 DEF Ack, S!AckCached, S!AckInFlight, S!AckLate, S!AckOne, S!Orphan, S!sendstate
      <4>4. CASE Loss
        BY <4>4 DEF Loss, S!Lost, S!Expire, S!sendstate
      <4>5. QED
        BY <2>1, <4>1, <4>2, <4>3, <4>4
    <3>3. QED
      BY <3>1, <3>2, Unseen DEF receiver
  <2>2. CASE Drop \/ Done \/ UNCHANGED vars
    BY <2>2, Unseen DEF Drop, Done, vars, sender, receiver
  <2>3. CASE Read
    BY <2>3, Unseen DEF Read, R!Shift, R!SendMaxStreamData, R!SendMaxData, R!recvstate, sender
  <2>4. QED
    BY <2>1, <2>2, <2>3, AppServed, ArrivalServed DEF Next
<1>3. QED
  BY <1>1, <1>2, Invariance, PTL DEF Spec, ProvidesService, Service!Spec
=============================================================================
