--------------------------- MODULE RecvStateProofs ---------------------------
(***************************************************************************)
(* The invariants of RecvState, for any windows, any set of error codes    *)
(* and offsets of any size, against a peer that sends any frame.  Inv is   *)
(* the inductive invariant: beside the properties it says how the bytes    *)
(* received, the end of the stream and the limits are ordered (Ends,       *)
(* Limits) and that the application is told of the end exactly when all    *)
(* bytes below it are there (Told).                                        *)
(***************************************************************************)
EXTENDS RecvState, WellFoundedInduction, NaturalsInduction, TLAPS

\* the bytes received end below the end of a stream that was not reset, and the
\* application has not read beyond the end
Ends ==
  /\ received \subseteq Bytes(0, MaxOffset)
  /\ data_off <= PrefixEnd(received) /\ data_off <= eos
  /\ app_error_code # NoCode => eos # Inf
  /\ app_error_code = NoCode /\ eos # Inf => LastEnd(received) <= eos

\* limits are raised only by what the application has read
Limits ==
  /\ LastEnd(received) <= max_stream_data
  /\ max_stream_data <= data_off + StreamWindow
  /\ Running => bytes_consumed <= max_data
  /\ max_data <= bytes_shifted + ConnWindow

Told ==
  /\ told = IF TransferComplete THEN 1 ELSE 0
  /\ ~alive => TransferComplete

Inv == TypeOK /\ Ends /\ Limits /\ Told /\ CreditBalance

-----------------------------------------------------------------------------
(* Sets of bytes *)

USE OffsetAssumption, RecvCodeAssumption, WindowAssumption

\* The elements of a range.
LEMMA BytesIn ==
  \A b, start, end :
    b \in Bytes(start, end) <=> b \in 0 .. Inf /\ start <= b /\ b < end
BY DEF Bytes

\* A set of natural numbers that is not empty has a least element.
LEMMA LeastNatural ==
  ASSUME NEW T, T \subseteq Nat, T # {}
  PROVE  \E n \in T : \A m \in T : n <= m
<1>1. PICK n \in T : \A m \in T : ~ (<<m, n>> \in OpToRel(<, Nat))
  BY NatLessThanWellFounded, WFMin, Zenon
<1>2. \A m \in T : ~ (m < n)
  BY <1>1 DEF OpToRel
<1>3. QED
  BY <1>2

\* What PrefixEnd returns: the first byte that is missing.
LEMMA PrefixEndIs ==
  ASSUME NEW set, set \subseteq Bytes(0, MaxOffset)
  PROVE  /\ PrefixEnd(set) \in 0 .. MaxOffset /\ PrefixEnd(set) \notin set
         /\ \A b \in 0 .. PrefixEnd(set) - 1 : b \in set
<1> DEFINE Holes == {n \in Nat : n \notin set}
<1>1. MaxOffset \in Holes
  BY DEF Bytes
<1>2. PICK n \in Holes : \A m \in Holes : n <= m
  BY <1>1, LeastNatural
<1>3. n \in 0 .. Inf /\ n \notin set /\ n <= MaxOffset /\ \A b \in 0 .. n - 1 : b \in set
  BY <1>1, <1>2
<1>4. /\ PrefixEnd(set) \in 0 .. Inf /\ PrefixEnd(set) \notin set
      /\ \A b \in 0 .. PrefixEnd(set) - 1 : b \in set
  BY <1>3 DEF PrefixEnd
<1>5. PrefixEnd(set) <= n
  BY <1>3, <1>4
<1>6. QED
  BY <1>3, <1>4, <1>5

\* What LastEnd returns: the end of the last range.
LEMMA LastEndIs ==
  ASSUME NEW set, set \subseteq Bytes(0, MaxOffset)
  PROVE  /\ LastEnd(set) \in 0 .. MaxOffset /\ \A b \in set : b < LastEnd(set)
         /\ LastEnd(set) = 0 \/ LastEnd(set) - 1 \in set
<1> DEFINE Above == {n \in Nat : \A b \in set : b < n}
<1>1. MaxOffset \in Above
  BY DEF Bytes
<1>2. PICK n \in Above : \A m \in Above : n <= m
  BY <1>1, LeastNatural
<1>3. n = 0 \/ n - 1 \in set
  <2>1. SUFFICES ASSUME n > 0, n - 1 \notin set PROVE FALSE
    BY <1>2
  <2>2. n - 1 \in Above
    BY <1>2, <2>1 DEF Bytes
  <2>3. QED
    BY <1>2, <2>2
<1>4. /\ LastEnd(set) \in 0 .. Inf /\ \A b \in set : b < LastEnd(set)
      /\ LastEnd(set) = 0 \/ LastEnd(set) - 1 \in set
  <2>1. n \in 0 .. Inf /\ \A b \in set : b < n
    BY <1>1, <1>2
  <2>2. QED
    BY <1>3, <2>1 DEF LastEnd
<1>5. LastEnd(set) <= MaxOffset
  BY <1>1, <1>4 DEF Bytes
<1>6. QED
  BY <1>4, <1>5

\* The first range ends no later than the last.
LEMMA PrefixBelowLast ==
  ASSUME NEW set, set \subseteq Bytes(0, MaxOffset)
  PROVE  PrefixEnd(set) <= LastEnd(set)
<1>1. CASE PrefixEnd(set) = 0
  BY <1>1, LastEndIs
<1>2. CASE PrefixEnd(set) > 0
  <2>1. PrefixEnd(set) - 1 \in set
    BY <1>2, PrefixEndIs
  <2>2. QED
    BY <2>1, PrefixEndIs, LastEndIs
<1>3. QED
  BY <1>1, <1>2, PrefixEndIs

\* Bytes that are added: the first range does not shrink, and the last one ends
\* where the new bytes do, or where it did.
LEMMA AddBytes ==
  ASSUME NEW set, set \subseteq Bytes(0, MaxOffset),
         NEW from \in Nat, NEW to \in 0 .. MaxOffset
  PROVE  LET more == set \cup Bytes(from, to)
         IN  /\ more \subseteq Bytes(0, MaxOffset)
             /\ PrefixEnd(set) <= PrefixEnd(more)
             /\ LastEnd(more) = IF from < to THEN Larger(LastEnd(set), to)
                                ELSE LastEnd(set)
<1> DEFINE more == set \cup Bytes(from, to)
<1>1. more \subseteq Bytes(0, MaxOffset)
  <2>1. Bytes(from, to) \subseteq Bytes(0, MaxOffset)
    BY BytesIn
  <2>2. QED
    BY <2>1
<1>2. PrefixEnd(set) <= PrefixEnd(more)
  <2>1. set \subseteq more
    OBVIOUS
  <2> HIDE DEF more
  <2>2. /\ PrefixEnd(more) \in 0 .. MaxOffset /\ PrefixEnd(more) \notin more
        /\ PrefixEnd(set) \in 0 .. MaxOffset
        /\ \A b \in 0 .. PrefixEnd(set) - 1 : b \in set
    BY <1>1, PrefixEndIs
  <2>3. QED
    BY <2>1, <2>2
<1>3. CASE ~(from < to)
  <2>1. more = set
    BY <1>3 DEF Bytes
  <2>2. QED
    BY <1>1, <1>2, <1>3, <2>1
<1>4. CASE from < to
  <2>1. to - 1 \in more /\ \A b \in Bytes(from, to) : b < to
    BY <1>4 DEF Bytes
  <2>2. LastEnd(more) = Larger(LastEnd(set), to)
    BY <1>1, <2>1, LastEndIs DEF Larger
  <2>3. QED
    BY <1>1, <1>2, <1>4, <2>2
<1>5. QED
  BY <1>3, <1>4

\* What is known of the state, in numbers.
LEMMA Facts ==
  ASSUME Inv
  PROVE  /\ PrefixEnd(received) \in 0 .. MaxOffset /\ LastEnd(received) \in 0 .. MaxOffset
         /\ PrefixEnd(received) <= LastEnd(received)
         /\ data_off \in Nat /\ data_off <= PrefixEnd(received) /\ data_off <= eos
         /\ eos \in Nat /\ (eos <= MaxOffset \/ eos = Inf)
         /\ Allocated \in 0 .. MaxOffset /\ LastEnd(received) <= Allocated
         /\ eos # Inf => eos <= Allocated
         /\ ~TransferComplete => PrefixEnd(received) < eos
<1>1. received \subseteq Bytes(0, MaxOffset)
  BY DEF Inv, Ends
<1>2. /\ PrefixEnd(received) \in 0 .. MaxOffset /\ LastEnd(received) \in 0 .. MaxOffset
      /\ PrefixEnd(received) <= LastEnd(received)
  BY <1>1, PrefixEndIs, LastEndIs, PrefixBelowLast
<1>3. /\ data_off \in Nat /\ data_off <= PrefixEnd(received) /\ data_off <= eos
      /\ eos \in Nat /\ (eos <= MaxOffset \/ eos = Inf)
  BY <1>2 DEF Inv, TypeOK, Ends, Offsets
<1>4. QED
  BY <1>2, <1>3 DEF Allocated, AllocatedOf, TransferComplete, CompleteOf

-----------------------------------------------------------------------------
(* The invariant is inductive *)

\* A new stream.
LEMMA InitInv == Init => Inv
<1> SUFFICES ASSUME Init PROVE Inv
  OBVIOUS
<1>1. {} \subseteq Bytes(0, MaxOffset)
  OBVIOUS
<1>2. PrefixEnd({}) = 0 /\ LastEnd({}) = 0
  BY <1>1, PrefixEndIs, LastEndIs
<1>3. TypeOK
  BY <1>2 DEF Init, TypeOK, Offsets, Errors
<1>4. Ends /\ Limits
  BY <1>1, <1>2 DEF Init, Ends, Limits
<1>5. Told /\ CreditBalance
  BY <1>2 DEF Init, Told, CreditBalance, TransferComplete, CompleteOf, Allocated, AllocatedOf
<1>6. QED
  BY <1>3, <1>4, <1>5 DEF Inv

\* What the handlers do last: the callback, the application's reading in it and the
\* destruction of the stream keep the books.  consumed is the credit that the
\* frame has charged, released what a reset returned of it.
LEMMA SettleInv ==
  ASSUME Inv, Running, alive, ~TransferComplete,
         NEW rcvd, NEW end, NEW called, NEW shift \in Nat, NEW released \in Nat,
         rcvd \subseteq Bytes(0, MaxOffset), end \in Offsets \cup {Inf},
         PrefixEnd(received) <= PrefixEnd(rcvd), PrefixEnd(received) <= end,
         LastEnd(rcvd) <= max_stream_data,
         called \in BOOLEAN, CompleteOf(rcvd, end) => called,
         app_error_code' \in Codes \cup {NoCode},
         app_error_code' # NoCode => end # Inf,
         app_error_code' = NoCode /\ end # Inf => LastEnd(rcvd) <= end,
         bytes_consumed' \in Nat, bytes_consumed' <= max_data,
         bytes_consumed' = bytes_consumed + (AllocatedOf(rcvd, end) - Allocated) + released,
         Settle(rcvd, end, called, shift, released)
  PROVE  Inv' /\ AvailableEnd(received, eos)' >= AvailableEnd(received, eos)
<1> DEFINE complete == CompleteOf(rcvd, end)
           destroyed == complete /\ send_complete
           allocated == AllocatedOf(rcvd, end)
           available == AvailableEnd(rcvd, end)
<1>1. /\ received' = rcvd /\ eos' = end /\ data_off' = data_off + shift
      /\ shift <= available - data_off
      /\ told' = IF complete /\ called THEN told + 1 ELSE told
      /\ alive' = ~destroyed
      /\ bytes_shifted' = bytes_shifted + released
           + (IF destroyed THEN allocated - data_off ELSE Smaller(shift, allocated - data_off))
      /\ UNCHANGED <<max_stream_data, max_data, other, send_complete, error>>
  BY DEF Settle
<1>2. /\ PrefixEnd(rcvd) \in 0 .. MaxOffset /\ LastEnd(rcvd) \in 0 .. MaxOffset
      /\ PrefixEnd(rcvd) <= LastEnd(rcvd)
  BY PrefixEndIs, LastEndIs, PrefixBelowLast
<1>3. end \in Nat /\ (end <= MaxOffset \/ end = Inf)
  BY DEF Offsets
<1>4. /\ allocated \in 0 .. MaxOffset /\ available \in Nat /\ available <= allocated
      /\ available <= PrefixEnd(rcvd) /\ available <= end /\ complete \in BOOLEAN
      /\ LastEnd(rcvd) <= allocated
      /\ complete <=> PrefixEnd(rcvd) >= end
  BY <1>2, <1>3 DEF AllocatedOf, AvailableEnd, CompleteOf
<1>5. /\ AvailableEnd(received, eos) = PrefixEnd(received)
      /\ PrefixEnd(received) \in Nat /\ PrefixEnd(received) <= available
  BY <1>2, <1>3, Facts DEF AvailableEnd, TransferComplete, CompleteOf
<1>6. AvailableEnd(received, eos)' = available
  BY <1>1 DEF AvailableEnd, CompleteOf
<1>7. /\ bytes_shifted \in Nat /\ max_data \in Nat /\ other \in Nat /\ max_stream_data \in Nat
      /\ bytes_consumed \in Nat /\ told = 0 /\ data_off \in Nat /\ send_complete \in BOOLEAN
      /\ Allocated \in Nat
      /\ bytes_consumed - bytes_shifted = other + (Allocated - data_off)
      /\ max_data <= bytes_shifted + ConnWindow /\ max_stream_data <= data_off + StreamWindow
      /\ data_off <= PrefixEnd(received)
  BY Facts DEF Inv, TypeOK, Told, CreditBalance, Limits
<1> HIDE DEF complete, allocated, available
<1>8. /\ bytes_shifted' = bytes_shifted + released
                            + (IF destroyed THEN allocated - data_off ELSE shift)
      /\ data_off' \in Nat /\ data_off' <= available
      /\ bytes_shifted' \in Nat /\ bytes_shifted' >= bytes_shifted
  BY <1>1, <1>4, <1>5, <1>7 DEF Smaller
<1>9. TypeOK'
  <2>1. rcvd \subseteq 0 .. MaxOffset
    BY BytesIn
  <2>2. data_off' \in 0 .. PrefixEnd(rcvd)
    BY <1>2, <1>4, <1>8
  <2>3. told' \in Nat /\ alive' \in BOOLEAN
    BY <1>1, <1>4, <1>7
  <2>4. error' \in Errors
    BY <1>1 DEF Inv, TypeOK
  <2>5. QED
    BY <1>1, <1>7, <1>8, <2>1, <2>2, <2>3, <2>4 DEF TypeOK
<1>10. Ends'
  BY <1>1, <1>2, <1>3, <1>4, <1>8 DEF Ends
<1>11. Limits'
  BY <1>1, <1>2, <1>7, <1>8 DEF Limits, Running
<1>12. Told'
  <2>1. told' = IF complete THEN 1 ELSE 0
    BY <1>1, <1>4, <1>7 DEF complete
  <2>2. TransferComplete' = complete
    BY <1>1 DEF TransferComplete, CompleteOf, complete
  <2>3. QED
    BY <1>1, <2>1, <2>2 DEF Told
<1>13. CreditBalance'
  <2>1. Allocated' = allocated
    BY <1>1 DEF Allocated, AllocatedOf, allocated
  <2>2. bytes_consumed' = bytes_consumed + (allocated - Allocated) + released
    BY DEF allocated
  <2>3. CASE destroyed
    <3>1. bytes_consumed' - bytes_shifted' = other
      BY <1>4, <1>7, <1>8, <2>2, <2>3
    <3>2. ~alive' /\ other' = other /\ other \in Nat
      BY <1>1, <1>7, <2>3
    <3>3. QED
      BY <3>1, <3>2 DEF CreditBalance
  <2>4. CASE ~destroyed
    <3>1. bytes_consumed' - bytes_shifted' = other + (allocated - data_off')
      BY <1>1, <1>4, <1>7, <1>8, <2>2, <2>4
    <3>2. alive' /\ other' = other
      BY <1>1, <2>4
    <3>3. QED
      BY <2>1, <3>1, <3>2 DEF CreditBalance
  <2>5. QED
    BY <2>3, <2>4
<1>14. QED
  BY <1>5, <1>6, <1>9, <1>10, <1>11, <1>12, <1>13 DEF Inv

\* What the handlers keep, and that they take nothing back.
Kept == Inv' /\ AvailableEnd(received, eos)' >= AvailableEnd(received, eos)

\* A STREAM frame (apply_stream_frame, quicly_recvstate_update); what it charges is
\* what the stream grows by.
LEMMA ReceiveStreamInv ==
  ASSUME Inv, NEW off \in Offsets, NEW end \in Offsets, off <= end,
         NEW fin \in BOOLEAN, NEW shift \in Offsets,
         off < end \/ fin \/ off <= Allocated,
         ReceiveStream(off, end - off, fin, shift)
  PROVE  /\ Kept
         /\ bytes_consumed' = bytes_consumed + (Allocated' - Allocated)
         /\ LastEnd(received)' <= Larger(LastEnd(received), end)
<1> DEFINE newEos == IF eos = Inf /\ fin THEN end ELSE eos
           from == Larger(off, data_off)
           to == Smaller(end, newEos)
           taken == Bytes(from, to)
           rcvd == received \cup taken
<1>1. /\ off \in Nat /\ end \in Nat /\ end <= MaxOffset /\ shift \in Nat
      /\ off + (end - off) = end
  BY DEF Offsets
<1>2. /\ Running /\ alive /\ ~TransferComplete /\ end <= max_stream_data
      /\ bytes_consumed + NewlyReceived(end) <= max_data
      /\ ~StreamFinalSizeError(end, fin)
      /\ bytes_consumed' = bytes_consumed + NewlyReceived(end)
      /\ app_error_code' = app_error_code
      /\ Settle(rcvd, newEos, OnReceiveCalled(taken, rcvd, newEos), shift, 0)
  BY <1>1 DEF ReceiveStream, Taken
<1>3. /\ PrefixEnd(received) \in 0 .. MaxOffset /\ LastEnd(received) \in 0 .. MaxOffset
      /\ PrefixEnd(received) <= LastEnd(received)
      /\ data_off \in Nat /\ data_off <= PrefixEnd(received)
      /\ eos \in Nat /\ (eos <= MaxOffset \/ eos = Inf)
      /\ PrefixEnd(received) < eos
  BY <1>2, Facts
<1>4. /\ newEos \in Offsets \cup {Inf} /\ newEos \in Nat
      /\ from \in Nat /\ to \in 0 .. MaxOffset /\ to <= end
  BY <1>1, <1>3 DEF Larger, Smaller, Offsets
<1>5. /\ received \subseteq Bytes(0, MaxOffset) /\ LastEnd(received) <= max_stream_data
      /\ app_error_code \in Codes \cup {NoCode}
      /\ app_error_code # NoCode => eos # Inf
      /\ app_error_code = NoCode /\ eos # Inf => LastEnd(received) <= eos
      /\ bytes_consumed \in Nat /\ max_stream_data \in Nat
  BY DEF Inv, Ends, Limits, TypeOK
<1>6. /\ rcvd \subseteq Bytes(0, MaxOffset) /\ PrefixEnd(received) <= PrefixEnd(rcvd)
      /\ LastEnd(rcvd) = IF from < to THEN Larger(LastEnd(received), to)
                         ELSE LastEnd(received)
  BY <1>4, <1>5, AddBytes
<1> HIDE DEF rcvd
<1>7. LastEnd(rcvd) <= max_stream_data
  BY <1>1, <1>2, <1>3, <1>4, <1>5, <1>6 DEF Larger
<1>8. PrefixEnd(received) <= newEos
  BY <1>1, <1>2, <1>3 DEF StreamFinalSizeError
<1>9. app_error_code = NoCode /\ newEos # Inf => LastEnd(rcvd) <= newEos
  BY <1>1, <1>2, <1>3, <1>4, <1>5, <1>6 DEF StreamFinalSizeError, Larger, Smaller
<1>10. NewlyReceived(end) = AllocatedOf(rcvd, newEos) - Allocated
  <2>1. CASE app_error_code # NoCode
    BY <2>1, <1>1, <1>3, <1>4, <1>5, <1>6
       DEF NewlyReceived, AllocatedOf, Allocated, Larger, Smaller
  <2>2. CASE app_error_code = NoCode /\ eos # Inf
    BY <2>2, <1>1, <1>2, <1>3, <1>4, <1>5, <1>6
       DEF NewlyReceived, AllocatedOf, Allocated, Larger, Smaller, StreamFinalSizeError
  <2>3. CASE app_error_code = NoCode /\ eos = Inf /\ fin
    BY <2>3, <1>1, <1>2, <1>3, <1>4, <1>5, <1>6
       DEF NewlyReceived, AllocatedOf, Allocated, Larger, Smaller, StreamFinalSizeError
  <2>4. CASE app_error_code = NoCode /\ eos = Inf /\ ~fin
    <3>1. off < end \/ off <= LastEnd(received)
      BY <2>4 DEF Allocated, AllocatedOf
    <3>2. to = end /\ Allocated = LastEnd(received) /\ AllocatedOf(rcvd, newEos) = LastEnd(rcvd)
      BY <2>4, <1>1, <1>3 DEF Allocated, AllocatedOf, Smaller
    <3>3. QED
      BY <2>4, <3>1, <3>2, <1>1, <1>3, <1>4, <1>6 DEF NewlyReceived, Larger
  <2>5. QED
    BY <2>1, <2>2, <2>3, <2>4
<1>11. /\ OnReceiveCalled(taken, rcvd, newEos) \in BOOLEAN
       /\ CompleteOf(rcvd, newEos) => OnReceiveCalled(taken, rcvd, newEos)
  BY DEF OnReceiveCalled, CompleteOf
<1>12. /\ NewlyReceived(end) \in Nat /\ Allocated \in Nat
       /\ AllocatedOf(rcvd, newEos) \in Nat
  BY <1>1, <1>3, <1>4, <1>6, Facts DEF NewlyReceived, AllocatedOf, Larger
<1> HIDE DEF newEos, taken
<1>13. /\ bytes_consumed' \in Nat /\ bytes_consumed' <= max_data
       /\ bytes_consumed' = bytes_consumed + (AllocatedOf(rcvd, newEos) - Allocated) + 0
  BY <1>2, <1>5, <1>10, <1>12
<1>14. newEos = Inf => app_error_code' = NoCode
  BY <1>2, <1>5 DEF newEos
<1>15. Kept
  BY <1>1, <1>2, <1>4, <1>5, <1>6, <1>7, <1>8, <1>9, <1>11, <1>13, <1>14, SettleInv DEF Kept
<1>16. received' = rcvd /\ eos' = newEos
  BY <1>2 DEF Settle
<1>17. Allocated' = AllocatedOf(rcvd, newEos)
  BY <1>16 DEF Allocated, AllocatedOf
<1>18. LastEnd(rcvd) <= Larger(LastEnd(received), end)
  BY <1>1, <1>3, <1>4, <1>6 DEF Larger
<1>19. QED
  BY <1>5, <1>12, <1>13, <1>15, <1>16, <1>17, <1>18

\* A reset, the first one or another (handle_reset_stream_frame,
\* quicly_recvstate_reset).
LEMMA ReceiveResetInv ==
  ASSUME Inv, NEW final \in Offsets, NEW reliable \in Offsets, reliable <= final,
         NEW code \in Codes, NEW shift \in Offsets,
         ReceiveReset(final, reliable, code, shift)
  PROVE  Kept
<1> DEFINE newEos == ResetEos(reliable)
           complete == CompleteOf(received, newEos)
           released == AllocatedBefore(final) - AllocatedOf(received, newEos)
<1>1. final \in Nat /\ final <= MaxOffset /\ reliable \in Nat /\ shift \in Nat
  BY DEF Offsets
<1>2. /\ Running /\ alive /\ ~TransferComplete
      /\ ResetError(final, code) = "none"
      /\ bytes_consumed + BytesMissing(final) <= max_data
      /\ bytes_consumed' = bytes_consumed + BytesMissing(final)
      /\ app_error_code' = code
      /\ Settle(received, newEos, complete, shift, released)
  BY DEF ReceiveReset
<1>3. /\ PrefixEnd(received) \in 0 .. MaxOffset /\ LastEnd(received) \in 0 .. MaxOffset
      /\ PrefixEnd(received) <= LastEnd(received)
      /\ eos \in Nat /\ (eos <= MaxOffset \/ eos = Inf) /\ PrefixEnd(received) < eos
      /\ Allocated \in 0 .. MaxOffset
  BY <1>2, Facts
<1>4. /\ received \subseteq Bytes(0, MaxOffset) /\ LastEnd(received) <= max_stream_data
      /\ FirstReset \/ eos # Inf
      /\ bytes_consumed \in Nat
  BY DEF Inv, Ends, Limits, TypeOK, FirstReset
<1>5. /\ final >= LastEnd(received)
      /\ FirstReset /\ eos # Inf => final = eos
  BY <1>1, <1>2, <1>3 DEF ResetError
<1>6. /\ newEos \in 0 .. MaxOffset /\ PrefixEnd(received) <= newEos
      /\ newEos # Inf
  BY <1>1, <1>3, <1>4 DEF ResetEos, Larger
<1>7. /\ released \in Nat /\ BytesMissing(final) \in Nat
      /\ BytesMissing(final) = (AllocatedOf(received, newEos) - Allocated) + released
  <2>1. AllocatedOf(received, newEos) = Larger(newEos, LastEnd(received))
    BY <1>3, <1>6 DEF AllocatedOf, Larger
  <2>2. Allocated = IF eos # Inf THEN Larger(eos, LastEnd(received)) ELSE LastEnd(received)
    BY <1>3 DEF Allocated, AllocatedOf, Larger
  <2>3. CASE FirstReset
    <3>1. newEos <= final
      BY <2>3, <1>1, <1>3, <1>5 DEF ResetEos, Larger
    <3>2. Allocated <= final
      BY <2>3, <2>2, <1>1, <1>3, <1>5 DEF Larger
    <3>3. QED
      BY <2>1, <2>3, <3>1, <3>2, <1>1, <1>3, <1>5, <1>6 DEF BytesMissing, AllocatedBefore, Larger
  <2>4. CASE ~FirstReset
    <3>1. newEos <= eos
      BY <2>4, <1>1, <1>3 DEF ResetEos, Larger
    <3>2. QED
      BY <2>1, <2>2, <2>4, <3>1, <1>3, <1>4, <1>6 DEF BytesMissing, AllocatedBefore, Larger
  <2>5. QED
    BY <2>3, <2>4
<1>8. complete \in BOOLEAN
  BY DEF CompleteOf
<1>9. newEos \in Offsets \cup {Inf} /\ code \in Codes \cup {NoCode} /\ code # NoCode
  BY <1>6 DEF Offsets
<1> HIDE DEF newEos, complete, released
<1>10. /\ bytes_consumed' \in Nat /\ bytes_consumed' <= max_data
       /\ bytes_consumed' = bytes_consumed + (AllocatedOf(received, newEos) - Allocated) + released
  <2>1. AllocatedOf(received, newEos) \in Nat
    BY <1>3, <1>6 DEF AllocatedOf
  <2>2. QED
    BY <1>2, <1>3, <1>4, <1>7, <2>1
<1>11. QED
  BY <1>1, <1>2, <1>3, <1>4, <1>6, <1>7, <1>8, <1>9, <1>10, SettleInv DEF Kept, complete

\* A frame that closes the connection leaves the stream as it is.
LEMMA FailInv ==
  ASSUME Inv, NEW err \in Errors \ {"none"}, Fail(err), bytes_consumed' \in Nat
  PROVE  Kept
<1>1. /\ error' = err /\ err # "none"
      /\ UNCHANGED <<received, data_off, eos, app_error_code, max_stream_data,
                     bytes_shifted, max_data, other, send_complete, alive, told>>
  BY DEF Fail, recvstate
<1>2. TypeOK' /\ Ends' /\ Limits' /\ CreditBalance'
  BY <1>1 DEF Inv, TypeOK, Ends, Limits, CreditBalance, Running
<1>3. Told'
  BY <1>1 DEF Inv, Told, TransferComplete
<1>4. AvailableEnd(received, eos)' = AvailableEnd(received, eos) /\ AvailableEnd(received, eos) \in Nat
  BY <1>1, Facts DEF AvailableEnd
<1>5. QED
  BY <1>2, <1>3, <1>4 DEF Inv, Kept

\* The frames that are refused.
LEMMA RejectInv ==
  ASSUME Inv, NEW off \in Offsets, NEW end \in Offsets, off <= end,
         \/ \E fin \in BOOLEAN : RejectStream(off, end - off, fin)
         \/ \E code \in Codes : RejectReset(end, off, code)
  PROVE  Kept
<1>1. bytes_consumed \in Nat
  BY DEF Inv, TypeOK
<1>2. ASSUME NEW fin \in BOOLEAN, RejectStream(off, end - off, fin) PROVE Kept
  <2>1. off + (end - off) = end /\ NewlyReceived(end) \in Nat
    BY Facts DEF Offsets, NewlyReceived
  <2>2. CASE Fail("FLOW_CONTROL") /\ UNCHANGED bytes_consumed
    BY <1>1, <2>2, FailInv DEF Errors
  <2>3. CASE Fail("FINAL_SIZE") /\ bytes_consumed' = bytes_consumed + NewlyReceived(end)
    BY <1>1, <2>1, <2>3, FailInv DEF Errors
  <2>4. CASE Fail("STATE_EXHAUSTION") /\ bytes_consumed' = bytes_consumed + NewlyReceived(end)
    BY <1>1, <2>1, <2>4, FailInv DEF Errors
  <2>5. QED
    BY <1>2, <2>1, <2>2, <2>3, <2>4 DEF RejectStream
<1>3. ASSUME NEW code \in Codes, RejectReset(end, off, code) PROVE Kept
  <2>1. ResetError(end, code) \in {"FINAL_SIZE", "STREAM_STATE", "none"}
    BY DEF ResetError
  <2>2. PICK err \in Errors \ {"none"} : Fail(err) /\ UNCHANGED bytes_consumed
    BY <1>3, <2>1 DEF RejectReset, Errors
  <2>3. QED
    BY <1>1, <2>2, FailInv
<1>4. QED
  BY <1>2, <1>3

\* The application reads (quicly_stream_sync_recvbuf).
LEMMA ShiftInv ==
  ASSUME Inv, NEW amount \in Nat, Shift(amount)
  PROVE  Kept
<1>1. /\ Running /\ alive /\ amount <= AvailableEnd(received, eos) - data_off
      /\ data_off' = data_off + amount
      /\ bytes_shifted' = bytes_shifted + Smaller(amount, Allocated - data_off)
      /\ UNCHANGED <<received, eos, app_error_code, max_stream_data, max_data,
                     bytes_consumed, other, send_complete, alive, told, error>>
  BY DEF Shift
<1>2. /\ AvailableEnd(received, eos) \in Nat /\ AvailableEnd(received, eos) <= Allocated
      /\ AvailableEnd(received, eos) <= PrefixEnd(received)
      /\ AvailableEnd(received, eos) <= eos
  BY Facts DEF AvailableEnd, CompleteOf
<1>3. /\ data_off \in Nat /\ Allocated \in Nat /\ bytes_shifted \in Nat
      /\ PrefixEnd(received) \in Nat
  BY Facts DEF Inv, TypeOK
<1>4. bytes_shifted' = bytes_shifted + amount /\ data_off' \in Nat
  BY <1>1, <1>2, <1>3 DEF Smaller
<1>5. /\ data_off' \in 0 .. PrefixEnd(received) /\ data_off' <= eos
  BY <1>1, <1>2, <1>3, Facts
<1>6. TypeOK'
  BY <1>1, <1>3, <1>4, <1>5 DEF Inv, TypeOK
<1>7. Ends'
  BY <1>1, <1>5 DEF Inv, Ends
<1>8. Limits'
  BY <1>1, <1>3, <1>4 DEF Inv, TypeOK, Limits, Running
<1>9. Told'
  BY <1>1 DEF Inv, Told, TransferComplete
<1>10. CreditBalance'
  <2>1. bytes_consumed - bytes_shifted = other + (Allocated - data_off) /\ other \in Nat
        /\ bytes_consumed \in Nat
    BY <1>1 DEF Inv, CreditBalance, TypeOK
  <2>2. Allocated' = Allocated
    BY <1>1 DEF Allocated
  <2>3. bytes_consumed' - bytes_shifted' = other + (Allocated - data_off')
    BY <1>1, <1>3, <1>4, <2>1
  <2>4. QED
    BY <1>1, <2>2, <2>3 DEF CreditBalance
<1>11. AvailableEnd(received, eos)' = AvailableEnd(received, eos)
  BY <1>1 DEF AvailableEnd
<1>12. QED
  BY <1>2, <1>6, <1>7, <1>8, <1>9, <1>10, <1>11 DEF Inv, Kept

\* Limits are advertised, and other streams receive and read.
LEMMA CreditInv ==
  ASSUME Inv, SendMaxStreamData \/ SendMaxData \/ OtherReceives \/ OtherReleases
  PROVE  Kept
<1>1. /\ UNCHANGED <<received, data_off, eos, app_error_code, send_complete, alive, told, error>>
      /\ Running
  BY DEF SendMaxStreamData, SendMaxData, OtherReceives, OtherReleases, recvstate, credit
<1>2. /\ bytes_consumed \in Nat /\ bytes_shifted \in Nat /\ other \in Nat
      /\ max_data \in Nat /\ max_stream_data \in Nat /\ data_off \in Nat
      /\ Allocated \in Nat /\ LastEnd(received) \in Nat
      /\ bytes_consumed <= max_data /\ max_data <= bytes_shifted + ConnWindow
      /\ LastEnd(received) <= max_stream_data
      /\ max_stream_data <= data_off + StreamWindow
      /\ bytes_consumed - bytes_shifted = other + (IF alive THEN Allocated - data_off ELSE 0)
  BY <1>1, Facts DEF Inv, TypeOK, Limits, CreditBalance
<1>3. /\ bytes_consumed' \in Nat /\ bytes_shifted' \in Nat /\ other' \in Nat
      /\ max_data' \in Nat /\ max_stream_data' \in Nat
      /\ bytes_consumed' <= max_data' /\ max_data' <= bytes_shifted' + ConnWindow
      /\ LastEnd(received) <= max_stream_data'
      /\ max_stream_data' <= data_off + StreamWindow
      /\ bytes_consumed' - bytes_shifted' = other' + (IF alive THEN Allocated - data_off ELSE 0)
  <2>1. CASE SendMaxStreamData
    BY <1>2, <2>1 DEF SendMaxStreamData, credit
  <2>2. CASE SendMaxData
    BY <1>2, <2>2 DEF SendMaxData, MaxDataValue
  <2>3. CASE OtherReceives
    BY <1>2, <2>3 DEF OtherReceives
  <2>4. CASE OtherReleases
    BY <1>2, <2>4 DEF OtherReleases
  <2>5. QED
    BY <2>1, <2>2, <2>3, <2>4
<1>4. TypeOK' /\ Ends' /\ Limits'
  BY <1>1, <1>3 DEF Inv, TypeOK, Ends, Limits, Running
<1>5. Told'
  BY <1>1 DEF Inv, Told, TransferComplete
<1>6. CreditBalance'
  <2>1. Allocated' = Allocated
    BY <1>1 DEF Allocated
  <2>2. QED
    BY <1>1, <1>3, <2>1 DEF CreditBalance
<1>7. AvailableEnd(received, eos)' = AvailableEnd(received, eos) /\ AvailableEnd(received, eos) \in Nat
  BY <1>1, Facts DEF AvailableEnd
<1>8. QED
  BY <1>4, <1>5, <1>6, <1>7 DEF Inv, Kept

\* The send side is done: the stream goes if the receive side is too, and returns
\* what credit it holds (destroy_stream).
LEMMA SendSideInv ==
  ASSUME Inv, SendSideCompletes
  PROVE  Kept
<1>1. /\ Running /\ alive /\ send_complete' = TRUE /\ alive' = ~TransferComplete
      /\ bytes_shifted' = bytes_shifted + (IF TransferComplete THEN Allocated - data_off ELSE 0)
      /\ UNCHANGED <<received, data_off, eos, app_error_code, max_stream_data,
                     bytes_consumed, max_data, other, told, error>>
  BY DEF SendSideCompletes, recvstate
<1>2. /\ bytes_consumed \in Nat /\ bytes_shifted \in Nat /\ other \in Nat /\ max_data \in Nat
      /\ data_off \in Nat /\ Allocated \in Nat /\ data_off <= Allocated
      /\ bytes_consumed - bytes_shifted = other + (Allocated - data_off)
      /\ TransferComplete \in BOOLEAN
  BY <1>1, Facts DEF Inv, TypeOK, CreditBalance, TransferComplete, CompleteOf
<1>3. bytes_shifted' \in Nat /\ bytes_shifted' >= bytes_shifted
  BY <1>1, <1>2
<1>4. TypeOK'
  BY <1>1, <1>2, <1>3 DEF Inv, TypeOK
<1>5. Ends' /\ Limits'
  BY <1>1, <1>2, <1>3 DEF Inv, Ends, Limits, Running
<1>6. Told'
  <2>1. TransferComplete' = TransferComplete
    BY <1>1 DEF TransferComplete
  <2>2. QED
    BY <1>1, <2>1 DEF Inv, Told
<1>7. CreditBalance'
  <2>1. Allocated' = Allocated
    BY <1>1 DEF Allocated
  <2>2. CASE TransferComplete
    <3>1. bytes_consumed' - bytes_shifted' = other' /\ other' \in Nat
      BY <1>1, <1>2, <2>2
    <3>2. ~alive'
      BY <1>1, <2>2
    <3>3. QED
      BY <3>1, <3>2 DEF CreditBalance
  <2>3. CASE ~TransferComplete
    <3>1. bytes_consumed' - bytes_shifted' = other' + (Allocated - data_off')
      BY <1>1, <1>2, <2>3
    <3>2. alive'
      BY <1>1, <2>3
    <3>3. QED
      BY <2>1, <3>1, <3>2 DEF CreditBalance
  <2>4. QED
    BY <2>2, <2>3
<1>8. AvailableEnd(received, eos)' = AvailableEnd(received, eos) /\ AvailableEnd(received, eos) \in Nat
  BY <1>1, Facts DEF AvailableEnd
<1>9. QED
  BY <1>4, <1>5, <1>6, <1>7, <1>8 DEF Inv, Kept

\* Every step.
LEMMA NextKept == Inv /\ [Next]_vars => Kept
<1> SUFFICES ASSUME Inv, [Next]_vars PROVE Kept
  OBVIOUS
<1>1. CASE PeerStep
  <2>1. PICK off \in Offsets, end \in Offsets :
          /\ off <= end
          /\ \/ \E fin \in BOOLEAN :
                  /\ off < end \/ fin \/ off <= Allocated
                  /\ \/ \E shift \in Offsets : ReceiveStream(off, end - off, fin, shift)
                     \/ RejectStream(off, end - off, fin)
             \/ \E code \in Codes :
                  \/ \E shift \in Offsets : ReceiveReset(end, off, code, shift)
                  \/ RejectReset(end, off, code)
    BY <1>1 DEF PeerStep
  <2>2. ASSUME NEW fin \in BOOLEAN, off < end \/ fin \/ off <= Allocated,
               NEW shift \in Offsets, ReceiveStream(off, end - off, fin, shift)
        PROVE  Kept
    BY <2>1, <2>2, ReceiveStreamInv
  <2>3. ASSUME NEW code \in Codes, NEW shift \in Offsets, ReceiveReset(end, off, code, shift)
        PROVE  Kept
    BY <2>1, <2>3, ReceiveResetInv
  <2>4. CASE \/ \E fin \in BOOLEAN : RejectStream(off, end - off, fin)
             \/ \E code \in Codes : RejectReset(end, off, code)
    BY <2>1, <2>4, RejectInv
  <2>5. QED
    BY <2>1, <2>2, <2>3, <2>4
<1>2. CASE LocalStep
  <2>1. \A amount \in Offsets : amount \in Nat
    BY DEF Offsets
  <2>2. QED
    BY <1>2, <2>1, ShiftInv, CreditInv, SendSideInv DEF LocalStep
<1>3. CASE UNCHANGED vars
  <2>1. UNCHANGED <<received, data_off, eos, app_error_code, max_stream_data, bytes_consumed,
                    bytes_shifted, max_data, other, send_complete, alive, told, error>>
    BY <1>3 DEF vars, recvstate, credit
  <2>2. TypeOK' /\ Ends' /\ Limits'
    BY <2>1 DEF Inv, TypeOK, Ends, Limits, Running
  <2>3. Told' /\ CreditBalance'
    BY <2>1 DEF Inv, Told, TransferComplete, CreditBalance, Running, Allocated
  <2>4. AvailableEnd(received, eos)' = AvailableEnd(received, eos) /\ AvailableEnd(received, eos) \in Nat
    BY <2>1, Facts DEF AvailableEnd
  <2>5. QED
    BY <2>2, <2>3, <2>4 DEF Inv, Kept
<1>4. QED
  BY <1>1, <1>2, <1>3 DEF Next, Closed

\* The invariant holds in every reachable state.
THEOREM Invariance == Spec => []Inv
<1>1. Inv /\ [Next]_vars => Inv'
  BY NextKept DEF Kept
<1>2. QED
  BY InitInv, <1>1, PTL DEF Spec

-----------------------------------------------------------------------------
(* The properties *)

\* Credit of the connection is neither lost nor invented, whatever the peer sends
\* and in whatever order data, FIN, resets, reads and destruction come; and what
\* the peer can make the connection buffer is within both windows
\* (apply_stream_frame, handle_reset_stream_frame, destroy_stream).
THEOREM CreditIsKept == Spec => []CreditKept
<1>1. Inv => CreditKept
  <2> SUFFICES ASSUME Inv PROVE MemoryBounded
    BY DEF Inv, CreditKept
  <2> SUFFICES ASSUME Running, alive
               PROVE  /\ LastEnd(received) - data_off <= StreamWindow
                      /\ (LastEnd(received) - data_off) + other <= ConnWindow
    BY DEF MemoryBounded
  <2>1. /\ LastEnd(received) \in Nat /\ LastEnd(received) <= Allocated /\ Allocated \in Nat
        /\ data_off \in Nat
    BY Facts
  <2>2. /\ LastEnd(received) <= max_stream_data /\ max_stream_data <= data_off + StreamWindow
        /\ bytes_consumed <= max_data /\ max_data <= bytes_shifted + ConnWindow
        /\ bytes_consumed - bytes_shifted = other + (Allocated - data_off)
        /\ max_stream_data \in Nat /\ max_data \in Nat /\ bytes_consumed \in Nat
        /\ bytes_shifted \in Nat /\ other \in Nat
    BY DEF Inv, Limits, CreditBalance, TypeOK
  <2>3. QED
    BY <2>1, <2>2
<1>2. QED
  BY Invariance, <1>1, PTL

\* The application is told of the end of the stream once, and only when all bytes
\* before it are there; a stream is never destroyed before (apply_stream_frame,
\* handle_reset_stream_frame).
THEOREM EndIsToldOnce == Spec => []EndToldOnce
<1>1. Inv => EndToldOnce
  <2> SUFFICES ASSUME Inv PROVE EndToldOnce
    OBVIOUS
  <2>1. received \subseteq Bytes(0, MaxOffset)
    BY DEF Inv, Ends
  <2>2. TransferComplete => Bytes(0, eos) \subseteq received
    <3> SUFFICES ASSUME TransferComplete, NEW b \in Bytes(0, eos) PROVE b \in received
      OBVIOUS
    <3>1. PrefixEnd(received) >= eos /\ PrefixEnd(received) \in Nat /\ eos \in Nat
      BY Facts DEF TransferComplete, CompleteOf
    <3>2. b \in 0 .. PrefixEnd(received) - 1
      BY <3>1, BytesIn
    <3>3. QED
      BY <2>1, <3>2, PrefixEndIs
  <2>3. told \in {0, 1} /\ (told = 1 <=> TransferComplete) /\ (~alive => TransferComplete)
    BY DEF Inv, Told
  <2>4. QED
    BY <2>2, <2>3 DEF EndToldOnce
<1>2. QED
  BY Invariance, <1>1, PTL

\* No reset takes back bytes that were available to the application, whatever its
\* Reliable Size and in whatever order resets and data arrive (recvstate.h).
THEOREM NothingIsTakenBack == Spec => NeverTakenBack
<1>1. Inv /\ [Next]_vars
        => [alive' => AvailableEnd(received, eos)' >= AvailableEnd(received, eos)]_vars
  BY NextKept DEF Kept
<1>2. QED
  BY Invariance, <1>1, PTL DEF Spec, NeverTakenBack
=============================================================================
