--------------------------- MODULE SendStateProofs ---------------------------
(***************************************************************************)
(* The invariants of SendState, for any size of stream, any set of error   *)
(* codes and any number of frames in flight.  Inv is the inductive         *)
(* invariant: it ties the sets of bytes to the sizes (ByteSets, Unsent),   *)
(* accounts for every byte sent (Covered), bounds the entries of the       *)
(* sentmap (Entries) and relates the marker, the buffer and the history to *)
(* the state (Markers, Buffer, Acknowledged, Said).                        *)
(***************************************************************************)
EXTENDS SendState, WellFoundedInduction, NaturalsInduction, TLAPS

\* how the sizes are ordered in each phase of the stream
Sizes ==
  /\ size_inflight <= written /\ size_inflight <= max_stream_data
  /\ IsOpen => app_error_code = NoCode /\ eos_state = "UNSENT"
  /\ ~IsOpen => /\ size_inflight <= final_size /\ final_size <= written
                /\ reliable_size <= final_size
  /\ app_error_code = NoCode => reliable_size = 0
  /\ ~IsOpen /\ app_error_code = NoCode => final_size = written
  /\ eos_type = RESET => final_size = size_inflight

\* only bytes that were sent are acknowledged; what a reset gives up counts as
\* acknowledged; pending bytes are neither acknowledged nor beyond the end
ByteSets ==
  /\ acked \subseteq Bytes(0, size_inflight)
  /\ pending \subseteq Bytes(0, final_size)
  /\ acked \cap pending = {}
  /\ app_error_code # NoCode => Bytes(reliable_size, final_size) \subseteq acked

\* the bytes not sent so far are pending, all of them or, with nothing left to
\* send, none of them
Unsent ==
  IF IsOpen
  THEN \/ Bytes(size_inflight, Inf) \subseteq pending
       \/ /\ size_inflight = written
          /\ Bytes(size_inflight, Inf) \cap pending = {}
  ELSE Bytes(size_inflight, final_size) \subseteq pending

\* some packet in flight, or the cache, carries the byte
Carried(b) ==
  \/ \E f \in frames : f.live /\ b \in Bytes(f.start, f.end)
  \/ \E a \in cache : b \in Bytes(a.start, a.end)

Covered ==
  alive => \A b \in Bytes(0, size_inflight) :
             b \in acked \/ b \in pending \/ Carried(b)

WellFormed(e) == /\ e.start <= e.end /\ e.end <= size_inflight
                 /\ e.eos_type <= eos_type

Entries == (\A f \in frames : WellFormed(f)) /\ (\A a \in cache : WellFormed(a))

Markers ==
  /\ NoMarkerForgotten
  /\ eos_state = "DELIVERED" => eos_type \in got_eos
  /\ ~alive => eos_state = "DELIVERED"

Buffer ==
  eos_type # RESET =>
    \/ shifted = PrefixEnd(acked)
    \/ /\ ~IsOpen /\ Bytes(0, final_size) \subseteq acked
       /\ shifted <= final_size

Acknowledged ==
  acked \subseteq got \cup (IF app_error_code = NoCode THEN {}
                            ELSE Bytes(reliable_size, final_size))

Said ==
  \A x \in said :
    /\ ~IsOpen /\ x.final_size = final_size /\ size_inflight = final_size
    /\ x.eos_type # FIN => app_error_code # NoCode /\ x.code = app_error_code

Inv ==
  /\ TypeOK /\ shifted <= written
  /\ Sizes /\ ByteSets /\ Unsent /\ Covered /\ Entries
  /\ Markers /\ Buffer /\ Acknowledged /\ Said

-----------------------------------------------------------------------------
(* The end of the acknowledged prefix *)

\* The elements of a range, in the form the provers use best.
LEMMA BytesIn ==
  \A b, start, end :
    b \in Bytes(start, end) <=> b \in 0 .. Inf /\ start <= b /\ b < end
BY DEF Bytes

\* A set of bytes below Inf has a first hole.
LEMMA PrefixEndExists ==
  ASSUME NEW set, set \subseteq Bytes(0, Inf)
  PROVE  \E n \in 0 .. Inf : IsPrefixEnd(set, n)
<1> DEFINE Holes == {n \in Nat : n \notin set}
<1>1. Inf \in Holes
  BY SizeAssumption DEF Bytes
<1>2. PICK n \in Holes : \A m \in Holes : ~ (<<m, n>> \in OpToRel(<, Nat))
  <2>1. Holes \subseteq Nat /\ Holes # {}
    BY <1>1
  <2>2. QED
    BY <2>1, NatLessThanWellFounded, WFMin, Zenon
<1>3. \A m \in Holes : ~ (m < n)
  BY <1>2 DEF OpToRel
<1>4. n \in 0 .. Inf
  BY <1>1, <1>3, SizeAssumption
<1>5. Bytes(0, n) \subseteq set
  BY <1>3, <1>4, SizeAssumption DEF Bytes
<1>6. QED
  BY <1>4, <1>5 DEF IsPrefixEnd

\* PrefixEnd returns it.
LEMMA PrefixEndIs ==
  ASSUME NEW set, set \subseteq Bytes(0, Inf)
  PROVE  PrefixEnd(set) \in 0 .. Inf /\ IsPrefixEnd(set, PrefixEnd(set))
BY PrefixEndExists DEF PrefixEnd

\* It does not exceed a bound of the set, and is all of [0, n) if that is in it.
LEMMA PrefixEndBounds ==
  ASSUME NEW set, NEW n \in 0 .. Inf, set \subseteq Bytes(0, Inf)
  PROVE  /\ set \subseteq Bytes(0, n) => PrefixEnd(set) <= n
         /\ Bytes(0, n) \subseteq set => n <= PrefixEnd(set)
<1> PrefixEnd(set) \in 0 .. Inf /\ IsPrefixEnd(set, PrefixEnd(set))
  BY PrefixEndIs
<1> QED
  BY SizeAssumption DEF IsPrefixEnd, Bytes

\* There is only one.
LEMMA PrefixEndUnique ==
  ASSUME NEW set, NEW n \in 0 .. Inf, set \subseteq Bytes(0, Inf),
         IsPrefixEnd(set, n)
  PROVE  PrefixEnd(set) = n
<1> PrefixEnd(set) \in 0 .. Inf /\ IsPrefixEnd(set, PrefixEnd(set))
  BY PrefixEndIs
<1> QED
  BY SizeAssumption DEF IsPrefixEnd, Bytes

\* It never falls when bytes are added.
LEMMA PrefixEndMonotonic ==
  ASSUME NEW set, NEW more, set \subseteq more, more \subseteq Bytes(0, Inf)
  PROVE  PrefixEnd(set) <= PrefixEnd(more)
<1>1. /\ PrefixEnd(set) \in 0 .. Inf /\ IsPrefixEnd(set, PrefixEnd(set))
      /\ PrefixEnd(more) \in 0 .. Inf /\ IsPrefixEnd(more, PrefixEnd(more))
  BY PrefixEndIs
<1>2. QED
  BY <1>1, SizeAssumption DEF IsPrefixEnd, Bytes

-----------------------------------------------------------------------------
(* The invariant is inductive *)

USE DEF sendstate, history, IsOpen, eos_type, EosTypeOf, NONE, FIN, RESET_AT, RESET

\* quicly_sendstate_activate keeps what is pending, and adds no more than the
\* bytes that were never sent.
LEMMA ActivatedBounds ==
  ASSUME NEW pend, NEW inflight, NEW final
  PROVE  /\ pend \subseteq Activated(pend, inflight, final)
         /\ Activated(pend, inflight, final) \subseteq pend \cup Bytes(inflight, final)
BY DEF Activated

\* A fresh stream satisfies the invariant (quicly_sendstate_init).
LEMMA InitInv == Init => Inv
<1> SUFFICES ASSUME Init PROVE Inv
  OBVIOUS
<1>1. TypeOK /\ shifted <= written
  BY SizeAssumption DEF Init, TypeOK, EosState
<1>2. Sizes /\ Entries /\ Markers /\ Acknowledged /\ Said
  BY SizeAssumption DEF Init, Sizes, Entries, Markers, NoMarkerForgotten,
     Acknowledged, Said
<1>3. ByteSets /\ Unsent /\ Covered
  BY SizeAssumption DEF Init, ByteSets, Unsent, Covered, Bytes
<1>4. Buffer
  <2>1. {} \subseteq Bytes(0, 0) /\ Bytes(0, 0) \subseteq Bytes(0, Inf)
    BY SizeAssumption DEF Bytes
  <2>2. PrefixEnd({}) = 0
    BY <2>1, PrefixEndBounds, PrefixEndIs, SizeAssumption
  <2>3. QED
    BY <2>2 DEF Init, Buffer
<1>5. QED
  BY <1>1, <1>2, <1>3, <1>4 DEF Inv

\* The application writes.
LEMMA WriteInv ==
  ASSUME Inv, NEW len \in 1 .. MaxWritten, Write(len)
  PROVE  Inv'
<1> USE SizeAssumption
<1>1. /\ size_inflight \in 0 .. MaxWritten /\ final_size = Inf
      /\ written \in 0 .. MaxWritten /\ app_error_code = NoCode
  BY DEF Inv, TypeOK, Sizes, Write
<1>2. /\ pending \subseteq pending'
      /\ pending' \subseteq pending \cup Bytes(size_inflight, final_size)
  BY ActivatedBounds DEF Write
<1>3. TypeOK' /\ (shifted <= written)'
  <2>1. pending' \subseteq 0 .. Inf
    BY <1>2 DEF Inv, TypeOK, Bytes
  <2>2. written' \in 0 .. MaxWritten /\ shifted' <= written'
    BY DEF Inv, TypeOK, Write
  <2>3. QED
    BY <2>1, <2>2 DEF Inv, TypeOK, Write
<1>4. Sizes' /\ Entries' /\ Markers' /\ Acknowledged' /\ Said' /\ Buffer'
  BY <1>1 DEF Inv, Write, Sizes, Entries, WellFormed, Markers,
     NoMarkerForgotten, Acknowledged, Said, Buffer
<1>5. ByteSets'
  <2>1. pending' \subseteq Bytes(0, final_size)
    BY <1>1, <1>2 DEF Inv, ByteSets, Bytes
  <2>2. acked \cap pending' = {}
    BY <1>1, <1>2 DEF Inv, ByteSets, Bytes
  <2>3. QED
    BY <1>1, <2>1, <2>2 DEF Inv, ByteSets, Write
<1>6. Unsent'
  BY <1>1, <1>2 DEF Inv, Unsent, Write, Activated, Bytes
<1>7. Covered'
  BY <1>2 DEF Inv, Covered, Carried, Write
<1>8. QED
  BY <1>3, <1>4, <1>5, <1>6, <1>7 DEF Inv

\* The application shuts the stream down (quicly_sendstate_shutdown).
LEMMA ShutdownInv ==
  ASSUME Inv, Shutdown
  PROVE  Inv'
<1> USE SizeAssumption
<1>1. /\ size_inflight \in 0 .. MaxWritten /\ final_size = Inf
      /\ written \in 0 .. MaxWritten /\ size_inflight <= written
      /\ app_error_code = NoCode /\ reliable_size = 0
      /\ max_stream_data \in 0 .. MaxWritten
  BY DEF Inv, TypeOK, Sizes, Shutdown
<1>2. /\ final_size' = written /\ written' = written
      /\ size_inflight' = size_inflight /\ acked' = acked
      /\ app_error_code' = NoCode /\ reliable_size' = 0
      /\ eos_state' = eos_state /\ eos_state = "UNSENT"
  BY <1>1 DEF Inv, Sizes, Shutdown
<1> DEFINE kept == (pending \cup Bytes(size_inflight, written))
                     \ Bytes(written, Inf)
<1>3. pending' = kept
  <2>1. Bytes(size_inflight, written) \subseteq kept
    BY <1>1 DEF Bytes
  <2> HIDE DEF kept
  <2>2. QED
    BY <2>1, ActivatedBounds DEF Shutdown, kept
<1>4. \A b \in 0 .. Inf : b \in pending' <=>
        b < written /\ (b \in pending \/ size_inflight <= b)
  BY <1>1, <1>3 DEF Inv, ByteSets, Bytes
<1>5. pending' \subseteq 0 .. Inf
  BY <1>3 DEF Inv, TypeOK, Bytes
<1> HIDE DEF kept
<1>6. TypeOK' /\ (shifted <= written)'
  BY <1>1, <1>2, <1>5 DEF Inv, TypeOK, Shutdown
<1>7. Sizes' /\ Acknowledged' /\ Said'
  BY <1>1, <1>2 DEF Inv, Sizes, Shutdown, Acknowledged, Said
<1>8. Entries' /\ Markers' /\ Buffer'
  <2>1. eos_type = NONE /\ eos_type' = FIN
    BY <1>1, <1>2
  <2>2. Entries'
    BY <1>2, <2>1 DEF Inv, TypeOK, Shutdown, Entries, WellFormed, Frame,
       Args, EosType
  <2>3. Markers' /\ Buffer'
    BY <1>1, <1>2 DEF Inv, Shutdown, Markers, NoMarkerForgotten, Buffer
  <2>4. QED
    BY <2>2, <2>3
<1>9. ByteSets'
  BY <1>1, <1>2, <1>4, <1>5 DEF Inv, ByteSets, Bytes
<1>10. Unsent'
  BY <1>1, <1>2, <1>4, <1>5 DEF Inv, Unsent, Bytes
<1>11. Covered'
  <2>1. \A b \in Bytes(0, size_inflight) : b \in pending => b \in pending'
    BY <1>1, <1>4 DEF Bytes
  <2>2. QED
    BY <2>1, <1>2 DEF Inv, Covered, Carried, Shutdown
<1>12. QED
  BY <1>6, <1>7, <1>8, <1>9, <1>10, <1>11 DEF Inv

\* More credit, the end of the receive side, an entry that expires after it was
\* deemed lost, and the entries of a destroyed stream leave sendstate alone.
LEMMA QuietInv ==
  ASSUME Inv,
         \/ \E limit \in 1 .. MaxWritten : ReceiveMaxStreamData(limit)
         \/ ReceiveSideCompletes
         \/ \E f \in frames : Expire(f)
         \/ Orphan
         \/ UNCHANGED vars
  PROVE  Inv'
<1> USE SizeAssumption
<1>1. /\ UNCHANGED <<acked, pending, size_inflight, final_size,
                     app_error_code, reliable_size, eos_state, written,
                     shifted, got, got_eos, said>>
      /\ frames' \subseteq frames /\ cache' \subseteq cache
  BY DEF ReceiveMaxStreamData, ReceiveSideCompletes, Expire, Orphan, vars
<1>2. max_stream_data' \in 0 .. MaxWritten /\ max_stream_data <= max_stream_data'
  <2>1. max_stream_data \in 0 .. MaxWritten
    BY DEF Inv, TypeOK
  <2>2. CASE \E limit \in 1 .. MaxWritten : ReceiveMaxStreamData(limit)
    BY <2>1, <2>2 DEF ReceiveMaxStreamData
  <2>3. CASE max_stream_data' = max_stream_data
    BY <2>1, <2>3
  <2>4. QED
    BY <2>2, <2>3 DEF ReceiveSideCompletes, Expire, Orphan, vars
<1>3. /\ recv_complete' \in BOOLEAN /\ alive' \in BOOLEAN
      /\ alive' => alive /\ cache' = cache
                   /\ \A f \in frames : f.live => f \in frames'
      /\ ~alive' => eos_state = "DELIVERED"
  <2>1. CASE \E limit \in 1 .. MaxWritten : ReceiveMaxStreamData(limit)
    BY <2>1 DEF Inv, TypeOK, Markers, ReceiveMaxStreamData
  <2>2. CASE ReceiveSideCompletes
    BY <2>2 DEF Inv, TypeOK, Markers, ReceiveSideCompletes, Idle, Destroyable
  <2>3. CASE \E f \in frames : Expire(f)
    BY <2>3 DEF Inv, TypeOK, Markers, Expire
  <2>4. CASE Orphan
    BY <2>4 DEF Inv, TypeOK, Markers, Orphan
  <2>5. CASE UNCHANGED vars
    BY <2>5 DEF Inv, TypeOK, Markers, vars
  <2>6. QED
    BY <2>1, <2>2, <2>3, <2>4, <2>5
<1>4. TypeOK' /\ (shifted <= written)'
  BY <1>1, <1>2, <1>3 DEF Inv, TypeOK
<1>5. Sizes'
  BY <1>1, <1>2 DEF Inv, TypeOK, Sizes
<1>6. ByteSets' /\ Unsent' /\ Buffer' /\ Acknowledged' /\ Said'
  BY <1>1 DEF Inv, ByteSets, Unsent, Buffer, Acknowledged, Said
<1>7. Covered'
  BY <1>1, <1>3 DEF Inv, Covered, Carried
<1>8. Entries'
  BY <1>1 DEF Inv, Entries, WellFormed
<1>9. Markers'
  BY <1>1, <1>3 DEF Inv, Markers, NoMarkerForgotten
<1>10. QED
  BY <1>4, <1>5, <1>6, <1>7, <1>8, <1>9 DEF Inv

\* A reset that gives up all bytes, by the application or upon STOP_SENDING
\* (quicly_sendstate_reset with a Reliable Size of zero).
LEMMA ResetAllInv ==
  ASSUME Inv, Idle, NEW code \in Codes,
         Reset(code, 0), pending' = pending \ Bytes(0, Inf),
         eos_type # RESET, app_error_code \in {NoCode, code},
         shifted' \in 0 .. MaxWritten, shifted' <= written,
         UNCHANGED <<max_stream_data, written, frames, cache, recv_complete,
                     alive, got, got_eos, said>>
  PROVE  Inv'
<1> USE SizeAssumption
<1>1. /\ size_inflight \in 0 .. MaxWritten
      /\ final_size \in 0 .. MaxWritten \cup {Inf}
      /\ written \in 0 .. MaxWritten /\ size_inflight <= written
      /\ size_inflight <= final_size
  BY DEF Inv, TypeOK, Sizes
<1>2. code # NoCode
  BY CodeAssumption
<1>3. ResetFinalSize(0) = size_inflight
  BY <1>1 DEF ResetFinalSize
<1>4. /\ final_size' = size_inflight /\ size_inflight' = size_inflight
      /\ app_error_code' = code /\ reliable_size' = 0
      /\ eos_state' = "UNSENT" /\ acked' = acked \cup Bytes(0, size_inflight)
  BY <1>3 DEF Reset
<1>5. acked' = Bytes(0, size_inflight) /\ pending' = {}
  <2>1. acked \subseteq Bytes(0, size_inflight)
    BY DEF Inv, ByteSets
  <2>2. pending \subseteq Bytes(0, Inf)
    BY <1>1 DEF Inv, ByteSets, Bytes
  <2>3. QED
    BY <1>4, <2>1, <2>2
<1>6. eos_type' = RESET
  BY <1>1, <1>2, <1>4
<1>7. TypeOK' /\ (shifted <= written)'
  <2>1. acked' \subseteq 0 .. Inf
    BY <1>5 DEF Bytes
  <2>2. /\ final_size' \in 0 .. MaxWritten \cup {Inf}
        /\ reliable_size' \in 0 .. MaxWritten
    BY <1>1, <1>4
  <2>3. QED
    BY <1>4, <1>5, <2>1, <2>2 DEF Inv, TypeOK, EosState
<1>8. Sizes'
  BY <1>1, <1>2, <1>4 DEF Inv, Sizes
<1>9. ByteSets' /\ Unsent' /\ Covered' /\ Acknowledged'
  BY <1>1, <1>2, <1>4, <1>5 DEF ByteSets, Unsent, Covered, Acknowledged, Bytes
<1>10. Entries'
  BY <1>4, <1>6 DEF Inv, TypeOK, Entries, WellFormed, Frame, Args, EosType
<1>11. Markers' /\ Buffer'
  BY <1>4, <1>6 DEF Idle, Markers, NoMarkerForgotten, Buffer
<1>12. Said'
  BY <1>1, <1>2, <1>4 DEF Inv, Said
<1>13. QED
  BY <1>7, <1>8, <1>9, <1>10, <1>11, <1>12 DEF Inv

\* The application resets the stream.
LEMMA ResetStreamInv ==
  ASSUME Inv, NEW code \in Codes, ResetStream(code)
  PROVE  Inv'
<1>1. shifted' \in 0 .. MaxWritten /\ shifted' <= written
  BY DEF Inv, TypeOK, ResetStream
<1>2. QED
  BY <1>1, ResetAllInv DEF ResetStream

\* The peer asks to stop sending (handle_stop_sending_frame).
LEMMA StopSendingInv ==
  ASSUME Inv, NEW code \in Codes, ReceiveStopSending(code)
  PROVE  Inv'
<1> USE SizeAssumption
<1>1. /\ size_inflight \in 0 .. MaxWritten
      /\ final_size \in 0 .. MaxWritten \cup {Inf}
      /\ shifted \in 0 .. MaxWritten /\ shifted <= written
      /\ written \in 0 .. MaxWritten
      /\ size_inflight <= final_size
      /\ ~IsOpen => final_size <= written
      /\ eos_type # RESET
  BY DEF Inv, TypeOK, Sizes, ReceiveStopSending
<1>2. shifted' \in 0 .. MaxWritten /\ shifted' <= written
  <2>1. CASE IsOpen
    BY <1>1, <2>1 DEF ReceiveStopSending, StopShift
  <2>2. CASE ~IsOpen
    <3>1. acked \subseteq Bytes(0, final_size) /\ acked \subseteq Bytes(0, Inf)
      BY <1>1 DEF Inv, ByteSets, Bytes
    <3>2. PrefixEnd(acked) \in 0 .. Inf /\ PrefixEnd(acked) <= final_size
      BY <1>1, <2>2, <3>1, PrefixEndIs, PrefixEndBounds
    <3>3. CASE shifted = PrefixEnd(acked)
      BY <1>1, <2>2, <3>2, <3>3 DEF ReceiveStopSending, StopShift
    <3>4. CASE Bytes(0, final_size) \subseteq acked /\ shifted <= final_size
      <4>1. final_size <= PrefixEnd(acked)
        BY <1>1, <3>1, <3>4, PrefixEndBounds
      <4>2. QED
        BY <1>1, <2>2, <3>2, <3>4, <4>1 DEF ReceiveStopSending, StopShift
    <3>5. QED
      BY <1>1, <3>3, <3>4 DEF Inv, Buffer
  <2>3. QED
    BY <2>1, <2>2
<1>3. /\ StopCode(code) \in Codes
      /\ app_error_code \in {NoCode, StopCode(code)}
  BY <1>1 DEF Inv, TypeOK, Sizes, StopCode
<1>4. QED
  BY <1>1, <1>2, <1>3, ResetAllInv DEF ReceiveStopSending

\* A reset that commits to deliver the bytes below a Reliable Size.
LEMMA SetResetStreamAtInv ==
  ASSUME Inv, NEW code \in Codes, NEW reliable \in 1 .. MaxWritten,
         SetResetStreamAt(code, reliable)
  PROVE  Inv'
<1> USE SizeAssumption
<1> DEFINE final == IF reliable < size_inflight THEN size_inflight ELSE reliable
           kept == pending \ Bytes(reliable, Inf)
<1>1. /\ size_inflight \in 0 .. MaxWritten
      /\ final_size \in 0 .. MaxWritten \cup {Inf}
      /\ written \in 0 .. MaxWritten /\ size_inflight <= written
      /\ size_inflight <= final_size
      /\ reliable <= written
      /\ ~IsOpen => final_size = written
      /\ app_error_code = NoCode /\ code # NoCode
      /\ alive
  BY CodeAssumption DEF Inv, TypeOK, Sizes, SetResetStreamAt, Idle
<1>2. ResetFinalSize(reliable) = final
  BY <1>1 DEF ResetFinalSize
<1>3. /\ final_size' = final /\ size_inflight' = size_inflight
      /\ app_error_code' = code /\ reliable_size' = reliable
      /\ eos_state' = "UNSENT" /\ acked' = acked \cup Bytes(reliable, final)
      /\ UNCHANGED <<max_stream_data, written, shifted, frames, cache,
                     recv_complete, alive, got, got_eos, said>>
  BY <1>2 DEF Reset, SetResetStreamAt
<1>4. final \in 0 .. MaxWritten /\ size_inflight <= final /\ reliable <= final
      /\ final <= written /\ (reliable < final => final = size_inflight)
  BY <1>1
<1>5. pending' = kept
  <2>1. Bytes(size_inflight, final) \subseteq kept
    BY <1>1 DEF Inv, Unsent, Bytes
  <2>2. pending' = Activated(kept, size_inflight, final)
    BY <1>2 DEF SetResetStreamAt
  <2> HIDE DEF kept, final
  <2>3. QED
    BY <2>1, <2>2, ActivatedBounds
<1>6. eos_type' = RESET_AT
  BY <1>1, <1>3, <1>4
<1>7. TypeOK' /\ (shifted <= written)'
  <2>1. acked' \subseteq 0 .. Inf /\ pending' \subseteq 0 .. Inf
    BY <1>3, <1>5 DEF Inv, TypeOK, Bytes
  <2>2. /\ final_size' \in 0 .. MaxWritten \cup {Inf}
        /\ reliable_size' \in 0 .. MaxWritten
    BY <1>3, <1>4
  <2>3. QED
    BY <1>3, <2>1, <2>2 DEF Inv, TypeOK, EosState
<1>8. Sizes'
  BY <1>1, <1>3, <1>4 DEF Inv, Sizes
<1>9. ByteSets'
  <2>1. /\ acked \subseteq Bytes(0, size_inflight) /\ acked \cap pending = {}
        /\ pending \subseteq Bytes(0, final_size)
    BY DEF Inv, ByteSets
  <2> HIDE DEF final
  <2>2. pending' \subseteq Bytes(0, final)
    BY <1>1, <1>4, <1>5, <2>1, BytesIn
  <2>3. acked' \subseteq Bytes(0, size_inflight)
    BY <1>1, <1>3, <1>4, <2>1, BytesIn
  <2>4. acked' \cap pending' = {}
    BY <1>1, <1>3, <1>4, <1>5, <2>1, BytesIn
  <2>5. QED
    BY <1>3, <2>2, <2>3, <2>4 DEF ByteSets
<1>10. Unsent'
  <2>1. Bytes(size_inflight, final) \subseteq pending'
    BY <1>1, <1>5 DEF Inv, Unsent, Bytes
  <2>2. QED
    BY <1>3, <1>4, <2>1 DEF Unsent
<1>11. Covered'
  <2>1. \A b \in Bytes(0, size_inflight) :
          b \in pending => b \in pending' \/ b \in acked'
    BY <1>1, <1>3, <1>5 DEF Bytes
  <2>2. QED
    BY <1>1, <1>3, <2>1 DEF Inv, Covered, Carried
<1>12. Entries'
  BY <1>3, <1>6, <1>1 DEF Inv, Entries, WellFormed, TypeOK, Frame, Args, EosType
<1>13. Markers' /\ Acknowledged'
  BY <1>1, <1>3 DEF Inv, Markers, NoMarkerForgotten, Acknowledged
<1>14. Said'
  BY <1>1, <1>3 DEF Inv, Said
<1>15. Buffer'
  <2> DEFINE p == PrefixEnd(acked)
  <2>1. acked \subseteq Bytes(0, Inf) /\ acked' \subseteq Bytes(0, Inf)
    <3>1. acked \subseteq Bytes(0, size_inflight)
      BY DEF Inv, ByteSets
    <3> HIDE DEF final
    <3>2. QED
      BY <1>1, <1>3, <1>4, <3>1, BytesIn
  <2>2. p \in 0 .. Inf /\ IsPrefixEnd(acked, p)
    BY <2>1, PrefixEndIs
  <2>3. p <= size_inflight
    <3>1. size_inflight \in 0 .. Inf /\ acked \subseteq Bytes(0, size_inflight)
      BY <1>1 DEF Inv, ByteSets
    <3>2. QED
      BY <2>1, <3>1, PrefixEndBounds
  <2> HIDE DEF p
  <2>4. CASE shifted = p /\ p < reliable
    <3>1. IsPrefixEnd(acked', p)
      BY <1>1, <1>3, <2>2, <2>4 DEF IsPrefixEnd, Bytes
    <3>2. QED
      BY <1>3, <2>1, <2>2, <2>4, <3>1, PrefixEndUnique DEF Buffer
  <2>5. CASE shifted = p /\ ~(p < reliable)
    <3>1. Bytes(0, final) \subseteq acked'
      BY <1>1, <1>3, <2>2, <2>5 DEF IsPrefixEnd, Bytes
    <3>2. shifted <= final
      BY <1>1, <2>2, <2>3, <2>5
    <3>3. QED
      BY <1>3, <1>4, <3>1, <3>2 DEF Buffer
  <2>6. CASE /\ ~IsOpen /\ Bytes(0, final_size) \subseteq acked
             /\ shifted <= final_size
    <3>1. final_size = size_inflight
      BY <1>1, <2>6 DEF Inv, ByteSets, Bytes
    <3>2. final = final_size
      BY <1>1, <2>6, <3>1
    <3>3. QED
      BY <1>1, <1>3, <1>4, <2>6, <3>2 DEF Buffer
  <2>7. QED
    BY <1>1, <2>4, <2>5, <2>6 DEF Inv, Buffer, p
<1>16. QED
  BY <1>7, <1>8, <1>9, <1>10, <1>11, <1>12, <1>13, <1>14, <1>15 DEF Inv

\* A STREAM frame with data is sent (quicly_send_stream).
LEMMA SendStreamInv ==
  ASSUME Inv, NEW off \in pending, NEW len \in 1 .. MaxWritten,
         SendStream(off, len)
  PROVE  Inv'
<1> USE SizeAssumption
<1> DEFINE end == off + len
           inflight == IF size_inflight < end THEN end ELSE size_inflight
           is_fin == end = final_size /\ app_error_code = NoCode
           new == [start |-> off, end |-> end,
                   eos_type |-> IF is_fin THEN FIN ELSE NONE, live |-> TRUE]
<1>1. /\ size_inflight \in 0 .. MaxWritten
      /\ final_size \in 0 .. MaxWritten \cup {Inf}
      /\ written \in 0 .. MaxWritten /\ size_inflight <= written
      /\ max_stream_data \in 0 .. MaxWritten
      /\ size_inflight <= max_stream_data
      /\ size_inflight <= final_size
      /\ ~IsOpen => final_size <= written
      /\ acked \subseteq Bytes(0, size_inflight)
      /\ pending \subseteq Bytes(0, final_size)
      /\ acked \cap pending = {}
      /\ alive
  BY DEF Inv, TypeOK, Sizes, ByteSets, SendStream, Idle
<1>2. off \in 0 .. Inf
  BY DEF Inv, TypeOK
<1>3. /\ end \in 1 .. MaxWritten /\ off < end /\ off \in 0 .. MaxWritten
      /\ end <= written /\ end <= max_stream_data
      /\ Bytes(off, end) \subseteq pending
      /\ \A b \in pending : off <= b
  BY <1>1, <1>2 DEF SendStream, WithinStreamLimit
<1>4. end <= final_size
  <2>1. end - 1 \in Bytes(off, end)
    BY <1>2, <1>3, BytesIn
  <2>2. QED
    BY <1>1, <1>3, <2>1, BytesIn
<1>5. /\ size_inflight' = inflight /\ frames' = frames \cup {new}
      /\ pending' = (pending \ Bytes(off, end))
                      \ (IF end = written THEN Bytes(inflight, Inf) ELSE {})
      /\ eos_state' = IF is_fin THEN "INFLIGHT" ELSE eos_state
      /\ said' = IF is_fin THEN said \cup {Saying(FIN)} ELSE said
      /\ UNCHANGED <<acked, final_size, app_error_code, reliable_size,
                     max_stream_data, written, shifted, cache,
                     recv_complete, alive, got, got_eos>>
  BY DEF SendStream, Sent
<1>6. /\ inflight \in 0 .. MaxWritten /\ size_inflight <= inflight
      /\ end <= inflight /\ inflight <= written
      /\ inflight <= max_stream_data /\ inflight <= final_size
      /\ end = written => inflight = written
  BY <1>1, <1>3, <1>4
<1>7. is_fin => ~IsOpen /\ eos_type = FIN /\ inflight = final_size
  BY <1>1, <1>3, <1>6
<1> HIDE DEF end, inflight, is_fin
<1>8. /\ new \in Frame /\ new.live /\ new.start = off /\ new.end = end
      /\ is_fin => new.eos_type = FIN
  BY <1>3 DEF Frame, EosType
<1>9. TypeOK' /\ (shifted <= written)'
  <2>1. pending' \subseteq 0 .. Inf
    BY <1>5 DEF Inv, TypeOK
  <2>2. said' \subseteq [eos_type : EosType, final_size : 0 .. MaxWritten,
                         code : Codes \cup {NoCode}]
    BY <1>1, <1>5, <1>7 DEF Inv, TypeOK, Saying, EosType
  <2>3. eos_state' \in EosState
    BY <1>5 DEF Inv, TypeOK, EosState
  <2> HIDE DEF new
  <2>4. QED
    BY <1>5, <1>6, <1>8, <2>1, <2>2, <2>3 DEF Inv, TypeOK
<1>10. Sizes'
  BY <1>1, <1>5, <1>6, <1>7 DEF Inv, Sizes
<1>11. ByteSets'
  <2>1. pending' \subseteq pending
    BY <1>5
  <2>2. acked \subseteq Bytes(0, inflight)
    BY <1>1, <1>6, BytesIn
  <2>3. QED
    BY <1>1, <1>5, <2>1, <2>2 DEF Inv, ByteSets
<1>12. Unsent'
  <2>1. CASE end = written
    <3>1. Bytes(inflight, Inf) \cap pending' = {}
      BY <1>5, <2>1
    <3>2. ~IsOpen => Bytes(inflight, final_size) = {}
      BY <1>1, <1>4, <1>6, <2>1, BytesIn
    <3>3. QED
      BY <1>5, <1>6, <2>1, <3>1, <3>2 DEF Unsent
  <2>2. CASE end # written
    <3>1. pending' = pending \ Bytes(off, end)
      BY <1>5, <2>2
    <3>2. ASSUME NEW to \in 0 .. Inf, Bytes(size_inflight, to) \subseteq pending
          PROVE  Bytes(inflight, to) \subseteq pending'
      BY <1>1, <1>3, <1>6, <3>1, <3>2, BytesIn
    <3>3. CASE IsOpen /\ size_inflight = written
                /\ Bytes(size_inflight, Inf) \cap pending = {}
      <4>1. inflight = size_inflight
        BY <1>1, <1>3, <1>6, <3>3 DEF inflight
      <4>2. QED
        BY <1>5, <3>1, <3>3, <4>1 DEF Unsent
    <3>4. CASE IsOpen /\ Bytes(size_inflight, Inf) \subseteq pending
      BY <1>1, <1>5, <3>2, <3>4 DEF Unsent
    <3>5. CASE ~IsOpen /\ Bytes(size_inflight, final_size) \subseteq pending
      BY <1>1, <1>5, <3>2, <3>5 DEF Unsent
    <3>6. QED
      BY <3>3, <3>4, <3>5 DEF Inv, Unsent
  <2>3. QED
    BY <2>1, <2>2
<1>13. Covered'
  <2> SUFFICES ASSUME NEW b \in Bytes(0, inflight)
               PROVE  b \in acked \/ b \in pending' \/ Carried(b)'
    BY <1>1, <1>5 DEF Covered
  <2>1. b \in 0 .. Inf /\ b < inflight
    BY BytesIn
  <2>2. CASE b \in Bytes(off, end)
    <3> HIDE DEF new
    <3>1. new \in frames' /\ b \in Bytes(new.start, new.end)
      BY <1>5, <1>8, <2>2
    <3>2. QED
      BY <1>8, <3>1 DEF Carried
  <2>3. CASE b \notin Bytes(off, end) /\ b < size_inflight
    <3>1. b \in Bytes(0, size_inflight)
      BY <1>1, <2>1, <2>3, BytesIn
    <3>2. b \in pending => b \in pending'
      BY <1>5, <1>6, <2>1, <2>3, BytesIn
    <3>3. Carried(b) => Carried(b)'
      BY <1>5 DEF Carried
    <3>4. QED
      BY <1>1, <3>1, <3>2, <3>3 DEF Inv, Covered
  <2>4. CASE b \notin Bytes(off, end) /\ ~ (b < size_inflight)
    <3>1. inflight = end /\ size_inflight < end
      BY <1>1, <1>6, <2>1, <2>4 DEF inflight
    <3>2. size_inflight \in pending
      <4>1. /\ size_inflight \in Bytes(size_inflight, Inf)
            /\ size_inflight \in Bytes(size_inflight, final_size)
        BY <1>1, <1>3, <1>4, <3>1, BytesIn
      <4>2. size_inflight # written
        BY <1>1, <1>3, <3>1
      <4>3. QED
        BY <4>1, <4>2 DEF Inv, Unsent
    <3>3. b \in Bytes(off, end)
      BY <1>1, <1>2, <1>3, <2>1, <2>4, <3>1, <3>2, BytesIn
    <3>4. QED
      BY <2>4, <3>3
  <2>5. QED
    BY <2>2, <2>3, <2>4
<1>14. Entries'
  BY <1>1, <1>3, <1>5, <1>6, <1>7 DEF Inv, TypeOK, Entries, WellFormed,
     Frame, Args
<1>15. Markers'
  <2> HIDE DEF new
  <2>1. eos_type' = eos_type /\ frames \subseteq frames' /\ new \in frames'
    BY <1>5
  <2>2. CASE is_fin
    BY <1>1, <1>5, <1>7, <1>8, <2>1, <2>2 DEF Markers, NoMarkerForgotten
  <2>3. CASE ~is_fin
    BY <1>1, <1>5, <2>1, <2>3 DEF Inv, Markers, NoMarkerForgotten
  <2>4. QED
    BY <2>2, <2>3
<1>16. Buffer' /\ Acknowledged'
  BY <1>5 DEF Inv, Buffer, Acknowledged
<1>17. Said'
  <2>1. \A x \in said : inflight = final_size
    BY <1>1, <1>6 DEF Inv, Said
  <2>2. QED
    BY <1>5, <1>7, <2>1 DEF Inv, Said, Saying
<1>18. QED
  BY <1>9, <1>10, <1>11, <1>12, <1>13, <1>14, <1>15, <1>16, <1>17 DEF Inv

\* A frame that carries the marker alone is sent: STREAM with FIN, RESET_STREAM
\* or RESET_STREAM_AT.
LEMMA SendMarkerInv ==
  ASSUME Inv, SendFinOnly \/ SendResetStreamAt \/ SendResetStream
  PROVE  Inv'
<1> USE SizeAssumption
<1> DEFINE new == [start |-> final_size, end |-> final_size,
                   eos_type |-> eos_type, live |-> TRUE]
<1>1. ~IsOpen /\ eos_type # NONE /\ alive /\ SendMarker(eos_type)
  BY DEF Inv, Sizes, SendFinOnly, SendResetStreamAt, SendResetStream, Idle
<1>2. /\ size_inflight \in 0 .. MaxWritten /\ final_size \in 0 .. MaxWritten
      /\ size_inflight <= final_size /\ eos_type \in EosType
  BY <1>1 DEF Inv, TypeOK, Sizes, EosType
<1>3. size_inflight = final_size
  <2>1. CASE pending = {}
    <3>1. size_inflight \notin Bytes(size_inflight, final_size)
      BY <1>1, <2>1 DEF Inv, Unsent
    <3>2. QED
      BY <1>2, <3>1, BytesIn
  <2>2. CASE eos_type = RESET
    BY <2>2 DEF Inv, Sizes
  <2>3. QED
    BY <2>1, <2>2 DEF SendFinOnly, SendResetStreamAt, SendResetStream
<1>4. /\ eos_state' = "INFLIGHT" /\ frames' = frames \cup {new}
      /\ said' = said \cup {Saying(eos_type)}
      /\ UNCHANGED <<acked, pending, size_inflight, final_size, app_error_code,
                     reliable_size, max_stream_data, written, shifted, cache,
                     recv_complete, alive, got, got_eos>>
  BY <1>1 DEF SendMarker, Sent
<1>5. /\ new \in Frame /\ new.live /\ new.eos_type = eos_type
      /\ WellFormed(new)
  BY <1>2, <1>3 DEF Frame, EosType, WellFormed
<1>6. eos_type' = eos_type
  BY <1>4
<1> HIDE DEF new
<1>7. TypeOK' /\ (shifted <= written)'
  <2>1. said' \subseteq [eos_type : EosType, final_size : 0 .. MaxWritten,
                         code : Codes \cup {NoCode}]
    BY <1>2, <1>4 DEF Inv, TypeOK, Saying
  <2>2. QED
    BY <1>4, <1>5, <2>1 DEF Inv, TypeOK, EosState
<1>8. Sizes' /\ ByteSets' /\ Unsent' /\ Buffer' /\ Acknowledged'
  BY <1>1, <1>4 DEF Inv, Sizes, ByteSets, Unsent, Buffer, Acknowledged
<1>9. Covered'
  BY <1>4 DEF Inv, Covered, Carried
<1>10. Entries'
  <2>1. \A e : WellFormed(e)' <=> WellFormed(e)
    BY <1>4 DEF WellFormed
  <2>2. QED
    BY <1>4, <1>5, <2>1 DEF Inv, Entries
<1>11. Markers'
  BY <1>1, <1>4, <1>5, <1>6 DEF Markers, NoMarkerForgotten
<1>12. Said'
  BY <1>1, <1>3, <1>4 DEF Inv, Said, Saying
<1>13. QED
  BY <1>7, <1>8, <1>9, <1>10, <1>11, <1>12 DEF Inv

\* An entry that was in flight is acknowledged: it moves to the cache.
LEMMA AckInFlightInv ==
  ASSUME Inv, NEW f \in frames, AckInFlight(f)
  PROVE  Inv'
<1> USE SizeAssumption
<1>1. /\ alive /\ f.live /\ frames' = frames \ {f}
      /\ UNCHANGED <<acked, pending, size_inflight, final_size,
                     app_error_code, reliable_size, eos_state,
                     max_stream_data, written, shifted, recv_complete, alive,
                     got, got_eos, said>>
  BY DEF AckInFlight
<1>2. f \in Frame /\ WellFormed(f) /\ size_inflight \in 0 .. MaxWritten
      /\ eos_type \in EosType
  BY DEF Inv, TypeOK, Entries, EosType
<1> DEFINE
      Absorbs(new) ==
        /\ cache' = {new} /\ WellFormed(new)
        /\ \A b : b \in Bytes(f.start, f.end) => b \in Bytes(new.start, new.end)
        /\ \A a \in cache : \A b :
             b \in Bytes(a.start, a.end) => b \in Bytes(new.start, new.end)
        /\ f.eos_type = eos_type => new.eos_type = eos_type
        /\ \A a \in cache : a.eos_type = eos_type => new.eos_type = eos_type
<1>3. PICK new \in Args : Absorbs(new)
  <2>1. CASE cache = {} /\ cache' = {ArgsOf(f)}
    <3>1. ArgsOf(f) \in Args
      BY <1>2 DEF ArgsOf, Args, Frame
    <3>2. Absorbs(ArgsOf(f))
      BY <1>2, <2>1 DEF ArgsOf, WellFormed
    <3>3. QED
      BY <3>1, <3>2
  <2>2. ASSUME NEW args \in cache, args.end = f.start,
               cache' = {Merged(args, f)}
        PROVE  \E new \in Args : Absorbs(new)
    <3>1. args \in Args /\ WellFormed(args) /\ \A a \in cache : a = args
      BY DEF Inv, TypeOK, Entries
    <3>2. Merged(args, f) \in Args /\ WellFormed(Merged(args, f))
      BY <1>2, <2>2, <3>1 DEF Merged, Larger, Args, Frame, WellFormed, EosType
    <3>3. \A b : b \in Bytes(f.start, f.end) \/ b \in Bytes(args.start, args.end)
                  => b \in Bytes(Merged(args, f).start, Merged(args, f).end)
      BY <1>2, <2>2, <3>1, BytesIn DEF Merged, WellFormed, Args, Frame
    <3>4. f.eos_type = eos_type \/ args.eos_type = eos_type
            => Merged(args, f).eos_type = eos_type
      BY <1>2, <3>1 DEF Merged, Larger, WellFormed, Args, Frame, EosType
    <3>5. Absorbs(Merged(args, f))
      BY <2>2, <3>1, <3>2, <3>3, <3>4
    <3>6. QED
      BY <3>2, <3>5
  <2>3. QED
    BY <2>1, <2>2 DEF AckInFlight
<1>4. TypeOK' /\ (shifted <= written)'
  BY <1>1, <1>3 DEF Inv, TypeOK
<1>5. Sizes' /\ ByteSets' /\ Unsent' /\ Buffer' /\ Acknowledged' /\ Said'
  BY <1>1 DEF Inv, Sizes, ByteSets, Unsent, Buffer, Acknowledged, Said
<1>6. Covered'
  BY <1>1, <1>3 DEF Inv, Covered, Carried
<1>7. Entries'
  BY <1>1, <1>3 DEF Inv, Entries, WellFormed
<1>8. Markers'
  BY <1>1, <1>3 DEF Inv, Markers, NoMarkerForgotten
<1>9. QED
  BY <1>4, <1>5, <1>6, <1>7, <1>8 DEF Inv

\* An acknowledged range is applied (quicly_sendstate_acked), provided that the
\* bytes and the marker of other entries stay where they are.
LEMMA AckOneInv ==
  ASSUME Inv, alive, NEW args \in Args, WellFormed(args), AckOne(args),
         frames' \subseteq frames, cache' \subseteq cache,
         \A b : Carried(b) => Carried(b)' \/ b \in Bytes(args.start, args.end),
         eos_type # args.eos_type =>
           /\ \A f \in frames : f.live /\ f.eos_type = eos_type => f \in frames'
           /\ \A a \in cache : a.eos_type = eos_type => a \in cache'
  PROVE  Inv'
<1> USE SizeAssumption
<1> DEFINE range == Bytes(args.start, args.end)
           eos == AckedEosState(args)
<1>1. /\ size_inflight \in 0 .. MaxWritten
      /\ final_size \in 0 .. MaxWritten \cup {Inf}
      /\ written \in 0 .. MaxWritten /\ size_inflight <= written
      /\ shifted \in 0 .. MaxWritten /\ shifted <= written
      /\ size_inflight <= final_size
      /\ ~IsOpen => final_size <= written
      /\ acked \subseteq Bytes(0, size_inflight)
  BY DEF Inv, TypeOK, Sizes, ByteSets
<1>2. range \subseteq Bytes(0, size_inflight)
  BY <1>1, BytesIn DEF Args, WellFormed
<1>3. acked \subseteq Bytes(0, Inf) /\ acked \cup range \subseteq Bytes(0, Inf)
  BY <1>1, <1>2, BytesIn
<1> HIDE DEF range
<1>4. /\ acked' = acked \cup range /\ pending' = pending \ range
      /\ eos_state' = eos
      /\ shifted' = shifted + (PrefixEnd(acked \cup range) - PrefixEnd(acked))
      /\ got' = got \cup range
      /\ got_eos' = IF args.eos_type = NONE THEN got_eos
                    ELSE got_eos \cup {args.eos_type}
      /\ UNCHANGED <<size_inflight, final_size, app_error_code, reliable_size,
                     max_stream_data, written, recv_complete, said>>
  BY DEF AckOne, AckedPending, BytesToShift, range
<1>5. alive' \in BOOLEAN /\ (~alive' => eos = "DELIVERED")
  BY DEF AckOne, Destroyable
<1>6. /\ PrefixEnd(acked) \in 0 .. Inf
      /\ PrefixEnd(acked \cup range) \in 0 .. size_inflight
  <2>1. acked \cup range \subseteq Bytes(0, size_inflight)
    BY <1>1, <1>2
  <2>2. PrefixEnd(acked) \in 0 .. Inf /\ PrefixEnd(acked \cup range) \in 0 .. Inf
    BY <1>3, PrefixEndIs
  <2>3. PrefixEnd(acked \cup range) <= size_inflight
    BY <1>1, <1>3, <2>1, PrefixEndBounds
  <2>4. QED
    BY <1>1, <2>2, <2>3
<1>7. /\ shifted' \in 0 .. MaxWritten /\ shifted' <= written
      /\ Buffer'
  <2>1. ASSUME Bytes(0, size_inflight) \subseteq acked
        PROVE  shifted' = shifted /\ acked' = acked
    <3>1. acked \cup range = acked
      BY <1>2, <2>1
    <3>2. QED
      BY <1>1, <1>4, <1>6, <3>1
  <2>2. CASE eos_type = RESET
    <3>1. Bytes(0, size_inflight) \subseteq acked
      BY <1>1, <2>2 DEF Inv, Sizes, ByteSets
    <3>2. QED
      BY <1>1, <1>4, <2>1, <2>2, <3>1 DEF Buffer
  <2>3. CASE eos_type # RESET /\ shifted = PrefixEnd(acked)
    <3>1. shifted' = PrefixEnd(acked \cup range)
      BY <1>4, <1>6, <2>3
    <3>2. QED
      BY <1>1, <1>4, <1>6, <2>3, <3>1 DEF Buffer
  <2>4. CASE /\ ~IsOpen /\ Bytes(0, final_size) \subseteq acked
             /\ shifted <= final_size
    <3>1. Bytes(0, size_inflight) \subseteq acked
      BY <1>1, <2>4, BytesIn
    <3>2. QED
      BY <1>1, <1>4, <2>1, <2>4, <3>1 DEF Buffer
  <2>5. QED
    BY <2>2, <2>3, <2>4 DEF Inv, Buffer
<1>8. \/ eos = "DELIVERED" /\ eos_type # NONE /\ args.eos_type = eos_type
      \/ eos = eos_state /\ (eos_type = NONE \/ args.eos_type # eos_type)
  <2>1. CASE args.eos_type # NONE /\ args.eos_type = eos_type
    BY <2>1 DEF AckedEosState
  <2>2. CASE ~(args.eos_type # NONE /\ args.eos_type = eos_type)
    BY <2>2 DEF AckedEosState
  <2>3. QED
    BY <2>1, <2>2
<1> HIDE DEF eos
<1>9. TypeOK'
  <2>1. acked' \subseteq 0 .. Inf /\ pending' \subseteq 0 .. Inf
        /\ got' \subseteq 0 .. Inf
    BY <1>3, <1>4, BytesIn DEF Inv, TypeOK
  <2>2. eos_state' \in EosState /\ got_eos' \subseteq EosType
    BY <1>4, <1>8 DEF Inv, TypeOK, EosState, Args
  <2>3. QED
    BY <1>4, <1>5, <1>7, <2>1, <2>2 DEF Inv, TypeOK
<1>10. Sizes' /\ Said'
  <2>1. IsOpen => eos_state' = "UNSENT"
    BY <1>4, <1>8 DEF Inv, Sizes
  <2>2. QED
    BY <1>4, <2>1 DEF Inv, Sizes, Said
<1>11. ByteSets'
  BY <1>1, <1>2, <1>4 DEF Inv, ByteSets
<1>12. Unsent'
  <2>1. \A b : b \in Bytes(size_inflight, Inf) \/ b \in Bytes(size_inflight, final_size)
          => b \notin range
    BY <1>1, <1>2, BytesIn
  <2>2. QED
    BY <1>4, <2>1 DEF Inv, Unsent
<1>13. Covered'
  BY <1>4 DEF Inv, Covered, range
<1>14. Entries' /\ Acknowledged'
  BY <1>4 DEF Inv, Entries, WellFormed, Acknowledged
<1>15. Markers'
  <2>1. eos_type' = eos_type
    BY <1>4
  <2>2. alive' /\ eos_state' = "INFLIGHT" => eos_type # args.eos_type
    BY <1>4, <1>8 DEF Inv, Sizes
  <2>3. NoMarkerForgotten'
    BY <1>4, <1>8, <2>1, <2>2 DEF Inv, Markers, NoMarkerForgotten
  <2>4. QED
    BY <1>4, <1>5, <1>8, <2>1, <2>3 DEF Inv, Markers
<1>16. QED
  BY <1>4, <1>7, <1>9, <1>10, <1>11, <1>12, <1>13, <1>14, <1>15 DEF Inv

\* The cached range is submitted (on_ack_stream_ack_cached).
LEMMA AckCachedInv ==
  ASSUME Inv, AckCached
  PROVE  Inv'
<1>1. PICK args \in cache : AckOne(args)
  BY DEF AckCached
<1>2. /\ args \in Args /\ WellFormed(args) /\ alive
      /\ \A a \in cache : a = args
      /\ cache' = {} /\ frames' = frames
  BY DEF Inv, TypeOK, Entries, AckCached
<1>3. \A b : Carried(b) => Carried(b)' \/ b \in Bytes(args.start, args.end)
  BY <1>2 DEF Carried
<1>4. QED
  BY <1>1, <1>2, <1>3, AckOneInv

\* An entry that was deemed lost is acknowledged after all.
LEMMA AckLateInv ==
  ASSUME Inv, NEW f \in frames, AckLate(f)
  PROVE  Inv'
<1>1. /\ f \in Frame /\ WellFormed(f) /\ alive /\ ~f.live /\ cache' = cache
      /\ frames' = frames \ {f} /\ AckOne(ArgsOf(f))
  BY DEF Inv, TypeOK, Entries, AckLate, Idle
<1>2. ArgsOf(f) \in Args /\ WellFormed(ArgsOf(f))
  BY <1>1 DEF ArgsOf, Args, Frame, WellFormed
<1>3. /\ \A b : Carried(b) => Carried(b)'
      /\ \A g \in frames : g.live => g \in frames'
  BY <1>1 DEF Carried
<1>4. QED
  BY <1>1, <1>2, <1>3, AckOneInv

\* An entry is deemed lost (quicly_sendstate_lost).
LEMMA LostInv ==
  ASSUME Inv, NEW f \in frames, NEW keep \in BOOLEAN, Lost(f, keep)
  PROVE  Inv'
<1> USE SizeAssumption
<1> DEFINE range == Bytes(f.start, f.end)
           dead == [f EXCEPT !.live = FALSE]
<1>1. /\ size_inflight \in 0 .. MaxWritten
      /\ final_size \in 0 .. MaxWritten \cup {Inf}
      /\ size_inflight <= final_size
      /\ acked \subseteq Bytes(0, size_inflight)
      /\ pending \subseteq Bytes(0, final_size)
      /\ acked \cap pending = {}
      /\ f \in Frame /\ WellFormed(f)
      /\ alive /\ f.live
  BY DEF Inv, TypeOK, Sizes, ByteSets, Entries, Lost, Idle
<1>2. /\ pending' = pending \cup (range \ acked)
      /\ eos_state' = LostEosState(f)
      /\ frames' = (frames \ {f}) \cup (IF keep THEN {dead} ELSE {})
      /\ UNCHANGED <<acked, size_inflight, final_size, app_error_code,
                     reliable_size, max_stream_data, written, shifted, cache,
                     recv_complete, alive, got, got_eos, said>>
  BY DEF Lost, LostPending
<1>3. dead \in Frame /\ WellFormed(dead)
  BY <1>1 DEF Frame, WellFormed
<1>4. range \subseteq Bytes(0, size_inflight)
  BY <1>1, BytesIn DEF Frame, WellFormed
<1> HIDE DEF dead, range
<1>5. TypeOK' /\ (shifted <= written)'
  <2>1. pending' \subseteq 0 .. Inf /\ frames' \subseteq Frame
    BY <1>2, <1>3, <1>4, BytesIn DEF Inv, TypeOK
  <2>2. eos_state' \in EosState
    BY <1>2 DEF Inv, TypeOK, EosState, LostEosState
  <2>3. QED
    BY <1>2, <2>1, <2>2 DEF Inv, TypeOK
<1>6. Sizes'
  BY <1>2 DEF Inv, Sizes, LostEosState
<1>7. ByteSets'
  <2>1. range \subseteq Bytes(0, final_size)
    BY <1>1, <1>4, BytesIn
  <2>2. QED
    BY <1>1, <1>2, <2>1 DEF Inv, ByteSets
<1>8. Unsent'
  <2>1. Bytes(size_inflight, Inf) \cap range = {}
    BY <1>1, <1>4, BytesIn
  <2>2. QED
    BY <1>2, <2>1 DEF Inv, Unsent
<1>9. Covered'
  <2>1. \A b : Carried(b) => Carried(b)' \/ b \in range
    BY <1>2 DEF Carried, range
  <2>2. QED
    BY <1>1, <1>2, <2>1 DEF Inv, Covered
<1>10. Entries'
  <2>1. \A e : WellFormed(e)' <=> WellFormed(e)
    BY <1>2 DEF WellFormed
  <2>2. QED
    BY <1>2, <1>3, <2>1 DEF Inv, Entries
<1>11. Markers'
  <2>1. eos_type' = eos_type
    BY <1>2
  <2>2. eos_state' # "UNSENT" => eos_state' = eos_state
    BY <1>2 DEF LostEosState
  <2>3. eos_state' = "INFLIGHT" => f.eos_type # eos_type
    BY <1>2 DEF Inv, Sizes, LostEosState
  <2>4. NoMarkerForgotten'
    BY <1>2, <2>1, <2>2, <2>3 DEF Inv, Markers, NoMarkerForgotten
  <2>5. QED
    BY <1>1, <1>2, <2>1, <2>2, <2>4 DEF Inv, Markers
<1>12. Buffer' /\ Acknowledged' /\ Said'
  BY <1>2 DEF Inv, Buffer, Acknowledged, Said
<1>13. QED
  BY <1>5, <1>6, <1>7, <1>8, <1>9, <1>10, <1>11, <1>12 DEF Inv

\* Every step of the stream preserves the invariant.
LEMMA StepInv == Inv /\ [Next]_vars => Inv'
<1> SUFFICES ASSUME Inv, [Next]_vars PROVE Inv'
  OBVIOUS
<1>1. CASE AppStep
  BY <1>1, WriteInv, ShutdownInv, ResetStreamInv, SetResetStreamAtInv
     DEF AppStep
<1>2. CASE PeerStep
  BY <1>2, StopSendingInv, QuietInv DEF PeerStep
<1>3. CASE SendStep
  BY <1>3, SendStreamInv, SendMarkerInv DEF SendStep
<1>4. CASE AckStep
  BY <1>4, AckCachedInv, AckInFlightInv, AckLateInv DEF AckStep
<1>5. CASE LossStep
  BY <1>5, LostInv, QuietInv DEF LossStep
<1>6. CASE Orphan \/ Terminated \/ UNCHANGED vars
  BY <1>6, QuietInv DEF Terminated
<1>7. QED
  BY <1>1, <1>2, <1>3, <1>4, <1>5, <1>6 DEF Next

\* The inductive invariant holds in every reachable state.
THEOREM Invariance == Spec => []Inv
BY InitInv, StepInv, PTL DEF Spec

-----------------------------------------------------------------------------
(* What follows from it *)

\* Types and bounds hold throughout, for every bound on sizes and frames: in
\* particular the application is never told to release more than was written.
THEOREM TypeCorrect == Spec => []TypeOK
<1>1. Inv => TypeOK
  BY DEF Inv
<1>2. QED
  BY <1>1, Invariance, PTL

\* No byte of the stream is ever forgotten.
THEOREM NothingForgotten == Spec => []NoByteForgotten
<1>1. Inv => NoByteForgotten
  <2> SUFFICES ASSUME Inv, alive, NEW b \in Promised
               PROVE  b \in acked \/ b \in pending \/ b \in InFlight
    BY DEF NoByteForgotten
  <2>1. /\ size_inflight \in 0 .. MaxWritten /\ written \in 0 .. MaxWritten
        /\ final_size \in 0 .. MaxWritten \cup {Inf}
    BY DEF Inv, TypeOK
  <2>2. /\ b \in 0 .. Inf
        /\ b < IF IsOpen THEN written ELSE final_size
    BY BytesIn DEF Promised
  <2>3. CASE b < size_inflight
    <3>1. b \in Bytes(0, size_inflight)
      BY <2>1, <2>2, <2>3, SizeAssumption, BytesIn
    <3>2. Carried(b) => b \in InFlight
      <4>1. ASSUME NEW f \in frames, f.live, b \in Bytes(f.start, f.end)
            PROVE  b \in InFlight
        <5>1. Bytes(f.start, f.end)
                \in {Bytes(x.start, x.end) : x \in {g \in frames : g.live}}
          BY <4>1
        <5>2. b \in UNION {Bytes(x.start, x.end) : x \in {g \in frames : g.live}}
          BY <4>1, <5>1
        <5>3. QED
          BY <5>2 DEF InFlight
      <4>2. ASSUME NEW a \in cache, b \in Bytes(a.start, a.end)
            PROVE  b \in InFlight
        <5>1. Bytes(a.start, a.end) \in {Bytes(x.start, x.end) : x \in cache}
          OBVIOUS
        <5>2. b \in UNION {Bytes(x.start, x.end) : x \in cache}
          BY <4>2, <5>1
        <5>3. QED
          BY <5>2 DEF InFlight
      <4>3. QED
        BY <4>1, <4>2 DEF Carried
    <3>3. QED
      BY <3>1, <3>2 DEF Inv, Covered
  <2>4. CASE ~ (b < size_inflight)
    <3>1. /\ IsOpen => b \in Bytes(size_inflight, Inf) /\ size_inflight # written
          /\ ~IsOpen => b \in Bytes(size_inflight, final_size)
      BY <2>1, <2>2, <2>4, SizeAssumption, BytesIn
    <3>2. QED
      BY <3>1 DEF Inv, Unsent
  <2>5. QED
    BY <2>3, <2>4
<1>2. QED
  BY <1>1, Invariance, PTL

\* No end-of-stream marker is ever forgotten.
THEOREM MarkerKept == Spec => []NoMarkerForgotten
<1>1. Inv => NoMarkerForgotten
  BY DEF Inv, Markers
<1>2. QED
  BY <1>1, Invariance, PTL

\* The assertions of quicly_sendstate_acked and quicly_sendstate_lost hold.
THEOREM PendingAboveAcked == Spec => []AckedBelowPending
<1>1. Inv => AckedBelowPending
  <2> SUFFICES ASSUME Inv, NEW b \in pending PROVE PrefixEnd(acked) <= b
    BY DEF AckedBelowPending
  <2>1. b \in 0 .. Inf /\ b \notin acked
    BY DEF Inv, TypeOK, ByteSets
  <2>2. acked \subseteq Bytes(0, Inf)
    BY SizeAssumption, BytesIn DEF Inv, TypeOK, ByteSets
  <2>3. /\ PrefixEnd(acked) \in 0 .. Inf
        /\ Bytes(0, PrefixEnd(acked)) \subseteq acked
    BY <2>2, PrefixEndIs DEF IsPrefixEnd
  <2>4. QED
    BY <2>1, <2>3, SizeAssumption, BytesIn
<1>2. QED
  BY <1>1, Invariance, PTL

\* The assertion of quicly_stream_can_send holds: flow control never holds back
\* the marker once it is all that is left.
THEOREM MarkerSendable == Spec => []MarkerNeverBlocked
<1>1. Inv => MarkerNeverBlocked
  <2> SUFFICES ASSUME Inv, pending = {}, eos_type \in {FIN, RESET_AT}
               PROVE  size_inflight = final_size /\ final_size <= max_stream_data
    BY DEF MarkerNeverBlocked
  <2>1. /\ size_inflight \in 0 .. MaxWritten /\ final_size \in 0 .. MaxWritten
        /\ size_inflight <= final_size /\ size_inflight <= max_stream_data
    BY DEF Inv, TypeOK, Sizes
  <2>2. size_inflight \notin Bytes(size_inflight, final_size)
    BY DEF Inv, Unsent
  <2>3. QED
    BY <2>1, <2>2, SizeAssumption, BytesIn
<1>2. QED
  BY <1>1, Invariance, PTL

\* What is complete was acknowledged up to the end, with the marker.
LEMMA CompleteDelivered == Inv => CompleteMeansDelivered
<1> SUFFICES ASSUME Inv PROVE CompleteMeansDelivered
  OBVIOUS
<1>1. ASSUME TransferComplete, eos_type # RESET
      PROVE  /\ Bytes(0, IF eos_type = FIN THEN final_size ELSE reliable_size)
                  \subseteq got
             /\ eos_type \in got_eos
  <2>1. /\ ~IsOpen /\ Bytes(0, final_size) \subseteq acked
        /\ eos_state = "DELIVERED"
    BY <1>1 DEF TransferComplete, CompleteOf, IsPrefixEnd
  <2>2. eos_type \in got_eos
    BY <2>1 DEF Inv, Markers
  <2>3. CASE eos_type = FIN
    BY <2>1, <2>2, <2>3 DEF Inv, Acknowledged
  <2>4. CASE eos_type # FIN
    <3>1. /\ reliable_size \in Nat /\ final_size \in Nat
          /\ reliable_size <= final_size /\ app_error_code # NoCode
      BY <2>1, <2>4, SizeAssumption DEF Inv, TypeOK, Sizes
    <3>2. \A b : b \in Bytes(0, reliable_size) =>
            b \in Bytes(0, final_size) /\ b \notin Bytes(reliable_size, final_size)
      BY <3>1, SizeAssumption, BytesIn
    <3>3. QED
      BY <2>1, <2>2, <2>4, <3>1, <3>2 DEF Inv, Acknowledged
  <2>5. QED
    BY <2>3, <2>4
<1>2. ~alive => eos_type \in got_eos
  BY DEF Inv, Markers
<1>3. QED
  BY <1>1, <1>2 DEF CompleteMeansDelivered

\* A complete transfer was delivered, byte for byte, and its marker too.
THEOREM CompletionTrue == Spec => []CompleteMeansDelivered
BY CompleteDelivered, Invariance, PTL

\* The peer is never told two final sizes, nor two error codes.
THEOREM FinalSizeFixed == Spec => []FinalSizeNeverChanges
<1>1. Inv => FinalSizeNeverChanges
  BY SizeAssumption DEF Inv, TypeOK, Said, FinalSizeNeverChanges
<1>2. QED
  BY <1>1, Invariance, PTL

\* The application's buffer begins where the offsets passed to it count from.
THEOREM BufferAligned == Spec => []BufferInStep
<1>1. Inv => BufferInStep
  <2> SUFFICES ASSUME Inv PROVE BufferInStep
    OBVIOUS
  <2>1. ASSUME pending # {} PROVE shifted = PrefixEnd(acked)
    <3>1. PICK b \in pending : b \in Bytes(0, final_size) /\ b \notin acked
      BY <2>1 DEF Inv, ByteSets
    <3>2. ~ (Bytes(0, final_size) \subseteq acked)
      BY <3>1
    <3>3. eos_type # RESET
      BY <3>2 DEF Inv, Sizes, ByteSets
    <3>4. QED
      BY <3>2, <3>3 DEF Inv, Buffer
  <2>2. QED
    BY <2>1 DEF Inv, BufferInStep
<1>2. QED
  BY <1>1, Invariance, PTL

\* A marker only gives way to one that tells more, and is otherwise sent again
\* only when a packet that carried it was lost.
THEOREM MarkerOrder == Spec => MarkerSuperseded
<1> DEFINE Lawful ==
      /\ eos_type' >= eos_type
      /\ eos_state # "UNSENT" /\ eos_state' = "UNSENT" /\ eos_type' = eos_type
           => \E f \in frames \ frames' : f.live /\ f.eos_type = eos_type
<1>1. Inv /\ [Next]_vars => [Lawful]_vars
  <2> SUFFICES ASSUME Inv, Next PROVE Lawful
    BY DEF vars
  <2> USE SizeAssumption
  <2>1. /\ size_inflight \in 0 .. MaxWritten /\ written \in 0 .. MaxWritten
        /\ eos_type \in 0 .. 3
    BY DEF Inv, TypeOK
  <2>2. ASSUME eos_type' = eos_type, eos_state' # "UNSENT" \/ eos_state' = eos_state
        PROVE  Lawful
    BY <2>1, <2>2
  <2>3. CASE AppStep
    <3>1. CASE \E len \in 1 .. MaxWritten : Write(len)
      BY <2>2, <3>1 DEF Write
    <3>2. CASE Shutdown
      BY <2>1, <3>2 DEF Shutdown, Inv, Sizes
    <3>3. ASSUME NEW code \in Codes, ResetStream(code) PROVE Lawful
      BY <2>1, <3>3, CodeAssumption DEF ResetStream, Reset, ResetFinalSize, Inv,
         TypeOK
    <3>4. ASSUME NEW code \in Codes, NEW reliable \in 1 .. MaxWritten,
                 SetResetStreamAt(code, reliable)
          PROVE  Lawful
      BY <2>1, <3>4, CodeAssumption DEF SetResetStreamAt, Reset, ResetFinalSize,
         Inv, TypeOK
    <3>5. QED
      BY <2>3, <3>1, <3>2, <3>3, <3>4 DEF AppStep
  <2>4. CASE PeerStep
    <3>1. ASSUME NEW code \in Codes, ReceiveStopSending(code) PROVE Lawful
      <4>1. StopCode(code) # NoCode
        BY CodeAssumption DEF StopCode
      <4>2. QED
        BY <2>1, <3>1, <4>1 DEF ReceiveStopSending, Reset, ResetFinalSize, Inv,
           TypeOK
    <3>2. QED
      BY <2>2, <2>4, <3>1 DEF PeerStep, ReceiveMaxStreamData,
         ReceiveSideCompletes
  <2>5. CASE SendStep
    BY <2>2, <2>5 DEF SendStep, SendStream, SendFinOnly, SendResetStreamAt,
       SendResetStream, SendMarker
  <2>6. CASE AckStep
    <3>1. ASSUME NEW args, AckOne(args) PROVE Lawful
      BY <2>2, <3>1 DEF AckOne, AckedEosState
    <3>2. QED
      BY <2>2, <2>6, <3>1 DEF AckStep, AckCached, AckInFlight, AckLate
  <2>7. CASE LossStep
    <3>1. CASE \E f \in frames : Expire(f)
      BY <2>2, <3>1 DEF Expire
    <3>2. ASSUME NEW f \in frames, NEW keep \in BOOLEAN, Lost(f, keep)
          PROVE  Lawful
      <4>1. f \in Frame /\ f.live /\ eos_type' = eos_type
        BY <3>2 DEF Lost, Inv, TypeOK
      <4>2. f \notin frames'
        BY <3>2, <4>1 DEF Lost, Frame
      <4>3. eos_state' = "UNSENT" => eos_state = "UNSENT" \/ f.eos_type = eos_type
        BY <3>2 DEF Lost, LostEosState
      <4>4. QED
        BY <2>1, <4>1, <4>2, <4>3
    <3>3. QED
      BY <2>7, <3>1, <3>2 DEF LossStep
  <2>8. CASE Orphan \/ Terminated
    BY <2>2, <2>8 DEF Orphan, Terminated, vars
  <2>9. QED
    BY <2>3, <2>4, <2>5, <2>6, <2>7, <2>8 DEF Next
<1>2. QED
  BY <1>1, Invariance, PTL DEF Spec, MarkerSuperseded
=============================================================================
