-------------------------- MODULE RawStreamProofs ---------------------------
(***************************************************************************)
(* The safety of the incremental raw decoder, for every stream, every      *)
(* sequence of chunks and buffers, and every compaction threshold.         *)
(***************************************************************************)
EXTENDS RawStream, LzvnProofs

(* Nothing is buffered, pending or written yet. *)
LEMMA InitIInv == Init => IInv
<1> SUFFICES ASSUME Init PROVE IInv
  OBVIOUS
<1>1. src \in Seq(Byte) /\ Len(src) \in Nat
  BY RawStreamAssumption, LenProperties DEF Init
<1>2. << >> \in Seq(Byte) /\ Len(<< >>) = 0
  BY EmptySeq
<1>3. SubSeq(src, 1, 0) = << >>
  BY SubSeqEmpty
<1>4. TypeOK
  <2>1. input \in Seq(Byte) /\ history \in Seq(Byte)
    BY <1>2 DEF Init
  <2>2. pending \in [literal : Nat, match : Nat, distance : Nat]
    BY DEF Init, NoPending
  <2>3. fed \in 0..Len(src) /\ eos_padding \in 0..MaxEosPadding
    BY <1>1 DEF Init, MaxEosPadding
  <2>4. QED
    BY <1>1, <2>1, <2>2, <2>3 DEF Init, TypeOK
<1>5. QED
  BY <1>2, <1>3, <1>4 DEF Init, IInv, CopiesInBounds, AvailableInput,
     NoPending, BufferIsTheUnreadStream, PaddingCounted
-----------------------------------------------------------------------------
(* The lengths of the sequences, for arithmetic. *)
LEMMA Lengths ==
  ASSUME TypeOK
  PROVE  /\ Len(src) \in Nat
         /\ Len(input) \in Nat
         /\ Len(history) \in Nat
BY LenProperties DEF TypeOK

(* The fields of the pending instruction are naturals. *)
LEMMA PendingFields ==
  ASSUME TypeOK
  PROVE  /\ pending.literal \in Nat
         /\ pending.match \in Nat
         /\ pending.distance \in Nat
BY DEF TypeOK

(* compact_input keeps the buffer the part of the stream not consumed. *)
LEMMA CompactStep ==
  ASSUME TypeOK, BufferIsTheUnreadStream, ~finished,
         input_base + Len(input) = fed,
         NEW offset \in 0..Len(input), Compact(offset)
  PROVE  /\ input' \in Seq(Byte)
         /\ input_offset' = 0
         /\ input_base' \in Nat
         /\ input' = SubSeq(src, input_base' + 1, fed)
         /\ Len(input') = Len(input) - offset
         /\ input_base' + Len(input') = fed
<1>1. /\ fed \in 0..Len(src)
      /\ input_base \in 0..fed
      /\ offset \in 0..(fed - input_base)
      /\ Len(input) = fed - input_base
  BY Lengths DEF TypeOK
<1>2. input = SubSeq(src, input_base + 1, fed)
  BY DEF BufferIsTheUnreadStream
<1>3. /\ input' = SubSeq(input, offset + 1, fed - input_base)
      /\ input_base' = input_base + offset
      /\ input_offset' = 0
  BY <1>1 DEF Compact
<1>4. input' = SubSeq(src, input_base + offset + 1, fed)
  BY <1>1, <1>2, <1>3, RestOfRun DEF TypeOK
<1>5. /\ input' \in Seq(Byte)
      /\ Len(input') = fed - (input_base + offset)
  BY <1>1, <1>4, RunProperties DEF TypeOK
<1>6. QED
  BY <1>1, <1>3, <1>4, <1>5 DEF TypeOK

(* So does moving input_offset, compacting only now and then. *)
LEMMA AdvanceStep ==
  ASSUME TypeOK, BufferIsTheUnreadStream, ~finished,
         input_base + Len(input) = fed,
         NEW offset \in 0..Len(input), NEW p, Advance(offset, p)
  PROVE  /\ input' \in Seq(Byte)
         /\ input_offset' \in Nat
         /\ input_base' \in Nat
         /\ input' = SubSeq(src, input_base' + 1, fed)
         /\ input_offset' <= Len(input')
         /\ Len(input') - input_offset' = Len(input) - offset
         /\ input_base' + Len(input') = fed
<1>1. CASE Compact(offset)
  BY <1>1, CompactStep, Lengths, SMTT(30)
<1>2. CASE input_offset' = offset /\ UNCHANGED <<input, input_base>>
  BY <1>2, Lengths DEF TypeOK, BufferIsTheUnreadStream
<1>3. QED
  BY <1>1, <1>2 DEF Advance
-----------------------------------------------------------------------------
(* Feeding: while decoding the buffer grows, afterwards the tail is judged. *)
LEMMA FeedStep ==
  ASSUME IInv, NEW n \in 1..(Len(src) - fed), Feed(n)
  PROVE  IInv'
<1> DEFINE chunk == SubSeq(src, fed + 1, fed + n)
<1> USE Lengths DEF IInv
<1>1. /\ chunk \in Seq(Byte)
      /\ Len(chunk) = n
      /\ \A k \in 1..n : chunk[k] = src[fed + k]
  BY RunProperties DEF TypeOK
<1>2. CASE finished
  <2>1. FeedBytes(chunk)
    BY DEF Feed
  <2> HIDE DEF chunk
  <2>2. TypeOK'
    <3>1. fed' \in 0..Len(src)
      BY DEF Feed, TypeOK
    <3>2. trailing_after_finish' \in Nat /\ eos_padding' \in 0..MaxEosPadding
      <4>1. CASE IsMorePadding(chunk)
        <5>1. /\ eos_padding' = eos_padding + n
              /\ eos_padding + n <= MaxEosPadding
              /\ UNCHANGED trailing_after_finish
          BY <1>1, <1>2, <2>1, <4>1 DEF FeedBytes, IsMorePadding
        <5>2. QED
          BY <5>1 DEF MaxEosPadding, TypeOK
      <4>2. CASE ~IsMorePadding(chunk)
        <5>1. /\ trailing_after_finish' = trailing_after_finish + n
              /\ UNCHANGED eos_padding
          BY <1>1, <1>2, <2>1, <4>2 DEF FeedBytes
        <5>2. QED
          BY <5>1 DEF TypeOK
      <4>3. QED
        BY <4>1, <4>2
    <3>3. UNCHANGED <<src, input, input_offset, input_base, history, finished,
                      finished_input, previous_distance, pending, pc, dst_len,
                      written, result, reported, marker_end>>
      BY <1>2, <2>1 DEF Feed, FeedBytes, outVars, callVars
    <3>4. QED
      BY <3>1, <3>2, <3>3 DEF TypeOK
  <2>3. CopiesInBounds'
    BY <1>2, <2>1 DEF Feed, FeedBytes, CopiesInBounds, AvailableInput,
       outVars, callVars
  <2>4. PaddingCounted'
    <3> DEFINE tail == TailFrom(marker_end)
    <3>1. /\ marker_end \in 1..fed
          /\ fed' = fed + n
          /\ fed' \in 0..Len(src)
          /\ UNCHANGED <<finished, marker_end, src, result>>
      BY <1>2 DEF Feed, PaddingCounted, TypeOK, callVars
    <3>2. /\ Len(tail) = Len(src) - marker_end
          /\ \A k \in 1..Len(tail) : tail[k] = src[marker_end + k]
      <4>1. /\ src \in Seq(Byte)
            /\ Len(src) \in 0..Len(src)
            /\ marker_end \in 0..Len(src)
        BY <3>1 DEF TypeOK
      <4>2. QED
        BY <4>1, WindowProperties DEF TailFrom
    <3>3. tail' = tail
      BY <3>1 DEF TailFrom
    <3> HIDE DEF tail
    <3>4. CASE IsMorePadding(chunk)
      <4>1. /\ eos_padding' = eos_padding + n
            /\ UNCHANGED trailing_after_finish
        BY <1>1, <1>2, <2>1, <3>4 DEF FeedBytes
      <4>2. \A k \in (fed + 1)..(fed + n) : src[k] = 0
        <5>1. \A k \in 1..n : chunk[k] = 0
          BY <1>1, <3>4 DEF IsMorePadding, AllZero
        <5>2. \A k \in 1..n : src[fed + k] = 0
          BY <1>1, <5>1
        <5>3. \A k \in (fed + 1)..(fed + n) :
                k - fed \in 1..n /\ fed + (k - fed) = k
          BY <3>1 DEF TypeOK
        <5>4. QED
          BY <5>2, <5>3
      <4>3. trailing_after_finish = 0 =>
              /\ eos_padding = fed - marker_end
              /\ \A k \in (marker_end + 1)..fed : src[k] = 0
        BY <1>2 DEF PaddingCounted
      <4>4. trailing_after_finish = 0 =>
              \A k \in (marker_end + 1)..fed' : src[k] = 0
        BY <3>1, <4>2, <4>3 DEF TypeOK
      <4>5. QED
        BY <1>2, <3>1, <3>3, <4>1, <4>3, <4>4 DEF PaddingCounted, TypeOK, tail
    <3>5. CASE ~IsMorePadding(chunk)
      <4>1. trailing_after_finish' # 0
        BY <1>1, <1>2, <2>1, <3>5 DEF FeedBytes, TypeOK
      <4>2. ~IsEosPadding(tail)
        <5>1. CASE trailing_after_finish # 0
          BY <1>2, <5>1 DEF PaddingCounted, tail
        <5>2. CASE trailing_after_finish = 0
          <6>1. eos_padding = fed - marker_end
            BY <1>2, <5>2 DEF PaddingCounted
          <6>2. CASE ~AllZero(chunk)
            <7>1. PICK k \in 1..n : chunk[k] # 0
              BY <1>1, <6>2 DEF AllZero
            <7> DEFINE j == fed + k - marker_end
            <7>2. j \in 1..Len(tail) /\ marker_end + j = fed + k
              <8>1. marker_end \in 1..fed /\ fed \in Nat /\ k \in 1..n
                BY <3>1 DEF TypeOK
              <8>2. n \in 1..(Len(src) - fed) /\ Len(src) \in Nat
                OBVIOUS
              <8>3. Len(tail) = Len(src) - marker_end
                BY <3>2
              <8>4. QED
                BY <8>1, <8>2, <8>3
            <7>3. src[fed + k] # 0
              BY <1>1, <7>1
            <7> HIDE DEF j
            <7>4. tail[j] # 0
              BY <3>2, <7>2, <7>3
            <7>5. QED
              BY <7>2, <7>4 DEF IsEosPadding, AllZero
          <6>3. CASE eos_padding + n > MaxEosPadding
            BY <3>1, <3>2, <6>1, <6>3 DEF IsEosPadding, MaxEosPadding, TypeOK
          <6>4. QED
            BY <1>1, <3>5, <6>2, <6>3 DEF IsMorePadding, MaxEosPadding, TypeOK
        <5>3. QED
          BY <5>1, <5>2
      <4>3. QED
        BY <1>2, <3>1, <3>3, <4>1, <4>2 DEF PaddingCounted, TypeOK, tail
    <3>6. QED
      BY <3>4, <3>5
  <2>5. QED
    BY <1>2, <2>2, <2>3, <2>4 DEF Feed, callVars, BufferIsTheUnreadStream
<1>3. CASE ~finished
  <2>1. /\ input' = input \o chunk
        /\ UNCHANGED <<eos_padding, trailing_after_finish>>
    BY <1>3 DEF Feed, FeedBytes
  <2>2. input' = SubSeq(src, input_base + 1, fed + n)
    <3>1. /\ fed \in 0..Len(src)
          /\ input_base \in 0..fed
          /\ n \in 0..(Len(src) - fed)
      BY <1>3 DEF TypeOK
    <3>2. SubSeq(src, input_base + 1, fed) \o SubSeq(src, fed + 1, fed + n)
            = SubSeq(src, input_base + 1, fed + n)
      BY <3>1, ExtendRun DEF TypeOK
    <3>3. QED
      BY <1>3, <2>1, <3>2 DEF BufferIsTheUnreadStream
  <2> HIDE DEF chunk
  <2>3. /\ input' \in Seq(Byte)
        /\ Len(input') = Len(input) + n
    BY <1>1, <2>1, ConcatProperties DEF TypeOK
  <2>4. TypeOK'
    BY <2>1, <2>3 DEF Feed, TypeOK, outVars, callVars
  <2>5. CopiesInBounds'
    BY <2>3 DEF Feed, TypeOK, CopiesInBounds, AvailableInput, outVars,
       callVars
  <2>6. PaddingCounted'
    BY <1>3, <2>1 DEF Feed, callVars, PaddingCounted, TailFrom
  <2>7. QED
    BY <1>3, <2>1, <2>2, <2>3, <2>4, <2>5, <2>6, SMTT(30)
    DEF Feed, TypeOK, callVars, BufferIsTheUnreadStream
<1>4. QED
  BY <1>2, <1>3

(* Declaring the stream complete changes nothing the invariant reads. *)
LEMMA FinishInputStep ==
  ASSUME IInv, FinishInput
  PROVE  IInv'
BY DEF IInv, FinishInput, inputVars, eosVars, outVars, callVars, TypeOK,
   CopiesInBounds, AvailableInput, BufferIsTheUnreadStream, PaddingCounted,
   TailFrom

(* A call that returns at once changes only its result. *)
LEMMA CallAfterFinishStep ==
  ASSUME IInv, CallAfterFinish
  PROVE  IInv'
BY DEF IInv, CallAfterFinish, inputVars, eosVars, outVars, callerVars, TypeOK,
   CopiesInBounds, AvailableInput, BufferIsTheUnreadStream, PaddingCounted,
   TailFrom, Errors, Statuses

(* A call that enters the loop has written nothing yet. *)
LEMMA CallDecodeStep ==
  ASSUME IInv, NEW n \in DstLens, CallDecode(n)
  PROVE  IInv'
BY RawStreamAssumption DEF IInv, CallDecode, inputVars, eosVars, outVars,
   callerVars, TypeOK, CopiesInBounds, AvailableInput,
   BufferIsTheUnreadStream, PaddingCounted, TailFrom
-----------------------------------------------------------------------------
(* The turns of the loop.  They leave the caller's variables alone; those  *)
(* that leave the decoder's fields alone too only return.                  *)

(* Returning ends the call and disturbs nothing else. *)
LEMMA ReturnStep ==
  ASSUME IInv, pc = "decode",
         NEW status \in (Statuses \cup Errors) \ {"TrailingData"},
         Return(status) \/ ReturnErr(status),
         UNCHANGED <<inputVars, eosVars, outVars, callerVars>>
  PROVE  IInv'
<1>1. reported' \in Nat
  BY DEF IInv, TypeOK, Return, ReturnErr
<1>2. /\ pc' = "idle"
      /\ result' = status
      /\ UNCHANGED <<dst_len, written>>
  BY DEF Return, ReturnErr
<1>3. TypeOK'
  BY <1>1, <1>2 DEF IInv, TypeOK, inputVars, eosVars, outVars, callerVars
<1>4. QED
  BY <1>2, <1>3 DEF IInv, inputVars, eosVars, outVars, callerVars,
     CopiesInBounds, AvailableInput, BufferIsTheUnreadStream, PaddingCounted,
     TailFrom

(* Needing more input is one way of returning. *)
LEMMA NeedInputStep ==
  ASSUME NeedInput
  PROVE  \E status \in (Statuses \cup Errors) \ {"TrailingData"} :
           Return(status) \/ ReturnErr(status)
BY DEF NeedInput, Statuses, Errors

(* Literals copied leave the buffer and what is pending together. *)
LEMMA CopyPendingLiteralStep ==
  ASSUME IInv, CopyPendingLiteral
  PROVE  IInv'
<1> DEFINE count == SmallerOf(pending.literal, dst_len - written)
           left  == [pending EXCEPT !.literal = @ - count]
           run   == SubSeq(input, input_offset + 1, input_offset + count)
<1> USE Lengths, PendingFields DEF IInv
<1>1. /\ pc = "decode"
      /\ ~finished
      /\ written < dst_len
      /\ pending.literal # 0
      /\ history' = history \o run
      /\ pending' = left
      /\ written' = written + count
      /\ Advance(input_offset + count, left)
      /\ UNCHANGED <<eosVars, callerVars, previous_distance, pc, dst_len,
                     result, reported>>
  BY DEF CopyPendingLiteral, HasRoom
<1>2. /\ count \in Nat
      /\ count <= pending.literal
      /\ count <= dst_len - written
      /\ input_offset + count \in 0..Len(input)
  <2>1. dst_len - written \in Nat
    BY <1>1, SMTT(30) DEF TypeOK
  <2>2. /\ count \in Nat
        /\ count <= pending.literal
        /\ count <= dst_len - written
    BY <2>1 DEF SmallerOf
  <2>3. pending.literal <= Len(input) - input_offset
    BY DEF CopiesInBounds, AvailableInput
  <2> HIDE DEF count
  <2>4. QED
    BY <2>2, <2>3 DEF TypeOK
<1>3. /\ pending' \in [literal : Nat, match : Nat, distance : Nat]
      /\ pending'.literal = pending.literal - count
      /\ pending'.match = pending.match
      /\ pending'.distance = pending.distance
  <2> HIDE DEF count
  <2>1. pending.literal - count \in Nat
    BY <1>2
  <2>2. QED
    BY <1>1, <2>1 DEF TypeOK
<1> HIDE DEF count, left
<1>4. /\ input' \in Seq(Byte)
      /\ input_offset' \in Nat
      /\ input_base' \in Nat
      /\ input' = SubSeq(src, input_base' + 1, fed)
      /\ input_offset' <= Len(input')
      /\ Len(input') - input_offset' = Len(input) - (input_offset + count)
      /\ input_base' + Len(input') = fed
  BY <1>1, <1>2, AdvanceStep
<1>5. run \in Seq(Byte) /\ Len(run) = count
  <2>1. /\ input_offset + 1 \in 1..(Len(input) + 1)
        /\ input_offset + count \in (input_offset + 1 - 1)..Len(input)
    BY <1>2 DEF TypeOK
  <2>2. QED
    BY <1>2, <2>1, RunProperties DEF TypeOK
<1> HIDE DEF run
<1>6. history' \in Seq(Byte) /\ Len(history') = Len(history) + count
  BY <1>1, <1>5, ConcatProperties DEF TypeOK
<1>7. TypeOK'
  <2>1. written' \in Nat
    BY <1>1, <1>2 DEF TypeOK
  <2>2. UNCHANGED <<src, fed, finished_input, finished, eos_padding,
                    trailing_after_finish, marker_end, previous_distance, pc,
                    dst_len, result, reported>>
    BY <1>1 DEF eosVars, callerVars
  <2>3. QED
    BY <1>3, <1>4, <1>6, <2>1, <2>2 DEF TypeOK
<1>8. CopiesInBounds'
  <2>1. Len(input') \in Nat
    BY <1>4, LenProperties
  <2>2. pending'.literal <= AvailableInput'
    <3>1. pending.literal <= Len(input) - input_offset
      BY DEF CopiesInBounds, AvailableInput
    <3>2. input_offset \in Nat /\ pending.literal \in Nat
      BY DEF TypeOK
    <3>3. pending'.literal <= Len(input') - input_offset'
      <4>1. pending'.literal = pending.literal - count
        BY <1>3
      <4>2. Len(input') - input_offset' = Len(input) - (input_offset + count)
        BY <1>4
      <4>3. Len(input) \in Nat
        BY Lengths
      <4>4. count \in Nat
        BY <1>2
      <4>5. pending.literal - count <= Len(input) - (input_offset + count)
        BY <3>1, <3>2, <4>3, <4>4
      <4>6. QED
        BY <4>1, <4>2, <4>5
    <3>4. QED
      BY <3>3 DEF AvailableInput
  <2>3. pending'.match > 0 =>
          pending'.distance \in 1..(Len(history') + pending'.literal)
    BY <1>2, <1>3, <1>6 DEF CopiesInBounds
  <2>4. written' <= dst_len'
    BY <1>1, <1>2 DEF TypeOK
  <2>5. QED
    BY <1>4, <2>2, <2>3, <2>4 DEF CopiesInBounds
<1>9. QED
  BY <1>1, <1>4, <1>7, <1>8 DEF eosVars, callerVars, BufferIsTheUnreadStream,
     PaddingCounted, TailFrom

(* A match byte lengthens the history, so its distance stays inside. *)
LEMMA CopyPendingMatchStep ==
  ASSUME IInv, CopyPendingMatch
  PROVE  IInv'
<1> USE Lengths, PendingFields DEF IInv
<1> DEFINE byte == history[Len(history) + 1 - pending.distance]
<1>1. /\ pc = "decode"
      /\ written < dst_len
      /\ pending.literal = 0
      /\ pending.match # 0
      /\ history' = Append(history, byte)
      /\ written' = written + 1
      /\ UNCHANGED <<inputVars, eosVars, callerVars, previous_distance, pc,
                     dst_len, result, reported>>
  BY DEF CopyPendingMatch, HasRoom
<1>2. pending.distance \in 1..Len(history)
  BY <1>1 DEF TypeOK, CopiesInBounds
<1>3. byte \in Byte
  BY <1>2, ElementOfSeq DEF TypeOK
<1> HIDE DEF byte
<1>4. history' \in Seq(Byte) /\ Len(history') = Len(history) + 1
  BY <1>1, <1>3, AppendProperties DEF TypeOK
<1>5. /\ pending' \in [literal : Nat, match : Nat, distance : Nat]
      /\ pending'.literal = 0
      /\ pending'.match # 0 => pending'.distance = pending.distance
  <2>1. CASE pending.match = 1
    BY <2>1 DEF CopyPendingMatch, NoPending
  <2>2. CASE pending.match # 1
    <3>1. pending' = [pending EXCEPT !.match = @ - 1]
      BY <2>2 DEF CopyPendingMatch
    <3>2. pending.match - 1 \in Nat
      BY <1>1
    <3>3. QED
      BY <1>1, <3>1, <3>2 DEF TypeOK
  <2>3. QED
    BY <2>1, <2>2
<1>6. TypeOK'
  BY <1>1, <1>4, <1>5 DEF TypeOK, inputVars, eosVars, callerVars
<1>7. CopiesInBounds'
  BY <1>1, <1>2, <1>4, <1>5 DEF TypeOK, CopiesInBounds, AvailableInput,
     inputVars
<1>8. QED
  BY <1>1, <1>6, <1>7 DEF inputVars, eosVars, callerVars,
     BufferIsTheUnreadStream, PaddingCounted, TailFrom

(* An empty buffer is compacted before the call returns. *)
LEMMA NoInputStep ==
  ASSUME IInv, NoInput
  PROVE  IInv'
<1> USE Lengths DEF IInv
<1>1. /\ pc = "decode"
      /\ ~finished
      /\ input_offset = Len(input)
      /\ pending.literal = 0 /\ pending.match = 0
      /\ Compact(input_offset)
      /\ NeedInput
      /\ UNCHANGED <<eosVars, outVars, callerVars>>
  BY DEF NoInput, Fetching, HasRoom, IsEmpty, AvailableInput, TypeOK
<1>2. /\ input' \in Seq(Byte)
      /\ input_offset' = 0
      /\ input_base' \in Nat
      /\ input' = SubSeq(src, input_base' + 1, fed)
      /\ Len(input') = 0
      /\ input_base' + Len(input') = fed
  BY <1>1, CompactStep
<1>3. PICK status \in (Statuses \cup Errors) \ {"TrailingData"} :
        Return(status) \/ ReturnErr(status)
  BY <1>1, NeedInputStep
<1>4. /\ pc' = "idle"
      /\ result' = status
      /\ UNCHANGED <<dst_len, written>>
      /\ reported' \in Nat
  BY <1>3 DEF Return, ReturnErr, TypeOK
<1>5. TypeOK'
  BY <1>1, <1>2, <1>4 DEF TypeOK, eosVars, outVars, callerVars
<1>6. CopiesInBounds'
  <2>1. pending' = pending
    BY <1>1 DEF outVars
  <2>2. input_offset' = 0 /\ Len(input') = 0
    BY <1>2
  <2>3. pending'.literal = 0 /\ pending'.match = 0 /\ pc' = "idle"
    BY <1>1, <1>4, <2>1
  <2>4. AvailableInput' = 0
    BY <2>2 DEF AvailableInput
  <2>5. QED
    BY <2>2, <2>3, <2>4 DEF CopiesInBounds
<1>7. QED
  BY <1>1, <1>2, <1>4, <1>5, <1>6 DEF eosVars, callerVars,
     BufferIsTheUnreadStream, PaddingCounted, TailFrom

(* An invalid opcode only returns. *)
LEMMA InvalidOpcodeStep ==
  ASSUME IInv, InvalidOpcode
  PROVE  IInv'
BY ReturnStep DEF InvalidOpcode, AtOpcode, Fetching, HasRoom, Errors

(* An instruction that is not all there only returns. *)
LEMMA PartialInstructionStep ==
  ASSUME IInv, PartialInstruction
  PROVE  IInv'
BY ReturnStep, NeedInputStep
   DEF PartialInstruction, AtInstruction, AtOpcode, Fetching, HasRoom

(* A distance that is refused only returns. *)
LEMMA InvalidMatchDistanceStep ==
  ASSUME IInv, InvalidMatchDistance
  PROVE  IInv'
BY ReturnStep
   DEF InvalidMatchDistance, AtInstruction, AtOpcode, Fetching, HasRoom, Errors

(* A full output buffer only returns. *)
LEMMA ReturnFullStep ==
  ASSUME IInv, ReturnFull
  PROVE  IInv'
BY ReturnStep DEF ReturnFull, Statuses

(* What is known of an instruction whose header and literals are buffered. *)
LEMMA BufferedInstruction ==
  ASSUME TypeOK, AtInstruction, IsBuffered
  PROVE  /\ HeaderLen(Kind) \in 1..3
         /\ Literals \in Nat
         /\ MatchLen(input, input_offset + 1) \in Nat
         /\ Distance \in Nat
         /\ input_offset + HeaderLen(Kind) + Literals <= Len(input)
<1> DEFINE i == input_offset + 1
<1>1. i \in 1..Len(input)
  BY Lengths DEF TypeOK, AtInstruction, AtOpcode, AvailableInput
<1>2. /\ Kind = Classify(input[i])
      /\ Kind \in Kinds
  BY DEF AtInstruction, Kind, Opcode, Kinds
<1>3. /\ i + HeaderLen(Kind) - 1 <= Len(input)
      /\ i + HeaderLen(Kind) + Literals - 1 <= Len(input)
  BY <1>2 DEF IsBuffered, IsComplete, Literals
<1>4. HeaderLen(Kind) \in 1..3
  BY <1>2, HeaderLenType
<1> HIDE DEF i
<1>5. /\ LiteralLen(input, i) \in Nat
      /\ MatchLen(input, i) \in Nat
      /\ MatchDistance(input, i, previous_distance) \in Nat
  BY <1>1, <1>2, <1>3, LiteralLenType, MatchLenType, MatchDistanceType
     DEF TypeOK
<1>6. QED
  <2>1. /\ Literals = LiteralLen(input, i)
        /\ Distance = MatchDistance(input, i, previous_distance)
    BY DEF i, Literals, Distance
  <2>2. input_offset + HeaderLen(Kind) + Literals <= Len(input)
    <3>1. input_offset \in Nat /\ Len(input) \in Nat
      BY Lengths DEF TypeOK
    <3>2. Literals \in Nat
      BY <1>5, <2>1
    <3>3. i + HeaderLen(Kind) + Literals - 1 <= Len(input)
      BY <1>3
    <3>4. QED
      BY <1>4, <3>1, <3>2, <3>3 DEF i
  <2>3. QED
    BY <1>4, <1>5, <2>1, <2>2 DEF i

(* The literals that become pending are buffered. *)
LEMMA PrepareLiteralStep ==
  ASSUME IInv, PrepareLiteral
  PROVE  IInv'
<1> USE Lengths DEF IInv
<1>1. /\ input_offset' = input_offset + HeaderLen(Kind)
      /\ pending' = [literal |-> Literals, match |-> 0, distance |-> 0]
      /\ UNCHANGED <<input, input_base, eosVars, history, previous_distance,
                     callVars, callerVars>>
  BY DEF PrepareLiteral, NoPending
<1>2. /\ HeaderLen(Kind) \in 1..3
      /\ Literals \in Nat
      /\ input_offset + HeaderLen(Kind) + Literals <= Len(input)
  BY BufferedInstruction DEF PrepareLiteral
<1>3. TypeOK'
  BY <1>1, <1>2, SMTT(30) DEF TypeOK, eosVars, callVars, callerVars
<1>4. CopiesInBounds'
  BY <1>1, <1>2 DEF TypeOK, CopiesInBounds, AvailableInput, callVars
<1>5. QED
  BY <1>1, <1>3, <1>4 DEF eosVars, callVars, callerVars,
     BufferIsTheUnreadStream, PaddingCounted, TailFrom

(* The match that becomes pending starts inside the output. *)
LEMMA PrepareMatchStep ==
  ASSUME IInv, PrepareMatch
  PROVE  IInv'
<1> USE Lengths DEF IInv
<1>1. /\ input_offset' = input_offset + HeaderLen(Kind)
      /\ previous_distance' = Distance
      /\ pending' = [literal  |-> Literals,
                     match    |-> MatchLen(input, input_offset + 1),
                     distance |-> Distance]
      /\ UNCHANGED <<input, input_base, eosVars, history, callVars, callerVars>>
  BY DEF PrepareMatch
<1>2. /\ HeaderLen(Kind) \in 1..3
      /\ Literals \in Nat
      /\ MatchLen(input, input_offset + 1) \in Nat
      /\ Distance \in Nat
      /\ input_offset + HeaderLen(Kind) + Literals <= Len(input)
  BY BufferedInstruction DEF PrepareMatch
<1>3. Distance \in 1..(Len(history) + Literals)
  BY <1>2 DEF PrepareMatch, IsValidDistance
<1>4. TypeOK'
  BY <1>1, <1>2, SMTT(30) DEF TypeOK, eosVars, callVars, callerVars
<1>5. CopiesInBounds'
  BY <1>1, <1>2, <1>3, SMTT(30) DEF TypeOK, CopiesInBounds, AvailableInput, callVars
<1>6. QED
  BY <1>1, <1>4, <1>5 DEF eosVars, callVars, callerVars,
     BufferIsTheUnreadStream, PaddingCounted, TailFrom

(* A nop moves the offset past one byte. *)
LEMMA NopStep ==
  ASSUME IInv, Nop
  PROVE  IInv'
<1> USE Lengths DEF IInv
<1>1. /\ pc = "decode"
      /\ ~finished
      /\ pending.literal = 0 /\ pending.match = 0
      /\ input_offset + 1 \in 0..Len(input)
      /\ Advance(input_offset + 1, pending)
      /\ UNCHANGED <<eosVars, outVars, callVars, callerVars>>
  BY DEF Nop, AtOpcode, Fetching, HasRoom, IsEmpty, AvailableInput, TypeOK
<1>2. /\ input' \in Seq(Byte)
      /\ input_offset' \in Nat
      /\ input_base' \in Nat
      /\ input' = SubSeq(src, input_base' + 1, fed)
      /\ input_offset' <= Len(input')
      /\ input_base' + Len(input') = fed
  BY <1>1, AdvanceStep
<1>3. TypeOK'
  BY <1>1, <1>2 DEF TypeOK, eosVars, outVars, callVars, callerVars
<1>4. CopiesInBounds'
  <2>1. Len(input') \in Nat
    BY <1>2, LenProperties
  <2>2. UNCHANGED <<pending, history, pc, written, dst_len>>
    BY <1>1 DEF outVars, callVars
  <2>3. pending'.literal <= AvailableInput'
    <3>1. pending'.literal = 0
      BY <1>1, <2>2
    <3>2. input_offset' <= Len(input') /\ input_offset' \in Nat
      BY <1>2
    <3>3. QED
      BY <2>1, <3>1, <3>2 DEF AvailableInput
  <2>4. QED
    BY <1>1, <1>2, <2>2, <2>3 DEF CopiesInBounds
<1>5. QED
  BY <1>1, <1>2, <1>3, <1>4 DEF eosVars, callVars, callerVars,
     BufferIsTheUnreadStream, PaddingCounted, TailFrom

(* The end marker starts the count of padding, or refuses what follows. *)
LEMMA EosStep ==
  ASSUME IInv, Eos
  PROVE  IInv'
<1> USE Lengths DEF IInv
<1> DEFINE padding == SubSeq(input, input_offset + 2, Len(input))
<1>1. /\ pc = "decode"
      /\ ~finished
      /\ input_offset < Len(input)
      /\ pending.literal = 0 /\ pending.match = 0
      /\ marker_end' = input_base + input_offset + 1
      /\ UNCHANGED <<trailing_after_finish, outVars, callerVars>>
  BY DEF Eos, AtOpcode, Fetching, HasRoom, IsEmpty, AvailableInput, TypeOK
<1>2. /\ padding \in Seq(Byte)
      /\ Len(padding) = Len(input) - input_offset - 1
      /\ \A k \in 1..Len(padding) : padding[k] = input[input_offset + 1 + k]
  <2>1. /\ input_offset + 2 \in 1..(Len(input) + 1)
        /\ Len(input) \in (input_offset + 2 - 1)..Len(input)
    BY <1>1 DEF TypeOK
  <2>2. QED
    BY <2>1, RunProperties DEF TypeOK
<1>3. trailing_after_finish = 0
  BY <1>1 DEF PaddingCounted
<1>4. CASE IsEosPadding(padding)
  <2>1. /\ eos_padding' = Len(padding)
        /\ Compact(Len(input))
        /\ finished' = TRUE
        /\ Return("Finished")
    BY <1>4 DEF Eos
  <2> HIDE DEF padding
  <2>2. /\ input' \in Seq(Byte)
        /\ input_offset' = 0
        /\ input_base' \in Nat
        /\ Len(input') = 0
    BY <1>1, <2>1, CompactStep
  <2>3. /\ pc' = "idle"
        /\ result' = "Finished"
        /\ UNCHANGED <<dst_len, written>>
        /\ reported' \in Nat
    BY <2>1 DEF Return, TypeOK
  <2>4. eos_padding' \in 0..MaxEosPadding
    <3>1. Len(padding) \in Nat
      BY <1>2, LenProperties
    <3>2. Len(padding) <= MaxEosPadding
      BY <1>4 DEF IsEosPadding
    <3>3. \A x \in Nat : x <= MaxEosPadding => x \in 0..MaxEosPadding
      BY DEF MaxEosPadding
    <3>4. QED
      BY <2>1, <3>1, <3>2, <3>3
  <2>5. TypeOK'
    <3>1. marker_end' \in Nat
      BY <1>1 DEF TypeOK
    <3>2. UNCHANGED <<src, fed, finished_input, history, previous_distance,
                      pending, trailing_after_finish>>
      BY <1>1 DEF outVars, callerVars
    <3>3. result' \in Statuses /\ finished' \in BOOLEAN
      BY <2>1, <2>3 DEF Statuses
    <3>4. QED
      BY <2>2, <2>3, <2>4, <3>1, <3>2, <3>3 DEF TypeOK
  <2>6. CopiesInBounds'
    <3>1. pending' = pending
      BY <1>1 DEF outVars
    <3>2. AvailableInput' = 0
      BY <2>2 DEF AvailableInput
    <3>3. pending'.literal = 0 /\ pending'.match = 0
      BY <1>1, <3>1
    <3>4. QED
      BY <2>2, <2>3, <3>2, <3>3 DEF CopiesInBounds
  <2>7. PaddingCounted'
    <3>1. UNCHANGED <<src, fed>>
      BY <1>1 DEF callerVars
    <3>2. input_base + Len(input) = fed
      BY <1>1
    <3>3. input_base \in Nat /\ input_offset \in Nat /\ fed \in 0..Len(src)
      BY DEF TypeOK
    <3>4. marker_end' \in 1..fed'
      BY <1>1, <3>1, <3>2, <3>3
    <3>5. eos_padding' = fed' - marker_end'
      BY <1>1, <1>2, <2>1, <3>1, <3>2, <3>3, SMTT(30)
    <3>6. \A k \in (marker_end' + 1)..fed : src[k] = 0
      <4> SUFFICES ASSUME NEW k \in (marker_end' + 1)..fed PROVE src[k] = 0
        OBVIOUS
      <4> DEFINE j == k - marker_end'
      <4>1. /\ j \in 1..Len(padding)
            /\ input_offset + 1 + j \in 1..(fed - input_base)
            /\ input_base + (input_offset + 1 + j) = k
        BY <1>1, <1>2, <3>2, <3>3
      <4> HIDE DEF j
      <4>2. padding[j] = 0
        BY <1>4, <4>1 DEF IsEosPadding, AllZero
      <4>3. input[input_offset + 1 + j] = 0
        BY <1>2, <4>1, <4>2
      <4>4. \A m \in 1..(fed - input_base) : input[m] = src[input_base + m]
        BY <1>1, <3>2, <3>3, WindowProperties
           DEF BufferIsTheUnreadStream, TypeOK
      <4>5. QED
        BY <4>1, <4>3, <4>4
    <3>7. UNCHANGED trailing_after_finish
      BY <1>1
    <3>8. QED
      BY <1>3, <2>1, <2>3, <3>1, <3>4, <3>5, <3>6, <3>7 DEF PaddingCounted
  <2>8. QED
    BY <2>1, <2>3, <2>5, <2>6, <2>7 DEF BufferIsTheUnreadStream
<1>5. CASE ~IsEosPadding(padding)
  <2>1. /\ input_offset' = input_offset + 1
        /\ ReturnErr("TrailingData")
        /\ UNCHANGED <<input, input_base, eos_padding, finished>>
    BY <1>5 DEF Eos
  <2> HIDE DEF padding
  <2>2. TypeOK'
    <3>1. marker_end' \in Nat /\ input_offset' \in Nat
      BY <1>1, <2>1 DEF TypeOK
    <3>2. UNCHANGED <<src, fed, finished_input, history, previous_distance,
                      pending, trailing_after_finish, dst_len, written,
                      reported>>
      BY <1>1, <2>1 DEF outVars, callerVars, ReturnErr
    <3>3. result' \in Errors /\ pc' = "idle"
      BY <2>1 DEF ReturnErr, Errors
    <3>4. QED
      BY <2>1, <3>1, <3>2, <3>3 DEF TypeOK
  <2>3. CopiesInBounds'
    <3>1. pending' = pending /\ pc' = "idle"
      BY <1>1, <2>1 DEF outVars, ReturnErr
    <3>2. input_offset' <= Len(input') /\ 0 <= AvailableInput'
      BY <1>1, <2>1 DEF TypeOK, AvailableInput
    <3>3. QED
      BY <1>1, <3>1, <3>2 DEF CopiesInBounds
  <2>4. ~IsEosPadding(TailFrom(marker_end'))
    <3> DEFINE tail == TailFrom(marker_end')
    <3>1. /\ input_base + Len(input) = fed
          /\ input_base \in Nat /\ input_offset \in Nat
          /\ fed \in 0..Len(src) /\ Len(src) \in Nat
      BY <1>1 DEF TypeOK
    <3>2. marker_end' \in 1..fed /\ marker_end' \in 0..Len(src)
      BY <1>1, <3>1
    <3>3. /\ Len(tail) = Len(src) - marker_end'
          /\ \A k \in 1..Len(tail) : tail[k] = src[marker_end' + k]
      <4>1. src \in Seq(Byte) /\ Len(src) \in 0..Len(src)
        BY <3>1 DEF TypeOK
      <4>2. QED
        BY <3>2, <4>1, WindowProperties DEF TailFrom
    <3> HIDE DEF tail
    <3>4. Len(padding) <= Len(tail)
      BY <1>1, <1>2, <3>1, <3>3
    <3>5. \A k \in 1..Len(padding) : padding[k] = tail[k]
      <4> SUFFICES ASSUME NEW k \in 1..Len(padding)
                   PROVE  padding[k] = tail[k]
        OBVIOUS
      <4> DEFINE j == input_offset + 1 + k
      <4>1. /\ k \in 1..Len(tail)
            /\ j \in 1..(fed - input_base)
            /\ input_base + j = marker_end' + k
        BY <1>1, <1>2, <3>1, <3>3, <3>4
      <4>2. \A m \in 1..(fed - input_base) : input[m] = src[input_base + m]
        BY <1>1, <3>1, WindowProperties DEF BufferIsTheUnreadStream, TypeOK
      <4>3. padding[k] = input[j]
        BY <1>2
      <4> HIDE DEF j
      <4>4. QED
        BY <3>3, <4>1, <4>2, <4>3
    <3>6. Len(padding) \in Nat /\ Len(tail) \in Nat
      BY <1>1, <1>2, <3>1, <3>2, <3>3
    <3>7. IsEosPadding(tail) => IsEosPadding(padding)
      BY <3>4, <3>5, <3>6 DEF IsEosPadding, AllZero, MaxEosPadding
    <3>8. QED
      BY <1>5, <3>7 DEF tail
  <2>5. ~IsEosPadding(TailFrom(marker_end)')
    <3>1. TailFrom(marker_end)' = TailFrom(marker_end')
      BY <1>1 DEF TailFrom, callerVars
    <3>2. QED
      BY <2>4, <3>1
  <2>6. QED
    BY <1>1, <1>3, <2>1, <2>2, <2>3, <2>5 DEF callerVars, ReturnErr,
       BufferIsTheUnreadStream, PaddingCounted
<1>6. QED
  BY <1>4, <1>5
-----------------------------------------------------------------------------
(* A step that changes nothing keeps the invariant. *)
LEMMA StutterStep ==
  ASSUME IInv, UNCHANGED vars
  PROVE  IInv'
BY DEF vars, inputVars, eosVars, outVars, callVars, callerVars, IInv, TypeOK,
   CopiesInBounds, AvailableInput, BufferIsTheUnreadStream, PaddingCounted,
   TailFrom

(* The invariant is inductive: one fact per action. *)
LEMMA NextIInv ==
  ASSUME IInv, [Next]_vars
  PROVE  IInv'
<1>1. CASE Supply
  BY <1>1, FeedStep, FinishInputStep DEF Supply
<1>2. CASE Call
  BY <1>2, CallDecodeStep, CallAfterFinishStep DEF Call
<1>3. CASE Turn
  BY <1>3, ReturnFullStep, CopyPendingLiteralStep, CopyPendingMatchStep,
     NoInputStep, InvalidOpcodeStep, PartialInstructionStep,
     PrepareLiteralStep, PrepareMatchStep, InvalidMatchDistanceStep, NopStep,
     EosStep DEF Turn
<1>4. CASE UNCHANGED vars
  BY <1>4, StutterStep
<1>5. QED
  BY <1>1, <1>2, <1>3, <1>4 DEF Next

(* The conjunction that PaddingVerdict and the other properties need holds *)
(* in every reachable state of the decoder, whatever its caller does.      *)
THEOREM StreamInvariant == Spec => []IInv
<1>1. Init => IInv
  BY InitIInv
<1>2. IInv /\ [Next]_vars => IInv'
  BY NextIInv
<1>3. QED
  BY <1>1, <1>2, PTL DEF Spec

(* Every variable keeps its type. *)
THEOREM StreamTypes == Spec => []TypeOK
<1>1. IInv => TypeOK
  BY DEF IInv
<1>2. QED
  BY <1>1, StreamInvariant, PTL

(* No slice or index of stream.rs is out of bounds, and no call writes     *)
(* past its buffer.                                                        *)
THEOREM StreamInBounds == Spec => []CopiesInBounds
<1>1. IInv => CopiesInBounds
  BY DEF IInv
<1>2. QED
  BY <1>1, StreamInvariant, PTL

(* Feeding and compacting keep the buffer the unread part of the stream.   *)
THEOREM StreamBuffer == Spec => []BufferIsTheUnreadStream
<1>1. IInv => BufferIsTheUnreadStream
  BY DEF IInv
<1>2. QED
  BY <1>1, StreamInvariant, PTL

(* What was counted so far decides what follows the end marker. *)
LEMMA PaddingIsJudged ==
  ASSUME IInv
  PROVE  PaddingVerdict
<1>1. /\ result = "TrailingData" => ~IsEosPadding(TailFrom(marker_end))
      /\ trailing_after_finish # 0 => ~IsEosPadding(TailFrom(marker_end))
  BY DEF IInv, PaddingCounted
<1>2. ASSUME finished, fed = Len(src), trailing_after_finish = 0
      PROVE  IsEosPadding(TailFrom(marker_end))
  <2>1. /\ marker_end \in 1..Len(src)
        /\ eos_padding = Len(src) - marker_end
        /\ \A k \in (marker_end + 1)..Len(src) : src[k] = 0
    BY <1>2 DEF IInv, PaddingCounted
  <2>2. src \in Seq(Byte) /\ eos_padding \in 0..MaxEosPadding /\ Len(src) \in Nat
    BY Lengths DEF IInv, TypeOK
  <2>3. /\ Len(TailFrom(marker_end)) = Len(src) - marker_end
        /\ \A k \in 1..(Len(src) - marker_end) :
             TailFrom(marker_end)[k] = src[marker_end + k]
    BY <2>1, <2>2, RunProperties DEF TailFrom
  <2>4. \A k \in 1..(Len(src) - marker_end) :
          marker_end + k \in (marker_end + 1)..Len(src)
    BY <2>1, <2>2
  <2>5. AllZero(TailFrom(marker_end))
    BY <2>1, <2>3, <2>4 DEF AllZero
  <2>6. Len(TailFrom(marker_end)) <= MaxEosPadding
    BY <2>1, <2>2, <2>3 DEF MaxEosPadding
  <2>7. QED
    BY <2>5, <2>6 DEF IsEosPadding
<1>3. QED
  BY <1>1, <1>2 DEF PaddingVerdict

(* The end marker's padding is judged alike however it is cut into chunks. *)
THEOREM StreamPadding == Spec => []PaddingVerdict
<1>1. IInv => PaddingVerdict
  BY PaddingIsJudged
<1>2. QED
  BY <1>1, StreamInvariant, PTL
-----------------------------------------------------------------------------
(***************************************************************************)
(* The incremental decoder and a caller that does not go on after an       *)
(* error.  For all streams, chunks and output buffers the caller is told   *)
(* of every byte, and the decoder implements the one-shot decoder of the   *)
(* whole stream: every step of RawStream is a step of RawDecode or leaves  *)
(* its variables alone, under the mapping of OneShot.                      *)
(***************************************************************************)

(* What the mapping needs besides IInv, whatever the caller does: a stream *)
(* declared complete was all fed, and what is pending of a match has the   *)
(* distance that was kept. *)
Ready ==
  /\ finished_input => fed = Len(src)
  /\ pending.match # 0 => pending.distance = previous_distance

(* And if it stops at the first error. *)
RInv ==
  /\ Ready
  /\ RetryAfterError = FALSE
  /\ result \in Errors => pc = "idle"
  /\ marker_end # 0 => pc = "idle" /\ (finished \/ result \in Errors)

(* Nothing is declared, nothing is pending. *)
LEMMA InitReady == Init => Ready
BY DEF Init, Ready, NoPending

(* The caller declares nothing complete that it can still feed. *)
LEMMA CallerReady ==
  ASSUME IInv, Ready, Supply \/ Call
  PROVE  Ready'
<1>1. ASSUME NEW n \in 1..(Len(src) - fed), Feed(n) PROVE Ready'
  <2>1. ~finished_input
    <3>1. n \in 1..(Len(src) - fed) /\ fed \in 0..Len(src) /\ Len(src) \in Nat
      BY Lengths DEF IInv, TypeOK
    <3>2. fed # Len(src)
      BY <3>1
    <3>3. QED
      BY <3>2 DEF Ready
  <2>2. QED
    BY <1>1, <2>1 DEF Feed, Ready, outVars
<1>2. CASE FinishInput
  BY <1>2 DEF FinishInput, Ready, outVars
<1>3. CASE Call
  BY <1>3 DEF Call, CallAfterFinish, CallDecode, Ready, outVars, callerVars
<1>4. QED
  BY <1>1, <1>2, <1>3 DEF Supply

(* The turns that change what is pending: its distance is the one kept. *)
LEMMA TurnReady ==
  ASSUME IInv, Ready, Turn
  PROVE  Ready'
<1>1. CASE UNCHANGED <<outVars, callerVars>>
  BY <1>1 DEF Ready, outVars, callerVars
<1>2. CASE CopyPendingLiteral
  <2>1. /\ pending'.match = pending.match
        /\ pending'.distance = pending.distance
    BY <1>2 DEF CopyPendingLiteral, IInv, TypeOK
  <2>2. QED
    BY <1>2, <2>1 DEF CopyPendingLiteral, Ready, callerVars
<1>3. CASE CopyPendingMatch
  <2>1. pending'.match # 0 => pending'.distance = pending.distance
    BY <1>3 DEF CopyPendingMatch, NoPending, IInv, TypeOK
  <2>2. QED
    BY <1>3, <2>1 DEF CopyPendingMatch, Ready, callerVars
<1>4. CASE PrepareLiteral
  BY <1>4 DEF PrepareLiteral, NoPending, Ready, callerVars
<1>5. CASE PrepareMatch
  BY <1>5 DEF PrepareMatch, Ready, callerVars
<1>6. QED
  BY <1>1, <1>2, <1>3, <1>4, <1>5
  DEF Turn, ReturnFull, NoInput, InvalidOpcode, PartialInstruction,
      InvalidMatchDistance, Nop, Eos

(* Ready is inductive relative to IInv. *)
LEMMA NextReady ==
  ASSUME IInv, Ready, [Next]_vars
  PROVE  Ready'
<1>1. CASE UNCHANGED vars
  BY <1>1 DEF vars, outVars, callerVars, Ready
<1>2. QED
  BY <1>1, CallerReady, TurnReady DEF Next

(* No call was made and no marker was seen. *)
LEMMA InitRInv == RetryAfterError = FALSE /\ Init => RInv
BY InitReady DEF Init, RInv, Errors

(* The caller's steps keep it: it does not go on after an error. *)
LEMMA CallerRInv ==
  ASSUME IInv, RInv, Supply \/ Call
  PROVE  RInv'
<1>1. Ready'
  BY CallerReady DEF RInv
<1>2. CASE Supply
  BY <1>1, <1>2 DEF Supply, Feed, FinishInput, RInv, eosVars, callVars
<1>3. CASE CallAfterFinish
  <2>1. finished
    BY <1>3 DEF CallAfterFinish, IInv, PaddingCounted
  <2>2. QED
    BY <1>1, <1>3, <2>1 DEF CallAfterFinish, MayCall, RInv, eosVars
<1>4. ASSUME NEW n \in DstLens, CallDecode(n) PROVE RInv'
  <2>1. result \notin Errors /\ marker_end = 0
    BY <1>4 DEF CallDecode, MayCall, RInv
  <2>2. QED
    BY <1>1, <1>4, <2>1 DEF CallDecode, RInv, eosVars
<1>5. QED
  BY <1>2, <1>3, <1>4 DEF Call

(* While a call runs nothing went wrong and no marker was seen. *)
LEMMA Decoding ==
  ASSUME RInv, pc = "decode"
  PROVE  marker_end = 0 /\ result \notin Errors
BY DEF RInv

(* Every turn is one of a running call, *)
LEMMA TurnDecodes == Turn => pc = "decode"
BY DEF Turn, ReturnFull, CopyPendingLiteral, CopyPendingMatch, NoInput,
   InvalidOpcode, PartialInstruction, PrepareLiteral, PrepareMatch,
   InvalidMatchDistance, Nop, Eos, AtInstruction, AtOpcode, Fetching, HasRoom

(* and either goes on, or returns and leaves the decoder where it is, or is *)
(* the one at the end marker.                                              *)
LEMMA TurnCases ==
  ASSUME IInv, Turn
  PROVE  \/ UNCHANGED <<eosVars, callerVars, pc, result>>
         \/ /\ pc' = "idle"
            /\ result' \in {"NeedInput", "NeedOutput"} \cup Errors
            /\ UNCHANGED <<eosVars, callerVars, outVars>>
            /\ input_base' + input_offset' = input_base + input_offset
         \/ Eos
<1>1. ASSUME NeedInput
      PROVE  pc' = "idle" /\ result' \in {"NeedInput", "NeedOutput"} \cup Errors
  BY <1>1 DEF NeedInput, Return, ReturnErr, Errors
<1>2. CASE NoInput
  <2>1. input_base' + input_offset' = input_base + input_offset
    BY <1>2 DEF NoInput, Compact, IInv, TypeOK
  <2>2. QED
    BY <1>1, <1>2, <2>1 DEF NoInput
<1>3. CASE ReturnFull \/ InvalidOpcode \/ PartialInstruction
             \/ InvalidMatchDistance
  BY <1>1, <1>3 DEF ReturnFull, InvalidOpcode, PartialInstruction,
     InvalidMatchDistance, Return, ReturnErr, Errors, inputVars
<1>4. QED
  BY <1>2, <1>3 DEF Turn, CopyPendingLiteral, CopyPendingMatch,
     PrepareLiteral, PrepareMatch, Nop, callVars

(* So the turns of the loop keep it. *)
LEMMA TurnRInv ==
  ASSUME IInv, RInv, Turn
  PROVE  RInv'
<1>1. Ready'
  BY TurnReady DEF RInv
<1>2. marker_end = 0 /\ result \notin Errors
  BY TurnDecodes, Decoding
<1>3. CASE UNCHANGED <<eosVars, callerVars, pc, result>>
  BY <1>1, <1>2, <1>3 DEF RInv, eosVars
<1>4. CASE pc' = "idle" /\ UNCHANGED eosVars
  BY <1>1, <1>2, <1>4 DEF RInv, eosVars
<1>5. CASE Eos
  <2>1. /\ pc' = "idle"
        /\ finished' = TRUE \/ result' = "TrailingData"
    BY <1>5 DEF Eos, Return, ReturnErr
  <2>2. QED
    BY <1>1, <2>1 DEF RInv, Errors
<1>6. QED
  BY <1>3, <1>4, <1>5, TurnCases

(* RInv is inductive relative to IInv. *)
LEMMA NextRInv ==
  ASSUME IInv, RInv, [Next]_vars
  PROVE  RInv'
<1>1. CASE UNCHANGED vars
  BY <1>1 DEF vars, eosVars, outVars, callVars, callerVars, RInv, Ready
<1>2. QED
  BY <1>1, CallerRInv, TurnRInv DEF Next
-----------------------------------------------------------------------------
(* A copy reports as many bytes as it appends to the history. *)
LEMMA CopyReports ==
  ASSUME IInv, RInv, ReportsUntilError, CopyPendingLiteral \/ CopyPendingMatch
  PROVE  ReportsUntilError'
<1>1. /\ pc = "decode" /\ result \notin Errors
      /\ pc' = pc /\ reported' = reported
  BY Decoding DEF CopyPendingLiteral, CopyPendingMatch, HasRoom
<1>2. /\ Len(history) = reported + written
      /\ reported \in Nat /\ written \in Nat
      /\ history \in Seq(Byte) /\ Len(history) \in Nat
  BY <1>1, Lengths DEF ReportsUntilError, IInv, TypeOK
<1>3. \E n \in Nat : Len(history') = Len(history) + n /\ written' = written + n
  <2>1. CASE CopyPendingLiteral
    <3> DEFINE count == SmallerOf(pending.literal, dst_len - written)
               run   == SubSeq(input, input_offset + 1, input_offset + count)
    <3>1. /\ pending.literal \in Nat /\ dst_len \in Nat
          /\ pending.literal <= Len(input) - input_offset
          /\ input \in Seq(Byte) /\ Len(input) \in Nat
          /\ input_offset \in Nat /\ written < dst_len
      BY <2>1, Lengths, PendingFields DEF IInv, TypeOK, CopiesInBounds,
         AvailableInput, CopyPendingLiteral, HasRoom
    <3>2. count \in Nat /\ input_offset + count <= Len(input)
      BY <1>2, <3>1 DEF SmallerOf
    <3>3. history' = history \o run /\ written' = written + count
      BY <2>1 DEF CopyPendingLiteral
    <3> HIDE DEF count
    <3>4. run \in Seq(Byte) /\ Len(run) = count
      <4>1. /\ input_offset + count \in 0..Len(input)
            /\ input_offset \in 0..(input_offset + count)
            /\ input_offset + count - input_offset = count
        BY <3>1, <3>2
      <4>2. input \in Seq(Byte)
        BY <3>1
      <4>3. /\ run \in Seq(Byte)
            /\ Len(run) = input_offset + count - input_offset
        BY <3>1, <3>2, <4>1, <4>2, RunProperties
      <4>4. QED
        BY <4>1, <4>3
    <3> HIDE DEF run
    <3>5. Len(history') = Len(history) + count
      BY <1>2, <3>3, <3>4, ConcatProperties
    <3>6. QED
      BY <1>2, <3>2, <3>3, <3>5
  <2>2. CASE CopyPendingMatch
    <3>1. /\ history' = Append(history,
                              history[Len(history) + 1 - pending.distance])
          /\ written' = written + 1
      BY <2>2 DEF CopyPendingMatch
    <3>2. Len(history') = Len(history) + 1
      <4>1. history' \in Seq(Byte)
        BY <2>2, CopyPendingMatchStep DEF IInv, TypeOK
      <4>2. QED
        BY <1>2, <3>1, <4>1
    <3>3. QED
      BY <1>2, <3>1, <3>2
  <2>3. QED
    BY <2>1, <2>2
<1>4. Len(history') = reported + written'
  <2>1. PICK n \in Nat :
          Len(history') = Len(history) + n /\ written' = written + n
    BY <1>3
  <2>2. reported + written + n = reported + (written + n)
    BY <1>2
  <2>3. QED
    BY <1>2, <2>1, <2>2
<1>5. QED
  BY <1>1, <1>4 DEF ReportsUntilError

(* So does every other step. *)
LEMMA NextReports ==
  ASSUME IInv, RInv, ReportsUntilError, [Next]_vars
  PROVE  ReportsUntilError'
<1>1. ASSUME UNCHANGED <<callVars, history, finished>>
      PROVE  ReportsUntilError'
  BY <1>1 DEF callVars, ReportsUntilError
<1>2. CASE Supply \/ UNCHANGED vars
  <2>1. UNCHANGED <<callVars, history, finished>>
    BY <1>2 DEF Supply, Feed, FinishInput, vars, outVars, eosVars
  <2>2. QED
    BY <1>1, <2>1
<1>3. CASE Call
  <2>1. /\ pc = "idle" /\ result \notin Errors
        /\ UNCHANGED <<history, reported>>
    BY <1>3 DEF Call, CallDecode, CallAfterFinish, MayCall, RInv, outVars
  <2>2. \/ pc' = "idle" /\ finished'
        \/ pc' = "decode" /\ written' = 0
    <3>1. CASE CallAfterFinish
      BY <2>1, <3>1 DEF CallAfterFinish, eosVars, IInv, PaddingCounted
    <3>2. CASE \E n \in DstLens : CallDecode(n)
      BY <3>2 DEF CallDecode
    <3>3. QED
      BY <1>3, <3>1, <3>2 DEF Call
  <2>3. Len(history) = reported /\ reported \in Nat
    BY <2>1 DEF ReportsUntilError, IInv, TypeOK
  <2>4. QED
    BY <2>1, <2>2, <2>3 DEF ReportsUntilError
<1>4. ASSUME pc = "decode", history' = history,
             \/ \E status \in Statuses : Return(status)
             \/ /\ finished' = finished
                /\ \E error \in Errors : ReturnErr(error)
      PROVE  ReportsUntilError'
  <2>1. /\ Len(history) = reported + written
        /\ reported \in Nat /\ written \in Nat
        /\ ~finished
    BY <1>4 DEF ReportsUntilError, IInv, TypeOK
  <2>2. CASE \E status \in Statuses : Return(status)
    <3>1. /\ pc' = "idle" /\ result' \notin Errors
          /\ reported' = reported + written
      BY <2>2 DEF Return, Statuses, Errors
    <3>2. QED
      BY <1>4, <2>1, <3>1 DEF ReportsUntilError
  <2>3. CASE finished' = finished /\ \E error \in Errors : ReturnErr(error)
    <3>1. /\ pc' = "idle" /\ result' \in Errors /\ ~finished'
          /\ reported' = reported /\ written' = written
      BY <2>1, <2>3 DEF ReturnErr
    <3>2. QED
      BY <1>4, <2>1, <3>1 DEF ReportsUntilError
  <2>4. QED
    BY <1>4, <2>2, <2>3
<1>5. ASSUME NeedInput
      PROVE  \/ \E status \in Statuses : Return(status)
             \/ \E error \in Errors : ReturnErr(error)
  BY <1>5 DEF NeedInput, Errors, Statuses
<1>6. CASE Nop \/ PrepareLiteral \/ PrepareMatch
  <2>1. UNCHANGED <<callVars, history, finished>>
    BY <1>6 DEF Nop, PrepareLiteral, PrepareMatch, outVars, eosVars
  <2>2. QED
    BY <1>1, <2>1
<1>7. CASE NoInput \/ PartialInstruction \/ ReturnFull
  <2>1. /\ pc = "decode" /\ history' = history /\ finished' = finished
        /\ NeedInput \/ Return("NeedOutput")
    BY <1>7 DEF NoInput, PartialInstruction, ReturnFull, AtInstruction,
       AtOpcode, Fetching, HasRoom, outVars, eosVars
  <2>2. QED
    BY <1>4, <1>5, <2>1 DEF Statuses
<1>8. CASE InvalidOpcode \/ InvalidMatchDistance \/ Eos
  <2>1. /\ pc = "decode" /\ history' = history
        /\ \/ Return("Finished")
           \/ /\ finished' = finished
              /\ \E error \in Errors : ReturnErr(error)
    <3>1. CASE InvalidOpcode
      BY <3>1 DEF InvalidOpcode, AtOpcode, Fetching, HasRoom, outVars,
         eosVars, Errors
    <3>2. CASE InvalidMatchDistance
      BY <3>2 DEF InvalidMatchDistance, AtInstruction, AtOpcode, Fetching,
         HasRoom, outVars, eosVars, Errors
    <3>3. CASE Eos
      BY <3>3 DEF Eos, AtOpcode, Fetching, HasRoom, outVars, Errors
    <3>4. QED
      BY <1>8, <3>1, <3>2, <3>3
  <2>2. QED
    BY <1>4, <2>1 DEF Statuses
<1>9. QED
  BY <1>2, <1>3, <1>6, <1>7, <1>8, CopyReports DEF Next, Turn

(* A caller that stops at the first error was told of every decoded byte   *)
(* but those that the failing call wrote itself.                           *)
THEOREM StreamReports ==
  ASSUME RetryAfterError = FALSE
  PROVE  Spec => []ReportsUntilError
<1>1. Init => RInv
  BY InitRInv
<1>2. IInv /\ RInv /\ [Next]_vars => RInv'
  BY NextRInv
<1>3. Init => ReportsUntilError
  BY EmptySeq DEF Init, ReportsUntilError, Errors
<1>4. IInv /\ RInv /\ ReportsUntilError /\ [Next]_vars => ReportsUntilError'
  BY NextReports
<1>5. QED
  BY <1>1, <1>2, <1>3, <1>4, InitIInv, NextIInv, PTL DEF Spec
-----------------------------------------------------------------------------
(* The mapping while a call runs: an absolute offset, and no verdict yet. *)
LEMMA Mapping ==
  ASSUME marker_end = 0, pc = "decode"
  PROVE  OneShotInput = input_base + input_offset /\ OneShotResult = "running"
BY DEF OneShotInput, OneShotResult

(* The mapping of a state where no marker was seen and no call failed. *)
LEMMA MappingAfter ==
  ASSUME marker_end' = 0, pc' = "decode" \/ result' \notin Errors
  PROVE  /\ OneShotInput' = input_base' + input_offset'
         /\ OneShotResult' = "running"
BY DEF OneShotInput, OneShotResult, Errors

(* Both modules take their instructions from LzvnOpcode. *)
LEMMA SameInstructions ==
  /\ \A b : OneShot!Classify(b) = Classify(b)
  /\ \A kind : OneShot!HeaderLen(kind) = HeaderLen(kind)
  /\ \A s, i : OneShot!LiteralLen(s, i) = LiteralLen(s, i)
  /\ \A s, i : OneShot!MatchLen(s, i) = MatchLen(s, i)
  /\ \A s, i, d : OneShot!MatchDistance(s, i, d) = MatchDistance(s, i, d)
  /\ OneShot!LiteralKinds = LiteralKinds
  /\ OneShot!MatchKinds = MatchKinds
  /\ \A d, n : OneShot!IsValidDistance(d, n) = IsValidDistance(d, n)
  /\ \A t : OneShot!IsEosPadding(t) = IsEosPadding(t)
<1>1. \A b : OneShot!Classify(b) = Classify(b)
  BY Zenon DEF OneShot!Classify, Classify
<1>2. \A kind : OneShot!HeaderLen(kind) = HeaderLen(kind)
  BY Zenon DEF OneShot!HeaderLen, HeaderLen
<1>3. \A s, i : OneShot!LiteralLen(s, i) = LiteralLen(s, i)
  <2> SUFFICES ASSUME NEW s, NEW i
               PROVE  OneShot!LiteralLen(s, i) = LiteralLen(s, i)
    OBVIOUS
  <2>1. OneShot!Classify(s[i]) = Classify(s[i])
    BY <1>1
  <2>2. QED
    BY <2>1, Zenon DEF OneShot!LiteralLen, LiteralLen
<1>4. \A s, i : OneShot!MatchLen(s, i) = MatchLen(s, i)
  <2> SUFFICES ASSUME NEW s, NEW i
               PROVE  OneShot!MatchLen(s, i) = MatchLen(s, i)
    OBVIOUS
  <2>1. OneShot!Classify(s[i]) = Classify(s[i])
    BY <1>1
  <2>2. QED
    BY <2>1, Zenon DEF OneShot!MatchLen, MatchLen
<1>5. \A s, i, d : OneShot!MatchDistance(s, i, d) = MatchDistance(s, i, d)
  <2> SUFFICES ASSUME NEW s, NEW i, NEW d
               PROVE  OneShot!MatchDistance(s, i, d) = MatchDistance(s, i, d)
    OBVIOUS
  <2>1. OneShot!Classify(s[i]) = Classify(s[i])
    BY <1>1
  <2>2. QED
    BY <2>1, Zenon DEF OneShot!MatchDistance, MatchDistance
<1>6. OneShot!LiteralKinds = LiteralKinds /\ OneShot!MatchKinds = MatchKinds
  BY DEF OneShot!LiteralKinds, LiteralKinds, OneShot!MatchKinds, MatchKinds
<1>7. \A d, n : OneShot!IsValidDistance(d, n) = IsValidDistance(d, n)
  BY Zenon DEF OneShot!IsValidDistance, IsValidDistance
<1>8. \A t : OneShot!IsEosPadding(t) = IsEosPadding(t)
  BY Zenon DEF OneShot!IsEosPadding, IsEosPadding, OneShot!AllZero, AllZero,
     OneShot!MaxEosPadding, MaxEosPadding
<1>9. QED
  BY <1>1, <1>2, <1>3, <1>4, <1>5, <1>6, <1>7, <1>8

(* The one-shot decoder reads the byte that the buffer holds *)
LEMMA UnreadBytes ==
  ASSUME IInv, ~finished
  PROVE  /\ input_base \in Nat /\ input_offset \in Nat /\ Len(src) \in Nat
         /\ fed \in 0..Len(src)
         /\ Len(input) \in Nat
         /\ input_base + Len(input) = fed
         /\ input = SubSeq(src, input_base + 1, fed)
         /\ \A k \in 1..Len(input) : input[k] = src[input_base + k]
<1>1. /\ input_base \in Nat /\ input_offset \in Nat /\ Len(src) \in Nat
      /\ fed \in 0..Len(src)
      /\ Len(input) \in Nat
      /\ input_base + Len(input) = fed
      /\ input = SubSeq(src, input_base + 1, fed)
  <2>1. TypeOK /\ ~finished
    BY DEF IInv
  <2>2. /\ input_base + Len(input) = fed
        /\ input = SubSeq(src, input_base + 1, fed)
    BY <2>1 DEF IInv, BufferIsTheUnreadStream
  <2>3. /\ input_base \in Nat /\ input_offset \in Nat
        /\ fed \in 0..Len(src)
    BY <2>1 DEF TypeOK
  <2>4. QED
    BY <2>1, <2>2, <2>3, Lengths
<1>2. input_base \in 0..fed /\ fed - input_base = Len(input)
  BY <1>1
<1>3. \A k \in 1..(fed - input_base) : input[k] = src[input_base + k]
  BY <1>1, <1>2, WindowProperties DEF IInv, TypeOK
<1>4. QED
  BY <1>1, <1>2, <1>3

(* as long as it decodes. *)
LEMMA BufferedBytes ==
  ASSUME IInv, pc = "decode"
  PROVE  /\ input_base \in Nat /\ input_offset \in Nat /\ Len(src) \in Nat
         /\ fed \in 0..Len(src)
         /\ Len(input) \in Nat
         /\ input_base + Len(input) = fed
         /\ input = SubSeq(src, input_base + 1, fed)
         /\ \A k \in 1..Len(input) : input[k] = src[input_base + k]
<1>1. ~finished
  BY DEF IInv
<1>2. QED
  BY <1>1, UnreadBytes

(* Both decoders are at the same opcode. *)
LEMMA SameOpcode ==
  ASSUME IInv, Ready, marker_end = 0, AtOpcode
  PROVE  /\ OneShot!AtOpcode
         /\ OneShotInput \in Nat
         /\ OneShotInput < Len(src)
         /\ OneShot!Opcode = Opcode
         /\ OneShot!Kind = Kind
<1>1. pc = "decode" /\ input_offset < Len(input)
  BY Lengths DEF AtOpcode, Fetching, HasRoom, AvailableInput, IInv, TypeOK
<1>2. pending.literal = 0 /\ pending.match = 0
  BY DEF AtOpcode, Fetching, IsEmpty
<1>3. OneShotInput = input_base + input_offset /\ OneShotResult = "running"
  BY <1>1, Mapping
<1>4. /\ input_base \in Nat /\ input_offset \in Nat /\ Len(src) \in Nat
      /\ fed \in 0..Len(src)
      /\ Len(input) \in Nat
      /\ input_base + Len(input) = fed
  BY <1>1, BufferedBytes
<1>5. OneShotInput \in Nat /\ OneShotInput < Len(src)
  BY <1>1, <1>3, <1>4
<1>6. input[input_offset + 1] = src[OneShotInput + 1]
  <2>1. input_offset + 1 \in 1..Len(input)
    BY <1>1, <1>4
  <2>2. input[input_offset + 1] = src[input_base + (input_offset + 1)]
    BY <1>1, <2>1, BufferedBytes
  <2>3. input_base + (input_offset + 1) = OneShotInput + 1
    BY <1>3, <1>4
  <2>4. QED
    BY <2>2, <2>3
<1>7. OneShot!Opcode = Opcode
  BY <1>6 DEF Opcode, OneShot!Opcode
<1>8. OneShot!Kind = Kind
  BY <1>7, SameInstructions DEF Kind, OneShot!Kind
<1>9. QED
  BY <1>2, <1>3, <1>5, <1>7, <1>8 DEF OneShot!AtOpcode

(* A header that is buffered is the one the one-shot decoder reads. *)
LEMMA SameHeaderBytes ==
  ASSUME IInv, Ready, marker_end = 0, AtOpcode,
         input_offset + HeaderLen(Kind) <= Len(input)
  PROVE  SameHeader(input, input_offset + 1, src, OneShotInput + 1)
<1>1. /\ pc = "decode"
      /\ OneShotInput = input_base + input_offset
  BY Mapping DEF AtOpcode, Fetching, HasRoom
<1>2. /\ input_base \in Nat /\ input_offset \in Nat
      /\ Len(input) \in Nat
      /\ \A k \in 1..Len(input) : input[k] = src[input_base + k]
  BY <1>1, BufferedBytes
<1>3. input_offset < Len(input)
  BY <1>2 DEF AtOpcode, AvailableInput
<1>4. input[input_offset + 1] = src[OneShotInput + 1]
  <2>1. input_offset + 1 \in 1..Len(input)
    BY <1>2, <1>3
  <2>2. input_base + (input_offset + 1) = OneShotInput + 1
    BY <1>1, <1>2
  <2>3. QED
    BY <1>2, <2>1, <2>2
<1>5. ASSUME HeaderLen(Kind) \in {2, 3}
      PROVE  input[input_offset + 1 + 1] = src[OneShotInput + 1 + 1]
  <2>1. input_offset + 1 + 1 \in 1..Len(input)
    BY <1>2, <1>5
  <2>2. input_base + (input_offset + 1 + 1) = OneShotInput + 1 + 1
    BY <1>1, <1>2
  <2>3. QED
    BY <1>2, <2>1, <2>2
<1>6. ASSUME HeaderLen(Kind) = 3
      PROVE  input[input_offset + 1 + 2] = src[OneShotInput + 1 + 2]
  <2>1. input_offset + 1 + 2 \in 1..Len(input)
    BY <1>2, <1>6
  <2>2. input_base + (input_offset + 1 + 2) = OneShotInput + 1 + 2
    BY <1>1, <1>2
  <2>3. QED
    BY <1>2, <2>1, <2>2
<1>7. QED
  BY <1>4, <1>5, <1>6 DEF SameHeader, Kind, Opcode

(* The fields of such an instruction are the same for both. *)
LEMMA SameInstruction ==
  ASSUME IInv, Ready, marker_end = 0, AtOpcode,
         input_offset + HeaderLen(Kind) <= Len(input)
  PROVE  /\ OneShot!LiteralLen(src, OneShotInput + 1) = Literals
         /\ OneShot!MatchLen(src, OneShotInput + 1)
              = MatchLen(input, input_offset + 1)
         /\ OneShot!Distance = Distance
         /\ Literals \in Nat
<1>1. SameHeader(input, input_offset + 1, src, OneShotInput + 1)
  BY SameHeaderBytes
<1>2. /\ input_offset \in Nat /\ Len(input) \in Nat
      /\ input_offset < Len(input)
      /\ input \in Seq(Byte)
      /\ OneShotInput \in Nat
  BY SameOpcode, Lengths DEF AtOpcode, AvailableInput, IInv, TypeOK
<1>3. input_offset + 1 \in 1..Len(input)
  BY <1>2
<1>4. Opcode \in Byte
  BY <1>2, <1>3, ElementOfSeq DEF Opcode
<1>5. Classify(input[input_offset + 1]) \in Kinds
  BY <1>4, ClassifyType DEF Opcode
<1>6. HeaderLen(Kind) \in 1..3
  BY <1>5, HeaderLenType DEF Kind, Opcode
<1>7. input_offset + 1 \in Nat /\ OneShotInput + 1 \in Nat
  BY <1>2
<1>8. LiteralLen(src, OneShotInput + 1) = LiteralLen(input, input_offset + 1)
  BY <1>1, <1>5, <1>7, HeaderDecidesLiteralLen
<1>9. MatchLen(src, OneShotInput + 1) = MatchLen(input, input_offset + 1)
  BY <1>1, <1>5, <1>7, HeaderDecidesMatchLen
<1>10. MatchDistance(src, OneShotInput + 1, previous_distance)
         = MatchDistance(input, input_offset + 1, previous_distance)
  BY <1>1, <1>5, <1>7, HeaderDecidesMatchDistance
<1>11. Literals \in Nat
  <2>1. input_offset + 1 + HeaderLen(Classify(input[input_offset + 1])) - 1
          <= Len(input)
    BY <1>2, <1>6 DEF Kind, Opcode
  <2>2. QED
    BY <1>2, <1>3, <2>1, LiteralLenType DEF Literals
<1>12. QED
  BY <1>8, <1>9, <1>10, <1>11, SameInstructions
     DEF Literals, Distance, OneShot!Distance

(* Every instruction is one of the kinds, its header one to three bytes. *)
LEMMA InstructionHeader ==
  ASSUME AtInstruction
  PROVE  HeaderLen(Kind) \in 1..3
<1>1. Kind \in Kinds
  BY DEF AtInstruction, Kinds
<1>2. QED
  BY <1>1, HeaderLenType

(* The instruction is in the buffer: the one-shot decoder has it all too. *)
LEMMA OneShotInstruction ==
  ASSUME IInv, Ready, marker_end = 0, AtInstruction, IsBuffered
  PROVE  /\ OneShot!AtInstruction
         /\ OneShot!HasInput
         /\ OneShot!HasOutput
         /\ OneShot!LiteralLen(src, OneShotInput + 1) = Literals
         /\ OneShot!MatchLen(src, OneShotInput + 1)
              = MatchLen(input, input_offset + 1)
         /\ OneShot!Distance = Distance
<1>1. AtOpcode /\ pc = "decode"
  BY DEF AtInstruction, AtOpcode, Fetching, HasRoom
<1>2. /\ input_base \in Nat /\ input_offset \in Nat /\ Len(src) \in Nat
      /\ fed \in 0..Len(src)
      /\ Len(input) \in Nat
      /\ input_base + Len(input) = fed
      /\ OneShotInput = input_base + input_offset
  BY <1>1, BufferedBytes, Mapping
<1>3. HeaderLen(Kind) \in 1..3
  BY InstructionHeader
<1>4. /\ input_offset + 1 + HeaderLen(Kind) - 1 <= Len(input)
      /\ input_offset + 1 + HeaderLen(Kind) + Literals - 1 <= Len(input)
  BY DEF IsBuffered, IsComplete, Kind, Opcode, Literals
<1>5. input_offset + HeaderLen(Kind) <= Len(input)
  BY <1>2, <1>3, <1>4
<1>6. /\ OneShot!LiteralLen(src, OneShotInput + 1) = Literals
      /\ OneShot!MatchLen(src, OneShotInput + 1)
           = MatchLen(input, input_offset + 1)
      /\ OneShot!Distance = Distance
      /\ Literals \in Nat
  BY <1>1, <1>5, SameInstruction
<1>7. /\ OneShot!AtOpcode
      /\ OneShotInput < Len(src)
      /\ OneShot!Kind = Kind
  BY <1>1, SameOpcode
<1>8. OneShot!AtInstruction
  BY <1>7, SameInstructions DEF AtInstruction, OneShot!AtInstruction
<1>9. OneShot!HasInput
  <2>1. OneShot!HeaderLen(OneShot!Classify(src[OneShotInput + 1]))
          = HeaderLen(Kind)
    BY <1>7, SameInstructions DEF OneShot!Kind, OneShot!Opcode
  <2>2. /\ OneShotInput + 1 + HeaderLen(Kind) - 1 <= Len(src)
        /\ OneShotInput + 1 + HeaderLen(Kind) + Literals - 1 <= Len(src)
    BY <1>2, <1>3, <1>4, <1>6, SMTT(30)
  <2>3. QED
    BY <1>6, <2>1, <2>2, Zenon DEF OneShot!HasInput, OneShot!IsComplete
<1>10. OneShot!HasOutput
  BY DEF OneShot!HasOutput
<1>11. QED
  BY <1>6, <1>8, <1>9, <1>10

(* A complete stream whose last instruction is not all in the buffer ends  *)
(* too early for the one-shot decoder as well.                             *)
LEMMA TruncatedInstruction ==
  ASSUME IInv, Ready, marker_end = 0, AtInstruction, ~IsBuffered, finished_input
  PROVE  OneShot!AtInstruction /\ ~OneShot!HasInput
<1>1. AtOpcode /\ pc = "decode"
  BY DEF AtInstruction, AtOpcode, Fetching, HasRoom
<1>2. /\ input_base \in Nat /\ input_offset \in Nat /\ Len(src) \in Nat
      /\ Len(input) \in Nat
      /\ input_base + Len(input) = Len(src)
      /\ OneShotInput = input_base + input_offset
  BY <1>1, BufferedBytes, Mapping DEF Ready
<1>3. HeaderLen(Kind) \in 1..3
  BY InstructionHeader
<1>4. /\ OneShot!AtOpcode
      /\ OneShotInput < Len(src)
      /\ OneShot!Kind = Kind
  BY <1>1, SameOpcode
<1>5. OneShot!AtInstruction
  BY <1>4, SameInstructions DEF AtInstruction, OneShot!AtInstruction
<1>6. OneShot!HeaderLen(OneShot!Classify(src[OneShotInput + 1]))
        = HeaderLen(Kind)
  BY <1>4, SameInstructions DEF OneShot!Kind, OneShot!Opcode
<1>7. ASSUME OneShot!HasInput PROVE FALSE
  <2>1. OneShotInput + 1 + HeaderLen(Kind) - 1 <= Len(src)
    BY <1>6, <1>7, Zenon DEF OneShot!HasInput, OneShot!IsComplete
  <2>2. input_offset + HeaderLen(Kind) <= Len(input)
    BY <1>2, <1>3, <2>1
  <2>3. /\ OneShot!LiteralLen(src, OneShotInput + 1) = Literals
        /\ Literals \in Nat
    BY <1>1, <2>2, SameInstruction
  <2>4. OneShotInput + 1 + HeaderLen(Kind) + Literals - 1 <= Len(src)
    BY <1>6, <1>7, <2>3, Zenon DEF OneShot!HasInput, OneShot!IsComplete
  <2>5. /\ input_offset + 1 + HeaderLen(Kind) - 1 <= Len(input)
        /\ input_offset + 1 + HeaderLen(Kind) + Literals - 1 <= Len(input)
    BY <1>2, <1>3, <2>2, <2>3, <2>4, SMTT(30)
  <2>6. QED
    BY <2>5 DEF IsBuffered, IsComplete, Kind, Opcode, Literals
<1>8. QED
  BY <1>5, <1>7
-----------------------------------------------------------------------------
(* A step of RawStream is a step of the one-shot decoder, or none. *)
OneShotStep == [OneShot!Next]_(OneShot!vars)

(* Returning without an error is no step. *)
LEMMA ReturnStutters ==
  ASSUME marker_end = 0, pc = "decode", NEW status \in Statuses, Return(status),
         UNCHANGED <<eosVars, outVars, callerVars>>,
         input_base' + input_offset' = input_base + input_offset
  PROVE  OneShotStep
<1>1. status \notin Errors
  BY DEF Statuses, Errors
<1>2. marker_end = 0 /\ marker_end' = 0 /\ result' \notin Errors
  BY <1>1 DEF Return, eosVars
<1>3. UNCHANGED <<OneShotInput, OneShotResult>>
  BY <1>2, Mapping, MappingAfter
<1>4. UNCHANGED OneShot!vars
  BY <1>3 DEF OneShot!vars, outVars, callerVars
<1>5. QED
  BY <1>4 DEF OneShotStep

(* Returning an error of the loop is the step that fails with it. *)
LEMMA ErrorIsFail ==
  ASSUME marker_end = 0, pc = "decode", NEW error \in Errors, ReturnErr(error),
         UNCHANGED <<eosVars, outVars, callerVars>>,
         input_base' + input_offset' = input_base + input_offset
  PROVE  OneShot!Fail(error)
<1>1. marker_end' = 0 /\ result' = error /\ pc' = "idle"
  BY DEF ReturnErr, eosVars
<1>2. OneShotInput' = OneShotInput /\ OneShotResult' = error
  BY <1>1, Mapping DEF OneShotInput, OneShotResult
<1>3. QED
  BY <1>2 DEF OneShot!Fail, outVars, callerVars

(* Compaction moves the buffer, not the position in the stream. *)
LEMMA AdvanceKeepsPosition ==
  ASSUME input_base \in Nat, NEW offset \in Nat,
         \/ Compact(offset)
         \/ \E p : Advance(offset, p)
  PROVE  input_base' + input_offset' = input_base + offset
BY DEF Advance, Compact

(* Feeding, completing the stream and calling are not seen. *)
LEMMA CallerStutters ==
  ASSUME IInv, RInv, Supply \/ Call
  PROVE  OneShotStep
<1>1. ASSUME UNCHANGED <<src, input_base, input_offset, marker_end, outVars>>,
             \/ marker_end # 0
             \/ result \notin Errors /\ result' = result
             \/ UNCHANGED <<pc, result>>
      PROVE  OneShotStep
  <2>1. OneShotInput' = OneShotInput
    BY <1>1 DEF OneShotInput, TailFrom
  <2>2. OneShotResult' = OneShotResult
    BY <1>1 DEF OneShotResult, TailFrom
  <2>3. QED
    BY <1>1, <2>1, <2>2 DEF OneShotStep, OneShot!vars, outVars
<1>2. ASSUME NEW n \in 1..(Len(src) - fed), Feed(n) PROVE OneShotStep
  BY <1>1, <1>2 DEF Feed, callVars
<1>3. CASE FinishInput
  BY <1>1, <1>3 DEF FinishInput, inputVars, eosVars, callVars
<1>4. CASE CallAfterFinish
  <2>1. marker_end # 0
    BY <1>4 DEF CallAfterFinish, IInv, TypeOK, PaddingCounted
  <2>2. QED
    BY <1>1, <1>4, <2>1 DEF CallAfterFinish, inputVars, eosVars, callerVars
<1>5. ASSUME NEW n \in DstLens, CallDecode(n) PROVE OneShotStep
  <2>1. result \notin Errors
    BY <1>5 DEF CallDecode, MayCall, RInv
  <2>2. QED
    BY <1>1, <1>5, <2>1 DEF CallDecode, inputVars, eosVars, callerVars
<1>6. QED
  BY <1>2, <1>3, <1>4, <1>5 DEF Supply, Call

(* Literals are copied from the buffer as they are from the stream. *)
LEMMA CopyLiteralStep ==
  ASSUME IInv, Ready, marker_end = 0, CopyPendingLiteral
  PROVE  OneShotStep
<1> DEFINE count == SmallerOf(pending.literal, dst_len - written)
           left  == [pending EXCEPT !.literal = @ - count]
<1>1. pc = "decode" /\ written < dst_len /\ pending.literal # 0
  BY DEF CopyPendingLiteral, HasRoom
<1>2. /\ input_base \in Nat /\ input_offset \in Nat /\ Len(src) \in Nat
      /\ fed \in 0..Len(src)
      /\ Len(input) \in Nat
      /\ input_base + Len(input) = fed
      /\ input = SubSeq(src, input_base + 1, fed)
      /\ OneShotInput = input_base + input_offset
      /\ OneShotResult = "running"
  BY <1>1, BufferedBytes, Mapping
<1>3. /\ pending.literal \in Nat
      /\ pending.literal <= Len(input) - input_offset
      /\ input_offset <= Len(input)
      /\ dst_len \in Nat /\ written \in Nat
  BY PendingFields DEF IInv, TypeOK, CopiesInBounds, AvailableInput
<1>4. count \in 1..pending.literal
  BY <1>1, <1>3 DEF SmallerOf
<1>5. /\ history' = history \o
                      SubSeq(input, input_offset + 1, input_offset + count)
      /\ pending' = left
      /\ Advance(input_offset + count, left)
      /\ UNCHANGED <<src, previous_distance, marker_end, pc>>
  BY DEF CopyPendingLiteral, eosVars, callerVars
<1>6. /\ pending'.literal = pending.literal - count
      /\ pending'.match = pending.match
  BY <1>5 DEF IInv, TypeOK
<1> HIDE DEF count, left
<1>7. SubSeq(input, input_offset + 1, input_offset + count)
        = SubSeq(src, OneShotInput + 1, OneShotInput + count)
  <2>1. /\ src \in Seq(Byte)
        /\ input_base \in 0..fed
        /\ input_offset \in 0..(fed - input_base)
        /\ count \in 0..(fed - input_base - input_offset)
    BY <1>2, <1>3, <1>4 DEF IInv, TypeOK
  <2>2. SubSeq(SubSeq(src, input_base + 1, fed), input_offset + 1,
               input_offset + count)
          = SubSeq(src, input_base + input_offset + 1,
                   input_base + input_offset + count)
    BY <1>2, <2>1, RunOfRun
  <2>3. QED
    BY <1>2, <2>2
<1>8. OneShotInput' = OneShotInput + count /\ OneShotResult' = "running"
  <2>1. marker_end' = 0 /\ pc' = "decode"
    BY <1>1, <1>5
  <2>2. input_offset + count \in Nat
    BY <1>2, <1>3, <1>4
  <2>3. input_base' + input_offset' = input_base + (input_offset + count)
    BY <1>2, <1>5, <2>2, AdvanceKeepsPosition
  <2>4. QED
    BY <1>2, <1>3, <1>4, <2>1, <2>3, MappingAfter
<1>9. OneShot!CopyLiteral(count)
  BY <1>2, <1>5, <1>6, <1>7, <1>8 DEF OneShot!CopyLiteral
<1>10. QED
  BY <1>4, <1>9 DEF OneShotStep, OneShot!Next

(* A match byte is read at the distance of the one-shot decoder. *)
LEMMA CopyMatchStep ==
  ASSUME IInv, Ready, marker_end = 0, CopyPendingMatch
  PROVE  OneShotStep
<1>1. /\ pc = "decode" /\ pending.literal = 0 /\ pending.match # 0
      /\ pending.match \in Nat
      /\ pending.distance = previous_distance
  BY PendingFields DEF CopyPendingMatch, HasRoom, Ready, IInv
<1>2. /\ history' = Append(history,
                           history[Len(history) + 1 - previous_distance])
      /\ UNCHANGED <<src, previous_distance, marker_end, pc, input_base,
                     input_offset>>
  BY <1>1 DEF CopyPendingMatch, inputVars, eosVars, callerVars
<1>3. pending'.literal = 0 /\ pending'.match = pending.match - 1
  <2>1. CASE pending.match = 1
    BY <2>1 DEF CopyPendingMatch, NoPending
  <2>2. CASE pending.match # 1
    BY <1>1, <2>2 DEF CopyPendingMatch, IInv, TypeOK
  <2>3. QED
    BY <2>1, <2>2
<1>4. OneShotResult = "running"
  BY <1>1, Mapping
<1>5. UNCHANGED <<OneShotInput, OneShotResult>>
  BY <1>1, <1>2, Mapping, MappingAfter
<1>6. OneShot!CopyMatchByte
  <2>1. pending.match > 0
    BY <1>1
  <2>2. QED
    BY <1>1, <1>2, <1>3, <1>4, <1>5, <2>1 DEF OneShot!CopyMatchByte
<1>7. QED
  BY <1>6 DEF OneShotStep, OneShot!Next

(* What is said when input runs out is said at the same place. *)
LEMMA NeedInputIsTruncated ==
  ASSUME IInv, Ready, marker_end = 0, pc = "decode", NeedInput,
         UNCHANGED <<eosVars, outVars, callerVars>>,
         input_base' + input_offset' = input_base + input_offset,
         finished_input =>
           \/ OneShot!AtOpcode /\ OneShotInput = Len(src)
           \/ OneShot!AtInstruction /\ ~OneShot!HasInput
  PROVE  OneShotStep
<1>1. CASE finished_input
  <2>1. ReturnErr("TruncatedInput")
    BY <1>1 DEF NeedInput
  <2>2. OneShot!Fail("TruncatedInput")
    BY <2>1, ErrorIsFail DEF Errors
  <2>3. OneShot!TruncatedInput
    BY <1>1, <2>2 DEF OneShot!TruncatedInput
  <2>4. QED
    BY <2>3 DEF OneShotStep, OneShot!Next
<1>2. CASE ~finished_input
  <2>1. Return("NeedInput")
    BY <1>2 DEF NeedInput
  <2>2. QED
    BY <2>1, ReturnStutters DEF Statuses
<1>3. QED
  BY <1>1, <1>2

(* The buffer is empty. *)
LEMMA NoInputIsTruncated ==
  ASSUME IInv, Ready, marker_end = 0, NoInput
  PROVE  OneShotStep
<1>1. /\ pc = "decode"
      /\ pending.literal = 0 /\ pending.match = 0
      /\ AvailableInput = 0
      /\ Compact(input_offset)
      /\ NeedInput
      /\ UNCHANGED <<eosVars, outVars, callerVars>>
  BY DEF NoInput, Fetching, HasRoom, IsEmpty
<1>2. /\ input_base \in Nat /\ input_offset \in Nat
      /\ Len(input) \in Nat
      /\ input_base + Len(input) = fed
  BY <1>1, BufferedBytes
<1>3. input_base' + input_offset' = input_base + input_offset
  BY <1>1, <1>2, AdvanceKeepsPosition
<1>4. ASSUME finished_input
      PROVE  OneShot!AtOpcode /\ OneShotInput = Len(src)
  <2>1. OneShotInput = input_base + input_offset /\ OneShotResult = "running"
    BY <1>1, Mapping
  <2>2. OneShotInput = Len(src)
    BY <1>1, <1>2, <1>4, <2>1 DEF Ready, AvailableInput
  <2>3. QED
    BY <1>1, <2>1, <2>2 DEF OneShot!AtOpcode
<1>5. QED
  BY <1>1, <1>3, <1>4, NeedInputIsTruncated

(* The instruction is not all there. *)
LEMMA PartialIsTruncated ==
  ASSUME IInv, Ready, marker_end = 0, PartialInstruction
  PROVE  OneShotStep
<1>1. /\ pc = "decode"
      /\ AtInstruction
      /\ ~IsBuffered
      /\ NeedInput
      /\ UNCHANGED <<inputVars, eosVars, outVars, callerVars>>
  BY DEF PartialInstruction, AtInstruction, AtOpcode, Fetching, HasRoom
<1>2. input_base' + input_offset' = input_base + input_offset
  BY <1>1 DEF inputVars
<1>3. finished_input => OneShot!AtInstruction /\ ~OneShot!HasInput
  BY <1>1, TruncatedInstruction
<1>4. QED
  BY <1>1, <1>2, <1>3, NeedInputIsTruncated

(* The opcode is invalid for both. *)
LEMMA InvalidOpcodeFails ==
  ASSUME IInv, Ready, marker_end = 0, InvalidOpcode
  PROVE  OneShotStep
<1>1. /\ pc = "decode"
      /\ AtOpcode
      /\ Kind = "Invalid"
      /\ ReturnErr("InvalidOpcode")
      /\ UNCHANGED <<inputVars, eosVars, outVars, callerVars>>
  BY DEF InvalidOpcode, AtOpcode, Fetching, HasRoom
<1>2. /\ OneShot!AtOpcode
      /\ OneShotInput < Len(src)
      /\ OneShot!Kind = "Invalid"
  BY <1>1, SameOpcode
<1>3. OneShot!Fail("InvalidOpcode")
  BY <1>1, ErrorIsFail DEF Errors, inputVars
<1>4. OneShot!InvalidOpcode
  BY <1>2, <1>3 DEF OneShot!InvalidOpcode
<1>5. QED
  BY <1>4 DEF OneShotStep, OneShot!Next

(* The distance is refused by both. *)
LEMMA InvalidMatchDistanceFails ==
  ASSUME IInv, Ready, marker_end = 0, InvalidMatchDistance
  PROVE  OneShotStep
<1>1. /\ pc = "decode"
      /\ AtInstruction
      /\ IsBuffered
      /\ Kind \in MatchKinds
      /\ ~IsValidDistance(Distance, Len(history) + Literals)
      /\ ReturnErr("InvalidMatchDistance")
      /\ UNCHANGED <<inputVars, eosVars, outVars, callerVars>>
  BY DEF InvalidMatchDistance, AtInstruction, AtOpcode, Fetching, HasRoom
<1>2. /\ OneShot!AtInstruction
      /\ OneShot!HasInput
      /\ OneShot!HasOutput
      /\ OneShot!LiteralLen(src, OneShotInput + 1) = Literals
      /\ OneShot!Distance = Distance
      /\ OneShot!Kind = Kind
  BY <1>1, OneShotInstruction, SameOpcode DEF AtInstruction
<1>3. ~OneShot!HasDistance
  BY <1>1, <1>2, SameInstructions DEF OneShot!HasDistance
<1>4. OneShot!Fail("InvalidMatchDistance")
  BY <1>1, ErrorIsFail DEF Errors, inputVars
<1>5. OneShot!InvalidMatchDistance
  BY <1>2, <1>3, <1>4 DEF OneShot!InvalidMatchDistance
<1>6. QED
  BY <1>5 DEF OneShotStep, OneShot!Next

(* An instruction without a match copies no match byte. *)
LEMMA LiteralsOnly ==
  ASSUME NEW s, NEW i, Classify(s[i]) \in LiteralKinds
  PROVE  MatchLen(s, i) = 0
<1>1. CASE Classify(s[i]) = "SmallLiteral"
  BY <1>1, Zenon DEF MatchLen
<1>2. CASE Classify(s[i]) = "LargeLiteral"
  BY <1>2, Zenon DEF MatchLen
<1>3. QED
  BY <1>1, <1>2 DEF LiteralKinds

(* An instruction without a match starts alike. *)
LEMMA PrepareLiteralIsInstruction ==
  ASSUME IInv, Ready, marker_end = 0, PrepareLiteral
  PROVE  OneShotStep
<1>1. /\ pc = "decode"
      /\ AtInstruction
      /\ IsBuffered
      /\ Kind \in LiteralKinds
      /\ input_offset' = input_offset + HeaderLen(Kind)
      /\ pending'.literal = Literals /\ pending'.match = 0
      /\ UNCHANGED <<src, input_base, history, previous_distance, marker_end,
                     pc>>
  BY DEF PrepareLiteral, NoPending, AtInstruction, AtOpcode, Fetching,
     HasRoom, eosVars, callVars, callerVars
<1>2. /\ OneShot!AtInstruction
      /\ OneShot!HasInput
      /\ OneShot!HasOutput
      /\ OneShot!LiteralLen(src, OneShotInput + 1) = Literals
      /\ OneShot!MatchLen(src, OneShotInput + 1)
           = MatchLen(input, input_offset + 1)
      /\ OneShot!Kind = Kind
  BY <1>1, OneShotInstruction, SameOpcode DEF AtInstruction
<1>3. OneShot!Kind \notin OneShot!MatchKinds
  BY <1>1, <1>2, SameInstructions DEF LiteralKinds, MatchKinds
<1>4. OneShot!HasDistance
  BY <1>3 DEF OneShot!HasDistance
<1>5. OneShot!MatchLen(src, OneShotInput + 1) = 0
  BY <1>1, <1>2, LiteralsOnly DEF Kind, Opcode
<1>6. /\ OneShotInput' = OneShotInput + HeaderLen(Kind)
      /\ OneShotResult' = OneShotResult
  <2>1. /\ marker_end' = 0 /\ pc' = "decode"
        /\ OneShotInput = input_base + input_offset
        /\ OneShotResult = "running"
    BY <1>1, Mapping
  <2>2. input_base + (input_offset + HeaderLen(Kind))
          = input_base + input_offset + HeaderLen(Kind)
    <3>1. input_base \in Nat /\ input_offset \in Nat
      BY <1>1, BufferedBytes
    <3>2. HeaderLen(Kind) \in 1..3
      BY <1>1, InstructionHeader
    <3>3. QED
      BY <3>1, <3>2
  <2>3. QED
    BY <1>1, <2>1, <2>2, MappingAfter
<1>7. OneShot!HeaderLen(OneShot!Kind) = HeaderLen(Kind)
  BY <1>2, SameInstructions
<1>8. OneShot!Instruction
  BY <1>1, <1>2, <1>3, <1>4, <1>5, <1>6, <1>7 DEF OneShot!Instruction
<1>9. QED
  BY <1>8 DEF OneShotStep, OneShot!Next

(* So does one with a match. *)
LEMMA PrepareMatchIsInstruction ==
  ASSUME IInv, Ready, marker_end = 0, PrepareMatch
  PROVE  OneShotStep
<1>1. /\ pc = "decode"
      /\ AtInstruction
      /\ IsBuffered
      /\ Kind \in MatchKinds
      /\ IsValidDistance(Distance, Len(history) + Literals)
      /\ input_offset' = input_offset + HeaderLen(Kind)
      /\ previous_distance' = Distance
      /\ pending'.literal = Literals
      /\ pending'.match = MatchLen(input, input_offset + 1)
      /\ UNCHANGED <<src, input_base, history, marker_end, pc>>
  BY DEF PrepareMatch, AtInstruction, AtOpcode, Fetching, HasRoom, eosVars,
     callVars, callerVars
<1>2. /\ OneShot!AtInstruction
      /\ OneShot!HasInput
      /\ OneShot!HasOutput
      /\ OneShot!LiteralLen(src, OneShotInput + 1) = Literals
      /\ OneShot!MatchLen(src, OneShotInput + 1)
           = MatchLen(input, input_offset + 1)
      /\ OneShot!Distance = Distance
      /\ OneShot!Kind = Kind
  BY <1>1, OneShotInstruction, SameOpcode DEF AtInstruction
<1>3. OneShot!Kind \in OneShot!MatchKinds
  BY <1>1, <1>2, SameInstructions
<1>4. OneShot!HasDistance
  BY <1>1, <1>2, SameInstructions DEF OneShot!HasDistance
<1>5. /\ OneShotInput' = OneShotInput + HeaderLen(Kind)
      /\ OneShotResult' = OneShotResult
  <2>1. /\ marker_end' = 0 /\ pc' = "decode"
        /\ OneShotInput = input_base + input_offset
        /\ OneShotResult = "running"
    BY <1>1, Mapping
  <2>2. input_base + (input_offset + HeaderLen(Kind))
          = input_base + input_offset + HeaderLen(Kind)
    <3>1. input_base \in Nat /\ input_offset \in Nat
      BY <1>1, BufferedBytes
    <3>2. HeaderLen(Kind) \in 1..3
      BY <1>1, InstructionHeader
    <3>3. QED
      BY <3>1, <3>2
  <2>3. QED
    BY <1>1, <2>1, <2>2, MappingAfter
<1>6. OneShot!HeaderLen(OneShot!Kind) = HeaderLen(Kind)
  BY <1>2, SameInstructions
<1>7. OneShot!Instruction
  BY <1>1, <1>2, <1>3, <1>4, <1>5, <1>6 DEF OneShot!Instruction
<1>8. QED
  BY <1>7 DEF OneShotStep, OneShot!Next

(* A nop is skipped by both. *)
LEMMA NopIsNop ==
  ASSUME IInv, Ready, marker_end = 0, Nop
  PROVE  OneShotStep
<1>1. /\ pc = "decode"
      /\ AtOpcode
      /\ Kind = "Nop"
      /\ Advance(input_offset + 1, pending)
      /\ UNCHANGED <<src, outVars, marker_end, pc>>
  BY DEF Nop, AtOpcode, Fetching, HasRoom, eosVars, callVars, callerVars
<1>2. OneShot!AtNop
  BY <1>1, SameOpcode DEF OneShot!AtNop
<1>3. /\ OneShotInput' = OneShotInput + 1
      /\ OneShotResult' = OneShotResult
  <2>1. /\ marker_end' = 0 /\ pc' = "decode"
        /\ OneShotInput = input_base + input_offset
        /\ OneShotResult = "running"
    BY <1>1, Mapping
  <2>2. input_base \in Nat /\ input_offset \in Nat
    BY <1>1, BufferedBytes
  <2>3. input_base' + input_offset' = input_base + (input_offset + 1)
    BY <1>1, <2>2, AdvanceKeepsPosition
  <2>4. QED
    BY <2>1, <2>2, <2>3, MappingAfter
<1>4. OneShot!Nop
  BY <1>1, <1>2, <1>3 DEF OneShot!Nop, outVars
<1>5. QED
  BY <1>4 DEF OneShotStep, OneShot!Next

(* At the end marker the one-shot decoder judges all that follows it. *)
LEMMA EosIsEos ==
  ASSUME IInv, Ready, marker_end = 0, Eos
  PROVE  OneShot!Eos
<1>1. /\ pc = "decode"
      /\ AtOpcode
      /\ Kind = "Eos"
      /\ marker_end' = input_base + input_offset + 1
      /\ UNCHANGED <<src, outVars>>
  BY DEF Eos, AtOpcode, Fetching, HasRoom, callerVars
<1>2. /\ OneShot!AtOpcode
      /\ OneShotInput < Len(src)
      /\ OneShot!Kind = "Eos"
      /\ OneShotInput = input_base + input_offset
      /\ OneShotInput \in Nat
  BY <1>1, SameOpcode, Mapping
<1>3. marker_end' = OneShotInput + 1 /\ marker_end' # 0
  BY <1>1, <1>2
<1>4. TailFrom(marker_end)' = SubSeq(src, OneShotInput + 2, Len(src))
  <2>1. marker_end' + 1 = OneShotInput + 2
    BY <1>2, <1>3
  <2>2. QED
    BY <1>1, <2>1 DEF TailFrom
<1> DEFINE tail == SubSeq(src, OneShotInput + 2, Len(src))
<1>5. /\ OneShotInput' = IF IsEosPadding(tail) THEN Len(src)
                                               ELSE OneShotInput + 1
      /\ OneShotResult' = IF IsEosPadding(tail) THEN "Finished"
                                                ELSE "TrailingData"
  BY <1>1, <1>3, <1>4 DEF OneShotInput, OneShotResult
<1>6. OneShot!IsEosPadding(tail) = IsEosPadding(tail)
  BY SameInstructions
<1> HIDE DEF tail
<1>7. QED
  BY <1>1, <1>2, <1>5, <1>6 DEF OneShot!Eos, outVars, tail
-----------------------------------------------------------------------------
(* As long as no marker was seen a turn is a step of the one-shot decoder  *)
(* or leaves it alone, whatever the earlier calls returned.                *)
LEMMA TurnImplements ==
  ASSUME IInv, Ready, marker_end = 0, Turn
  PROVE  OneShotStep
<1>1. CASE ReturnFull
  <2>1. /\ pc = "decode" /\ Return("NeedOutput")
        /\ UNCHANGED <<eosVars, outVars, callerVars>>
        /\ input_base' + input_offset' = input_base + input_offset
    BY <1>1 DEF ReturnFull, inputVars
  <2>2. QED
    BY <2>1, ReturnStutters DEF Statuses
<1>2. QED
  BY <1>1, CopyLiteralStep, CopyMatchStep, NoInputIsTruncated,
     InvalidOpcodeFails, PartialIsTruncated, PrepareLiteralIsInstruction,
     PrepareMatchIsInstruction, InvalidMatchDistanceFails, NopIsNop, EosIsEos
     DEF Turn, OneShotStep, OneShot!Next

(* Every step is a step of the one-shot decoder or leaves it alone. *)
LEMMA StepImplements ==
  ASSUME IInv, RInv, [Next]_vars
  PROVE  OneShotStep
<1>1. CASE UNCHANGED vars
  <2>1. UNCHANGED <<OneShotInput, OneShotResult>>
    BY <1>1 DEF OneShotInput, OneShotResult, TailFrom, vars, inputVars,
       eosVars, callVars, callerVars
  <2>2. QED
    BY <1>1, <2>1 DEF OneShotStep, OneShot!vars, vars, outVars, callerVars
<1>2. CASE Turn
  <2>1. Ready /\ marker_end = 0
    BY <1>2, TurnDecodes, Decoding DEF RInv
  <2>2. QED
    BY <1>2, <2>1, TurnImplements
<1>3. QED
  BY <1>1, <1>2, CallerStutters DEF Next

(* Both start with nothing read and nothing written. *)
LEMMA InitImplements == Init => OneShot!Init
<1> SUFFICES ASSUME Init PROVE OneShot!Init
  OBVIOUS
<1>1. OneShotInput = 0 /\ OneShotResult = "running"
  BY DEF Init, OneShotInput, OneShotResult, Errors
<1>2. QED
  BY <1>1 DEF Init, NoPending, OneShot!Init

(* A caller that stops at the first error gets from the incremental        *)
(* decoder, whatever the chunks and the sizes of its buffers, the output,  *)
(* the offsets and the error of raw::decode_into on the whole stream.      *)
THEOREM StreamImplementsOneShot ==
  ASSUME RetryAfterError = FALSE
  PROVE  Spec => ImplementsOneShot
<1>1. Init => RInv
  BY InitRInv
<1>2. IInv /\ RInv /\ [Next]_vars => RInv'
  BY NextRInv
<1>3. IInv /\ RInv /\ [Next]_vars => [OneShot!Next]_(OneShot!vars)
  BY StepImplements DEF OneShotStep
<1>4. QED
  BY <1>1, <1>2, <1>3, InitImplements, InitIInv, NextIInv, PTL
     DEF Spec, ImplementsOneShot, OneShot!Spec
-----------------------------------------------------------------------------
(***************************************************************************)
(* What the incremental decoder decodes, and what it says of the stream,   *)
(* compared with the reference definition, for a caller that may go on     *)
(* after an error.  D is the theory of the one-shot decoder.  Its          *)
(* definitions are those of OneShot under other names, and a buffer that   *)
(* is large enough is the number -1; the first lemmas say so.              *)
(***************************************************************************)
D == INSTANCE RawDecodeProofs WITH
  Capacities  <- {-1},
  Unbounded   <- -1,
  capacity    <- -1,
  input       <- OneShotInput,
  dst         <- history,
  literal_len <- pending.literal,
  match_len   <- pending.match,
  result      <- OneShotResult

LEMMA OneShotAssumption == D!RawDecodeAssumption
<1>1. -1 \notin Nat /\ Sources \subseteq Seq(Byte)
  BY RawStreamAssumption
<1>2. QED
  BY <1>1 DEF D!RawDecodeAssumption, D!Byte, Byte

(* Both know the same instructions *)
LEMMA SameKinds ==
  /\ \A b : OneShot!Classify(b) = D!Classify(b)
  /\ \A kind : OneShot!HeaderLen(kind) = D!HeaderLen(kind)
  /\ OneShot!LiteralKinds = D!LiteralKinds
  /\ OneShot!MatchKinds = D!MatchKinds
BY Zenon DEF OneShot!Classify, D!Classify, OneShot!HeaderLen, D!HeaderLen,
   OneShot!LiteralKinds, D!LiteralKinds, OneShot!MatchKinds, D!MatchKinds

(* with the same fields, *)
LEMMA SameLiteralLen ==
  ASSUME NEW s, NEW i
  PROVE  OneShot!LiteralLen(s, i) = D!LiteralLen(s, i)
BY Zenon DEF OneShot!LiteralLen, D!LiteralLen, OneShot!Classify, D!Classify

LEMMA SameMatchLen ==
  ASSUME NEW s, NEW i
  PROVE  OneShot!MatchLen(s, i) = D!MatchLen(s, i)
BY Zenon DEF OneShot!MatchLen, D!MatchLen, OneShot!Classify, D!Classify

LEMMA SameMatchDistance ==
  ASSUME NEW s, NEW i, NEW d
  PROVE  OneShot!MatchDistance(s, i, d) = D!MatchDistance(s, i, d)
BY Zenon DEF OneShot!MatchDistance, D!MatchDistance, OneShot!Classify,
   D!Classify

LEMMA SameIsComplete ==
  \A s, i : OneShot!IsComplete(s, i) <=> D!IsComplete(s, i)
BY SameKinds, SameLiteralLen, Zenon DEF OneShot!IsComplete, D!IsComplete

LEMMA SameIsEosPadding == \A t : OneShot!IsEosPadding(t) <=> D!IsEosPadding(t)
BY Zenon DEF OneShot!IsEosPadding, D!IsEosPadding, OneShot!AllZero, D!AllZero,
   OneShot!MaxEosPadding, D!MaxEosPadding

(* and take the same steps: neither runs out of room. *)
LEMMA SameEos == OneShot!Eos => D!Eos
BY SameKinds, SameIsEosPadding, Zenon
DEF OneShot!Eos, D!Eos, OneShot!AtOpcode, D!AtOpcode, OneShot!Kind, D!Kind,
    OneShot!Opcode, D!Opcode

LEMMA SameNext == OneShot!Next => D!Next
<1> USE SameKinds, SameLiteralLen, SameMatchLen, SameMatchDistance,
        SameIsComplete, SameIsEosPadding
    DEF OneShot!AtInstruction, D!AtInstruction, OneShot!AtOpcode, D!AtOpcode,
        OneShot!Kind, D!Kind, OneShot!Opcode, D!Opcode, OneShot!HasInput,
        D!HasInput, OneShot!HasOutput, D!HasOutput, OneShot!HasDistance,
        D!HasDistance, OneShot!Distance, D!Distance,
        OneShot!IsValidDistance, D!IsValidDistance, OneShot!Fail, D!Fail
<1>1. OneShot!Instruction => D!Instruction
  BY Zenon DEF OneShot!Instruction, D!Instruction
<1>2. ASSUME NEW count \in 1..pending.literal, OneShot!CopyLiteral(count)
      PROVE  D!CopyLiteral(count)
  BY <1>2, Zenon DEF OneShot!CopyLiteral, D!CopyLiteral
<1>3. OneShot!CopyMatchByte => D!CopyMatchByte
  BY Zenon DEF OneShot!CopyMatchByte, D!CopyMatchByte
<1>4. OneShot!Nop => D!Nop
  BY Zenon DEF OneShot!Nop, D!Nop, OneShot!AtNop, D!AtNop
<1>5. OneShot!Eos => D!Eos
  BY SameEos
<1>6. OneShot!TruncatedInput => D!TruncatedInput
  BY Zenon DEF OneShot!TruncatedInput, D!TruncatedInput
<1>7. OneShot!InvalidOpcode => D!InvalidOpcode
  BY Zenon DEF OneShot!InvalidOpcode, D!InvalidOpcode
<1>8. OneShot!OutputTooSmall => D!OutputTooSmall
  BY Zenon DEF OneShot!OutputTooSmall, D!OutputTooSmall
<1>9. OneShot!InvalidMatchDistance => D!InvalidMatchDistance
  BY Zenon DEF OneShot!InvalidMatchDistance, D!InvalidMatchDistance
<1>10. QED
  BY <1>1, <1>2, <1>3, <1>4, <1>5, <1>6, <1>7, <1>8, <1>9, Zenon
  DEF OneShot!Next, D!Next

LEMMA SameStep == OneShotStep => [D!Next]_(D!vars)
<1>1. UNCHANGED OneShot!vars => UNCHANGED D!vars
  BY DEF OneShot!vars, D!vars
<1>2. QED
  BY <1>1, SameNext, Zenon DEF OneShotStep

(* The reference of D is the reference here: it executes instructions      *)
(* alike,                                                                  *)
LEMMA SameExecute ==
  ASSUME NEW s, NEW p
  PROVE  D!Execute(s, p) = Execute(s, p)
<1>1. /\ \A b : D!Classify(b) = Classify(b)
      /\ \A kind : D!HeaderLen(kind) = HeaderLen(kind)
      /\ D!LiteralKinds = LiteralKinds
  BY Zenon DEF D!Classify, Classify, D!HeaderLen, HeaderLen,
     D!LiteralKinds, LiteralKinds
<1>2. ASSUME NEW u, NEW i
      PROVE  D!LiteralLen(u, i) = LiteralLen(u, i)
  BY Zenon DEF D!LiteralLen, LiteralLen, D!Classify, Classify
<1>3. ASSUME NEW u, NEW i
      PROVE  D!MatchLen(u, i) = MatchLen(u, i)
  BY Zenon DEF D!MatchLen, MatchLen, D!Classify, Classify
<1>4. ASSUME NEW u, NEW i, NEW d
      PROVE  D!MatchDistance(u, i, d) = MatchDistance(u, i, d)
  BY Zenon DEF D!MatchDistance, MatchDistance, D!Classify, Classify
<1>5. \A u, i : D!IsComplete(u, i) <=> IsComplete(u, i)
  BY <1>1, <1>2, Zenon DEF D!IsComplete, IsComplete
<1>6. \A u : D!IsEosPadding(u) <=> IsEosPadding(u)
  BY Zenon DEF D!IsEosPadding, IsEosPadding, D!AllZero, AllZero,
     D!MaxEosPadding, MaxEosPadding
<1>7. \A o, d, m : D!Periodic(o, d, m) = Periodic(o, d, m)
  BY Zenon DEF D!Periodic, Periodic
<1>8. QED
  BY <1>1, <1>2, <1>3, <1>4, <1>5, <1>6, <1>7, Zenon
  DEF D!Execute, Execute

(* and its states follow each other alike. *)
LEMMA SameReference ==
  ASSUME NEW s \in Seq(Byte)
  PROVE  D!Reference(s) = Reference(s)
<1> DEFINE f == D!Trace(s)
           g == Trace(s)
           b == Len(s) + 1
           T == {n \in 0..b : f[n] = g[n]}
<1>1. Len(s) \in Nat /\ b \in Nat /\ b \in 0..b
  OBVIOUS
<1>2. /\ f[0] = D!Start
      /\ \A n \in 0..Len(s) : f[n + 1] = D!Executed(s, f[n])
  BY <1>1, OneShotAssumption, D!TraceStates
<1>3. /\ g[0] = Start
      /\ \A n \in 0..Len(s) : g[n + 1] = Executed(s, g[n])
  BY <1>1, TraceStates
<1>4. /\ D!Start = Start
      /\ \A p : D!Executed(s, p) = Executed(s, p)
  BY SameExecute, Zenon DEF D!Start, Start, D!Executed, Executed
<1> HIDE DEF f, g
<1>5. 0 \in T
  BY <1>1, <1>2, <1>3, <1>4
<1>6. ASSUME NEW n \in 0..(b - 1), n \in T
      PROVE  n + 1 \in T
  <2>1. n \in 0..Len(s) /\ n + 1 \in 0..b
    BY <1>1
  <2>2. f[n] = g[n]
    BY <1>6
  <2>3. QED
    BY <1>2, <1>3, <1>4, <2>1, <2>2
<1>7. \A n \in 0..b : n \in T
  <2> HIDE DEF T, b
  <2> QED
    BY <1>1, <1>5, <1>6, UpTo
<1>8. f[b] = g[b]
  BY <1>1, <1>7
<1>9. QED
  BY <1>8 DEF f, g, D!Reference, Reference
-----------------------------------------------------------------------------
(* Where the decoder stands in the run of the reference: on its way; at    *)
(* the end marker, where it finished; or past a marker that it refused,    *)
(* where only a caller gets it that calls again after the error.           *)
Onward ==
  /\ marker_end = 0
  /\ D!Reaches(src, D!Ahead)

MarkerVerdict ==
  IF IsEosPadding(TailFrom(marker_end)) THEN "Finished" ELSE "TrailingData"

Ended ==
  /\ finished
  /\ marker_end = Reference(src).position + 1
  /\ history = Reference(src).out
  /\ Reference(src).verdict = MarkerVerdict

Refused ==
  /\ Reference(src).verdict = "TrailingData"
  /\ marker_end # 0
  /\ ~finished => input_base + input_offset >= Reference(src).position + 1
  /\ finished => RetryAfterError /\ marker_end > Reference(src).position + 1
  /\ ~RetryAfterError => pc = "idle" /\ result \in Errors

(* An error is the reference's verdict, or comes after the refused marker. *)
ErrorsAgree ==
  result \in Errors =>
    \/ result = Reference(src).verdict
    \/ Reference(src).verdict = "TrailingData"

SInv == Ready /\ (Onward \/ Ended \/ Refused) /\ ErrorsAgree

(* Before a marker was seen, the decoder is in a state of the one-shot     *)
(* decoder,                                                                *)
LEMMA OneShotState ==
  ASSUME IInv, Ready, marker_end = 0
  PROVE  D!IInv
<1>1. /\ OneShotInput = input_base + input_offset
      /\ OneShotResult \in {"running"} \cup Errors
      /\ ~finished
  BY DEF OneShotInput, OneShotResult, IInv, PaddingCounted
<1>2. /\ input_base \in Nat /\ input_offset \in Nat /\ Len(src) \in Nat
      /\ fed \in 0..Len(src)
      /\ Len(input) \in Nat
      /\ input_base + Len(input) = fed
  BY <1>1, UnreadBytes
<1>3. /\ pending.literal \in Nat /\ pending.match \in Nat
      /\ input_offset <= Len(input)
      /\ pending.literal <= Len(input) - input_offset
  BY PendingFields DEF IInv, CopiesInBounds, AvailableInput
<1>4. OneShotInput \in 0..Len(src) /\ pending.literal <= Len(src) - OneShotInput
  BY <1>1, <1>2, <1>3
<1>5. pending.match > 0 =>
        previous_distance \in 1..(Len(history) + pending.literal)
  BY <1>3 DEF IInv, CopiesInBounds, Ready
<1>6. D!TypeOK
  <2>1. /\ src \in Seq(Byte) /\ history \in Seq(Byte)
        /\ previous_distance \in Nat
    BY DEF IInv, TypeOK
  <2>2. QED
    BY <1>1, <1>3, <1>4, <2>1 DEF D!TypeOK, D!Byte, Byte, D!Errors, Errors
<1>7. D!CopiesInBounds
  BY <1>4, <1>5 DEF D!CopiesInBounds
<1>8. QED
  BY <1>6, <1>7 DEF D!IInv

(* and a turn keeps it together with the reference. *)
LEMMA OneShotAgrees ==
  ASSUME IInv, Ready, Onward, Turn
  PROVE  D!IInv /\ D!RInv /\ D!RInv'
<1>1. pc = "decode" /\ marker_end = 0
  BY TurnDecodes DEF Onward
<1>2. D!IInv
  BY <1>1, OneShotState
<1>3. D!RInv
  BY <1>1, Mapping DEF D!RInv, Onward
<1>4. [D!Next]_(D!vars)
  BY <1>1, TurnImplements, SameStep
<1>5. D!RInv'
  BY <1>2, <1>3, <1>4, OneShotAssumption, D!NextRInv
<1>6. QED
  BY <1>2, <1>3, <1>5

(* Nothing was decoded at first. *)
LEMMA InitSInv ==
  ASSUME Init
  PROVE  SInv
<1>1. OneShot!Init
  BY InitImplements
<1>2. D!Init
  BY <1>1 DEF OneShot!Init, D!Init
<1>3. D!IInv /\ D!RInv
  BY <1>2, OneShotAssumption, D!InitIInv, D!InitRInv
<1>4. marker_end = 0 /\ OneShotResult = "running" /\ result \notin Errors
  BY DEF Init, OneShotResult, Errors
<1>5. Onward
  BY <1>3, <1>4 DEF D!RInv, Onward
<1>6. QED
  BY <1>4, <1>5, InitReady DEF SInv, ErrorsAgree

(* What leaves the output and the position alone leaves the decoder on its *)
(* way.                                                                    *)
LEMMA OnwardKept ==
  ASSUME Onward, UNCHANGED <<src, marker_end, outVars>>,
         input_base' + input_offset' = input_base + input_offset
  PROVE  Onward'
<1>1. OneShotInput' = OneShotInput
  BY DEF Onward, OneShotInput
<1>2. D!Ahead' = D!Ahead
  BY <1>1 DEF D!Ahead, outVars
<1>3. QED
  BY <1>2 DEF Onward, D!Reaches

(* The caller's steps. *)
LEMMA CallerSInv ==
  ASSUME IInv, SInv, Supply \/ Call
  PROVE  SInv'
<1>1. UNCHANGED <<src, finished, marker_end, outVars, input_base, input_offset>>
  BY DEF Supply, Feed, FinishInput, Call, CallDecode, CallAfterFinish,
     inputVars, eosVars, callerVars
<1>2. Ready'
  BY CallerReady DEF SInv
<1>3. \/ UNCHANGED <<pc, result>>
      \/ CallDecode(dst_len') /\ UNCHANGED result
      \/ CallAfterFinish
  BY DEF Supply, Feed, FinishInput, Call, CallDecode, callVars
<1>4. Onward => Onward'
  BY <1>1, OnwardKept
<1>5. Ended => Ended'
  BY <1>1 DEF Ended, MarkerVerdict, TailFrom, outVars
<1>6. ASSUME Refused PROVE Refused'
  <2>1. ~RetryAfterError => UNCHANGED <<pc, result>>
    BY <1>3, <1>6 DEF Refused, CallDecode, CallAfterFinish, MayCall
  <2>2. QED
    BY <1>1, <1>6, <2>1 DEF Refused
<1>7. ErrorsAgree'
  <2>1. CASE UNCHANGED result
    BY <1>1, <2>1 DEF SInv, ErrorsAgree
  <2>2. CASE CallAfterFinish
    <3>1. finished /\ marker_end # 0
      BY <2>2 DEF CallAfterFinish, IInv, TypeOK, PaddingCounted
    <3>2. trailing_after_finish # 0 =>
            Reference(src).verdict = "TrailingData"
      BY <3>1 DEF SInv, Onward, Ended, Refused, MarkerVerdict, IInv,
         PaddingCounted
    <3>3. QED
      BY <1>1, <2>2, <3>2 DEF CallAfterFinish, ErrorsAgree, Errors
  <2>3. QED
    BY <1>3, <2>1, <2>2
<1>8. QED
  BY <1>2, <1>4, <1>5, <1>6, <1>7 DEF SInv

(* A turn before the end marker, on the way. *)
LEMMA TurnOnward ==
  ASSUME IInv, Ready, Onward, ErrorsAgree, Turn, ~Eos
  PROVE  Onward' /\ ErrorsAgree'
<1>1. D!RInv' /\ pc = "decode" /\ marker_end = 0
  BY OneShotAgrees, TurnDecodes DEF Onward
<1>2. CASE UNCHANGED <<eosVars, callerVars, pc, result>>
  <2>1. OneShotResult' = "running" /\ marker_end' = 0
    BY <1>1, <1>2 DEF OneShotResult, eosVars
  <2>2. Onward'
    BY <1>1, <2>1 DEF D!RInv, Onward
  <2>3. QED
    BY <1>2, <2>2 DEF ErrorsAgree, callerVars
<1>3. CASE /\ pc' = "idle"
           /\ UNCHANGED <<eosVars, callerVars, outVars>>
           /\ input_base' + input_offset' = input_base + input_offset
  <2>1. Onward'
    BY <1>3, OnwardKept DEF eosVars, callerVars
  <2>2. ASSUME result' \in Errors PROVE result' = Reference(src').verdict
    <3>1. OneShotResult' = result'
      BY <1>1, <1>3, <2>2 DEF OneShotResult, eosVars
    <3>2. result' \notin {"running", "OutputTooSmall"}
      BY <2>2 DEF Errors
    <3>3. result' = D!Reference(src').verdict
      BY <1>1, <3>1, <3>2 DEF D!RInv
    <3>4. src' = src /\ src \in Seq(Byte)
      BY <1>3 DEF callerVars, IInv, TypeOK
    <3>5. D!Reference(src) = Reference(src)
      BY <3>4, SameReference
    <3>6. QED
      BY <3>3, <3>4, <3>5
  <2>3. QED
    BY <2>1, <2>2 DEF ErrorsAgree
<1>4. QED
  BY <1>2, <1>3, TurnCases

(* The turn at the end marker. *)
LEMMA EosEnds ==
  ASSUME IInv, Ready, Onward, Eos
  PROVE  (Ended \/ Refused)' /\ ErrorsAgree'
<1>1. Turn /\ IInv' /\ marker_end = 0
  BY EosStep DEF Turn, Onward
<1>2. /\ pc = "decode"
      /\ marker_end' = input_base + input_offset + 1
      /\ src' = src
      /\ src \in Seq(Byte)
      /\ pc' = "idle"
      /\ \/ finished' = TRUE /\ result' = "Finished"
         \/ /\ finished' = FALSE /\ result' = "TrailingData"
            /\ input_base' = input_base /\ input_offset' = input_offset + 1
  BY <1>1, TurnDecodes DEF Eos, Return, ReturnErr, IInv, TypeOK, callerVars
<1>3. /\ OneShotInput = input_base + input_offset
      /\ input_base \in Nat /\ input_offset \in Nat
  BY <1>1, <1>2, Mapping, BufferedBytes
<1>4. D!IInv /\ D!RInv /\ D!RInv' /\ D!Eos
  BY <1>1, OneShotAgrees, EosIsEos, SameEos
<1>5. D!Reference(src) = Reference(src)
  BY <1>2, SameReference
<1>6. Reference(src).position = OneShotInput
  BY <1>4, <1>5, OneShotAssumption, D!EosPosition
<1>7. OneShotResult' = MarkerVerdict' /\ marker_end' # 0
  BY <1>2, <1>3 DEF OneShotResult, MarkerVerdict
<1>8. history' = Reference(src).out /\ Reference(src).verdict = MarkerVerdict'
  <2>1. OneShotResult' \notin {"running", "OutputTooSmall"}
    BY <1>7 DEF MarkerVerdict
  <2>2. /\ history' = D!Reference(src').out
        /\ OneShotResult' = D!Reference(src').verdict
    BY <1>4, <2>1 DEF D!RInv
  <2>3. QED
    BY <1>2, <1>5, <1>7, <2>2
<1>9. CASE finished' = TRUE /\ result' = "Finished"
  <2>1. Ended'
    BY <1>2, <1>3, <1>6, <1>8, <1>9 DEF Ended
  <2>2. QED
    BY <1>9, <2>1 DEF ErrorsAgree, Errors
<1>10. CASE /\ finished' = FALSE /\ result' = "TrailingData"
            /\ input_base' = input_base /\ input_offset' = input_offset + 1
  <2>1. ~IsEosPadding(TailFrom(marker_end)')
    BY <1>1, <1>10 DEF IInv, PaddingCounted
  <2>2. Reference(src).verdict = "TrailingData"
    BY <1>8, <2>1 DEF MarkerVerdict
  <2>3. input_base' + input_offset' >= Reference(src).position + 1
    BY <1>3, <1>6, <1>10
  <2>4. Refused'
    BY <1>2, <1>7, <1>10, <2>2, <2>3 DEF Refused, Errors
  <2>5. QED
    BY <1>2, <2>2, <2>4 DEF ErrorsAgree
<1>11. QED
  BY <1>2, <1>9, <1>10

(* A turn never goes back in the stream. *)
LEMMA TurnAdvances ==
  ASSUME IInv, Turn, ~Eos
  PROVE  input_base' + input_offset' >= input_base + input_offset
<1>1. /\ pc = "decode"
      /\ input_base \in Nat /\ input_offset \in Nat
  BY TurnDecodes DEF IInv, TypeOK
<1>2. ASSUME NEW n \in Nat, NEW p, Advance(input_offset + n, p)
      PROVE  input_base' + input_offset' >= input_base + input_offset
  BY <1>1, <1>2 DEF Advance, Compact
<1>3. ASSUME NEW n \in Nat, input_base' = input_base,
             input_offset' = input_offset + n
      PROVE  input_base' + input_offset' >= input_base + input_offset
  BY <1>1, <1>3
<1>4. CASE CopyPendingLiteral
  <2> DEFINE count == SmallerOf(pending.literal, dst_len - written)
  <2>1. count \in Nat
    <3>1. pending.literal \in Nat /\ dst_len - written \in Nat
      BY <1>4, PendingFields DEF CopyPendingLiteral, HasRoom, IInv, TypeOK
    <3>2. QED
      BY <3>1 DEF SmallerOf
  <2>2. \E p : Advance(input_offset + count, p)
    BY <1>4 DEF CopyPendingLiteral
  <2> HIDE DEF count
  <2>3. QED
    BY <1>2, <2>1, <2>2
<1>5. CASE Nop
  BY <1>2, <1>5 DEF Nop
<1>6. CASE PrepareLiteral \/ PrepareMatch
  <2>1. /\ HeaderLen(Kind) \in Nat
        /\ input_base' = input_base
        /\ input_offset' = input_offset + HeaderLen(Kind)
    <3>1. AtInstruction
      BY <1>6 DEF PrepareLiteral, PrepareMatch
    <3>2. HeaderLen(Kind) \in 1..3
      BY <3>1, InstructionHeader
    <3>3. QED
      BY <1>6, <3>2 DEF PrepareLiteral, PrepareMatch
  <2>2. QED
    BY <1>3, <2>1
<1>7. CASE CopyPendingMatch
  BY <1>1, <1>7 DEF CopyPendingMatch, inputVars
<1>8. CASE input_base' + input_offset' = input_base + input_offset
  BY <1>1, <1>8
<1>9. \/ CopyPendingLiteral \/ Nop \/ PrepareLiteral \/ PrepareMatch
      \/ CopyPendingMatch
      \/ pc' # "decode"
  BY DEF Turn, ReturnFull, NoInput, InvalidOpcode, PartialInstruction,
     InvalidMatchDistance, NeedInput, Return, ReturnErr
<1>10. QED
  BY <1>1, <1>4, <1>5, <1>6, <1>7, <1>8, <1>9, TurnCases

(* A turn after a marker that was refused. *)
LEMMA TurnRefused ==
  ASSUME IInv, Refused, Turn
  PROVE  Refused' /\ ErrorsAgree'
<1>1. pc = "decode" /\ ~finished /\ RetryAfterError = TRUE
  BY TurnDecodes, RawStreamAssumption DEF IInv, Refused
<1>2. /\ src' = src /\ src \in Seq(Byte)
      /\ input_base \in Nat /\ input_offset \in Nat
  BY TurnCases DEF Eos, IInv, TypeOK, callerVars
<1>3. PICK q : q = Reference(src)
  OBVIOUS
<1>4. q.position \in Nat
  <2>1. q \in RefState
    BY <1>2, <1>3, ReferenceDecides
  <2>2. QED
    BY <2>1 DEF RefState
<1>5. input_base + input_offset >= q.position + 1 /\ q.verdict = "TrailingData"
  BY <1>1, <1>3 DEF Refused
<1>6. q = Reference(src)'
  BY <1>2, <1>3
<1>7. CASE Eos
  <2>1. /\ marker_end' = input_base + input_offset + 1
        /\ ~finished' => /\ input_base' = input_base
                         /\ input_offset' = input_offset + 1
    BY <1>7 DEF Eos
  <2>2. marker_end' > q.position + 1 /\ marker_end' # 0
    BY <1>2, <1>4, <1>5, <2>1
  <2>3. ~finished' => input_base' + input_offset' >= q.position + 1
    BY <1>2, <1>4, <1>5, <2>1
  <2>4. QED
    BY <1>1, <1>5, <1>6, <2>2, <2>3 DEF Refused, ErrorsAgree
<1>8. CASE ~Eos
  <2>1. UNCHANGED eosVars
    BY <1>8, TurnCases
  <2>2. input_base' + input_offset' >= q.position + 1
    <3>1. input_base' + input_offset' >= input_base + input_offset
      BY <1>8, TurnAdvances
    <3>2. input_base' \in Nat /\ input_offset' \in Nat
      <4>1. IInv'
        BY NextIInv DEF Next
      <4>2. QED
        BY <4>1 DEF IInv, TypeOK
    <3>3. ASSUME NEW a \in Nat, NEW b \in Nat, NEW c \in Nat,
                 a >= b, b >= c + 1
          PROVE  a >= c + 1
      BY <3>3
    <3>4. /\ input_base' + input_offset' \in Nat
          /\ input_base + input_offset \in Nat
      <4>1. input_base \in Nat /\ input_offset \in Nat
        BY <1>2
      <4>2. \A a, b \in Nat : a + b \in Nat
        OBVIOUS
      <4>3. QED
        BY <3>2, <4>1, <4>2, Zenon
    <3>5. QED
      BY <1>4, <1>5, <3>1, <3>3, <3>4
  <2>3. QED
    BY <1>1, <1>5, <1>6, <2>1, <2>2 DEF Refused, ErrorsAgree, eosVars
<1>9. QED
  BY <1>7, <1>8

(* SInv is inductive relative to IInv. *)
LEMMA NextSInv ==
  ASSUME IInv, SInv, [Next]_vars
  PROVE  SInv'
<1>1. CASE UNCHANGED vars
  <2>1. UNCHANGED <<src, finished, marker_end, outVars, input_base,
                    input_offset, pc, result, finished_input, fed>>
    BY <1>1 DEF vars, inputVars, eosVars, callVars, callerVars
  <2>2. Onward => Onward'
    BY <2>1, OnwardKept
  <2>3. Ended => Ended'
    BY <2>1 DEF Ended, MarkerVerdict, TailFrom, outVars
  <2>4. QED
    BY <2>1, <2>2, <2>3 DEF SInv, Ready, Refused, ErrorsAgree, outVars
<1>2. CASE Supply \/ Call
  BY <1>2, CallerSInv
<1>3. CASE Turn
  <2>1. Ready'
    BY <1>3, TurnReady DEF SInv
  <2>2. ~Ended
    BY <1>3, TurnDecodes DEF Ended, IInv
  <2>3. CASE Onward
    BY <1>3, <2>1, <2>3, TurnOnward, EosEnds DEF SInv
  <2>4. CASE Refused
    BY <1>3, <2>1, <2>4, TurnRefused DEF SInv
  <2>5. QED
    BY <2>2, <2>3, <2>4 DEF SInv
<1>4. QED
  BY <1>1, <1>2, <1>3 DEF Next

(* The output is the reference's: on its way to the end marker a part of   *)
(* it, at the end all of it.  Once the whole stream was fed, trailing      *)
(* bytes are noticed exactly when the reference refuses them.              *)
AgreesWithReference ==
  LET reference == Reference(src)
  IN  /\ marker_end = 0 => Extends(history, reference.out)
      /\ finished =>
           \/ /\ marker_end = reference.position + 1
              /\ history = reference.out
              /\ fed = Len(src) => (trailing_after_finish = 0
                                      <=> reference.verdict = "Finished")
           \/ /\ RetryAfterError
              /\ reference.verdict = "TrailingData"
              /\ marker_end > reference.position + 1
      /\ result \in Errors =>
           result = reference.verdict \/ reference.verdict = "TrailingData"

(* Before the marker the history is what the reference has written. *)
LEMMA OnwardExtends ==
  ASSUME IInv, Ready, Onward
  PROVE  Extends(history, Reference(src).out)
<1>1. src \in Seq(Byte) /\ history \in Seq(Byte)
  BY DEF IInv, TypeOK
<1>2. D!IInv /\ D!Ahead.verdict = "running"
  BY OneShotState DEF Onward, D!Ahead
<1>3. PICK ahead : ahead = D!Ahead
  OBVIOUS
<1>4. /\ ahead \in D!RefState
      /\ D!Extends(ahead.out, D!Reference(src).out)
  <2>1. src \in Seq(D!Byte)
    BY <1>1 DEF D!Byte, Byte
  <2>2. QED
    BY <1>2, <1>3, <2>1, OneShotAssumption, D!ReachesNext DEF Onward
<1>5. D!Extends(history, ahead.out)
  BY <1>2, <1>3, OneShotAssumption, D!AheadExtends
<1>6. ahead.out \in Seq(Byte)
  BY <1>4 DEF D!RefState, D!Byte, Byte
<1>7. PICK whole : whole = Reference(src).out
  OBVIOUS
<1>8. whole \in Seq(Byte)
  <2>1. Reference(src) \in RefState
    BY <1>1, ReferenceDecides
  <2>2. QED
    BY <1>7, <2>1 DEF RefState
<1>9. D!Extends(ahead.out, whole)
  BY <1>1, <1>4, <1>7, SameReference
<1>10. Extends(history, whole)
  BY <1>1, <1>5, <1>6, <1>8, <1>9, ExtendsTransitive DEF D!Extends, Extends
<1>11. QED
  BY <1>7, <1>10

(* Both parts of the invariant together give it. *)
LEMMA InvariantAgrees ==
  ASSUME IInv, SInv
  PROVE  AgreesWithReference
<1>1. marker_end = 0 => Extends(history, Reference(src).out)
  <2>1. ASSUME marker_end = 0 PROVE Onward
    BY <2>1 DEF SInv, Ended, Refused, IInv, PaddingCounted
  <2>2. QED
    BY <2>1, OnwardExtends DEF SInv
<1>2. ASSUME finished, Ended, fed = Len(src)
      PROVE  trailing_after_finish = 0 <=> Reference(src).verdict = "Finished"
  <2>1. PaddingVerdict
    BY PaddingIsJudged
  <2>2. QED
    BY <1>2, <2>1 DEF PaddingVerdict, Ended, MarkerVerdict
<1>3. ASSUME finished PROVE Ended \/ Refused
  BY <1>3 DEF SInv, Onward, IInv, PaddingCounted
<1>4. QED
  BY <1>1, <1>2, <1>3
  DEF AgreesWithReference, SInv, Ended, Refused, ErrorsAgree

(* What the incremental decoder decodes is what the reference definition   *)
(* says, for every stream, every sequence of chunks and buffers, and a     *)
(* caller that stops at an error or one that goes on (RawDecoder,          *)
(* raw/stream.rs).                                                         *)
THEOREM StreamAgrees == Spec => []AgreesWithReference
<1>1. Init => SInv
  BY InitSInv
<1>2. IInv /\ SInv /\ [Next]_vars => SInv'
  BY NextSInv
<1>3. IInv /\ SInv => AgreesWithReference
  BY InvariantAgrees
<1>4. QED
  BY <1>1, <1>2, <1>3, InitIInv, NextIInv, PTL DEF Spec
=============================================================================
