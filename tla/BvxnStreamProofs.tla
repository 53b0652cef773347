-------------------------- MODULE BvxnStreamProofs --------------------------
(***************************************************************************)
(* The incremental bvxn decoder hands its payload to the RawDecoder it     *)
(* owns once and in order, uses that decoder as its specification allows,  *)
(* never returns more than the header declares, and gives the output and   *)
(* the verdict of the one-shot decoder, for every block, all chunks and    *)
(* all sizes of the buffers.                                               *)
(*                                                                         *)
(* P is a copy of the theory of the RawDecoder.  Its definitions are those *)
(* of Raw, the instance that BvxnStream owns, under other names; the first *)
(* lemmas say so.                                                          *)
(***************************************************************************)
EXTENDS BvxnStreamReference, LzvnProofs

P == INSTANCE RawStreamProofs WITH
  Sources <- {Payload(b) : b \in Blocks},
  src <- Payload(block),
  input <- raw_input,
  input_offset <- raw_input_offset,
  input_base <- raw_input_base,
  history <- raw_history,
  previous_distance <- raw_previous_distance,
  pending <- raw_pending,
  finished_input <- raw_finished_input,
  finished <- raw_finished,
  eos_padding <- raw_eos_padding,
  trailing_after_finish <- raw_trailing_after_finish,
  pc <- raw_pc,
  dst_len <- raw_dst_len,
  written <- raw_written,
  result <- raw_result,
  fed <- raw_fed,
  reported <- raw_reported,
  marker_end <- raw_marker_end

(* Both copies know the same instructions *)
LEMMA SameKinds ==
  /\ \A b : Raw!Classify(b) = P!Classify(b)
  /\ \A kind : Raw!HeaderLen(kind) = P!HeaderLen(kind)
  /\ Raw!LiteralKinds = P!LiteralKinds
  /\ Raw!MatchKinds = P!MatchKinds
BY Zenon DEF Raw!Classify, P!Classify, Raw!HeaderLen, P!HeaderLen,
   Raw!LiteralKinds, P!LiteralKinds, Raw!MatchKinds, P!MatchKinds

(* with the same fields, *)
LEMMA SameLiteralLen ==
  ASSUME NEW s, NEW i
  PROVE  Raw!LiteralLen(s, i) = P!LiteralLen(s, i)
BY Zenon DEF Raw!LiteralLen, P!LiteralLen, Raw!Classify, P!Classify

LEMMA SameMatchLen ==
  ASSUME NEW s, NEW i
  PROVE  Raw!MatchLen(s, i) = P!MatchLen(s, i)
BY Zenon DEF Raw!MatchLen, P!MatchLen, Raw!Classify, P!Classify

LEMMA SameMatchDistance ==
  ASSUME NEW s, NEW i, NEW d
  PROVE  Raw!MatchDistance(s, i, d) = P!MatchDistance(s, i, d)
BY Zenon DEF Raw!MatchDistance, P!MatchDistance, Raw!Classify, P!Classify

LEMMA SameIsComplete == \A s, i : Raw!IsComplete(s, i) <=> P!IsComplete(s, i)
BY SameKinds, SameLiteralLen, Zenon DEF Raw!IsComplete, P!IsComplete

(* the same padding, *)
LEMMA SamePadding ==
  /\ \A t : Raw!AllZero(t) <=> P!AllZero(t)
  /\ \A t : Raw!IsEosPadding(t) <=> P!IsEosPadding(t)
  /\ Raw!MaxEosPadding = P!MaxEosPadding
BY Zenon DEF Raw!IsEosPadding, P!IsEosPadding, Raw!AllZero, P!AllZero,
   Raw!MaxEosPadding, P!MaxEosPadding

(* take the same steps *)
LEMMA SameFeed ==
  ASSUME NEW n, Raw!Feed(n)
  PROVE  P!Feed(n)
BY SamePadding, Zenon
DEF Raw!Feed, P!Feed, Raw!FeedBytes, P!FeedBytes,
    Raw!IsMorePadding, P!IsMorePadding,
    Raw!outVars, P!outVars, Raw!callVars, P!callVars

LEMMA SameFinishInput == Raw!FinishInput => P!FinishInput
BY Zenon
DEF Raw!FinishInput, P!FinishInput, Raw!inputVars, P!inputVars,
    Raw!eosVars, P!eosVars, Raw!outVars, P!outVars,
    Raw!callVars, P!callVars

LEMMA SameCall ==
  /\ \A n : Raw!CallDecode(n) => P!CallDecode(n)
  /\ Raw!CallAfterFinish => P!CallAfterFinish
BY Zenon
DEF Raw!CallDecode, P!CallDecode, Raw!CallAfterFinish, P!CallAfterFinish,
    Raw!MayCall, P!MayCall, Raw!Errors, P!Errors,
    Raw!inputVars, P!inputVars, Raw!eosVars, P!eosVars,
    Raw!outVars, P!outVars, Raw!callerVars, P!callerVars

LEMMA SameTurn == Raw!Turn => P!Turn
<1> USE SameKinds, SameLiteralLen, SameMatchLen, SameMatchDistance,
        SameIsComplete, SamePadding
    DEF Raw!inputVars, P!inputVars, Raw!eosVars, P!eosVars,
        Raw!outVars, P!outVars, Raw!callVars, P!callVars,
        Raw!callerVars, P!callerVars,
        Raw!Return, P!Return, Raw!ReturnErr, P!ReturnErr,
        Raw!NeedInput, P!NeedInput, Raw!Compact, P!Compact,
        Raw!AvailableInput, P!AvailableInput,
        Raw!HasRoom, P!HasRoom, Raw!Fetching, P!Fetching,
        Raw!AtOpcode, P!AtOpcode, Raw!Opcode, P!Opcode,
        Raw!Kind, P!Kind, Raw!AtInstruction, P!AtInstruction,
        Raw!IsBuffered, P!IsBuffered, Raw!Literals, P!Literals,
        Raw!Distance, P!Distance, Raw!IsEmpty, P!IsEmpty,
        Raw!NoPending, P!NoPending,
        Raw!IsValidDistance, P!IsValidDistance
<1>1. Raw!ReturnFull => P!ReturnFull
  BY Zenon DEF Raw!ReturnFull, P!ReturnFull
<1>2. Raw!CopyPendingLiteral => P!CopyPendingLiteral
  BY Zenon DEF Raw!CopyPendingLiteral, P!CopyPendingLiteral,
     Raw!SmallerOf, P!SmallerOf, Raw!Advance, P!Advance
<1>3. Raw!CopyPendingMatch => P!CopyPendingMatch
  BY Zenon DEF Raw!CopyPendingMatch, P!CopyPendingMatch
<1>4. Raw!NoInput => P!NoInput
  BY Zenon DEF Raw!NoInput, P!NoInput
<1>5. Raw!InvalidOpcode => P!InvalidOpcode
  BY Zenon DEF Raw!InvalidOpcode, P!InvalidOpcode
<1>6. Raw!PartialInstruction => P!PartialInstruction
  BY Zenon DEF Raw!PartialInstruction, P!PartialInstruction
<1>7. Raw!PrepareLiteral => P!PrepareLiteral
  BY Zenon DEF Raw!PrepareLiteral, P!PrepareLiteral
<1>8. Raw!PrepareMatch => P!PrepareMatch
  BY Zenon DEF Raw!PrepareMatch, P!PrepareMatch
<1>9. Raw!InvalidMatchDistance => P!InvalidMatchDistance
  BY Zenon DEF Raw!InvalidMatchDistance, P!InvalidMatchDistance
<1>10. Raw!Nop => P!Nop
  BY Zenon DEF Raw!Nop, P!Nop, Raw!Advance, P!Advance
<1>11. Raw!Eos => P!Eos
  BY Zenon DEF Raw!Eos, P!Eos
<1>12. QED
  BY <1>1, <1>2, <1>3, <1>4, <1>5, <1>6, <1>7, <1>8, <1>9, <1>10, <1>11,
     Zenon
  DEF Raw!Turn, P!Turn

(* and have the same invariant. *)
LEMMA SameIInv == (Raw!IInv <=> P!IInv) /\ (Raw!IInv' <=> P!IInv')
BY SamePadding, Zenon
DEF Raw!IInv, P!IInv, Raw!TypeOK, P!TypeOK,
    Raw!CopiesInBounds, P!CopiesInBounds,
    Raw!BufferIsTheUnreadStream, P!BufferIsTheUnreadStream,
    Raw!PaddingCounted, P!PaddingCounted, Raw!TailFrom, P!TailFrom,
    Raw!AvailableInput, P!AvailableInput, Raw!Byte, P!Byte,
    Raw!Statuses, P!Statuses, Raw!Errors, P!Errors
-----------------------------------------------------------------------------
(* The numbers of a header are naturals. *)
LEMMA HeaderNumber ==
  ASSUME NEW b \in Seq(Byte), Len(b) >= BlockHeaderLen, NEW i \in {5, 9}
  PROVE  U32(b, i) \in Nat
<1>1. /\ i \in 1..Len(b)
      /\ i + 1 \in 1..Len(b)
      /\ i + 2 \in 1..Len(b)
      /\ i + 3 \in 1..Len(b)
  BY LenProperties DEF BlockHeaderLen
<1>2. \A x \in Byte : x \in Nat
  BY DEF Byte
<1>3. /\ b[i] \in Nat
      /\ b[i + 1] \in Nat
      /\ b[i + 2] \in Nat
      /\ b[i + 3] \in Nat
  BY <1>1, <1>2, ElementOfSeq
<1> DEFINE w == b[i]
           x == b[i + 1]
           y == b[i + 2]
           z == b[i + 3]
<1>4. w \in Nat /\ x \in Nat /\ y \in Nat /\ z \in Nat
  BY <1>3
<1>5. U32(b, i) = w + x * 256 + y * 65536 + z * 16777216
  BY DEF U32
<1> HIDE DEF w, x, y, z
<1>6. QED
  BY <1>4, <1>5

(* A payload, or what there is of it, is a sequence of bytes, *)
LEMMA PayloadType ==
  ASSUME NEW b \in Seq(Byte)
  PROVE  Payload(b) \in Seq(Byte)
<1>1. \A x \in Byte : x \in Nat
  BY DEF Byte
<1>2. Len(b) \in Nat
  BY LenProperties
<1>3. CASE Len(b) < BlockHeaderLen
  BY <1>3, EmptySeq DEF Payload
<1>4. CASE ~(Len(b) < BlockHeaderLen)
  <2> DEFINE end == SmallerOf(Len(b), BlockHeaderLen
                                        + ParseHeader(b).payload_bytes)
  <2>1. U32(b, 9) \in Nat
    BY <1>1, <1>2, <1>4, HeaderNumber DEF BlockHeaderLen
  <2>2. end \in (BlockHeaderLen + 1 - 1)..Len(b)
    BY <1>2, <1>4, <2>1 DEF SmallerOf, BlockHeaderLen, ParseHeader
  <2>3. Payload(b) = SubSeq(b, BlockHeaderLen + 1, end)
    BY <1>4 DEF Payload
  <2> HIDE DEF end
  <2>4. BlockHeaderLen + 1 \in 1..(Len(b) + 1)
    BY <1>2, <1>4 DEF BlockHeaderLen
  <2>5. QED
    BY <2>2, <2>3, <2>4, RunProperties
<1>5. QED
  BY <1>3, <1>4

(* so the RawDecoder gets what it is specified for, *)
LEMMA RawAssumption == P!RawStreamAssumption
BY BvxnStreamAssumption, PayloadType DEF P!RawStreamAssumption, P!Byte, Byte

(* and a run of it that is there is the run of the block behind the header. *)
LEMMA PayloadRun ==
  ASSUME NEW b \in Seq(Byte), NEW q \in Nat, NEW m \in Nat,
         q + m <= ParseHeader(b).payload_bytes,
         BlockHeaderLen + q + m <= Len(b)
  PROVE  /\ q + m <= Len(Payload(b))
         /\ SubSeq(Payload(b), q + 1, q + m)
              = SubSeq(b, BlockHeaderLen + q + 1, BlockHeaderLen + q + m)
<1> DEFINE end == SmallerOf(Len(b), BlockHeaderLen
                                      + ParseHeader(b).payload_bytes)
<1>1. /\ Len(b) \in Nat
      /\ Len(b) >= BlockHeaderLen
  BY LenProperties DEF BlockHeaderLen
<1>2. U32(b, 9) \in Nat
  BY <1>1, HeaderNumber DEF BlockHeaderLen
<1>3. /\ end \in BlockHeaderLen..Len(b)
      /\ BlockHeaderLen + q + m <= end
  BY <1>1, <1>2 DEF SmallerOf, BlockHeaderLen, ParseHeader
<1>4. Payload(b) = SubSeq(b, BlockHeaderLen + 1, end)
  <2>1. ~(Len(b) < BlockHeaderLen)
    BY <1>1 DEF BlockHeaderLen
  <2>2. QED
    BY <2>1, Zenon DEF Payload
<1> HIDE DEF end
<1>5. /\ end \in 0..Len(b)
      /\ BlockHeaderLen \in 0..end
      /\ q \in 0..(end - BlockHeaderLen)
      /\ m \in 0..(end - BlockHeaderLen - q)
  BY <1>1, <1>3 DEF BlockHeaderLen
<1>6. Len(Payload(b)) = end - BlockHeaderLen
  BY <1>4, <1>5, WindowProperties
<1>7. SubSeq(SubSeq(b, BlockHeaderLen + 1, end), q + 1, q + m)
        = SubSeq(b, BlockHeaderLen + q + 1, BlockHeaderLen + q + m)
  BY <1>5, RunOfRun
<1>8. QED
  BY <1>1, <1>3, <1>4, <1>6, <1>7 DEF BlockHeaderLen

(* The payload of a block that is not cut has the declared length. *)
LEMMA WholePayload ==
  ASSUME NEW b \in Seq(Byte), Len(b) >= BlockHeaderLen,
         BlockHeaderLen + ParseHeader(b).payload_bytes <= Len(b)
  PROVE  Len(Payload(b)) = ParseHeader(b).payload_bytes
<1>1. Len(b) \in Nat
  BY LenProperties
<1>2. PICK m \in Nat : m = ParseHeader(b).payload_bytes
  BY HeaderNumber DEF ParseHeader
<1>3. PICK end : end = BlockHeaderLen + m
  OBVIOUS
<1>4. /\ end \in 0..Len(b)
      /\ BlockHeaderLen \in 0..end
      /\ end - BlockHeaderLen = m
  BY <1>1, <1>2, <1>3 DEF BlockHeaderLen
<1>5. ~(Len(b) < BlockHeaderLen)
  BY <1>1 DEF BlockHeaderLen
<1>6. SmallerOf(Len(b), end) = end
  BY <1>1, <1>4 DEF SmallerOf
<1>7. Payload(b) = SubSeq(b, BlockHeaderLen + 1, end)
  BY <1>2, <1>3, <1>5, <1>6, Zenon DEF Payload
<1>8. QED
  BY <1>2, <1>4, <1>7, WindowProperties
-----------------------------------------------------------------------------
(* The variables of the decoder itself, without those of the RawDecoder. *)
OwnTypes ==
  /\ block \in Seq(Byte)
  /\ fed \in 0..Len(block)
  /\ input \in Seq(Byte)
  /\ input_offset \in 0..Len(input)
  /\ input_base \in Nat
  /\ header \in [raw_bytes : Nat, payload_bytes : Nat] \cup {NoHeader}
  /\ payload_remaining \in Nat
  /\ finished_input \in BOOLEAN
  /\ finished \in BOOLEAN
  /\ trailing_after_finish \in Nat
  /\ pc \in {"idle", "header", "pump", "raw"}
  /\ dst_len \in Nat
  /\ result \in {"none"} \cup Raw!Statuses \cup Errors

(* How far a call is: the header is parsed before anything is pumped, the  *)
(* RawDecoder runs only while this decoder waits for it, and a decoder     *)
(* that has finished does no more work.                                    *)
InStep ==
  /\ ~finished => input_base + Len(input) = fed
  /\ pc # "idle" => ~finished /\ dst_len \in DstLens
  /\ pc = "header" => header = NoHeader
  /\ pc \in {"pump", "raw"} => header # NoHeader
  /\ pc # "raw" => raw_pc = "idle"

(* The inductive invariant. *)
IInv ==
  /\ OwnTypes
  /\ Raw!IInv
  /\ InStep
  /\ PayloadPumpedOnce
  /\ DeclaredSize

(* Nothing is fed, parsed or decoded yet. *)
LEMMA InitRaw == Init => Raw!Init
BY DEF Init, Raw!Init

LEMMA InitCopy == Init => P!Init
BY InitRaw DEF Raw!Init, P!Init, Raw!NoPending, P!NoPending

LEMMA InitIInv == Init => IInv
<1> SUFFICES ASSUME Init PROVE IInv
  OBVIOUS
<1>1. block \in Seq(Byte) /\ Len(block) \in Nat
  BY BvxnStreamAssumption, LenProperties DEF Init, Byte
<1>2. << >> \in Seq(Byte) /\ Len(<< >>) = 0
  BY EmptySeq
<1>3. Raw!IInv
  BY RawAssumption, InitCopy, P!InitIInv, SameIInv
<1>4. OwnTypes
  <2>1. header \in [raw_bytes : Nat, payload_bytes : Nat] \cup {NoHeader}
    BY Zenon DEF Init
  <2>2. input \in Seq(Byte) /\ Len(input) = 0
    BY <1>2 DEF Init
  <2>3. /\ fed \in 0..Len(block)
        /\ input_offset \in 0..Len(input)
        /\ input_base \in Nat
        /\ payload_remaining \in Nat
        /\ trailing_after_finish \in Nat
        /\ dst_len \in Nat
    BY <1>1, <2>2 DEF Init
  <2>4. /\ finished_input \in BOOLEAN
        /\ finished \in BOOLEAN
        /\ pc \in {"idle", "header", "pump", "raw"}
        /\ result \in {"none"} \cup Raw!Statuses \cup Errors
    BY DEF Init
  <2>5. QED
    BY <1>1, <2>1, <2>2, <2>3, <2>4, Zenon DEF OwnTypes
<1>5. PayloadPumpedOnce
  <2>1. SubSeq(block, 1, 0) = << >>
    BY <1>1, SubSeqEmpty
  <2>2. QED
    BY <2>1 DEF Init, PayloadPumpedOnce
<1>6. InStep /\ DeclaredSize
  BY <1>2 DEF Init, InStep, DeclaredSize, Raw!Statuses
<1>7. QED
  BY <1>3, <1>4, <1>5, <1>6 DEF IInv
-----------------------------------------------------------------------------
(* What the RawDecoder does when its owner takes a step. *)

(* A step that leaves the fields of the RawDecoder alone is none of its. *)
LEMMA RawIdles ==
  ASSUME UNCHANGED rawVars, UNCHANGED block
  PROVE  UNCHANGED Raw!vars
BY DEF rawVars, Raw!vars, Raw!inputVars, Raw!eosVars, Raw!outVars,
   Raw!callVars, Raw!callerVars

(* The bytes handed over are the next ones of the payload, *)
LEMMA FeedPayloadIsFeed ==
  ASSUME IInv, FeedPayload
  PROVE  Raw!Next
<1> DEFINE n == ToFeed
<1>1. /\ pc = "pump"
      /\ n # 0
      /\ Raw!FeedBytes(SubSeq(input, input_offset + 1, input_offset + n))
      /\ raw_fed' = raw_fed + n
      /\ UNCHANGED <<block, raw_input_offset, raw_input_base, raw_history,
                     raw_previous_distance, raw_pending, raw_finished_input,
                     raw_finished, raw_pc, raw_dst_len, raw_written,
                     raw_result, raw_reported, raw_marker_end>>
  BY DEF FeedPayload, callerVars
<1>2. /\ block \in Seq(Byte) /\ Len(block) \in Nat
      /\ input \in Seq(Byte) /\ Len(input) \in Nat
      /\ input_offset \in 0..Len(input)
      /\ input_base \in Nat
      /\ payload_remaining \in Nat
      /\ fed \in 0..Len(block)
  BY LenProperties DEF IInv, OwnTypes
<1>3. /\ n \in Nat
      /\ n <= Len(input) - input_offset
      /\ n <= payload_remaining
  BY <1>2 DEF ToFeed, SmallerOf, AvailableInput
<1> HIDE DEF n
<1>4. /\ ~finished
      /\ header # NoHeader
      /\ raw_pc = "idle"
      /\ input_base + Len(input) = fed
  BY <1>1 DEF IInv, InStep
<1>5. /\ input = SubSeq(block, input_base + 1, fed)
      /\ header = ParseHeader(block)
      /\ input_base + input_offset = BlockHeaderLen + raw_fed
      /\ raw_fed + payload_remaining = header.payload_bytes
  BY <1>4 DEF IInv, PayloadPumpedOnce
<1>6. raw_fed \in Nat
  BY DEF IInv, Raw!IInv, Raw!TypeOK
<1>7. /\ raw_fed + n <= ParseHeader(block).payload_bytes
      /\ BlockHeaderLen + raw_fed + n <= Len(block)
  <2>1. raw_fed + n <= raw_fed + payload_remaining
    BY <1>2, <1>3, <1>6
  <2>2. BlockHeaderLen + raw_fed + n <= input_base + Len(input)
    BY <1>2, <1>3, <1>5, <1>6 DEF BlockHeaderLen
  <2>3. raw_fed + n <= ParseHeader(block).payload_bytes
    BY <1>5, <2>1
  <2>4. BlockHeaderLen + raw_fed + n <= Len(block)
    BY <1>2, <1>3, <1>4, <1>6, <2>2 DEF BlockHeaderLen
  <2>5. QED
    BY <2>3, <2>4
<1>8. /\ raw_fed + n <= Len(Payload(block))
      /\ SubSeq(Payload(block), raw_fed + 1, raw_fed + n)
           = SubSeq(block, BlockHeaderLen + raw_fed + 1,
                           BlockHeaderLen + raw_fed + n)
  BY <1>2, <1>3, <1>6, <1>7, PayloadRun
<1>9. SubSeq(input, input_offset + 1, input_offset + n)
        = SubSeq(block, input_base + input_offset + 1,
                        input_base + input_offset + n)
  <2>1. /\ input_base \in 0..fed
        /\ input_offset \in 0..(fed - input_base)
        /\ n \in 0..(fed - input_base - input_offset)
    BY <1>2, <1>3, <1>4
  <2>2. QED
    BY <1>2, <1>5, <2>1, RunOfRun
<1>10. SubSeq(input, input_offset + 1, input_offset + n)
         = SubSeq(Payload(block), raw_fed + 1, raw_fed + n)
  BY <1>5, <1>8, <1>9
<1>11. Raw!FeedBytes(SubSeq(Payload(block), raw_fed + 1, raw_fed + n))
  BY <1>1, <1>10 DEF Raw!FeedBytes, Raw!IsMorePadding
<1>12. Raw!Feed(n)
  BY <1>1, <1>4, <1>8, <1>11 DEF Raw!Feed, Raw!outVars, Raw!callVars
<1>13. n \in 1..(Len(Payload(block)) - raw_fed)
  <2>1. Len(Payload(block)) \in Nat
    BY <1>2, PayloadType, LenProperties
  <2>2. QED
    BY <1>1, <1>3, <1>6, <1>8, <2>1
<1>14. QED
  BY <1>12, <1>13 DEF Raw!Next, Raw!Supply

(* and it is told of the end when it was handed all of the payload. *)
LEMMA FinishPayloadIsFinishInput ==
  ASSUME IInv, FinishPayload
  PROVE  Raw!Next
<1>1. /\ pc = "pump"
      /\ payload_remaining = 0
      /\ ~raw_finished_input
      /\ raw_finished_input' = TRUE
  BY DEF FinishPayload
<1>2. /\ block \in Seq(Byte) /\ Len(block) \in Nat
      /\ Len(input) \in Nat
      /\ input_offset \in 0..Len(input)
      /\ input_base \in Nat
      /\ fed \in 0..Len(block)
  BY LenProperties DEF IInv, OwnTypes
<1>3. /\ ~finished
      /\ header # NoHeader
      /\ raw_pc = "idle"
      /\ input_base + Len(input) = fed
  BY <1>1 DEF IInv, InStep
<1>4. /\ header = ParseHeader(block)
      /\ input_base + input_offset = BlockHeaderLen + raw_fed
      /\ raw_fed + payload_remaining = header.payload_bytes
  BY <1>3 DEF IInv, PayloadPumpedOnce
<1>5. raw_fed \in Nat /\ raw_fed <= Len(Payload(block))
  BY LenProperties DEF IInv, Raw!IInv, Raw!TypeOK
<1>6. raw_fed = ParseHeader(block).payload_bytes
  BY <1>1, <1>4, <1>5
<1>7. BlockHeaderLen + raw_fed <= Len(block)
  BY <1>2, <1>3, <1>4, <1>5 DEF BlockHeaderLen
<1>8. Len(Payload(block)) = raw_fed
  <2>1. Len(block) >= BlockHeaderLen
    BY <1>2, <1>5, <1>7 DEF BlockHeaderLen
  <2>2. BlockHeaderLen + ParseHeader(block).payload_bytes <= Len(block)
    BY <1>6, <1>7
  <2>3. QED
    BY <1>2, <1>6, <2>1, <2>2, WholePayload
<1>9. Raw!FinishInput
  BY <1>1, <1>3, <1>8 DEF FinishPayload, callerVars, Raw!FinishInput,
     Raw!inputVars, Raw!eosVars, Raw!outVars, Raw!callVars
<1>10. QED
  BY <1>9 DEF Raw!Next, Raw!Supply

(* It is called when there is nothing to hand over. *)
LEMMA CallRawIsCall ==
  ASSUME IInv, CallRaw
  PROVE  Raw!Next
<1>1. dst_len \in DstLens
  BY DEF CallRaw, IInv, InStep
<1>2. UNCHANGED block
  BY DEF CallRaw, callerVars
<1>3. CASE Raw!CallDecode(dst_len)
  <2>1. PICK n \in DstLens : n = dst_len
    BY <1>1
  <2>2. Raw!CallDecode(n)
    BY <1>3, <2>1 DEF Raw!CallDecode
  <2>3. QED
    BY <2>2 DEF Raw!Next, Raw!Call
<1>4. CASE Raw!CallAfterFinish
  BY <1>4 DEF Raw!Next, Raw!Call
<1>5. QED
  BY <1>3, <1>4 DEF CallRaw

(* Whatever step the decoder takes, its RawDecoder takes one of its own or *)
(* none.                                                                   *)
LEMMA RawUse ==
  ASSUME IInv, [Next]_vars
  PROVE  [Raw!Next]_(Raw!vars)
<1>1. CASE Supply
  <2>1. UNCHANGED rawVars /\ UNCHANGED block
    BY <1>1 DEF Supply, Feed, FinishInput
  <2>2. QED
    BY <2>1, RawIdles
<1>2. CASE Call
  <2>1. UNCHANGED rawVars /\ UNCHANGED block
    BY <1>2 DEF Call, CallDecode, CallAfterFinish, callerVars
  <2>2. QED
    BY <2>1, RawIdles
<1>3. CASE Step
  <2>1. CASE FeedPayload
    BY <2>1, FeedPayloadIsFeed
  <2>2. CASE FinishPayload
    BY <2>2, FinishPayloadIsFinishInput
  <2>3. CASE CallRaw
    BY <2>3, CallRawIsCall
  <2>4. CASE RunRaw
    BY <2>4 DEF RunRaw, Raw!Next
  <2>5. CASE \/ ShortHeader
             \/ UnsupportedBlockMagic
             \/ TakeHeader
             \/ TrailingPayload
             \/ RawFailed
             \/ SizeMismatch
             \/ NeedInput
             \/ NeedOutput
             \/ Finish
    <3>1. UNCHANGED rawVars /\ UNCHANGED block
      BY <2>5, Zenon DEF ShortHeader, UnsupportedBlockMagic, TakeHeader,
         TrailingPayload, RawFailed, SizeMismatch, NeedInput, NeedOutput,
         Finish, callerVars
    <3>2. QED
      BY <3>1, RawIdles
  <2>6. QED
    BY <1>3, <2>1, <2>2, <2>3, <2>4, <2>5 DEF Step
<1>4. CASE UNCHANGED vars
  <2>1. UNCHANGED rawVars /\ UNCHANGED block
    BY <1>4 DEF vars, callerVars
  <2>2. QED
    BY <2>1, RawIdles
<1>5. QED
  BY <1>1, <1>2, <1>3, <1>4 DEF Next

(* which the copy of its theory takes too. *)
LEMMA RawSteps ==
  ASSUME IInv, [Next]_vars
  PROVE  [P!Next]_(P!vars)
<1>1. ASSUME Raw!Next PROVE P!Next
  <2>1. CASE Raw!Supply
    BY <2>1, SameFeed, SameFinishInput, Zenon DEF Raw!Supply, P!Supply, P!Next
  <2>2. CASE Raw!Call
    BY <2>2, SameCall, Zenon DEF Raw!Call, P!Call, P!Next
  <2>3. CASE Raw!Turn
    BY <2>3, SameTurn, Zenon DEF P!Next
  <2>4. QED
    BY <1>1, <2>1, <2>2, <2>3, Zenon DEF Raw!Next
<1>2. (UNCHANGED Raw!vars) => (UNCHANGED P!vars)
  BY DEF Raw!vars, Raw!inputVars, Raw!eosVars, Raw!outVars, Raw!callVars,
     Raw!callerVars, P!vars, P!inputVars, P!eosVars, P!outVars, P!callVars,
     P!callerVars
<1>3. QED
  BY <1>1, <1>2, RawUse

(* So it keeps its own invariant. *)
LEMMA RawKept ==
  ASSUME IInv, [Next]_vars
  PROVE  Raw!IInv'
<1>1. P!IInv
  BY SameIInv DEF IInv
<1>2. P!IInv'
  BY <1>1, RawAssumption, RawSteps, P!NextIInv
<1>3. QED
  BY <1>2, SameIInv
-----------------------------------------------------------------------------
(* The decoder's own variables.  OwnInv is the invariant without the part  *)
(* of the RawDecoder, which RawKept keeps.                                 *)
OwnInv == OwnTypes /\ InStep /\ PayloadPumpedOnce /\ DeclaredSize

(* Consuming input leaves the rest of the block in the buffer. *)
LEMMA AdvanceStep ==
  ASSUME OwnTypes, ~finished, input_base + Len(input) = fed,
         input = SubSeq(block, input_base + 1, fed),
         NEW offset \in 0..Len(input), Advance(offset)
  PROVE  /\ input' \in Seq(Byte)
         /\ input_offset' \in 0..Len(input')
         /\ input_base' \in Nat
         /\ input' = SubSeq(block, input_base' + 1, fed)
         /\ input_base' + input_offset' = input_base + offset
         /\ input_base' + Len(input') = fed
<1>1. /\ block \in Seq(Byte) /\ Len(block) \in Nat
      /\ input \in Seq(Byte) /\ Len(input) \in Nat
      /\ input_base \in Nat
      /\ fed \in 0..Len(block)
  BY LenProperties DEF OwnTypes
<1>2. CASE /\ input' = SubSeq(input, offset + 1, Len(input))
           /\ input_base' = input_base + offset
           /\ input_offset' = 0
  <2>1. /\ input_base \in 0..fed
        /\ offset \in 0..(fed - input_base)
        /\ Len(input) = fed - input_base
    BY <1>1
  <2>2. input' = SubSeq(block, input_base + offset + 1, fed)
    BY <1>1, <1>2, <2>1, RestOfRun
  <2>3. input_base + offset \in 0..fed
    BY <2>1, <1>1
  <2>4. input' \in Seq(Byte) /\ Len(input') = fed - (input_base + offset)
    BY <1>1, <2>2, <2>3, WindowProperties
  <2>5. QED
    BY <1>1, <1>2, <2>2, <2>3, <2>4
<1>3. CASE input_offset' = offset /\ UNCHANGED <<input, input_base>>
  BY <1>1, <1>3
<1>4. QED
  BY <1>2, <1>3 DEF Advance

(* Feeding appends the next bytes of the block, *)
LEMMA FeedStep ==
  ASSUME IInv, NEW n \in 1..(Len(block) - fed), Feed(n)
  PROVE  OwnInv'
<1> DEFINE chunk == SubSeq(block, fed + 1, fed + n)
<1>1. /\ fed' = fed + n
      /\ UNCHANGED <<input_offset, input_base, header, payload_remaining,
                     finished_input, finished, pc, dst_len, result, block,
                     raw_fed, raw_pc, raw_history>>
  BY DEF Feed, blockVars, callVars, rawVars
<1>2. /\ block \in Seq(Byte) /\ Len(block) \in Nat
      /\ input \in Seq(Byte) /\ Len(input) \in Nat
      /\ input_base \in Nat
      /\ input_offset \in 0..Len(input)
      /\ fed \in 0..Len(block)
      /\ trailing_after_finish \in Nat
  BY LenProperties DEF IInv, OwnTypes
<1>3. chunk \in Seq(Byte) /\ Len(chunk) = n
  <2>1. /\ fed + n \in 0..Len(block)
        /\ fed \in 0..(fed + n)
    BY <1>2
  <2>2. chunk \in Seq(Byte) /\ Len(chunk) = fed + n - fed
    BY <1>2, <2>1, WindowProperties, SMTT(30)
  <2> HIDE DEF chunk
  <2>3. QED
    BY <1>2, <2>2
<1>4. /\ input' \in Seq(Byte)
      /\ Len(input') >= Len(input)
      /\ trailing_after_finish' \in Nat
      /\ ~finished => /\ input' = input \o chunk
                      /\ Len(input') = Len(input) + n
  <2>1. CASE finished
    BY <1>2, <2>1 DEF Feed
  <2>2. CASE ~finished
    <3>1. input' = input \o chunk /\ UNCHANGED trailing_after_finish
      BY <2>2 DEF Feed
    <3> HIDE DEF chunk
    <3>2. input' \in Seq(Byte) /\ Len(input') = Len(input) + n
      BY <1>2, <1>3, <3>1, ConcatProperties
    <3>3. QED
      BY <1>2, <2>2, <3>1, <3>2
  <2>3. QED
    BY <2>1, <2>2
<1> HIDE DEF chunk
<1>5. OwnTypes'
  <2>1. Len(input') \in Nat
    BY <1>4, LenProperties
  <2>2. input_offset' \in 0..Len(input') /\ fed' \in 0..Len(block')
    BY <1>1, <1>2, <1>4, <2>1
  <2>3. QED
    BY <1>1, <1>4, <2>2 DEF IInv, OwnTypes
<1>6. InStep'
  <2>1. ~finished => input_base + (Len(input) + n) = fed + n
    BY <1>2 DEF IInv, InStep
  <2>2. QED
    BY <1>1, <1>4, <2>1 DEF IInv, InStep
<1>7. PayloadPumpedOnce'
  <2>1. ASSUME ~finished
        PROVE  input \o chunk = SubSeq(block, input_base + 1, fed + n)
    <3>1. /\ input_base \in 0..fed
          /\ n \in 0..(Len(block) - fed)
          /\ input = SubSeq(block, input_base + 1, fed)
      BY <1>2, <2>1 DEF IInv, InStep, PayloadPumpedOnce
    <3>2. QED
      BY <1>2, <3>1, ExtendRun DEF chunk
  <2>2. QED
    BY <1>1, <1>4, <2>1 DEF IInv, PayloadPumpedOnce
<1>8. DeclaredSize'
  BY <1>1 DEF IInv, DeclaredSize
<1>9. QED
  BY <1>5, <1>6, <1>7, <1>8 DEF OwnInv

(* declaring the block complete changes nothing the invariant reads, *)
LEMMA FinishInputStep ==
  ASSUME IInv, FinishInput
  PROVE  OwnInv'
<1>1. /\ finished_input' = TRUE
      /\ UNCHANGED <<input, input_offset, input_base, header,
                     payload_remaining, finished, trailing_after_finish, pc,
                     dst_len, result, block, fed, raw_fed, raw_pc,
                     raw_history>>
  BY DEF FinishInput, inputVars, blockVars, endVars, callVars, rawVars
<1>2. QED
  BY <1>1 DEF IInv, OwnInv, OwnTypes, InStep, PayloadPumpedOnce, DeclaredSize

(* and a call may return at once, or go to work. *)
LEMMA CallStep ==
  ASSUME IInv, Call
  PROVE  OwnInv'
<1>1. UNCHANGED <<input, input_offset, input_base, header, payload_remaining,
                  finished_input, finished, trailing_after_finish, block, fed,
                  raw_fed, raw_pc, raw_history>>
  BY DEF Call, CallDecode, CallAfterFinish, inputVars, blockVars, endVars,
     callerVars, rawVars
<1>2. CASE CallAfterFinish
  <2>1. /\ UNCHANGED <<pc, dst_len>>
        /\ \/ result' = "TrailingData"
           \/ result' = "Finished" /\ finished
    BY <1>2 DEF CallAfterFinish, IInv, OwnTypes
  <2>2. result' \in Raw!Statuses \cup Errors
    BY <2>1 DEF Raw!Statuses, Errors, Raw!Errors
  <2>3. OwnTypes'
    BY <1>1, <2>1, <2>2 DEF IInv, OwnTypes
  <2>4. InStep' /\ PayloadPumpedOnce'
    BY <1>1, <2>1 DEF IInv, InStep, PayloadPumpedOnce
  <2>5. DeclaredSize'
    <3>1. finished => Len(raw_history) = header.raw_bytes
      BY DEF IInv, DeclaredSize
    <3>2. finished /\ header # NoHeader => header.raw_bytes \in Nat
      BY DEF IInv, OwnTypes
    <3>3. "TrailingData" \notin Raw!Statuses
      BY DEF Raw!Statuses
    <3>4. finished /\ header # NoHeader => Len(raw_history) <= header.raw_bytes
      BY <3>1, <3>2
    <3>5. QED
      BY <1>1, <2>1, <3>1, <3>3, <3>4 DEF DeclaredSize
  <2>6. QED
    BY <2>3, <2>4, <2>5 DEF OwnInv
<1>3. CASE \E n \in DstLens : CallDecode(n)
  <2>1. PICK n \in DstLens : CallDecode(n)
    BY <1>3
  <2>2. /\ pc = "idle"
        /\ ~finished
        /\ pc' = IF header = NoHeader THEN "header" ELSE "pump"
        /\ dst_len' = n
        /\ n \in Nat
        /\ result' = result
    BY <2>1, BvxnStreamAssumption DEF CallDecode, MayCall
  <2>3. pc' \in {"header", "pump"}
    BY <2>2
  <2>4. OwnTypes'
    BY <1>1, <2>2, <2>3 DEF IInv, OwnTypes
  <2>5. InStep'
    BY <1>1, <2>2, <2>3 DEF IInv, InStep
  <2>6. PayloadPumpedOnce' /\ DeclaredSize'
    BY <1>1, <2>2, <2>3 DEF IInv, PayloadPumpedOnce, DeclaredSize
  <2>7. QED
    BY <2>4, <2>5, <2>6 DEF OwnInv
<1>4. QED
  BY <1>2, <1>3 DEF Call

(* A call that returns disturbs nothing but its result, *)
LEMMA ReturnStep ==
  ASSUME IInv, pc # "idle", raw_pc = "idle",
         NEW status \in Raw!Statuses \cup Errors, Return(status),
         status \in Raw!Statuses /\ header # NoHeader =>
           Len(raw_history) <= header.raw_bytes,
         UNCHANGED <<inputVars, blockVars, endVars, callerVars, rawVars>>
  PROVE  OwnInv'
<1>1. /\ pc' = "idle"
      /\ result' = status
      /\ UNCHANGED <<input, input_offset, input_base, header,
                     payload_remaining, finished_input, finished,
                     trailing_after_finish, dst_len, block, fed, raw_fed,
                     raw_pc, raw_history>>
  BY DEF Return, inputVars, blockVars, endVars, callerVars, rawVars
<1>2. OwnTypes'
  BY <1>1 DEF IInv, OwnTypes
<1>3. InStep' /\ PayloadPumpedOnce' /\ DeclaredSize'
  BY <1>1 DEF IInv, InStep, PayloadPumpedOnce, DeclaredSize
<1>4. QED
  BY <1>2, <1>3 DEF OwnInv

(* whatever it returns; *)
LEMMA ReturnsStep ==
  ASSUME IInv,
         \/ ShortHeader
         \/ UnsupportedBlockMagic
         \/ TrailingPayload
         \/ RawFailed
         \/ SizeMismatch
         \/ NeedInput
         \/ NeedOutput
  PROVE  OwnInv'
<1>1. /\ header # NoHeader => header.raw_bytes \in Nat
      /\ Len(raw_history) \in Nat
  BY LenProperties DEF IInv, OwnTypes, Raw!IInv, Raw!TypeOK
<1>2. ~HasWrongSize /\ header # NoHeader =>
        Len(raw_history) <= header.raw_bytes
  BY <1>1 DEF HasWrongSize
<1>3. \A status \in Errors : status \notin Raw!Statuses
  BY DEF Errors, Raw!Errors, Raw!Statuses
<1>4. CASE ShortHeader
  <2>1. PICK status \in {"TruncatedInput", "NeedInput"} : Return(status)
    BY <1>4 DEF ShortHeader
  <2>2. status \in Raw!Statuses \cup Errors
    BY DEF Raw!Statuses, Errors, Raw!Errors
  <2>3. /\ pc = "header"
        /\ UNCHANGED <<inputVars, blockVars, endVars, callerVars, rawVars>>
    BY <1>4 DEF ShortHeader
  <2>4. header = NoHeader /\ raw_pc = "idle"
    BY <2>3 DEF IInv, InStep
  <2>5. QED
    BY <2>1, <2>2, <2>3, <2>4, ReturnStep
<1>5. CASE UnsupportedBlockMagic \/ TrailingPayload \/ SizeMismatch
  <2>1. PICK status \in {"UnsupportedBlockMagic", "TrailingData",
                         "SizeMismatch"} : Return(status)
    BY <1>5 DEF UnsupportedBlockMagic, TrailingPayload, SizeMismatch
  <2>2. status \in Errors
    BY DEF Errors, Raw!Errors
  <2>3. /\ pc # "idle"
        /\ raw_pc = "idle"
        /\ UNCHANGED <<inputVars, blockVars, endVars, callerVars, rawVars>>
    BY <1>5 DEF UnsupportedBlockMagic, TrailingPayload, SizeMismatch,
       RawReturned, IInv, InStep
  <2>4. QED
    BY <1>3, <2>1, <2>2, <2>3, ReturnStep
<1>6. CASE RawFailed
  <2>1. PICK status \in Errors : Return(status)
    BY <1>6 DEF RawFailed
  <2>2. /\ pc # "idle"
        /\ raw_pc = "idle"
        /\ UNCHANGED <<inputVars, blockVars, endVars, callerVars, rawVars>>
    BY <1>6 DEF RawFailed, RawReturned
  <2>3. QED
    BY <1>3, <2>1, <2>2, ReturnStep
<1>7. CASE NeedInput \/ NeedOutput
  <2>1. PICK status \in {"TruncatedInput", "NeedInput", "NeedOutput"} :
          Return(status)
    BY <1>7 DEF NeedInput, NeedOutput
  <2>2. status \in Raw!Statuses \cup Errors
    BY DEF Raw!Statuses, Errors, Raw!Errors
  <2>3. /\ pc # "idle"
        /\ raw_pc = "idle"
        /\ ~HasWrongSize
        /\ UNCHANGED <<inputVars, blockVars, endVars, callerVars, rawVars>>
    BY <1>7 DEF NeedInput, NeedOutput, RawReturned
  <2>4. QED
    BY <1>2, <2>1, <2>2, <2>3, ReturnStep
<1>8. QED
  BY <1>4, <1>5, <1>6, <1>7

(* finishing needs the declared size. *)
LEMMA FinishStep ==
  ASSUME IInv, Finish
  PROVE  OwnInv'
<1>1. /\ pc = "raw" /\ raw_pc = "idle"
      /\ raw_result = "Finished"
      /\ ~HasWrongSize
      /\ finished' = TRUE
      /\ pc' = "idle"
      /\ result' \in {"TrailingData", "Finished"}
      /\ UNCHANGED <<input, input_offset, input_base, header,
                     payload_remaining, finished_input,
                     trailing_after_finish, dst_len, block, fed, raw_fed,
                     raw_pc, raw_history>>
  BY DEF Finish, RawReturned, Return, inputVars, blockVars, callerVars,
     rawVars
<1>2. result' \in Raw!Statuses \cup Errors
  BY <1>1 DEF Raw!Statuses, Errors, Raw!Errors
<1>3. OwnTypes'
  BY <1>1, <1>2 DEF IInv, OwnTypes
<1>4. InStep' /\ PayloadPumpedOnce'
  BY <1>1 DEF IInv, InStep, PayloadPumpedOnce
<1>5. DeclaredSize'
  <2>1. Len(raw_history) = header.raw_bytes
    BY <1>1 DEF HasWrongSize
  <2>2. Len(raw_history) \in Nat
    BY LenProperties DEF IInv, Raw!IInv, Raw!TypeOK
  <2>3. QED
    BY <1>1, <2>1, <2>2 DEF DeclaredSize
<1>6. QED
  BY <1>3, <1>4, <1>5 DEF OwnInv

(* The header parsed is that of the block. *)
LEMMA TakeHeaderStep ==
  ASSUME IInv, TakeHeader
  PROVE  OwnInv'
<1>1. /\ pc = "header"
      /\ Len(input) - input_offset >= BlockHeaderLen
      /\ header' = ParseHeader(UnreadInput)
      /\ payload_remaining' = header'.payload_bytes
      /\ Advance(input_offset + BlockHeaderLen)
      /\ pc' = "pump"
      /\ UNCHANGED <<finished, trailing_after_finish, block, fed,
                     finished_input, dst_len, result, raw_fed, raw_pc,
                     raw_history>>
  BY DEF TakeHeader, AvailableInput, endVars, callerVars, rawVars
<1>2. /\ block \in Seq(Byte) /\ Len(block) \in Nat
      /\ input \in Seq(Byte) /\ Len(input) \in Nat
      /\ input_offset \in 0..Len(input)
      /\ input_base \in Nat
      /\ fed \in 0..Len(block)
  BY LenProperties DEF IInv, OwnTypes
<1>3. /\ ~finished
      /\ header = NoHeader
      /\ input_base + Len(input) = fed
      /\ raw_pc = "idle"
      /\ dst_len \in DstLens
  BY <1>1 DEF IInv, InStep
<1>4. /\ input = SubSeq(block, input_base + 1, fed)
      /\ input_base = 0 /\ input_offset = 0
      /\ raw_fed = 0
  BY <1>2, <1>3 DEF IInv, PayloadPumpedOnce
<1>5. Len(input) = fed /\ fed >= BlockHeaderLen
  BY <1>1, <1>2, <1>3, <1>4
<1>6. ParseHeader(UnreadInput) = ParseHeader(block)
  <2> DEFINE unread == SubSeq(input, 1, Len(input))
  <2>1. UnreadInput = unread
    BY <1>4 DEF UnreadInput
  <2>2. \A k \in 1..fed : unread[k] = block[k]
    <3>1. /\ \A k \in 1..fed : input[k] = block[k]
          /\ \A k \in 1..fed : unread[k] = input[k]
      <4>1. 0 \in 0..fed /\ fed \in 0..Len(block)
        BY <1>2
      <4>2. /\ SubSeq(block, 0 + 1, fed) = input
            /\ \A k \in 1..(fed - 0) :
                 SubSeq(block, 0 + 1, fed)[k] = block[0 + k]
        BY <1>2, <1>4, <4>1, WindowProperties
      <4>3. \A k \in 1..fed : input[k] = block[k]
        BY <1>2, <4>2
      <4>4. 0 \in 0..fed /\ fed \in 0..Len(input)
        BY <1>2, <1>5
      <4>5. \A k \in 1..(fed - 0) :
              SubSeq(input, 0 + 1, fed)[k] = input[0 + k]
        BY <1>2, <4>4, WindowProperties
      <4>6. SubSeq(input, 0 + 1, fed) = unread
        BY <1>5
      <4>7. \A k \in 1..fed : unread[k] = input[k]
        BY <1>2, <4>5, <4>6
      <4>8. QED
        BY <4>3, <4>7
    <3>2. QED
      BY <3>1
  <2> HIDE DEF unread
  <2>3. \A k \in 5..12 : k \in 1..fed
    BY <1>2, <1>5 DEF BlockHeaderLen
  <2>4. \A k \in 5..12 : unread[k] = block[k]
    BY <2>2, <2>3
  <2>5. U32(unread, 5) = U32(block, 5)
    BY <2>4 DEF U32
  <2>6. U32(unread, 9) = U32(block, 9)
    BY <2>4 DEF U32
  <2>7. QED
    BY <2>1, <2>5, <2>6 DEF ParseHeader
<1>7. /\ header'.payload_bytes \in Nat
      /\ header' \in [raw_bytes : Nat, payload_bytes : Nat]
      /\ header' = ParseHeader(block)
  <2>1. Len(block) >= BlockHeaderLen
    BY <1>2, <1>5 DEF BlockHeaderLen
  <2>2. U32(block, 5) \in Nat /\ U32(block, 9) \in Nat
    BY <1>2, <2>1, HeaderNumber
  <2>3. QED
    BY <1>1, <1>6, <2>2 DEF ParseHeader
<1>8. header' # NoHeader
  <2>1. header'.payload_bytes # -1
    BY <1>7
  <2>2. QED
    BY <2>1 DEF NoHeader
<1>9. /\ input' \in Seq(Byte)
      /\ input_offset' \in 0..Len(input')
      /\ input_base' \in Nat
      /\ input' = SubSeq(block, input_base' + 1, fed)
      /\ input_base' + input_offset'
           = input_base + (input_offset + BlockHeaderLen)
      /\ input_base' + Len(input') = fed
  <2>1. input_offset + BlockHeaderLen \in 0..Len(input)
    BY <1>1, <1>2 DEF BlockHeaderLen
  <2>2. QED
    BY <1>1, <1>3, <1>4, <2>1, AdvanceStep DEF IInv
<1>10. OwnTypes'
  BY <1>1, <1>7, <1>9 DEF IInv, OwnTypes
<1>11. InStep'
  BY <1>1, <1>3, <1>8, <1>9 DEF IInv, InStep
<1>12. PayloadPumpedOnce'
  <2>1. input_base' + input_offset' = BlockHeaderLen + raw_fed
    <3>1. input_base + (input_offset + BlockHeaderLen)
            = BlockHeaderLen + raw_fed
      BY <1>4 DEF BlockHeaderLen
    <3>2. QED
      BY <1>9, <3>1
  <2>2. raw_fed + payload_remaining' = header'.payload_bytes
    <3>1. \A k \in Nat : 0 + k = k
      OBVIOUS
    <3>2. payload_remaining' \in Nat
      BY <1>1, <1>7
    <3>3. payload_remaining' = header'.payload_bytes
      BY <1>1
    <3>4. 0 + payload_remaining' = payload_remaining'
      BY <3>1, <3>2, Zenon
    <3>5. QED
      BY <1>4, <3>3, <3>4
  <2>3. QED
    BY <1>1, <1>7, <1>8, <1>9, <2>1, <2>2 DEF PayloadPumpedOnce
<1>13. DeclaredSize'
  BY <1>1, <1>3 DEF DeclaredSize
<1>14. QED
  BY <1>10, <1>11, <1>12, <1>13 DEF OwnInv

(* Pumping moves bytes from the buffer to the RawDecoder. *)
LEMMA FeedPayloadStep ==
  ASSUME IInv, FeedPayload
  PROVE  OwnInv'
<1> DEFINE n == ToFeed
<1>1. /\ pc = "pump"
      /\ raw_fed' = raw_fed + n
      /\ payload_remaining' = payload_remaining - n
      /\ Advance(input_offset + n)
      /\ UNCHANGED <<header, finished, trailing_after_finish, block, fed,
                     finished_input, pc, dst_len, result, raw_pc,
                     raw_history>>
  BY DEF FeedPayload, endVars, callVars, callerVars
<1>2. /\ Len(input) \in Nat
      /\ input_offset \in 0..Len(input)
      /\ input_base \in Nat
      /\ payload_remaining \in Nat
  BY LenProperties DEF IInv, OwnTypes
<1>3. /\ n \in Nat
      /\ n <= Len(input) - input_offset
      /\ n <= payload_remaining
  BY <1>2 DEF ToFeed, SmallerOf, AvailableInput
<1> HIDE DEF n
<1>4. /\ ~finished
      /\ header # NoHeader
      /\ input_base + Len(input) = fed
  BY <1>1 DEF IInv, InStep
<1>5. /\ input = SubSeq(block, input_base + 1, fed)
      /\ header = ParseHeader(block)
      /\ input_base + input_offset = BlockHeaderLen + raw_fed
      /\ raw_fed + payload_remaining = header.payload_bytes
  BY <1>4 DEF IInv, PayloadPumpedOnce
<1>6. /\ input' \in Seq(Byte)
      /\ input_offset' \in 0..Len(input')
      /\ input_base' \in Nat
      /\ input' = SubSeq(block, input_base' + 1, fed)
      /\ input_base' + input_offset' = input_base + (input_offset + n)
      /\ input_base' + Len(input') = fed
  <2>1. input_offset + n \in 0..Len(input)
    BY <1>2, <1>3
  <2>2. QED
    BY <1>1, <1>4, <1>5, <2>1, AdvanceStep DEF IInv
<1>7. raw_fed \in Nat
  BY DEF IInv, Raw!IInv, Raw!TypeOK
<1>8. /\ payload_remaining' \in Nat
      /\ raw_fed' + payload_remaining' = raw_fed + payload_remaining
      /\ input_base' + input_offset' = BlockHeaderLen + raw_fed'
  <2>1. /\ raw_fed' = raw_fed + n
        /\ payload_remaining' = payload_remaining - n
    BY <1>1
  <2>2. /\ payload_remaining' \in Nat
        /\ raw_fed' + payload_remaining' = raw_fed + payload_remaining
    BY <1>2, <1>3, <1>7, <2>1
  <2>3. input_base + (input_offset + n) = (input_base + input_offset) + n
    BY <1>2, <1>3
  <2>4. input_base' + input_offset' = (BlockHeaderLen + raw_fed) + n
    BY <1>5, <1>6, <2>3
  <2>5. (BlockHeaderLen + raw_fed) + n = BlockHeaderLen + (raw_fed + n)
    BY <1>3, <1>7 DEF BlockHeaderLen
  <2>6. QED
    BY <2>1, <2>2, <2>4, <2>5
<1>9. OwnTypes'
  BY <1>1, <1>6, <1>8 DEF IInv, OwnTypes
<1>10. InStep' /\ DeclaredSize'
  BY <1>1, <1>6 DEF IInv, InStep, DeclaredSize
<1>11. PayloadPumpedOnce'
  BY <1>1, <1>4, <1>5, <1>6, <1>8 DEF PayloadPumpedOnce
<1>12. QED
  BY <1>9, <1>10, <1>11 DEF OwnInv

(* The steps that leave the buffer alone: the RawDecoder is told of the    *)
(* end of its stream, is called, or runs.                                  *)
LEMMA RawOnlyStep ==
  ASSUME IInv, FinishPayload \/ CallRaw \/ RunRaw
  PROVE  OwnInv'
<1>1. /\ UNCHANGED <<input, input_offset, input_base, header,
                     payload_remaining, finished_input, finished,
                     trailing_after_finish, dst_len, result, block, fed>>
      /\ pc \in {"pump", "raw"}
  BY DEF FinishPayload, CallRaw, RunRaw, inputVars, blockVars, endVars,
     callVars, callerVars
<1>2. raw_fed' = raw_fed
  <2>1. CASE FinishPayload
    BY <2>1 DEF FinishPayload
  <2>2. CASE CallRaw
    BY <2>2 DEF CallRaw, Raw!CallDecode, Raw!CallAfterFinish, Raw!callerVars
  <2>3. CASE RunRaw
    BY <2>3, Zenon DEF RunRaw, Raw!Turn, Raw!ReturnFull,
       Raw!CopyPendingLiteral, Raw!CopyPendingMatch, Raw!NoInput,
       Raw!InvalidOpcode, Raw!PartialInstruction, Raw!PrepareLiteral,
       Raw!PrepareMatch, Raw!InvalidMatchDistance, Raw!Nop, Raw!Eos,
       Raw!callerVars
  <2>4. QED
    BY <2>1, <2>2, <2>3
<1>3. /\ pc' \in {"pump", "raw"}
      /\ pc' # "raw" => raw_pc' = raw_pc /\ pc = "pump"
  BY <1>1 DEF FinishPayload, CallRaw, RunRaw, callVars
<1>4. OwnTypes'
  BY <1>1, <1>3 DEF IInv, OwnTypes
<1>5. InStep' /\ PayloadPumpedOnce'
  BY <1>1, <1>2, <1>3 DEF IInv, InStep, PayloadPumpedOnce
<1>6. DeclaredSize'
  <2>1. ~finished
    BY <1>1 DEF IInv, InStep
  <2>2. QED
    BY <1>1, <1>3, <2>1 DEF DeclaredSize
<1>7. QED
  BY <1>4, <1>5, <1>6 DEF OwnInv

(* Nothing moves. *)
LEMMA StutterStep ==
  ASSUME IInv, UNCHANGED vars
  PROVE  OwnInv'
BY DEF IInv, OwnInv, OwnTypes, InStep, PayloadPumpedOnce, DeclaredSize, vars,
   inputVars, blockVars, endVars, callVars, callerVars, rawVars
-----------------------------------------------------------------------------
(* The invariant is inductive: one fact per action, and one for the        *)
(* RawDecoder.                                                             *)
LEMMA NextIInv ==
  ASSUME IInv, [Next]_vars
  PROVE  IInv'
<1>1. OwnInv'
  <2>1. CASE Supply
    BY <2>1, FeedStep, FinishInputStep DEF Supply
  <2>2. CASE Call
    BY <2>2, CallStep
  <2>3. CASE Step
    BY <2>3, ReturnsStep, TakeHeaderStep, FeedPayloadStep, RawOnlyStep,
       FinishStep DEF Step
  <2>4. CASE UNCHANGED vars
    BY <2>4, StutterStep
  <2>5. QED
    BY <2>1, <2>2, <2>3, <2>4 DEF Next
<1>2. Raw!IInv'
  BY RawKept
<1>3. QED
  BY <1>1, <1>2 DEF IInv, OwnInv

(* The bookkeeping of the decoder and of its RawDecoder holds in every     *)
(* reachable state, whatever the caller does.                              *)
THEOREM BvxnInvariant == Spec => []IInv
<1>1. Init => IInv
  BY InitIInv
<1>2. IInv /\ [Next]_vars => IInv'
  BY NextIInv
<1>3. QED
  BY <1>1, <1>2, PTL DEF Spec

(* Every variable keeps its type, those of the RawDecoder included. *)
THEOREM BvxnTypes == Spec => []TypeOK
<1>1. IInv => TypeOK
  BY DEF IInv, OwnTypes, Raw!IInv, TypeOK, Byte
<1>2. QED
  BY <1>1, BvxnInvariant, PTL

(* pump_payload hands every byte of the declared payload to the RawDecoder *)
(* once and in order, and no other byte, however the block is cut.         *)
THEOREM BvxnPumpsOnce == Spec => []PayloadPumpedOnce
<1>1. IInv => PayloadPumpedOnce
  BY DEF IInv
<1>2. QED
  BY <1>1, BvxnInvariant, PTL

(* decode_into never hands out more bytes than the header declares without *)
(* an error, and finishes with exactly as many.                            *)
THEOREM BvxnDeclaredSize == Spec => []DeclaredSize
<1>1. IInv => DeclaredSize
  BY DEF IInv
<1>2. QED
  BY <1>1, BvxnInvariant, PTL

(* The RawDecoder is used as its own specification allows, its stream      *)
(* being the declared payload: what holds of a RawDecoder holds of it.     *)
THEOREM BvxnUsesRawStream == Spec => UsesRawStream
<1>1. Init => Raw!Init
  BY InitRaw
<1>2. IInv /\ [Next]_vars => [Raw!Next]_(Raw!vars)
  BY RawUse
<1>3. QED
  BY <1>1, <1>2, BvxnInvariant, PTL DEF Spec, UsesRawStream, Raw!Spec
-----------------------------------------------------------------------------
(***************************************************************************)
(* The decoder and the one-shot decoder of the whole block.  What the      *)
(* RawDecoder decoded of the payload is known from its theory: P!SInv      *)
(* relates it to the reference definition.                                 *)
(***************************************************************************)

(* The reference of P is the reference here: it executes instructions      *)
(* alike,                                                                  *)
LEMMA SameExecute ==
  ASSUME NEW s, NEW p
  PROVE  P!Execute(s, p) = Execute(s, p)
<1>1. /\ \A b : P!Classify(b) = Classify(b)
      /\ \A kind : P!HeaderLen(kind) = HeaderLen(kind)
      /\ P!LiteralKinds = LiteralKinds
  BY Zenon DEF P!Classify, Classify, P!HeaderLen, HeaderLen,
     P!LiteralKinds, LiteralKinds
<1>2. ASSUME NEW u, NEW i
      PROVE  P!LiteralLen(u, i) = LiteralLen(u, i)
  BY Zenon DEF P!LiteralLen, LiteralLen, P!Classify, Classify
<1>3. ASSUME NEW u, NEW i
      PROVE  P!MatchLen(u, i) = MatchLen(u, i)
  BY Zenon DEF P!MatchLen, MatchLen, P!Classify, Classify
<1>4. ASSUME NEW u, NEW i, NEW d
      PROVE  P!MatchDistance(u, i, d) = MatchDistance(u, i, d)
  BY Zenon DEF P!MatchDistance, MatchDistance, P!Classify, Classify
<1>5. \A u, i : P!IsComplete(u, i) <=> IsComplete(u, i)
  BY <1>1, <1>2, Zenon DEF P!IsComplete, IsComplete
<1>6. \A u : P!IsEosPadding(u) <=> IsEosPadding(u)
  BY Zenon DEF P!IsEosPadding, IsEosPadding, P!AllZero, AllZero,
     P!MaxEosPadding, MaxEosPadding
<1>7. \A o, d, m : P!Periodic(o, d, m) = Periodic(o, d, m)
  BY Zenon DEF P!Periodic, Periodic
<1>8. QED
  BY <1>1, <1>2, <1>3, <1>4, <1>5, <1>6, <1>7, Zenon
  DEF P!Execute, Execute

(* and its states follow each other alike. *)
LEMMA SameReference ==
  ASSUME NEW s \in Seq(Byte)
  PROVE  P!Reference(s) = Reference(s)
<1> DEFINE f == P!Trace(s)
           g == Trace(s)
           b == Len(s) + 1
           T == {n \in 0..b : f[n] = g[n]}
<1>1. Len(s) \in Nat /\ b \in Nat /\ b \in 0..b
  BY LenProperties
<1>2. /\ f[0] = P!Start
      /\ \A n \in 0..Len(s) : f[n + 1] = P!Executed(s, f[n])
  BY <1>1, RawAssumption, P!TraceStates
<1>3. /\ g[0] = Start
      /\ \A n \in 0..Len(s) : g[n + 1] = Executed(s, g[n])
  BY <1>1, TraceStates
<1>4. /\ P!Start = Start
      /\ \A p : P!Executed(s, p) = Executed(s, p)
  BY SameExecute, Zenon DEF P!Start, Start, P!Executed, Executed
<1> HIDE DEF f, g
<1>5. 0 \in T
  BY <1>1, <1>2, <1>3, <1>4
<1>6. ASSUME NEW n \in 0..(b - 1), n \in T
      PROVE  n + 1 \in T
  <2>1. n \in 0..Len(s) /\ n + 1 \in 0..b
    BY <1>1
  <2>2. f[n] = g[n]
    BY <1>6
  <2>3. QED
    BY <1>2, <1>3, <1>4, <2>1, <2>2
<1>7. \A n \in 0..b : n \in T
  <2> HIDE DEF T, b
  <2> QED
    BY <1>1, <1>5, <1>6, UpTo
<1>8. f[b] = g[b]
  BY <1>1, <1>7
<1>9. QED
  BY <1>8 DEF f, g, P!Reference, Reference

LEMMA PayloadReference ==
  ASSUME IInv
  PROVE  P!Reference(Payload(block)) = Reference(Payload(block))
<1>1. Payload(block) \in Seq(Byte)
  BY PayloadType DEF IInv, OwnTypes
<1>2. QED
  BY <1>1, SameReference

(* A block that is neither cut nor followed by more. *)
LEMMA WholeBlock ==
  ASSUME NEW b \in Seq(Byte)
  PROVE  SplitBlock(b) = "ok"
           <=> /\ Len(b) >= BlockHeaderLen
               /\ HasMagic(b)
               /\ Len(b) = BlockHeaderLen + ParseHeader(b).payload_bytes
<1>1. Len(b) \in Nat
  BY LenProperties
<1>2. CASE Len(b) >= BlockHeaderLen
  <2>1. ParseHeader(b).payload_bytes \in Nat
    BY <1>2, HeaderNumber DEF ParseHeader
  <2>2. PICK total \in Nat :
          total = BlockHeaderLen + ParseHeader(b).payload_bytes
    BY <2>1 DEF BlockHeaderLen
  <2>3. ~(Len(b) < BlockHeaderLen)
    BY <1>1, <1>2 DEF BlockHeaderLen
  <2>4. SplitBlock(b) = IF ~HasMagic(b) THEN "UnsupportedBlockMagic"
                        ELSE IF Len(b) < total THEN "TruncatedInput"
                        ELSE IF Len(b) > total THEN "TrailingData"
                        ELSE "ok"
    BY <2>2, <2>3, Zenon DEF SplitBlock
  <2>5. QED
    BY <1>1, <1>2, <2>2, <2>4
<1>3. CASE ~(Len(b) >= BlockHeaderLen)
  <2>1. Len(b) < BlockHeaderLen
    BY <1>1, <1>3 DEF BlockHeaderLen
  <2>2. SplitBlock(b) = "TruncatedInput"
    BY <2>1, Zenon DEF SplitBlock
  <2>3. QED
    BY <1>3, <2>2
<1>4. QED
  BY <1>2, <1>3

(* How a call that goes on got where it is.  The block was declared        *)
(* complete when it was fed; the RawDecoder runs when the buffer is empty; *)
(* it says Finished only if nothing behind its end marker was refused; and *)
(* after finishing every byte fed is a trailing one.  An error is one that *)
(* the one-shot decoder would have found too, unless a trailing byte was   *)
(* noticed.                                                                *)
EndInv ==
  /\ finished_input => fed = Len(block)
  /\ header # NoHeader => HasMagic(block)
  /\ pc = "raw" => AvailableInput = 0
  /\ pc = "raw" /\ raw_pc = "idle" /\ raw_result = "Finished" =>
       raw_finished /\ raw_trailing_after_finish = 0
  /\ trailing_after_finish # 0 => finished
  /\ finished =>
       /\ header # NoHeader
       /\ raw_finished
       /\ raw_trailing_after_finish = 0
       /\ fed = BlockHeaderLen + raw_fed + trailing_after_finish
  /\ result \in Errors => ~OneShotAccepts(block) \/ trailing_after_finish # 0

LEMMA InitEnd ==
  ASSUME Init
  PROVE  EndInv /\ P!SInv
<1>1. P!SInv
  BY RawAssumption, InitCopy, P!InitSInv
<1>2. "none" \notin Errors
  BY DEF Errors, Raw!Errors
<1>3. QED
  BY <1>1, <1>2 DEF Init, EndInv

(* What the decoder has read of the block, *)
LEMMA Consumed ==
  ASSUME IInv, ~finished, header # NoHeader
  PROVE  /\ Len(block) \in Nat /\ fed \in 0..Len(block)
         /\ raw_fed \in Nat /\ payload_remaining \in Nat
         /\ AvailableInput \in Nat
         /\ fed = BlockHeaderLen + raw_fed + AvailableInput
         /\ ParseHeader(block).payload_bytes = raw_fed + payload_remaining
<1>1. /\ block \in Seq(Byte) /\ Len(block) \in Nat
      /\ fed \in 0..Len(block)
      /\ Len(input) \in Nat
      /\ input_offset \in 0..Len(input)
      /\ input_base \in Nat
      /\ payload_remaining \in Nat
      /\ raw_fed \in Nat
  BY LenProperties DEF IInv, OwnTypes, Raw!IInv, Raw!TypeOK
<1>2. /\ input_base + Len(input) = fed
      /\ input_base + input_offset = BlockHeaderLen + raw_fed
      /\ raw_fed + payload_remaining = ParseHeader(block).payload_bytes
  BY DEF IInv, InStep, PayloadPumpedOnce
<1>3. AvailableInput = Len(input) - input_offset
  BY DEF AvailableInput
<1>4. fed = BlockHeaderLen + raw_fed + AvailableInput
  BY <1>1, <1>2, <1>3 DEF BlockHeaderLen
<1>5. QED
  BY <1>1, <1>2, <1>3, <1>4

(* and before it has parsed the header. *)
LEMMA Unparsed ==
  ASSUME IInv, pc = "header"
  PROVE  /\ AvailableInput = fed
         /\ fed \in Nat /\ fed <= Len(block) /\ Len(block) \in Nat
         /\ fed >= BlockHeaderLen => (HasMagic(UnreadInput) <=> HasMagic(block))
<1>1. /\ block \in Seq(Byte) /\ Len(block) \in Nat
      /\ fed \in 0..Len(block)
      /\ input \in Seq(Byte) /\ Len(input) \in Nat
      /\ input_offset \in 0..Len(input)
      /\ input_base \in Nat
  BY LenProperties DEF IInv, OwnTypes
<1>2. /\ input_base + Len(input) = fed
      /\ input_base + input_offset = 0
      /\ input = SubSeq(block, input_base + 1, fed)
  BY DEF IInv, InStep, PayloadPumpedOnce
<1>3. input_base = 0 /\ input_offset = 0 /\ Len(input) = fed
  BY <1>1, <1>2
<1>4. ASSUME fed >= BlockHeaderLen
      PROVE  HasMagic(UnreadInput) <=> HasMagic(block)
  <2>1. /\ fed \in 0..Len(block) /\ fed \in 0..Len(input)
        /\ 0 \in 0..fed /\ 0 \in 0..(fed - 0) /\ 4 \in 0..(fed - 0 - 0)
    BY <1>1, <1>3, <1>4 DEF BlockHeaderLen
  <2>2. SubSeq(SubSeq(block, 0 + 1, fed), 0 + 1, 0 + 4)
          = SubSeq(block, 0 + 0 + 1, 0 + 0 + 4)
    BY <1>1, <2>1, RunOfRun
  <2>3. SubSeq(SubSeq(input, 0 + 1, fed), 0 + 1, 0 + 4)
          = SubSeq(input, 0 + 0 + 1, 0 + 0 + 4)
    BY <1>1, <2>1, RunOfRun
  <2>4. 0 + 1 = 1 /\ 0 + 4 = 4 /\ 0 + 0 + 1 = 1 /\ 0 + 0 + 4 = 4
    OBVIOUS
  <2>5. input = SubSeq(block, 1, fed) /\ UnreadInput = SubSeq(input, 1, fed)
    BY <1>2, <1>3, <2>4, Zenon DEF UnreadInput
  <2>6. SubSeq(input, 1, 4) = SubSeq(block, 1, 4)
    BY <2>2, <2>4, <2>5, Zenon
  <2>7. SubSeq(UnreadInput, 1, 4) = SubSeq(input, 1, 4)
    BY <2>3, <2>4, <2>5, Zenon
  <2>8. QED
    BY <2>6, <2>7 DEF HasMagic
<1>5. QED
  BY <1>1, <1>3, <1>4 DEF AvailableInput

(* What the one-shot decoder accepts. *)
LEMMA Accepted ==
  ASSUME IInv, OneShotAccepts(block)
  PROVE  /\ Len(block) >= BlockHeaderLen
         /\ HasMagic(block)
         /\ Len(block) = BlockHeaderLen + ParseHeader(block).payload_bytes
         /\ Reference(Payload(block)).verdict = "Finished"
         /\ Len(Reference(Payload(block)).out) = ParseHeader(block).raw_bytes
<1>1. block \in Seq(Byte) /\ SplitBlock(block) = "ok"
  BY DEF IInv, OwnTypes, OneShotAccepts
<1>2. QED
  BY <1>1, WholeBlock DEF OneShotAccepts

(* It refuses a payload that the RawDecoder refuses, *)
LEMMA RawErrorRefused ==
  ASSUME IInv, P!SInv, raw_result \in Errors
  PROVE  ~OneShotAccepts(block)
<1>1. raw_result \in P!Errors
  BY DEF IInv, Raw!IInv, Raw!TypeOK, Raw!Statuses, Errors, Raw!Errors, P!Errors
<1>2. P!Reference(Payload(block)).verdict # "Finished"
  BY <1>1 DEF P!SInv, P!ErrorsAgree, P!Errors
<1>3. QED
  BY <1>2, PayloadReference, Accepted

(* and one that decodes to more than is declared, or to less. *)
LEMMA WrongSizeRefused ==
  ASSUME IInv, P!SInv, ~finished, header # NoHeader, HasWrongSize,
         raw_result = "Finished" => raw_finished
  PROVE  ~OneShotAccepts(block)
<1> SUFFICES ASSUME OneShotAccepts(block)
             PROVE  FALSE
  OBVIOUS
<1>1. PICK r : r = P!Reference(Payload(block))
  OBVIOUS
<1>2. r.verdict = "Finished" /\ Len(r.out) = header.raw_bytes
  <2>1. header = ParseHeader(block)
    BY DEF IInv, PayloadPumpedOnce
  <2>2. QED
    BY <1>1, <2>1, PayloadReference, Accepted
<1>3. header.raw_bytes \in Nat /\ Len(raw_history) \in Nat
  BY LenProperties DEF IInv, OwnTypes, Raw!IInv, Raw!TypeOK
<1>4. P!IInv
  BY SameIInv DEF IInv
<1>5. CASE P!Onward
  <2>1. ~raw_finished
    BY <1>4, <1>5 DEF P!IInv, P!PaddingCounted, P!Onward
  <2>2. P!Extends(raw_history, r.out)
    BY <1>1, <1>4, <1>5, RawAssumption, P!OnwardExtends DEF P!SInv
  <2>3. Len(raw_history) <= Len(r.out)
    BY <2>2 DEF P!Extends
  <2>4. Len(raw_history) > header.raw_bytes
    BY <2>1 DEF HasWrongSize
  <2>5. QED
    BY <1>2, <1>3, <2>3, <2>4
<1>6. CASE P!Ended
  <2>1. Len(raw_history) = header.raw_bytes
    BY <1>1, <1>2, <1>6 DEF P!Ended
  <2>2. QED
    BY <1>3, <2>1 DEF HasWrongSize
<1>7. CASE P!Refused
  BY <1>1, <1>2, <1>7 DEF P!Refused
<1>8. QED
  BY <1>5, <1>6, <1>7 DEF P!SInv

(* A call that returns an error for good keeps the invariant, *)
LEMMA ReturnEnd ==
  ASSUME IInv, EndInv, NEW status, Return(status),
         status \in Errors => ~OneShotAccepts(block),
         UNCHANGED <<inputVars, blockVars, endVars, callerVars, rawVars>>
  PROVE  EndInv'
<1>1. /\ pc' = "idle"
      /\ result' = status
      /\ UNCHANGED <<header, finished_input, finished,
                     trailing_after_finish, block, fed, raw_fed,
                     raw_finished, raw_trailing_after_finish>>
  BY DEF Return, inputVars, blockVars, endVars, callerVars, rawVars
<1>2. QED
  BY <1>1 DEF EndInv

(* and these are the calls that return. *)
LEMMA ReturnsEnd ==
  ASSUME IInv, EndInv, P!SInv,
         \/ ShortHeader
         \/ UnsupportedBlockMagic
         \/ TrailingPayload
         \/ RawFailed
         \/ SizeMismatch
         \/ NeedInput
         \/ NeedOutput
  PROVE  EndInv'
<1>1. "NeedInput" \notin Errors /\ "NeedOutput" \notin Errors
  BY DEF Errors, Raw!Errors
<1>2. CASE ShortHeader
  <2>1. PICK status : /\ Return(status)
                      /\ status = IF finished_input THEN "TruncatedInput"
                                                     ELSE "NeedInput"
    BY <1>2 DEF ShortHeader
  <2>2. /\ pc = "header"
        /\ AvailableInput < BlockHeaderLen
        /\ UNCHANGED <<inputVars, blockVars, endVars, callerVars, rawVars>>
    BY <1>2 DEF ShortHeader
  <2>3. ASSUME finished_input PROVE ~OneShotAccepts(block)
    <3>1. Len(block) < BlockHeaderLen /\ Len(block) \in Nat
      BY <2>2, <2>3, Unparsed DEF EndInv
    <3>2. ~(Len(block) >= BlockHeaderLen)
      BY <3>1 DEF BlockHeaderLen
    <3>3. QED
      BY <3>2, Accepted
  <2>4. QED
    BY <1>1, <2>1, <2>2, <2>3, ReturnEnd
<1>3. CASE UnsupportedBlockMagic
  <2>1. /\ pc = "header"
        /\ AvailableInput >= BlockHeaderLen
        /\ ~HasMagic(UnreadInput)
        /\ Return("UnsupportedBlockMagic")
        /\ UNCHANGED <<inputVars, blockVars, endVars, callerVars, rawVars>>
    BY <1>3 DEF UnsupportedBlockMagic
  <2>2. ~HasMagic(block)
    BY <2>1, Unparsed
  <2>3. QED
    BY <2>1, <2>2, Accepted, ReturnEnd
<1>4. CASE TrailingPayload
  <2>1. /\ pc = "pump"
        /\ payload_remaining = 0
        /\ AvailableInput # 0
        /\ Return("TrailingData")
        /\ UNCHANGED <<inputVars, blockVars, endVars, callerVars, rawVars>>
    BY <1>4 DEF TrailingPayload, HasTrailingInput
  <2>2. ~finished /\ header # NoHeader
    BY <2>1 DEF IInv, InStep
  <2>3. Len(block) # BlockHeaderLen + ParseHeader(block).payload_bytes
    BY <2>1, <2>2, Consumed DEF BlockHeaderLen
  <2>4. QED
    BY <2>1, <2>3, Accepted, ReturnEnd
<1>5. CASE RawFailed
  <2>1. /\ raw_result \in Errors
        /\ Return(raw_result)
        /\ UNCHANGED <<inputVars, blockVars, endVars, callerVars, rawVars>>
    BY <1>5 DEF RawFailed
  <2>2. QED
    BY <2>1, RawErrorRefused, ReturnEnd
<1>6. CASE SizeMismatch
  <2>1. /\ pc = "raw" /\ raw_pc = "idle"
        /\ HasWrongSize
        /\ Return("SizeMismatch")
        /\ UNCHANGED <<inputVars, blockVars, endVars, callerVars, rawVars>>
    BY <1>6 DEF SizeMismatch, RawReturned
  <2>2. /\ ~finished /\ header # NoHeader
        /\ raw_result = "Finished" => raw_finished
    BY <2>1 DEF IInv, InStep, EndInv
  <2>3. QED
    BY <2>1, <2>2, WrongSizeRefused, ReturnEnd
<1>7. CASE NeedInput
  <2>1. PICK status : /\ Return(status)
                      /\ status = IF PayloadIsCut THEN "TruncatedInput"
                                                  ELSE "NeedInput"
    BY <1>7 DEF NeedInput
  <2>2. /\ pc = "raw"
        /\ UNCHANGED <<inputVars, blockVars, endVars, callerVars, rawVars>>
    BY <1>7 DEF NeedInput, RawReturned
  <2>3. ~finished /\ header # NoHeader
    BY <2>2 DEF IInv, InStep
  <2>4. ASSUME PayloadIsCut PROVE ~OneShotAccepts(block)
    <3>1. /\ payload_remaining # 0
          /\ fed = Len(block)
          /\ AvailableInput = 0
      BY <2>4 DEF PayloadIsCut, EndInv
    <3>2. Len(block) # BlockHeaderLen + ParseHeader(block).payload_bytes
      BY <2>3, <3>1, Consumed DEF BlockHeaderLen
    <3>3. QED
      BY <3>2, Accepted
  <2>5. QED
    BY <1>1, <2>1, <2>2, <2>4, ReturnEnd
<1>8. CASE NeedOutput
  <2>1. /\ Return("NeedOutput")
        /\ UNCHANGED <<inputVars, blockVars, endVars, callerVars, rawVars>>
    BY <1>8 DEF NeedOutput
  <2>2. QED
    BY <1>1, <2>1, ReturnEnd
<1>9. QED
  BY <1>2, <1>3, <1>4, <1>5, <1>6, <1>7, <1>8

(* Finishing leaves nothing in the buffer. *)
LEMMA FinishEnd ==
  ASSUME IInv, EndInv, Finish
  PROVE  EndInv'
<1>1. /\ pc = "raw" /\ raw_pc = "idle" /\ raw_result = "Finished"
      /\ finished' = TRUE
      /\ pc' = "idle"
      /\ result' = IF AvailableInput # 0 THEN "TrailingData" ELSE "Finished"
      /\ UNCHANGED <<header, finished_input, trailing_after_finish, block,
                     fed, raw_fed, raw_finished, raw_trailing_after_finish>>
  BY DEF Finish, RawReturned, Return, inputVars, blockVars, callerVars,
     rawVars
<1>2. /\ AvailableInput = 0
      /\ ~finished /\ header # NoHeader
      /\ raw_finished /\ raw_trailing_after_finish = 0
      /\ trailing_after_finish = 0
  BY <1>1 DEF EndInv, IInv, InStep
<1>3. fed = BlockHeaderLen + raw_fed + trailing_after_finish
  BY <1>2, Consumed
<1>4. "Finished" \notin Errors
  BY DEF Errors, Raw!Errors
<1>5. QED
  BY <1>1, <1>2, <1>3, <1>4 DEF EndInv

(* The caller's steps. *)
LEMMA SupplyEnd ==
  ASSUME IInv, EndInv, Supply
  PROVE  EndInv'
<1>1. ASSUME NEW n \in 1..(Len(block) - fed), Feed(n)
      PROVE  EndInv'
  <2>1. /\ pc = "idle"
        /\ fed' = fed + n
        /\ trailing_after_finish'
             = IF finished THEN trailing_after_finish + n
                           ELSE trailing_after_finish
        /\ UNCHANGED <<header, finished_input, finished, pc, result, block,
                       raw_fed, raw_finished, raw_trailing_after_finish>>
    BY <1>1 DEF Feed, blockVars, callVars, rawVars
  <2>2. /\ Len(block) \in Nat /\ fed \in 0..Len(block)
        /\ trailing_after_finish \in Nat
        /\ raw_fed \in Nat
    BY LenProperties DEF IInv, OwnTypes, Raw!IInv, Raw!TypeOK
  <2>3. n \in Nat /\ n # 0 /\ fed # Len(block)
    BY <1>1, <2>2
  <2>4. ~finished_input
    BY <2>3 DEF EndInv
  <2>5. /\ trailing_after_finish # 0 => trailing_after_finish' # 0
        /\ trailing_after_finish' # 0 => finished
    BY <2>1, <2>2, <2>3 DEF EndInv
  <2>6. finished => fed + n
                      = BlockHeaderLen + raw_fed + (trailing_after_finish + n)
    <3>1. finished => fed = BlockHeaderLen + raw_fed + trailing_after_finish
      BY DEF EndInv
    <3>2. QED
      BY <2>2, <2>3, <3>1 DEF BlockHeaderLen
  <2>7. finished => fed' = BlockHeaderLen + raw_fed + trailing_after_finish'
    BY <2>1, <2>6
  <2>8. QED
    BY <2>1, <2>4, <2>5, <2>7 DEF EndInv
<1>2. CASE FinishInput
  <2>1. /\ pc = "idle"
        /\ fed = Len(block)
        /\ UNCHANGED <<header, finished, trailing_after_finish, pc, result,
                       block, fed, raw_fed, raw_finished,
                       raw_trailing_after_finish>>
    BY <1>2 DEF FinishInput, blockVars, endVars, callVars, rawVars
  <2>2. QED
    BY <2>1 DEF EndInv
<1>3. QED
  BY <1>1, <1>2 DEF Supply

LEMMA CallEnd ==
  ASSUME IInv, EndInv, Call
  PROVE  EndInv'
<1>1. UNCHANGED <<header, finished_input, finished, trailing_after_finish,
                  block, fed, raw_fed, raw_finished,
                  raw_trailing_after_finish>>
  BY DEF Call, CallDecode, CallAfterFinish, blockVars, endVars, callerVars,
     rawVars
<1>2. CASE CallAfterFinish
  <2>1. /\ pc = "idle" /\ pc' = pc
        /\ result' = IF trailing_after_finish # 0 THEN "TrailingData"
                                                   ELSE "Finished"
    BY <1>2 DEF CallAfterFinish, MayCall
  <2>2. "Finished" \notin Errors
    BY DEF Errors, Raw!Errors
  <2>3. QED
    BY <1>1, <2>1, <2>2 DEF EndInv
<1>3. CASE \E n \in DstLens : CallDecode(n)
  <2>1. pc' # "raw" /\ result' = result
    BY <1>3 DEF CallDecode
  <2>2. QED
    BY <1>1, <2>1 DEF EndInv
<1>4. QED
  BY <1>2, <1>3 DEF Call

(* The steps of a call before the RawDecoder runs, *)
LEMMA PumpEnd ==
  ASSUME IInv, EndInv, TakeHeader \/ FeedPayload \/ FinishPayload
  PROVE  EndInv'
<1>1. /\ pc' = "pump"
      /\ UNCHANGED <<finished_input, finished, trailing_after_finish, block,
                     fed, result>>
      /\ pc # "idle"
  BY DEF TakeHeader, FeedPayload, FinishPayload, endVars, callVars,
     callerVars
<1>2. ~finished
  BY <1>1 DEF IInv, InStep
<1>3. header' # NoHeader => HasMagic(block)
  <2>1. CASE TakeHeader
    <3>1. /\ pc = "header"
          /\ AvailableInput >= BlockHeaderLen
          /\ HasMagic(UnreadInput)
      BY <2>1 DEF TakeHeader
    <3>2. QED
      BY <3>1, Unparsed
  <2>2. CASE FeedPayload \/ FinishPayload
    <3>1. header' = header
      BY <2>2 DEF FeedPayload, FinishPayload, blockVars
    <3>2. QED
      BY <3>1 DEF EndInv
  <2>3. QED
    BY <2>1, <2>2
<1>4. QED
  BY <1>1, <1>2, <1>3 DEF EndInv

(* and its call and its turns. *)
LEMMA RawEnd ==
  ASSUME IInv, EndInv, CallRaw \/ RunRaw
  PROVE  EndInv'
<1>1. /\ pc' = "raw" /\ pc \in {"pump", "raw"}
      /\ UNCHANGED <<input, input_offset, header, payload_remaining,
                     finished_input, finished, trailing_after_finish, block,
                     fed, result>>
  BY DEF CallRaw, RunRaw, inputVars, blockVars, endVars, callVars, callerVars
<1>2. ~finished /\ header # NoHeader /\ P!IInv
  BY <1>1, SameIInv DEF IInv, InStep
<1>3. AvailableInput = 0
  <2>1. CASE CallRaw
    <3>1. ToFeed = 0 /\ ~HasTrailingInput
      BY <2>1 DEF CallRaw
    <3>2. AvailableInput \in Nat /\ payload_remaining \in Nat
      BY <1>2, Consumed
    <3>3. QED
      BY <3>1, <3>2 DEF ToFeed, SmallerOf, HasTrailingInput
  <2>2. CASE RunRaw
    BY <2>2 DEF RunRaw, EndInv
  <2>3. QED
    BY <2>1, <2>2
<1>4. ASSUME raw_pc' = "idle", raw_result' = "Finished"
      PROVE  raw_finished' /\ raw_trailing_after_finish' = 0
  <2>1. CASE Raw!CallDecode(dst_len)
    BY <1>4, <2>1 DEF Raw!CallDecode
  <2>2. CASE Raw!CallAfterFinish
    BY <1>4, <2>2 DEF Raw!CallAfterFinish, Raw!eosVars
  <2>3. CASE Raw!Turn
    <3>1. P!Turn /\ raw_pc = "decode"
      <4>1. P!Turn
        BY <2>3, SameTurn
      <4>2. QED
        BY <4>1, RawAssumption, P!TurnDecodes
    <3>2. ~raw_finished /\ raw_trailing_after_finish = 0
      BY <1>2, <3>1 DEF P!IInv, P!PaddingCounted
    <3>3. P!Eos
      BY <1>2, <1>4, <3>1, RawAssumption, P!TurnCases DEF P!Errors
    <3>4. QED
      BY <1>4, <3>2, <3>3 DEF P!Eos, P!ReturnErr
  <2>4. QED
    BY <2>1, <2>2, <2>3 DEF CallRaw, RunRaw
<1>5. AvailableInput' = 0
  BY <1>1, <1>3 DEF AvailableInput
<1>6. QED
  BY <1>1, <1>2, <1>4, <1>5 DEF EndInv

(* Both are inductive relative to IInv. *)
LEMMA NextEnd ==
  ASSUME IInv, EndInv, P!SInv, [Next]_vars
  PROVE  EndInv' /\ P!SInv'
<1>1. P!SInv'
  <2>1. P!IInv
    BY SameIInv DEF IInv
  <2>2. QED
    BY <2>1, RawAssumption, RawSteps, P!NextSInv
<1>2. EndInv'
  <2>1. CASE Step
    BY <2>1, ReturnsEnd, FinishEnd, PumpEnd, RawEnd DEF Step
  <2>2. CASE UNCHANGED vars
    BY <2>2 DEF vars, inputVars, blockVars, endVars, callVars, callerVars,
       rawVars, EndInv, AvailableInput
  <2>3. QED
    BY <2>1, <2>2, SupplyEnd, CallEnd DEF Next
<1>3. QED
  BY <1>1, <1>2

(* The decoder finished where the reference says, or past a marker that    *)
(* was refused; and the sizes that it has checked are those that the       *)
(* one-shot decoder checks.                                                *)
LEMMA EndAgrees ==
  ASSUME IInv, EndInv, P!SInv
  PROVE  FinishedAgrees
<1> DEFINE r == Reference(Payload(block))
<1> SUFFICES ASSUME finished
             PROVE  \/ /\ raw_marker_end = r.position + 1
                       /\ raw_history = r.out
                       /\ fed = Len(block) /\ payload_remaining = 0 =>
                            (trailing_after_finish = 0
                               <=> OneShotAccepts(block))
                    \/ /\ RetryAfterError
                       /\ r.verdict = "TrailingData"
                       /\ raw_marker_end > r.position + 1
  BY DEF FinishedAgrees
<1>1. P!Reference(Payload(block)) = r
  BY PayloadReference
<1> HIDE DEF r
<1>2. P!IInv
  BY SameIInv DEF IInv
<1>3. /\ header # NoHeader
      /\ HasMagic(block)
      /\ raw_finished
      /\ raw_trailing_after_finish = 0
      /\ fed = BlockHeaderLen + raw_fed + trailing_after_finish
  BY DEF EndInv
<1>4. ~P!Onward
  BY <1>2, <1>3 DEF P!IInv, P!PaddingCounted, P!Onward
<1>5. CASE P!Refused
  BY <1>1, <1>3, <1>5 DEF P!Refused
<1>6. CASE P!Ended
  <2>1. /\ raw_marker_end = r.position + 1
        /\ raw_history = r.out
        /\ r.verdict = P!MarkerVerdict
    BY <1>1, <1>6 DEF P!Ended
  <2>2. ASSUME fed = Len(block), payload_remaining = 0
        PROVE  trailing_after_finish = 0 <=> OneShotAccepts(block)
    <3>1. /\ block \in Seq(Byte) /\ Len(block) \in Nat
          /\ raw_fed \in Nat /\ trailing_after_finish \in Nat
      BY LenProperties DEF IInv, OwnTypes, Raw!IInv, Raw!TypeOK
    <3>2. /\ header = ParseHeader(block)
          /\ raw_fed + payload_remaining = header.payload_bytes
      BY <1>3 DEF IInv, PayloadPumpedOnce
    <3>3. raw_fed = ParseHeader(block).payload_bytes
      BY <2>2, <3>1, <3>2
    <3>4. Len(block) = BlockHeaderLen + raw_fed + trailing_after_finish
      BY <1>3, <2>2
    <3>5. Len(block) >= BlockHeaderLen /\ BlockHeaderLen + raw_fed <= Len(block)
      BY <3>1, <3>4 DEF BlockHeaderLen
    <3>6. trailing_after_finish = 0 <=> Len(block) = BlockHeaderLen + raw_fed
      BY <3>1, <3>4 DEF BlockHeaderLen
    <3>7. trailing_after_finish = 0 <=> SplitBlock(block) = "ok"
      BY <1>3, <3>1, <3>3, <3>5, <3>6, WholeBlock
    <3>8. r.verdict = "Finished"
      <4>1. raw_fed = Len(Payload(block))
        BY <3>1, <3>3, <3>5, WholePayload
      <4>2. P!PaddingVerdict
        BY <1>2, RawAssumption, P!PaddingIsJudged
      <4>3. P!IsEosPadding(P!TailFrom(raw_marker_end))
        BY <1>3, <4>1, <4>2 DEF P!PaddingVerdict
      <4>4. QED
        BY <2>1, <4>3 DEF P!MarkerVerdict
    <3>9. Len(r.out) = ParseHeader(block).raw_bytes
      BY <2>1, <3>2 DEF IInv, DeclaredSize
    <3>10. QED
      BY <3>7, <3>8, <3>9 DEF OneShotAccepts, r
  <2>3. QED
    BY <2>1, <2>2
<1>7. QED
  BY <1>4, <1>5, <1>6 DEF P!SInv

(* The whole invariant. *)
LEMMA SpecEnd == Spec => [](IInv /\ EndInv /\ P!SInv)
<1>1. Init => IInv /\ EndInv /\ P!SInv
  BY InitIInv, InitEnd
<1>2. IInv /\ EndInv /\ P!SInv /\ [Next]_vars => (IInv /\ EndInv /\ P!SInv)'
  BY NextIInv, NextEnd
<1>3. QED
  BY <1>1, <1>2, PTL DEF Spec

(* A BvxnDecoder that has finished gave what the payload decodes to, and   *)
(* stopped at the end marker of the payload, whatever the chunks and the   *)
(* buffers; once it was given the whole block, it has noticed trailing     *)
(* bytes exactly when decode of apple/bvxn.rs refuses the block.  Only a   *)
(* caller that goes on after a refused end marker gets past it.            *)
THEOREM BvxnFinishedAgrees == Spec => []FinishedAgrees
<1>1. IInv /\ EndInv /\ P!SInv => FinishedAgrees
  BY EndAgrees
<1>2. QED
  BY <1>1, SpecEnd, PTL

(* No block that decode of apple/bvxn.rs accepts is refused by a           *)
(* BvxnDecoder, however it is fed and drained, except for the payload      *)
(* bytes that are fed to it after it has finished.                         *)
THEOREM BvxnRefusesOnlyLatePadding == Spec => []RefusesOnlyLatePadding
<1>1. EndInv => RefusesOnlyLatePadding
  BY DEF EndInv, RefusesOnlyLatePadding
<1>2. QED
  BY <1>1, SpecEnd, PTL
=============================================================================
