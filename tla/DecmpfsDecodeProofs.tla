------------------------ MODULE DecmpfsDecodeProofs -------------------------
(***************************************************************************)
(* Decoding a decmpfs wrapper, whatever the wrapper is: no write outside   *)
(* of the part of the buffer that a block stands for, success exactly for  *)
(* the whole wrappers that there is room for, only bytes that the wrapper  *)
(* holds, and the error of the first thing that is wrong.                  *)
(*                                                                         *)
(* P is a copy of the theory of the raw decoder.  Its definitions are      *)
(* those of Raw, the instance that decodes the blocks, under other names;  *)
(* the first lemmas say so.                                                *)
(***************************************************************************)
EXTENDS DecmpfsDecodeReference, LzvnProofs

P == INSTANCE RawDecodeProofs WITH
       Sources <- Seq(0..255), Capacities <- Nat, Unbounded <- Exact,
       src <- raw_src, capacity <- raw_capacity, input <- raw_input,
       dst <- raw_dst, previous_distance <- raw_previous_distance,
       literal_len <- raw_literal_len, match_len <- raw_match_len,
       result <- raw_result

(* Both copies know the same instructions *)
LEMMA SameKinds ==
  /\ \A b : Raw!Classify(b) = P!Classify(b)
  /\ \A kind : Raw!HeaderLen(kind) = P!HeaderLen(kind)
  /\ Raw!LiteralKinds = P!LiteralKinds
  /\ Raw!MatchKinds = P!MatchKinds
BY Zenon DEF Raw!Classify, P!Classify, Raw!HeaderLen, P!HeaderLen,
   Raw!LiteralKinds, P!LiteralKinds, Raw!MatchKinds, P!MatchKinds

(* with the same fields *)
LEMMA SameLiteralLen ==
  ASSUME NEW s, NEW i
  PROVE  Raw!LiteralLen(s, i) = P!LiteralLen(s, i)
BY Zenon DEF Raw!LiteralLen, P!LiteralLen, Raw!Classify, P!Classify

LEMMA SameMatchLen ==
  ASSUME NEW s, NEW i
  PROVE  Raw!MatchLen(s, i) = P!MatchLen(s, i)
BY Zenon DEF Raw!MatchLen, P!MatchLen, Raw!Classify, P!Classify

LEMMA SameMatchDistance ==
  ASSUME NEW s, NEW i, NEW d
  PROVE  Raw!MatchDistance(s, i, d) = P!MatchDistance(s, i, d)
BY Zenon DEF Raw!MatchDistance, P!MatchDistance, Raw!Classify, P!Classify

LEMMA SameIsComplete == \A s, i : Raw!IsComplete(s, i) <=> P!IsComplete(s, i)
BY SameKinds, SameLiteralLen, Zenon DEF Raw!IsComplete, P!IsComplete

LEMMA SameIsEosPadding == \A t : Raw!IsEosPadding(t) <=> P!IsEosPadding(t)
BY Zenon DEF Raw!IsEosPadding, P!IsEosPadding, Raw!AllZero, P!AllZero,
   Raw!MaxEosPadding, P!MaxEosPadding

(* and take the same steps. *)
LEMMA SameNext == Raw!Next => P!Next
<1> USE SameKinds, SameLiteralLen, SameMatchLen, SameMatchDistance,
        SameIsComplete, SameIsEosPadding
    DEF Raw!AtInstruction, P!AtInstruction, Raw!AtOpcode, P!AtOpcode,
        Raw!Kind, P!Kind, Raw!Opcode, P!Opcode, Raw!HasInput, P!HasInput,
        Raw!HasOutput, P!HasOutput, Raw!HasDistance, P!HasDistance,
        Raw!Distance, P!Distance, Raw!IsValidDistance, P!IsValidDistance,
        Raw!Fail, P!Fail
<1>1. Raw!Instruction => P!Instruction
  BY Zenon DEF Raw!Instruction, P!Instruction
<1>2. ASSUME NEW count \in 1..raw_literal_len, Raw!CopyLiteral(count)
      PROVE  P!CopyLiteral(count)
  BY <1>2, Zenon DEF Raw!CopyLiteral, P!CopyLiteral
<1>3. Raw!CopyMatchByte => P!CopyMatchByte
  BY Zenon DEF Raw!CopyMatchByte, P!CopyMatchByte
<1>4. Raw!Nop => P!Nop
  BY Zenon DEF Raw!Nop, P!Nop, Raw!AtNop, P!AtNop
<1>5. Raw!Eos => P!Eos
  BY Zenon DEF Raw!Eos, P!Eos
<1>6. Raw!TruncatedInput => P!TruncatedInput
  BY Zenon DEF Raw!TruncatedInput, P!TruncatedInput
<1>7. Raw!InvalidOpcode => P!InvalidOpcode
  BY Zenon DEF Raw!InvalidOpcode, P!InvalidOpcode
<1>8. Raw!OutputTooSmall => P!OutputTooSmall
  BY Zenon DEF Raw!OutputTooSmall, P!OutputTooSmall
<1>9. Raw!InvalidMatchDistance => P!InvalidMatchDistance
  BY Zenon DEF Raw!InvalidMatchDistance, P!InvalidMatchDistance
<1>10. QED
  BY <1>1, <1>2, <1>3, <1>4, <1>5, <1>6, <1>7, <1>8, <1>9, Zenon
  DEF Raw!Next, P!Next

LEMMA RawAssumption == P!RawDecodeAssumption
BY DecmpfsDecodeAssumption DEF P!RawDecodeAssumption, P!Byte

(* A step of the raw decoder keeps its invariant and its arguments. *)
LEMMA RawStep ==
  ASSUME Raw!TypeOK, Raw!CopiesInBounds, Raw!Next
  PROVE  /\ Raw!TypeOK'
         /\ Raw!CopiesInBounds'
         /\ raw_capacity' = raw_capacity
<1>1. P!IInv
  BY DEF P!IInv, P!TypeOK, P!CopiesInBounds, Raw!TypeOK, Raw!CopiesInBounds,
     P!Byte, Raw!Byte, P!Errors, Raw!Errors
<1>2. P!Next
  BY SameNext
<1>3. P!RawDecodeAssumption
  BY RawAssumption
<1>4. P!IInv'
  <2>1. [P!Next]_(P!vars)
    BY <1>2
  <2>2. QED
    BY <1>1, <1>3, <2>1, P!NextIInv
<1>5. Raw!TypeOK' /\ Raw!CopiesInBounds'
  BY <1>4
  DEF P!IInv, P!TypeOK, P!CopiesInBounds, Raw!TypeOK, Raw!CopiesInBounds,
      P!Byte, Raw!Byte, P!Errors, Raw!Errors
<1>6. raw_capacity' = raw_capacity
  BY DEF Raw!Next, Raw!Instruction, Raw!CopyLiteral, Raw!CopyMatchByte,
     Raw!Nop, Raw!Eos, Raw!TruncatedInput, Raw!InvalidOpcode,
     Raw!OutputTooSmall, Raw!InvalidMatchDistance, Raw!Fail
<1>7. QED
  BY <1>5, <1>6
-----------------------------------------------------------------------------
(* The layout of a wrapper. *)

(* Every block that is counted has bytes, and only the last has fewer than *)
(* a chunk.                                                                *)
LEMMA CountedBlock ==
  ASSUME NEW n \in Nat, NEW k \in Nat, k < BlockCount(n)
  PROVE  /\ k * ChunkSize \in Nat
         /\ k * ChunkSize < n
         /\ (k + 1) * ChunkSize = k * ChunkSize + ChunkSize
         /\ n - k * ChunkSize <= ChunkSize => k + 1 = BlockCount(n)
<1>1. ChunkSize \in Nat /\ ChunkSize > 0
  BY DecmpfsFormatAssumption
<1>2. BlockCount(n) = (n + ChunkSize - 1) \div ChunkSize
  BY DEF BlockCount
<1>3. QED
  BY <1>1, <1>2, CountedPart

LEMMA CountType ==
  ASSUME NEW n \in Nat
  PROVE  BlockCount(n) \in Nat
<1>1. ChunkSize \in Nat /\ ChunkSize > 0
  BY DecmpfsFormatAssumption
<1>2. BlockCount(n) = (n + ChunkSize - 1) \div ChunkSize
  BY DEF BlockCount
<1>3. QED
  BY <1>1, <1>2, RoundedUp

(* The wrapper was opened: its header and its table can be read. *)
Fits == Opened \in {"inline", "fork"}

LEMMA OpenedWrapper ==
  ASSUME TypeOK, Fits
  PROVE  /\ xattr \in Seq(Byte) /\ Len(xattr) \in Nat /\ Len(xattr) >= 16
         /\ Size \in Nat /\ Count \in Nat
         /\ SizeFits /\ ~(capacity = Exact /\ Size > MaxLen)
         /\ ~(capacity # Exact /\ capacity < Size)
         /\ IsInline <=> Opened = "inline"
         /\ Opened = "fork" =>
              /\ fork \in Seq(Byte) /\ Len(fork) \in Nat
              /\ OffsetTableLen(Count) <= Len(fork)
<1>1. xattr \in Seq(Byte) /\ fork \in Seq(Byte) \cup {NoFork}
  BY DecmpfsDecodeAssumption DEF TypeOK, Byte
<1>2. Len(xattr) \in Nat
  BY <1>1
<1>3. /\ ~(Len(xattr) < HeaderLength)
      /\ SizeFits /\ ~(capacity = Exact /\ Size > MaxLen)
      /\ ~(capacity # Exact /\ capacity < Size)
      /\ IsInline <=> Opened = "inline"
      /\ Opened = "fork" =>
           fork # NoFork /\ ~(Len(fork) < OffsetTableLen(Count))
  BY Zenon DEF Fits, Opened
<1>4. Len(xattr) >= 16
  BY <1>2, <1>3 DEF HeaderLength
<1>5. Size \in Nat
  BY <1>1, <1>2, <1>4, U64Type DEF Size, XattrSize
<1>6. Count \in Nat
  BY <1>5, CountType DEF Count
<1>7. Opened = "fork" =>
        /\ fork \in Seq(Byte) /\ Len(fork) \in Nat
        /\ OffsetTableLen(Count) <= Len(fork)
  BY <1>1, <1>3, <1>6 DEF OffsetTableLen
<1>8. QED
  BY <1>1, <1>2, <1>3, <1>4, <1>5, <1>6, <1>7

(* The entries of the table are numbers. *)
LEMMA OffsetType ==
  ASSUME TypeOK, Opened = "fork", NEW k \in Nat, k <= Count
  PROVE  ReadOffset(fork, k) \in Nat
<1>1. /\ fork \in Seq(Byte) /\ Len(fork) \in Nat
      /\ OffsetTableLen(Count) <= Len(fork) /\ Count \in Nat
  BY OpenedWrapper DEF Fits
<1>2. (Count + 1) * 4 <= Len(fork)
  BY <1>1 DEF OffsetTableLen
<1>3. 4 * k + 1 \in Nat /\ 1 <= 4 * k + 1 /\ 4 * k + 1 + 3 <= Len(fork)
  BY <1>1, <1>2
<1>4. QED
  BY <1>1, <1>3, U32Type DEF ReadOffset
-----------------------------------------------------------------------------
(* The invariant. *)

(* Behind k blocks there are k chunks, or all of the bytes. *)
Blocks(k, len) ==
  /\ k <= Count
  /\ len <= Size
  /\ len = k * ChunkSize \/ (k = Count /\ len = Size)

(* What was written before, and which block is being decoded. *)
IInv ==
  /\ TypeOK
  /\ pc = "open" => dst = << >> /\ block_index = 0 /\ raw_dst = << >>
  /\ pc \in {"block", "raw"} => Fits
  /\ pc = "block" => ~IsInline
  /\ pc = "raw" => /\ Raw!CopiesInBounds
                   /\ raw_capacity = Expected
                   /\ IsInline => dst = << >>
                   /\ ~IsInline => block_index < Count
  /\ Fits /\ IsInline => Len(dst) <= Size
  /\ Fits /\ ~IsInline => Blocks(block_index, Len(dst))

(* The call starts with nothing written. *)
LEMMA InitIInv == Init => IInv
<1> SUFFICES ASSUME Init PROVE IInv
  OBVIOUS
<1>1. /\ <<xattr, fork>> \in Wrappers /\ xattr \in Seq(0..255)
      /\ fork \in Seq(0..255) \cup {NoFork}
  BY DecmpfsDecodeAssumption DEF Init
<1>2. Len(<< >>) = 0 /\ << >> \in Seq(Byte)
  OBVIOUS
<1>3. Raw!TypeOK
  BY <1>2 DEF Init, Raw!TypeOK, Byte, Raw!Byte
<1>4. TypeOK
  BY <1>1, <1>2, <1>3 DEF Init, TypeOK, Byte
<1>5. Fits => Size \in Nat /\ Count \in Nat
  BY <1>4, OpenedWrapper
<1>6. Fits => Blocks(0, 0) /\ 0 <= Size
  BY <1>5, DecmpfsFormatAssumption DEF Blocks
<1>7. QED
  BY <1>2, <1>4, <1>6 DEF Init, IInv

(* The arguments stay, and with them all that is read off them. *)
LEMMA ArgsKept ==
  ASSUME UNCHANGED args
  PROVE  /\ xattr' = xattr /\ fork' = fork /\ capacity' = capacity
         /\ Fits' = Fits /\ Size' = Size /\ Count' = Count
         /\ IsInline' = IsInline /\ Opened' = Opened /\ HasRoom' = HasRoom
<1>1. xattr' = xattr /\ fork' = fork /\ capacity' = capacity
  BY DEF args
<1>2. Size' = Size /\ IsInline' = IsInline
  BY <1>1, Zenon DEF Size, IsInline
<1>3. Count' = Count
  BY <1>2, Zenon DEF Count
<1>4. SizeFits' = SizeFits
  BY <1>1, SMT DEF SizeFits
<1>5. Opened' = Opened
  BY <1>1, <1>2, <1>3, <1>4, Zenon DEF Opened
<1>6. HasRoom' = HasRoom
  BY <1>1, <1>2, <1>4, Zenon DEF HasRoom
<1>7. QED
  BY <1>1, <1>2, <1>3, <1>5, <1>6, Zenon DEF Fits

(* One more block is one more chunk, or all of the bytes. *)
LEMMA NextBlocks ==
  ASSUME Size \in Nat, NEW k \in Nat, k < Count,
         NEW len \in Nat, Blocks(k, len)
  PROVE  /\ RemainingBlockSize(Size, k) \in Nat
         /\ len + RemainingBlockSize(Size, k) <= Size
         /\ Blocks(k + 1, len + RemainingBlockSize(Size, k))
<1> DEFINE e == RemainingBlockSize(Size, k)
<1>1. k < BlockCount(Size) /\ Count = BlockCount(Size)
  BY DEF Count
<1>2. /\ k * ChunkSize \in Nat
      /\ k * ChunkSize < Size
      /\ (k + 1) * ChunkSize = k * ChunkSize + ChunkSize
      /\ Size - k * ChunkSize <= ChunkSize => k + 1 = Count
  BY <1>1, CountedBlock
<1>3. ChunkSize \in Nat /\ Count \in Nat
  BY <1>1, CountType, DecmpfsFormatAssumption
<1>4. len = k * ChunkSize
  BY <1>3 DEF Blocks
<1>5. PICK done \in Nat : done = k * ChunkSize
  BY <1>2
<1>6. e = IF Size - done <= ChunkSize THEN Size - done ELSE ChunkSize
  BY <1>5 DEF RemainingBlockSize
<1>7. e \in Nat /\ len + e <= Size
  BY <1>2, <1>3, <1>4, <1>5, <1>6
<1>8. len + e = (k + 1) * ChunkSize \/ (k + 1 = Count /\ len + e = Size)
  BY <1>2, <1>3, <1>4, <1>5, <1>6
<1>9. k + 1 <= Count
  BY <1>3
<1>10. QED
  BY <1>7, <1>8, <1>9 DEF Blocks

(* How a block starts. *)
LEMMA StartBlockStep ==
  ASSUME IInv, NEW payload \in Seq(Byte), NEW expected \in Nat,
         StartBlock(payload, expected)
  PROVE  IF IsStored(payload, expected)
           THEN /\ dst' \in Seq(Byte)
                /\ Len(dst') = Len(dst) + expected
                /\ raw_vars' = raw_vars
                /\ IF IsInline
                     THEN /\ pc' = "done" /\ result' = "Ok"
                          /\ block_index' = block_index
                          /\ previous_offset' = previous_offset
                     ELSE /\ pc' = pc /\ result' = result
                          /\ block_index' = block_index + 1
                          /\ previous_offset' \in Nat
           ELSE /\ pc' = "raw" /\ raw_capacity' = expected
                /\ Raw!TypeOK' /\ Raw!CopiesInBounds'
                /\ dst' = dst /\ result' = result
                /\ block_index' = block_index
                /\ previous_offset' = previous_offset
<1>1. dst \in Seq(Byte) /\ previous_offset \in Nat /\ Len(payload) \in Nat
  BY DEF IInv, TypeOK, Byte
<1>2. CASE IsStored(payload, expected)
  <2>1. Len(payload) = expected + 1
    BY <1>2 DEF IsStored
  <2>2. payload # << >>
    BY <2>1
  <2>3. Tail(payload) \in Seq(Byte) /\ Len(Tail(payload)) = expected
    BY <2>1, <2>2, HeadTailProperties
  <2>4. dst' = dst \o Tail(payload)
    BY <1>2 DEF StartBlock
  <2>5. dst' \in Seq(Byte) /\ Len(dst') = Len(dst) + expected
    BY <1>1, <2>3, <2>4, ConcatProperties
  <2>6. previous_offset + Len(payload) \in Nat
    BY <1>1
  <2>7. QED
    BY <1>2, <2>5, <2>6 DEF StartBlock, Return, raw_vars
<1>3. CASE ~IsStored(payload, expected)
  <2>1. /\ pc' = "raw" /\ raw_capacity' = expected
        /\ raw_src' = payload /\ raw_input' = 0 /\ raw_dst' = << >>
        /\ raw_previous_distance' = 0 /\ raw_literal_len' = 0
        /\ raw_match_len' = 0 /\ raw_result' = "running"
        /\ dst' = dst /\ result' = result
        /\ block_index' = block_index /\ previous_offset' = previous_offset
    BY <1>3 DEF StartBlock
  <2>2. << >> \in Seq(Byte) /\ Len(<< >>) = 0 /\ 0 \in 0..Len(payload)
    BY <1>1
  <2>3. Raw!TypeOK'
    BY <2>1, <2>2 DEF Raw!TypeOK, Byte, Raw!Byte
  <2>4. Raw!CopiesInBounds'
    BY <1>1, <2>1, <2>2 DEF Raw!CopiesInBounds
  <2>5. QED
    BY <1>3, <2>1, <2>3, <2>4
<1>4. QED
  BY <1>2, <1>3

(* What changes when a decoder is left alone. *)
LEMMA RawKept ==
  ASSUME Raw!TypeOK, raw_vars' = raw_vars
  PROVE  Raw!TypeOK'
BY DEF raw_vars, Raw!TypeOK, Raw!Byte

(* The result of a block at its place, inline or in a fork. *)
LEMMA BlockStarted ==
  ASSUME IInv, UNCHANGED args, Fits,
         NEW payload \in Seq(Byte), NEW expected, expected = Expected,
         StartBlock(payload, expected),
         \/ pc = "open" /\ IsInline
         \/ pc = "block" /\ block_index < Count
  PROVE  IInv'
<1>1. /\ TypeOK /\ Size \in Nat /\ Count \in Nat /\ block_index \in Nat
      /\ dst \in Seq(Byte) /\ Len(dst) \in Nat
  BY OpenedWrapper DEF IInv, TypeOK, Byte
<1>2. /\ xattr' = xattr /\ fork' = fork /\ capacity' = capacity
      /\ Fits' = Fits /\ Size' = Size /\ Count' = Count
      /\ IsInline' = IsInline
  BY ArgsKept
<1>3. IsInline => Expected = Size /\ dst = << >> /\ Len(dst) = 0
  BY DEF IInv, Expected
<1>4. ~IsInline =>
        /\ pc = "block" /\ block_index < Count
        /\ Expected = RemainingBlockSize(Size, block_index)
        /\ Blocks(block_index, Len(dst))
  BY Zenon DEF IInv, Expected
<1>5. ~IsInline =>
        /\ Expected \in Nat
        /\ Blocks(block_index + 1, Len(dst) + Expected)
  BY <1>1, <1>4, NextBlocks
<1>6. expected \in Nat
  BY <1>1, <1>3, <1>5
<1>7. CASE IsStored(payload, expected)
  <2>1. /\ dst' \in Seq(Byte)
        /\ Len(dst') = Len(dst) + Expected
        /\ raw_vars' = raw_vars
        /\ IF IsInline
             THEN /\ pc' = "done" /\ result' = "Ok"
                  /\ block_index' = block_index
                  /\ previous_offset' = previous_offset
             ELSE /\ pc' = pc /\ result' = result
                  /\ block_index' = block_index + 1
                  /\ previous_offset' \in Nat
    BY <1>6, <1>7, StartBlockStep
  <2>2. Raw!TypeOK'
    BY <1>1, <2>1, RawKept DEF TypeOK
  <2>3. /\ block_index' \in Nat /\ previous_offset' \in Nat
        /\ pc' \in {"block", "done"}
        /\ result' \in {"Ok", result}
        /\ pc' = "block" => ~IsInline
    BY <1>1, <1>4, <2>1 DEF TypeOK
  <2>4. TypeOK'
    BY <1>1, <1>2, <2>1, <2>2, <2>3 DEF TypeOK, Byte
  <2>5. IsInline => Len(dst') <= Size
    BY <1>1, <1>3, <2>1
  <2>6. ~IsInline => Blocks(block_index', Len(dst'))
    BY <1>5, <2>1
  <2>7. Fits' /\ ~IsInline' => Blocks(block_index, Len(dst))'
    BY <1>2, <2>6 DEF Blocks
  <2>8. QED
    BY <1>2, <2>3, <2>4, <2>5, <2>7 DEF IInv
<1>8. CASE ~IsStored(payload, expected)
  <2>1. /\ pc' = "raw" /\ raw_capacity' = Expected
        /\ Raw!TypeOK' /\ Raw!CopiesInBounds'
        /\ dst' = dst /\ result' = result
        /\ block_index' = block_index
        /\ previous_offset' = previous_offset
    BY <1>6, <1>8, StartBlockStep
  <2>2. TypeOK'
    BY <1>1, <1>2, <2>1 DEF TypeOK
  <2>3. Expected' = Expected
    BY <1>2, <2>1, Zenon DEF Expected
  <2>4. Fits' /\ ~IsInline' => Blocks(block_index, Len(dst))'
    BY <1>2, <1>4, <2>1 DEF Blocks
  <2>5. Len(dst') <= Size' \/ ~IsInline'
    BY <1>1, <1>2, <1>3, <2>1
  <2>6. QED
    BY <1>2, <1>3, <1>4, <2>1, <2>2, <2>3, <2>4, <2>5 DEF IInv
<1>9. QED
  BY <1>7, <1>8

LEMMA OpenInlineStep ==
  ASSUME IInv, OpenInline
  PROVE  IInv'
<1>1. /\ pc = "open" /\ Opened = "inline" /\ UNCHANGED args
      /\ StartBlock(XattrPayload(xattr), Size)
  BY DEF OpenInline
<1>2. Fits /\ TypeOK
  BY <1>1 DEF Fits, IInv
<1>3. /\ xattr \in Seq(Byte) /\ Len(xattr) \in Nat /\ Len(xattr) >= 16
      /\ IsInline
  BY <1>1, <1>2, OpenedWrapper
<1>4. XattrPayload(xattr) \in Seq(Byte)
  <2>1. Len(xattr) \in 0..Len(xattr) /\ 16 \in 0..Len(xattr)
    BY <1>3
  <2>2. QED
    BY <1>3, <2>1, WindowProperties DEF XattrPayload, HeaderLength
<1>5. PICK payload \in Seq(Byte) : payload = XattrPayload(xattr)
  BY <1>4
<1>6. PICK expected : expected = Size
  OBVIOUS
<1>7. expected = Expected
  BY <1>3, <1>6 DEF Expected
<1>8. StartBlock(payload, expected)
  BY <1>1, <1>5, <1>6 DEF StartBlock
<1>9. QED
  BY <1>1, <1>2, <1>3, <1>7, <1>8, BlockStarted

LEMMA OpenForkStep ==
  ASSUME IInv, OpenFork
  PROVE  IInv'
<1>1. /\ pc = "open" /\ Opened = "fork" /\ UNCHANGED args
      /\ pc' = "block" /\ previous_offset' = ReadOffset(fork, 0)
      /\ block_index' = block_index /\ dst' = dst /\ result' = result
      /\ raw_vars' = raw_vars
  BY DEF OpenFork
<1>2. Fits /\ TypeOK /\ ~IsInline /\ Count \in Nat
  BY <1>1, OpenedWrapper DEF Fits, IInv
<1>3. /\ xattr' = xattr /\ fork' = fork /\ capacity' = capacity
      /\ Fits' = Fits /\ Size' = Size /\ Count' = Count
      /\ IsInline' = IsInline
  BY <1>1, ArgsKept
<1>4. previous_offset' \in Nat
  BY <1>1, <1>2, OffsetType
<1>5. Raw!TypeOK'
  BY <1>1, <1>2, RawKept DEF TypeOK
<1>6. TypeOK'
  BY <1>1, <1>2, <1>3, <1>4, <1>5 DEF TypeOK
<1>7. Blocks(block_index, Len(dst))'
  BY <1>1, <1>2, <1>3 DEF IInv, Blocks
<1>8. QED
  BY <1>1, <1>2, <1>3, <1>6, <1>7 DEF IInv

(* A return keeps everything but the verdict. *)
LEMMA ReturnStep ==
  ASSUME IInv, NEW verdict, Return(verdict),
         verdict \in {"Ok", "TruncatedInput", "InvalidDecmpfsMagic",
           "SizeOverflow", "CapacityOverflow", "OutputTooSmall",
           "UnsupportedDecmpfsCompressionType",
           "TrailingData", "MissingResourceFork", "InvalidResourceFork",
           "SizeMismatch", "InvalidOpcode", "InvalidMatchDistance"},
         UNCHANGED <<args, block_index, previous_offset, dst, raw_vars>>
  PROVE  IInv'
<1>1. /\ pc' = "done" /\ result' = verdict
      /\ block_index' = block_index /\ previous_offset' = previous_offset
      /\ dst' = dst /\ raw_vars' = raw_vars /\ UNCHANGED args
  BY DEF Return
<1>2. /\ xattr' = xattr /\ fork' = fork /\ capacity' = capacity
      /\ Fits' = Fits /\ Size' = Size /\ Count' = Count
      /\ IsInline' = IsInline
  BY <1>1, ArgsKept
<1>3. Raw!TypeOK'
  BY <1>1, RawKept DEF IInv, TypeOK
<1>4. TypeOK'
  BY <1>1, <1>2, <1>3 DEF IInv, TypeOK
<1>5. Fits' /\ ~IsInline' => Blocks(block_index, Len(dst))'
  BY <1>1, <1>2 DEF IInv, Blocks
<1>6. QED
  BY <1>1, <1>2, <1>4, <1>5 DEF IInv

LEMMA RefuseStep ==
  ASSUME IInv, Refuse
  PROVE  IInv'
<1>1. /\ Opened \notin {"inline", "fork"} /\ Return(Opened)
      /\ UNCHANGED <<args, block_index, previous_offset, dst, raw_vars>>
  BY DEF Refuse
<1>2. Opened \in {"TruncatedInput", "InvalidDecmpfsMagic", "SizeOverflow",
        "CapacityOverflow", "OutputTooSmall", "inline",
        "UnsupportedDecmpfsCompressionType", "TrailingData",
        "MissingResourceFork", "InvalidResourceFork", "fork"}
  BY DEF Opened
<1>3. QED
  BY <1>1, <1>2, ReturnStep

LEMMA BadOffsetStep ==
  ASSUME IInv, BadOffset
  PROVE  IInv'
BY ReturnStep DEF BadOffset

LEMMA CloseForkStep ==
  ASSUME IInv, CloseFork
  PROVE  IInv'
BY ReturnStep DEF CloseFork

LEMMA BlockFailedStep ==
  ASSUME IInv, BlockFailed
  PROVE  IInv'
<1> DEFINE verdict == IF raw_result = "Finished" THEN "SizeMismatch"
                                                 ELSE raw_result
<1>1. /\ raw_result # "running" /\ Return(verdict)
      /\ UNCHANGED <<args, block_index, previous_offset, dst, raw_vars>>
  BY DEF BlockFailed
<1>2. verdict \in {"SizeMismatch", "TruncatedInput", "InvalidOpcode",
        "InvalidMatchDistance", "OutputTooSmall", "TrailingData"}
  BY <1>1 DEF IInv, TypeOK, Raw!TypeOK, Raw!Errors
<1> HIDE DEF verdict
<1>3. QED
  BY <1>1, <1>2, ReturnStep

LEMMA NextBlockStep ==
  ASSUME IInv, NextBlock
  PROVE  IInv'
<1>1. /\ pc = "block" /\ block_index < Count /\ UNCHANGED args
      /\ NextOffset >= previous_offset /\ NextOffset <= Len(fork)
      /\ StartBlock(SubSeq(fork, previous_offset + 1, NextOffset), Expected)
  BY DEF NextBlock
<1>2. /\ TypeOK /\ Fits /\ Opened = "fork" /\ ~IsInline
      /\ previous_offset \in Nat /\ block_index \in Nat
  BY <1>1, OpenedWrapper DEF IInv, Fits, TypeOK
<1>3. /\ fork \in Seq(Byte) /\ Len(fork) \in Nat /\ Count \in Nat
  BY <1>2, OpenedWrapper
<1>4. NextOffset \in Nat
  <2>1. block_index + 1 \in Nat /\ block_index + 1 <= Count
    BY <1>1, <1>2, <1>3
  <2>2. QED
    BY <1>2, <2>1, OffsetType DEF NextOffset
<1>5. SubSeq(fork, previous_offset + 1, NextOffset) \in Seq(Byte)
  <2>1. NextOffset \in 0..Len(fork) /\ previous_offset \in 0..NextOffset
    BY <1>1, <1>2, <1>3, <1>4
  <2>2. QED
    BY <1>3, <2>1, WindowProperties
<1>6. PICK payload \in Seq(Byte) :
        payload = SubSeq(fork, previous_offset + 1, NextOffset)
  BY <1>5
<1>7. PICK expected : expected = Expected
  OBVIOUS
<1>8. StartBlock(payload, expected)
  BY <1>1, <1>6, <1>7 DEF StartBlock
<1>9. QED
  BY <1>1, <1>2, <1>7, <1>8, BlockStarted

(* A step of the raw decoder stays inside the part it was given. *)
LEMMA DecodeBlockStep ==
  ASSUME IInv, DecodeBlock
  PROVE  IInv'
<1>1. /\ pc = "raw" /\ Raw!Next
      /\ xattr' = xattr /\ fork' = fork /\ capacity' = capacity
      /\ block_index' = block_index /\ previous_offset' = previous_offset
      /\ dst' = dst /\ pc' = pc /\ result' = result
      /\ UNCHANGED args
  BY DEF DecodeBlock, args
<1>2. /\ Raw!TypeOK' /\ Raw!CopiesInBounds' /\ raw_capacity' = raw_capacity
  BY <1>1, RawStep DEF IInv, TypeOK
<1>3. /\ Fits' = Fits /\ Size' = Size /\ Count' = Count
      /\ IsInline' = IsInline
  BY <1>1, ArgsKept
<1>4. Expected' = Expected
  BY <1>1, <1>3, Zenon DEF Expected
<1>5. TypeOK'
  BY <1>1, <1>2 DEF IInv, TypeOK
<1>6. Fits' /\ ~IsInline' => Blocks(block_index, Len(dst))'
  BY <1>1, <1>3 DEF IInv, Blocks
<1>7. QED
  BY <1>1, <1>2, <1>3, <1>4, <1>5, <1>6 DEF IInv

(* A block that has the expected size fills its part. *)
LEMMA BlockDoneStep ==
  ASSUME IInv, BlockDone
  PROVE  IInv'
<1>1. /\ pc = "raw" /\ Len(raw_dst) = Expected
      /\ dst' = dst \o raw_dst /\ raw_dst' = << >> /\ UNCHANGED args
      /\ raw_src' = raw_src /\ raw_capacity' = raw_capacity
      /\ raw_input' = raw_input
      /\ raw_previous_distance' = raw_previous_distance
      /\ raw_literal_len' = raw_literal_len
      /\ raw_match_len' = raw_match_len /\ raw_result' = raw_result
  BY DEF BlockDone
<1>2. IF IsInline
        THEN /\ pc' = "done" /\ result' = "Ok"
             /\ block_index' = block_index
             /\ previous_offset' = previous_offset
        ELSE /\ block_index' = block_index + 1
             /\ previous_offset' = NextOffset
             /\ pc' = "block" /\ result' = result
  BY DEF BlockDone, Return
<1>3. /\ TypeOK /\ Fits /\ Size \in Nat /\ Count \in Nat
      /\ block_index \in Nat /\ previous_offset \in Nat
      /\ dst \in Seq(Byte) /\ raw_dst \in Seq(Byte)
  BY <1>1, OpenedWrapper DEF IInv, TypeOK, Byte, Raw!TypeOK, Raw!Byte
<1>4. /\ xattr' = xattr /\ fork' = fork /\ capacity' = capacity
      /\ Fits' = Fits /\ Size' = Size /\ Count' = Count
      /\ IsInline' = IsInline
  BY <1>1, ArgsKept
<1>5. dst' \in Seq(Byte) /\ Len(dst') = Len(dst) + Expected
  BY <1>1, <1>3, ConcatProperties
<1>6. << >> \in Seq(Byte)
  OBVIOUS
<1>7. Raw!TypeOK'
  BY <1>1, <1>3, <1>6 DEF TypeOK, Raw!TypeOK, Byte, Raw!Byte
<1>8. CASE IsInline
  <2>1. Expected = Size /\ dst = << >> /\ Len(<< >>) = 0
    BY <1>1, <1>8 DEF IInv, Expected
  <2>2. Len(dst') <= Size'
    BY <1>3, <1>4, <1>5, <2>1
  <2>3. TypeOK'
    BY <1>2, <1>3, <1>4, <1>5, <1>7, <1>8 DEF TypeOK, Byte
  <2>4. QED
    BY <1>2, <1>4, <1>8, <2>2, <2>3 DEF IInv
<1>9. CASE ~IsInline
  <2>1. /\ block_index < Count /\ Blocks(block_index, Len(dst))
        /\ Expected = RemainingBlockSize(Size, block_index)
    BY <1>1, <1>3, <1>9 DEF IInv, Expected
  <2>2. Len(dst) \in Nat
    BY <1>3
  <2>3. Blocks(block_index + 1, Len(dst) + Expected)
    BY <1>3, <2>1, <2>2, NextBlocks
  <2>4. Blocks(block_index, Len(dst))'
    BY <1>2, <1>4, <1>5, <1>9, <2>3 DEF Blocks
  <2>5. NextOffset \in Nat /\ block_index + 1 \in Nat
    <3>1. Opened = "fork"
      BY <1>3, <1>9, OpenedWrapper DEF Fits
    <3>2. block_index + 1 \in Nat /\ block_index + 1 <= Count
      BY <1>3, <2>1
    <3>3. QED
      BY <1>3, <3>1, <3>2, OffsetType DEF NextOffset
  <2>6. TypeOK'
    BY <1>2, <1>3, <1>4, <1>5, <1>7, <1>9, <2>5 DEF TypeOK, Byte
  <2>7. QED
    BY <1>2, <1>3, <1>4, <1>9, <2>4, <2>6 DEF IInv
<1>10. QED
  BY <1>8, <1>9

(* The invariant is inductive: one fact per action. *)
LEMMA NextIInv ==
  ASSUME IInv, [Next]_vars
  PROVE  IInv'
<1>1. CASE UNCHANGED vars
  <2>1. /\ xattr' = xattr /\ fork' = fork /\ capacity' = capacity
        /\ block_index' = block_index /\ previous_offset' = previous_offset
        /\ dst' = dst /\ pc' = pc /\ result' = result
        /\ raw_vars' = raw_vars /\ UNCHANGED args
    BY <1>1 DEF vars, args
  <2>2. /\ Fits' = Fits /\ Size' = Size /\ Count' = Count
        /\ IsInline' = IsInline
    BY <2>1, ArgsKept
  <2>3. Raw!TypeOK'
    BY <2>1, RawKept DEF IInv, TypeOK
  <2>4. TypeOK'
    BY <2>1, <2>3 DEF IInv, TypeOK
  <2>5. Expected' = Expected
    BY <2>1, <2>2, Zenon DEF Expected
  <2>6. pc' = "raw" => /\ Raw!CopiesInBounds'
                       /\ raw_capacity' = raw_capacity
    BY <2>1 DEF IInv, raw_vars, Raw!CopiesInBounds
  <2>7. Fits' /\ ~IsInline' => Blocks(block_index, Len(dst))'
    BY <2>1, <2>2 DEF IInv, Blocks
  <2>8. raw_dst' = raw_dst
    BY <2>1 DEF raw_vars
  <2>9. QED
    BY <2>1, <2>2, <2>4, <2>5, <2>6, <2>7, <2>8 DEF IInv
<1>2. QED
  BY <1>1, OpenInlineStep, OpenForkStep, RefuseStep, NextBlockStep,
     BadOffsetStep, DecodeBlockStep, BlockDoneStep, BlockFailedStep,
     CloseForkStep
  DEF Next

LEMMA DecodeInvariant == Spec => []IInv
<1>1. Init => IInv
  BY InitIInv
<1>2. IInv /\ [Next]_vars => IInv'
  BY NextIInv
<1>3. QED
  BY <1>1, <1>2, PTL DEF Spec

(* Every variable keeps its type, those of the raw decoder included.       *)
THEOREM DecmpfsTypes == Spec => []TypeOK
<1>1. IInv => TypeOK
  BY DEF IInv
<1>2. QED
  BY <1>1, DecodeInvariant, PTL

(* Whatever the wrapper is, a block is written behind the chunks of the    *)
(* blocks before it and stays inside its own: the check of the caller's    *)
(* buffer against the declared size, made once, covers every write         *)
(* (decmpfs.rs 218-223 and 310-325).                                       *)
THEOREM DecmpfsWritesItsOwnPart == Spec => []WritesItsOwnPart
<1>1. IInv => WritesItsOwnPart
  <2> SUFFICES ASSUME IInv, Fits
               PROVE  /\ Len(dst) <= Size
                      /\ ~IsInline =>
                           \/ Len(dst) = block_index * ChunkSize
                           \/ block_index = Count /\ Len(dst) = Size
                      /\ pc = "raw" => /\ Len(dst) + Expected <= Size
                                       /\ Len(raw_dst) <= Expected
    BY DEF WritesItsOwnPart, Fits
  <2>1. /\ TypeOK /\ Size \in Nat /\ Count \in Nat /\ block_index \in Nat
        /\ dst \in Seq(Byte) /\ Len(dst) \in Nat
    BY OpenedWrapper DEF IInv, TypeOK, Byte
  <2>2. Len(dst) <= Size
    BY DEF IInv, Blocks
  <2>3. ~IsInline => \/ Len(dst) = block_index * ChunkSize
                     \/ block_index = Count /\ Len(dst) = Size
    BY DEF IInv, Blocks
  <2>4. ASSUME pc = "raw"
        PROVE  Len(dst) + Expected <= Size /\ Len(raw_dst) <= Expected
    <3>1. Expected \in Nat /\ Len(dst) + Expected <= Size
      <4>1. CASE IsInline
        <5>1. Expected = Size /\ dst = << >> /\ Len(<< >>) = 0
          BY <2>4, <4>1 DEF IInv, Expected
        <5>2. QED
          BY <2>1, <5>1
      <4>2. CASE ~IsInline
        <5>1. /\ block_index < Count /\ Blocks(block_index, Len(dst))
              /\ Expected = RemainingBlockSize(Size, block_index)
          BY <2>4, <4>2 DEF IInv, Expected
        <5>2. QED
          BY <2>1, <5>1, NextBlocks
      <4>3. QED
        BY <4>1, <4>2
    <3>2. /\ raw_capacity = Expected /\ raw_capacity # Exact
          /\ Raw!TypeOK /\ Raw!CopiesInBounds
      BY <2>1, <2>4, <3>1, DecmpfsDecodeAssumption DEF IInv, TypeOK
    <3>3. /\ Len(raw_dst) + raw_literal_len + raw_match_len <= raw_capacity
          /\ raw_literal_len \in Nat /\ raw_match_len \in Nat
          /\ raw_dst \in Seq(Byte)
      BY <3>2 DEF Raw!CopiesInBounds, Raw!TypeOK, Raw!Byte, Byte
    <3>4. Len(raw_dst) \in Nat
      BY <3>3
    <3>5. QED
      BY <3>1, <3>2, <3>3, <3>4
  <2>5. QED
    BY <2>2, <2>3, <2>4
<1>2. QED
  BY <1>1, DecodeInvariant, PTL
-----------------------------------------------------------------------------
(* What is accepted, and what it decodes to. *)

(* The reference of P is the reference here: it executes instructions      *)
(* alike,                                                                  *)
LEMMA SameExecute ==
  ASSUME NEW s, NEW p
  PROVE  P!Execute(s, p) = Execute(s, p)
<1>1. /\ \A b : P!Classify(b) = Classify(b)
      /\ \A kind : P!HeaderLen(kind) = HeaderLen(kind)
      /\ P!LiteralKinds = LiteralKinds
  BY Zenon DEF P!Classify, Classify, P!HeaderLen, HeaderLen,
     P!LiteralKinds, LiteralKinds
<1>2. ASSUME NEW u, NEW i
      PROVE  P!LiteralLen(u, i) = LiteralLen(u, i)
  BY Zenon DEF P!LiteralLen, LiteralLen, P!Classify, Classify
<1>3. ASSUME NEW u, NEW i
      PROVE  P!MatchLen(u, i) = MatchLen(u, i)
  BY Zenon DEF P!MatchLen, MatchLen, P!Classify, Classify
<1>4. ASSUME NEW u, NEW i, NEW d
      PROVE  P!MatchDistance(u, i, d) = MatchDistance(u, i, d)
  BY Zenon DEF P!MatchDistance, MatchDistance, P!Classify, Classify
<1>5. \A u, i : P!IsComplete(u, i) <=> IsComplete(u, i)
  BY <1>1, <1>2, Zenon DEF P!IsComplete, IsComplete
<1>6. \A u : P!IsEosPadding(u) <=> IsEosPadding(u)
  BY Zenon DEF P!IsEosPadding, IsEosPadding, P!AllZero, AllZero,
     P!MaxEosPadding, MaxEosPadding
<1>7. \A o, d, m : P!Periodic(o, d, m) = Periodic(o, d, m)
  BY Zenon DEF P!Periodic, Periodic
<1>8. QED
  BY <1>1, <1>2, <1>3, <1>4, <1>5, <1>6, <1>7, Zenon
  DEF P!Execute, Execute

(* and its states follow each other alike. *)
LEMMA SameReference ==
  ASSUME NEW s \in Seq(Byte)
  PROVE  P!Reference(s) = Reference(s)
<1> DEFINE f == P!Trace(s)
           g == Trace(s)
           b == Len(s) + 1
           T == {n \in 0..b : f[n] = g[n]}
<1>1. Len(s) \in Nat /\ b \in Nat /\ b \in 0..b
  OBVIOUS
<1>2. /\ f[0] = P!Start
      /\ \A n \in 0..Len(s) : f[n + 1] = P!Executed(s, f[n])
  BY <1>1, RawAssumption, P!TraceStates
<1>3. /\ g[0] = Start
      /\ \A n \in 0..Len(s) : g[n + 1] = Executed(s, g[n])
  BY <1>1, TraceStates
<1>4. /\ P!Start = Start
      /\ \A p : P!Executed(s, p) = Executed(s, p)
  BY SameExecute, Zenon DEF P!Start, Start, P!Executed, Executed
<1> HIDE DEF f, g
<1>5. 0 \in T
  BY <1>1, <1>2, <1>3, <1>4
<1>6. ASSUME NEW n \in 0..(b - 1), n \in T
      PROVE  n + 1 \in T
  <2>1. n \in 0..Len(s) /\ n + 1 \in 0..b
    BY <1>1
  <2>2. f[n] = g[n]
    BY <1>6
  <2>3. QED
    BY <1>2, <1>3, <1>4, <2>1, <2>2
<1>7. \A n \in 0..b : n \in T
  <2> HIDE DEF T, b
  <2> QED
    BY <1>1, <1>5, <1>6, UpTo
<1>8. f[b] = g[b]
  BY <1>1, <1>7
<1>9. QED
  BY <1>8 DEF f, g, P!Reference, Reference

(* A step of the raw decoder keeps it with the reference. *)
LEMMA RawAgreesStep ==
  ASSUME Raw!TypeOK, Raw!CopiesInBounds, P!RInv, Raw!Next
  PROVE  P!RInv' /\ raw_src' = raw_src
<1>1. P!IInv
  BY DEF P!IInv, P!TypeOK, P!CopiesInBounds, Raw!TypeOK, Raw!CopiesInBounds,
     P!Byte, Raw!Byte, P!Errors, Raw!Errors
<1>2. P!RawDecodeAssumption
  BY RawAssumption
<1>3. [P!Next]_(P!vars)
  BY SameNext
<1>4. P!RInv'
  BY <1>1, <1>2, <1>3, P!NextRInv
<1>5. raw_src' = raw_src
  BY DEF Raw!Next, Raw!Instruction, Raw!CopyLiteral, Raw!CopyMatchByte,
     Raw!Nop, Raw!Eos, Raw!TruncatedInput, Raw!InvalidOpcode,
     Raw!OutputTooSmall, Raw!InvalidMatchDistance, Raw!Fail
<1>6. QED
  BY <1>4, <1>5

(* It starts with it. *)
LEMMA RawAgreesStart ==
  ASSUME NEW payload \in Seq(Byte),
         raw_src' = payload, raw_input' = 0, raw_dst' = << >>,
         raw_previous_distance' = 0, raw_literal_len' = 0,
         raw_match_len' = 0, raw_result' = "running"
  PROVE  P!RInv'
<1>1. SubSeq(payload, 0 + 1, 0 + 0) = << >>
  <2>1. 0 + 1 \in Int /\ 0 + 0 \in Int /\ 0 + 0 < 0 + 1
    OBVIOUS
  <2>2. QED
    BY <2>1, SubSeqEmpty, Zenon
<1>2. /\ 0 + 0 = 0
      /\ P!Periodic(<< >> \o SubSeq(payload, 0 + 1, 0 + 0), 0, 0) = << >>
  <2>1. << >> \in Seq(Byte) /\ << >> \o << >> = << >> /\ 0 + 0 = 0
    OBVIOUS
  <2>2. P!Periodic(<< >>, 0, 0) = Periodic(<< >>, 0, 0)
    BY Zenon DEF P!Periodic, Periodic
  <2>3. Periodic(<< >>, 0, 0) = << >>
    BY <2>1, PeriodicNone
  <2>4. QED
    BY <1>1, <2>1, <2>2, <2>3, Zenon
<1>3. P!Ahead' = P!Start
  <2>1. P!Ahead' =
          [position |-> 0 + 0, distance |-> 0,
           out |-> P!Periodic(<< >> \o SubSeq(payload, 0 + 1, 0 + 0), 0, 0),
           verdict |-> "running"]
    BY Zenon DEF P!Ahead
  <2>2. QED
    BY <1>2, <2>1, Zenon DEF P!Start
<1>4. Len(payload) \in Nat /\ 0 \in 0..Len(payload)
  OBVIOUS
<1>5. P!Trace(payload)[0] = P!Start
  BY <1>4, RawAssumption, P!TraceStates
<1>6. P!Reaches(payload, P!Start)
  BY <1>4, <1>5 DEF P!Reaches
<1>7. P!Reaches(raw_src', P!Ahead')
  BY <1>3, <1>6
<1>8. raw_result' = "running" /\ raw_result' \notin {"OutputTooSmall"}
  OBVIOUS
<1>9. QED
  BY <1>7, <1>8 DEF P!RInv

(* What the raw decoder has written, and its verdict: the reference's, *)
LEMMA RawAgrees ==
  ASSUME Raw!TypeOK, Raw!CopiesInBounds, P!RInv,
         NEW expected \in Nat, raw_capacity = expected
  PROVE  /\ raw_src \in Seq(Byte) /\ raw_dst \in Seq(Byte)
         /\ Reference(raw_src).out \in Seq(Byte)
         /\ IsPrefix(raw_dst, Reference(raw_src).out)
         /\ raw_result \notin {"running", "OutputTooSmall"} =>
              /\ Reference(raw_src).out = raw_dst
              /\ Reference(raw_src).verdict = raw_result
         /\ raw_result = "OutputTooSmall" =>
              \/ Len(Reference(raw_src).out) > expected
              \/ Reference(raw_src).verdict = "InvalidMatchDistance"
<1>1. P!IInv
  BY DEF P!IInv, P!TypeOK, P!CopiesInBounds, Raw!TypeOK, Raw!CopiesInBounds,
     P!Byte, Raw!Byte, P!Errors, Raw!Errors
<1>2. P!RawDecodeAssumption
  BY RawAssumption
<1>3. P!AgreesWithReference
  BY <1>1, <1>2, P!InvariantAgrees
<1>4. raw_src \in Seq(Byte) /\ raw_dst \in Seq(Byte)
  BY DEF Raw!TypeOK, Raw!Byte, Byte
<1>5. P!Reference(raw_src) = Reference(raw_src)
  BY <1>4, SameReference
<1>6. Reference(raw_src) \in RefState
  BY <1>4, ReferenceDecides
<1>7. Reference(raw_src).out \in Seq(Byte)
  BY <1>6 DEF RefState
<1> DEFINE out == Reference(raw_src).out
           verdict == Reference(raw_src).verdict
<1>8. /\ IsPrefix(raw_dst, out)
      /\ raw_result \notin {"running", "OutputTooSmall"} =>
           raw_dst = out /\ raw_result = verdict
      /\ raw_result = "OutputTooSmall" =>
           Len(out) > raw_capacity \/ verdict = "InvalidMatchDistance"
  BY <1>3, <1>5, Zenon DEF P!AgreesWithReference, P!IsPrefix, IsPrefix
<1> HIDE DEF out, verdict
<1>9. QED
  BY <1>4, <1>7, <1>8 DEF out, verdict

(* so it is Finished only for a stream of the size that was written. *)
LEMMA RawVerdict ==
  ASSUME Raw!TypeOK, Raw!CopiesInBounds, P!RInv,
         NEW expected \in Nat, raw_capacity = expected
  PROVE  /\ raw_src \in Seq(Byte) /\ raw_dst \in Seq(Byte)
         /\ Reference(raw_src).out \in Seq(Byte)
         /\ IsPrefix(raw_dst, Reference(raw_src).out)
         /\ raw_result = "Finished" =>
              /\ Reference(raw_src).verdict = "Finished"
              /\ Reference(raw_src).out = raw_dst
         /\ raw_result \notin {"running", "Finished"} =>
              ~ /\ Reference(raw_src).verdict = "Finished"
                /\ Len(Reference(raw_src).out) = expected
<1> DEFINE out == Reference(raw_src).out
           verdict == Reference(raw_src).verdict
<1>1. /\ raw_src \in Seq(Byte) /\ raw_dst \in Seq(Byte)
      /\ out \in Seq(Byte) /\ IsPrefix(raw_dst, out)
      /\ raw_result \notin {"running", "OutputTooSmall"} =>
           out = raw_dst /\ verdict = raw_result
      /\ raw_result = "OutputTooSmall" =>
           Len(out) > expected \/ verdict = "InvalidMatchDistance"
  BY RawAgrees
<1>2. Len(out) \in Nat
  BY <1>1
<1> HIDE DEF out, verdict
<1>3. /\ raw_result = "Finished" => verdict = "Finished" /\ out = raw_dst
      /\ raw_result \notin {"running", "Finished"} =>
           ~(verdict = "Finished" /\ Len(out) = expected)
  BY <1>1, <1>2
<1>4. QED
  BY <1>1, <1>3 DEF out, verdict
-----------------------------------------------------------------------------
(* The bytes of the blocks. *)

(* A block that is stored decodes to what follows its first byte. *)
LEMMA StoredBlock ==
  ASSUME NEW payload \in Seq(Byte), NEW expected \in Nat,
         IsStored(payload, expected)
  PROVE  Tail(payload) \in Seq(Byte) /\ Len(Tail(payload)) = expected
<1>1. Len(payload) = expected + 1
  BY DEF IsStored
<1>2. payload # << >>
  BY <1>1
<1>3. QED
  BY <1>1, <1>2, HeadTailProperties

LEMMA ContentType ==
  ASSUME NEW payload \in Seq(Byte), NEW expected \in Nat
  PROVE  Content(payload, expected) \in Seq(Byte)
<1>1. Reference(payload) \in RefState
  BY ReferenceDecides
<1>2. Reference(payload).out \in Seq(Byte)
  BY <1>1 DEF RefState
<1>3. QED
  BY <1>2, StoredBlock, Zenon DEF Content

(* The offsets of the first k blocks are in order. *)
InOrder(f, k) == \A i \in 1..k : Offset(f, i) \in Offset(f, i - 1)..Len(f)

(* So they cut the fork, *)
LEMMA BlockType ==
  ASSUME TypeOK, Opened = "fork", NEW k \in Nat, k < Count, InOrder(fork, k + 1)
  PROVE  /\ RemainingBlockSize(Size, k) \in Nat
         /\ BlockAt(fork, k) \in Seq(Byte)
         /\ Len(BlockAt(fork, k)) = Offset(fork, k + 1) - Offset(fork, k)
         /\ Offset(fork, k) \in Nat /\ Offset(fork, k + 1) \in Nat
<1>1. fork \in Seq(Byte) /\ Len(fork) \in Nat /\ Size \in Nat /\ Count \in Nat
  BY OpenedWrapper DEF Fits
<1>2. k + 1 \in Nat /\ k + 1 <= Count /\ k <= Count /\ k + 1 \in 1..(k + 1)
  BY <1>1
<1>3. Offset(fork, k) \in Nat /\ Offset(fork, k + 1) \in Nat
  BY <1>2, OffsetType DEF Offset
<1>4. Offset(fork, k + 1) \in Offset(fork, k)..Len(fork)
  <2>1. (k + 1) - 1 = k
    OBVIOUS
  <2>2. QED
    BY <1>2, <2>1 DEF InOrder
<1> DEFINE a == Offset(fork, k)
           b == Offset(fork, k + 1)
<1>5. SubSeq(fork, a + 1, b) \in Seq(Byte) /\ Len(SubSeq(fork, a + 1, b)) = b - a
  <2> HIDE DEF a, b
  <2>1. b \in 0..Len(fork) /\ a \in 0..b
    BY <1>1, <1>3, <1>4 DEF a, b
  <2>2. QED
    BY <1>1, <2>1, WindowProperties
<1>6. RemainingBlockSize(Size, k) \in Nat
  <2>1. k < BlockCount(Size)
    BY DEF Count
  <2>2. k * ChunkSize \in Nat /\ k * ChunkSize < Size /\ ChunkSize \in Nat
    BY <1>1, <2>1, CountedBlock, DecmpfsFormatAssumption
  <2>3. PICK before \in Nat : before = k * ChunkSize
    BY <2>2
  <2>4. RemainingBlockSize(Size, k) =
          IF Size - before <= ChunkSize THEN Size - before ELSE ChunkSize
    BY <2>3 DEF RemainingBlockSize
  <2>5. QED
    BY <1>1, <2>2, <2>3, <2>4
<1>7. QED
  BY <1>3, <1>5, <1>6 DEF BlockAt

(* and what a block decodes to follows what the blocks before it decode to. *)
LEMMA NextContent ==
  ASSUME TypeOK, Opened = "fork", NEW k \in Nat, k < Count, InOrder(fork, k + 1)
  PROVE  /\ BlocksContent(fork, Size, k) \in Seq(Byte)
         /\ Content(BlockAt(fork, k), RemainingBlockSize(Size, k))
              \in Seq(Byte)
         /\ BlocksContent(fork, Size, k + 1)
              = BlocksContent(fork, Size, k)
                  \o Content(BlockAt(fork, k), RemainingBlockSize(Size, k))
<1> DEFINE c(i) == Content(BlockAt(fork, i - 1),
                           RemainingBlockSize(Size, i - 1))
           s == [i \in 1..k |-> c(i)]
           t == [i \in 1..(k + 1) |-> c(i)]
           e == c(k + 1)
<1>1. \A i \in 1..(k + 1) : c(i) \in Seq(Byte)
  <2> SUFFICES ASSUME NEW i \in 1..(k + 1) PROVE c(i) \in Seq(Byte)
    OBVIOUS
  <2>1. Count \in Nat
    BY OpenedWrapper DEF Fits
  <2>2. i - 1 \in Nat /\ i - 1 < Count /\ (i - 1) + 1 = i
    BY <2>1
  <2>3. InOrder(fork, (i - 1) + 1)
    BY <2>2 DEF InOrder
  <2>4. /\ RemainingBlockSize(Size, i - 1) \in Nat
        /\ BlockAt(fork, i - 1) \in Seq(Byte)
    BY <2>2, <2>3, BlockType
  <2>5. QED
    BY <2>4, ContentType
<1> HIDE DEF c
<1>2. s \in Seq(Seq(Byte)) /\ e \in Seq(Byte)
  BY <1>1
<1>3. t = Append(s, e)
  <2>1. Append(s, e) = [i \in 1..(k + 1) |-> IF i = k + 1 THEN e ELSE s[i]]
    BY <1>2
  <2>2. \A i \in 1..(k + 1) : c(i) = IF i = k + 1 THEN e ELSE s[i]
    OBVIOUS
  <2> HIDE DEF s, e
  <2>3. QED
    BY <2>1, <2>2
<1>4. FlattenSeq(s) \in Seq(Byte) /\ FlattenSeq(t) = FlattenSeq(s) \o e
  <2> HIDE DEF s, t, e
  <2> QED
    BY <1>2, <1>3, FlattenAppend
<1>5. /\ FlattenSeq(s) = BlocksContent(fork, Size, k)
      /\ FlattenSeq(t) = BlocksContent(fork, Size, k + 1)
  BY Zenon DEF BlocksContent, c
<1>6. e = Content(BlockAt(fork, k), RemainingBlockSize(Size, k))
  <2>1. (k + 1) - 1 = k
    OBVIOUS
  <2>2. QED
    BY <2>1, Zenon DEF c
<1> HIDE DEF s, t, e
<1>7. QED
  BY <1>2, <1>4, <1>5, <1>6

LEMMA NoContent == BlocksContent(fork, Size, 0) = << >>
<1> DEFINE s == [k \in 1..0 |-> Content(BlockAt(fork, k - 1),
                                        RemainingBlockSize(Size, k - 1))]
<1>1. s = << >> /\ Len(s) = 0
  OBVIOUS
<1>2. BlocksContent(fork, Size, 0) = FlattenSeq(s)
  BY Zenon DEF BlocksContent
<1> HIDE DEF s
<1>3. QED
  BY <1>1, <1>2, Zenon DEF FlattenSeq

(* Prefixes, byte by byte. *)
LEMMA PrefixExtends ==
  ASSUME NEW a \in Seq(Byte), NEW b \in Seq(Byte)
  PROVE  IsPrefix(a, b) <=> Extends(a, b)
<1>1. Len(a) \in Nat /\ Len(b) \in Nat
  OBVIOUS
<1>2. CASE Len(a) <= Len(b)
  <2>1. /\ SubSeq(a, 1, Len(a)) = a
        /\ SubSeq(b, 1, Len(a)) \in Seq(Byte)
        /\ Len(SubSeq(b, 1, Len(a))) = Len(a)
        /\ \A k \in 1..Len(a) : SubSeq(b, 1, Len(a))[k] = b[k]
    <3>1. Len(a) \in 0..Len(b) /\ Len(a) \in 0..Len(a) /\ 0 \in 0..Len(a)
      BY <1>1, <1>2
    <3>2. 0 + 1 = 1 /\ Len(a) - 0 = Len(a)
      BY <1>1
    <3>3. /\ SubSeq(b, 0 + 1, Len(a)) \in Seq(Byte)
          /\ Len(SubSeq(b, 0 + 1, Len(a))) = Len(a) - 0
          /\ \A k \in 1..(Len(a) - 0) : SubSeq(b, 0 + 1, Len(a))[k] = b[0 + k]
      BY <3>1, WindowProperties
    <3>4. SubSeq(a, 1, Len(a)) = a
      OBVIOUS
    <3>5. \A k \in 1..Len(a) : 0 + k = k
      OBVIOUS
    <3>6. QED
      BY <3>2, <3>3, <3>4, <3>5
  <2> DEFINE start == SubSeq(b, 1, Len(a))
  <2> HIDE DEF start
  <2>2. (a = start) <=> \A k \in 1..Len(a) : b[k] = a[k]
    BY <2>1, SeqEqual DEF start
  <2>3. QED
    BY <1>2, <2>1, <2>2, Zenon DEF IsPrefix, Extends, start
<1>3. CASE ~(Len(a) <= Len(b))
  BY <1>3, Zenon DEF IsPrefix, Extends
<1>4. QED
  BY <1>2, <1>3

LEMMA PrefixFacts ==
  ASSUME NEW a \in Seq(Byte), NEW b \in Seq(Byte), NEW c \in Seq(Byte)
  PROVE  /\ IsPrefix(<< >>, a)
         /\ IsPrefix(a, a)
         /\ IsPrefix(b, c) => IsPrefix(a \o b, a \o c)
<1>1. << >> \in Seq(Byte) /\ Extends(<< >>, a) /\ Extends(a, a)
  <2>1. << >> \in Seq(Byte) /\ Len(<< >>) = 0 /\ Len(a) \in Nat
    OBVIOUS
  <2>2. 0 <= Len(a) /\ Len(a) <= Len(a) /\ 1..0 = {}
    BY <2>1
  <2>3. QED
    BY <2>1, <2>2 DEF Extends
<1>2. ASSUME Extends(b, c)
      PROVE  Extends(a \o b, a \o c)
  <2>1. Len(a) \in Nat /\ Len(b) \in Nat /\ Len(c) \in Nat
    OBVIOUS
  <2>2. /\ Len(a \o b) = Len(a) + Len(b) /\ Len(a \o c) = Len(a) + Len(c)
        /\ \A k \in 1..(Len(a) + Len(b)) :
             (a \o b)[k] = IF k <= Len(a) THEN a[k] ELSE b[k - Len(a)]
        /\ \A k \in 1..(Len(a) + Len(c)) :
             (a \o c)[k] = IF k <= Len(a) THEN a[k] ELSE c[k - Len(a)]
    BY ConcatProperties
  <2>3. Len(b) <= Len(c) /\ \A k \in 1..Len(b) : c[k] = b[k]
    BY <1>2 DEF Extends
  <2>4. ASSUME NEW k \in 1..(Len(a) + Len(b))
        PROVE  (a \o c)[k] = (a \o b)[k]
    <3>1. k \in 1..(Len(a) + Len(c))
      BY <2>1, <2>3
    <3>2. CASE k <= Len(a)
      BY <2>2, <3>1, <3>2
    <3>3. CASE ~(k <= Len(a))
      <4>1. k - Len(a) \in 1..Len(b)
        BY <2>1, <3>3
      <4>2. QED
        BY <2>2, <2>3, <3>1, <3>3, <4>1
    <3>4. QED
      BY <3>2, <3>3
  <2>5. QED
    BY <2>1, <2>2, <2>3, <2>4 DEF Extends
<1>3. a \o b \in Seq(Byte) /\ a \o c \in Seq(Byte)
  BY ConcatProperties
<1>4. IsPrefix(<< >>, a) /\ IsPrefix(a, a)
  BY <1>1, PrefixExtends
<1>5. IsPrefix(b, c) => IsPrefix(a \o b, a \o c)
  <2> SUFFICES ASSUME IsPrefix(b, c) PROVE IsPrefix(a \o b, a \o c)
    OBVIOUS
  <2>1. Extends(b, c)
    BY PrefixExtends
  <2>2. Extends(a \o b, a \o c)
    BY <1>2, <2>1
  <2>3. QED
    BY <1>3, <2>2, PrefixExtends
<1>6. QED
  BY <1>4, <1>5
-----------------------------------------------------------------------------
(* When a wrapper is whole. *)

(* isize::MAX is a number that a usize holds, and capacities are such. *)
LEMMA MaxLenType ==
  /\ MaxUsize \in Nat /\ MaxLen \in Nat /\ MaxLen <= MaxUsize
  /\ \A c \in Capacities : c \in Nat \/ c = Exact
  /\ Exact \notin Nat
<1>1. MaxUsize \in Nat
  BY DecmpfsDecodeAssumption
<1>2. MaxLen \in Nat /\ MaxLen <= MaxUsize
  BY <1>1, SMT DEF MaxLen
<1>3. QED
  BY <1>1, <1>2, DecmpfsDecodeAssumption

(* The checks of the size are the reference's, for a header of its length. *)
LEMMA RoomChecked ==
  ASSUME TypeOK, Size \in Nat, Len(xattr) >= HeaderLength
  PROVE  HasRoom <=> /\ SizeFits
                     /\ ~(capacity = Exact /\ Size > MaxLen)
                     /\ ~(capacity # Exact /\ capacity < Size)
<1>1. capacity \in Nat \/ capacity = Exact
  BY MaxLenType DEF TypeOK
<1>2. MaxLen \in Nat /\ Exact \notin Nat
  BY MaxLenType
<1>3. CASE capacity = Exact
  <2>1. HasRoom <=> SizeFits /\ Size <= MaxLen
    BY <1>3, Zenon DEF HasRoom
  <2>2. QED
    BY <1>2, <1>3, <2>1
<1>4. CASE capacity # Exact
  <2>1. HasRoom <=> SizeFits /\ Size <= capacity
    BY <1>4, Zenon DEF HasRoom
  <2>2. QED
    BY <1>1, <1>4, <2>1
<1>5. QED
  BY <1>3, <1>4

LEMMA OpenedHasRoom ==
  ASSUME TypeOK, Fits
  PROVE  HasRoom
<1>1. /\ Len(xattr) >= HeaderLength /\ Size \in Nat
      /\ SizeFits /\ ~(capacity = Exact /\ Size > MaxLen)
      /\ ~(capacity # Exact /\ capacity < Size)
  BY OpenedWrapper DEF HeaderLength
<1>2. QED
  BY <1>1, RoomChecked

LEMMA InlineWrapper ==
  ASSUME TypeOK, Opened = "inline"
  PROVE  /\ IsInline /\ HasRoom
         /\ IsWrapper(xattr, fork) <=> IsBlock(XattrPayload(xattr), Size)
         /\ WrapperContent(xattr, fork) = Content(XattrPayload(xattr), Size)
<1>1. /\ xattr \in Seq(Byte) /\ Len(xattr) >= 16 /\ Size \in Nat /\ IsInline
  BY OpenedWrapper DEF Fits
<1>2. SubSeq(xattr, 1, 4) = Magic
  BY Zenon DEF Opened
<1>3. HasRoom
  BY OpenedHasRoom DEF Fits
<1>4. HasHeader(xattr)
  BY <1>1, <1>2 DEF HasHeader, HeaderLength, IsInline
<1>5. XattrType(xattr) = LzvnXattr /\ Size = XattrSize(xattr)
  BY <1>1 DEF IsInline, Size
<1>6. QED
  BY <1>1, <1>3, <1>4, <1>5, Zenon DEF IsWrapper, WrapperContent

(* The blocks of a fork are whole up to the k-th. *)
Whole(f, size, k) ==
  /\ InOrder(f, k)
  /\ \A i \in 0..(k - 1) :
       IsBlock(BlockAt(f, i), RemainingBlockSize(size, i))

LEMMA ForkWrapper ==
  ASSUME TypeOK, Opened = "fork"
  PROVE  /\ ~IsInline /\ HasRoom
         /\ IsWrapper(xattr, fork)
              <=> Whole(fork, Size, Count) /\ Offset(fork, Count) = Len(fork)
         /\ WrapperContent(xattr, fork) = BlocksContent(fork, Size, Count)
<1>1. /\ xattr \in Seq(Byte) /\ Len(xattr) >= 16 /\ Size \in Nat /\ ~IsInline
      /\ fork \in Seq(Byte) /\ Len(fork) \in Nat /\ Count \in Nat
      /\ OffsetTableLen(Count) <= Len(fork)
  BY OpenedWrapper DEF Fits
<1>2. /\ SubSeq(xattr, 1, 4) = Magic
      /\ XattrType(xattr) = LzvnResourceFork
      /\ XattrPayload(xattr) = << >>
      /\ fork # NoFork
      /\ ReadOffset(fork, 0) = OffsetTableLen(Count)
  BY <1>1, Zenon DEF Opened
<1>3. HasRoom
  BY OpenedHasRoom DEF Fits
<1>4. HasHeader(xattr)
  BY <1>1, <1>2 DEF HasHeader, HeaderLength
<1>5. XattrType(xattr) # LzvnXattr
  BY <1>1 DEF IsInline
<1>6. Size = XattrSize(xattr) /\ Count = BlockCount(XattrSize(xattr))
  BY DEF Size, Count
<1>7. HasBlocks(fork, XattrSize(xattr))
        <=> InOrder(fork, Count) /\ Offset(fork, Count) = Len(fork)
  BY <1>1, <1>2, <1>6, Zenon DEF HasBlocks, InOrder, Offset
<1>8. QED
  BY <1>1, <1>2, <1>3, <1>4, <1>5, <1>6, <1>7, Zenon
  DEF IsWrapper, WrapperContent, Whole

LEMMA NoWrapper ==
  ASSUME TypeOK, Opened \notin {"inline", "fork"}
  PROVE  ~(HasRoom /\ IsWrapper(xattr, fork))
<1> SUFFICES ASSUME IsWrapper(xattr, fork), HasRoom PROVE FALSE
  OBVIOUS
<1>1. /\ xattr \in Seq(Byte) /\ fork \in Seq(Byte) \cup {NoFork}
      /\ fork # NoFork => Len(fork) <= MaxLen
  BY DecmpfsDecodeAssumption DEF TypeOK, Byte
<1>2. /\ Len(xattr) >= HeaderLength /\ SubSeq(xattr, 1, 4) = Magic
      /\ XattrType(xattr) \in {LzvnXattr, LzvnResourceFork}
  BY DEF IsWrapper, HasHeader
<1>3. Size \in Nat
  <2>1. Len(xattr) \in Nat /\ Len(xattr) >= 16
    BY <1>1, <1>2 DEF HeaderLength
  <2>2. QED
    BY <1>1, <2>1, U64Type DEF Size, XattrSize
<1>4. /\ ~(Len(xattr) < HeaderLength)
      /\ SizeFits /\ ~(capacity = Exact /\ Size > MaxLen)
      /\ ~(capacity # Exact /\ capacity < Size)
  <2>1. ~(Len(xattr) < HeaderLength)
    BY <1>1, <1>2 DEF HeaderLength
  <2>2. QED
    BY <1>2, <1>3, <2>1, RoomChecked
<1>5. ~IsInline
  BY <1>2, <1>4, Zenon DEF Opened
<1>6. XattrType(xattr) # LzvnXattr
  BY <1>5 DEF IsInline
<1>7. /\ XattrPayload(xattr) = << >> /\ fork # NoFork
      /\ HasBlocks(fork, Size)
  BY <1>6, Zenon DEF IsWrapper, Size
<1>8. /\ OffsetTableLen(Count) <= Len(fork)
      /\ ReadOffset(fork, 0) = OffsetTableLen(Count)
  BY <1>7, Zenon DEF HasBlocks, Count, Offset
<1>9. /\ ~(Len(fork) < OffsetTableLen(Count))
      /\ ~(OffsetTableLen(Count) > MaxUsize)
  <2>1. Len(fork) \in Nat /\ Count \in Nat /\ Len(fork) <= MaxLen
    BY <1>1, <1>3, <1>7, CountType DEF Count
  <2>2. QED
    BY <1>8, <2>1, MaxLenType DEF OffsetTableLen
<1>10. QED
  BY <1>2, <1>4, <1>5, <1>6, <1>7, <1>8, <1>9, Zenon DEF Opened

(* One more block whose offset is in order, *)
LEMMA NextInOrder ==
  ASSUME NEW f, NEW k \in Nat, InOrder(f, k),
         Offset(f, k + 1) \in Offset(f, k)..Len(f)
  PROVE  InOrder(f, k + 1)
<1> SUFFICES ASSUME NEW i \in 1..(k + 1)
             PROVE  Offset(f, i) \in Offset(f, i - 1)..Len(f)
  BY DEF InOrder
<1>1. CASE i = k + 1
  <2>1. i - 1 = k
    BY <1>1
  <2>2. QED
    BY <1>1, <2>1
<1>2. CASE i # k + 1
  <2>1. i \in 1..k
    BY <1>2
  <2>2. QED
    BY <2>1 DEF InOrder
<1>3. QED
  BY <1>1, <1>2

(* and one more whole block. *)
LEMMA NextWhole ==
  ASSUME NEW f, NEW size, NEW k \in Nat, Whole(f, size, k), InOrder(f, k + 1),
         IsBlock(BlockAt(f, k), RemainingBlockSize(size, k))
  PROVE  Whole(f, size, k + 1)
<1>1. ASSUME NEW i \in 0..((k + 1) - 1)
      PROVE  IsBlock(BlockAt(f, i), RemainingBlockSize(size, i))
  <2>1. CASE i = k
    BY <2>1
  <2>2. CASE i # k
    <3>1. i \in 0..(k - 1)
      BY <2>2
    <3>2. QED
      BY <3>1 DEF Whole
  <2>3. QED
    BY <2>1, <2>2
<1>2. QED
  BY <1>1, Zenon DEF Whole

(* What a block has to be when it is stored, and when it is not. *)
LEMMA BlockCases ==
  ASSUME NEW payload, NEW expected
  PROVE  /\ IsStored(payload, expected) =>
              /\ IsBlock(payload, expected)
              /\ Content(payload, expected) = Tail(payload)
         /\ ~IsStored(payload, expected) =>
              /\ IsBlock(payload, expected) <=>
                   /\ Reference(payload).verdict = "Finished"
                   /\ Len(Reference(payload).out) = expected
              /\ Content(payload, expected) = Reference(payload).out
BY Zenon DEF IsBlock, Content
-----------------------------------------------------------------------------
(* The invariant that relates what was written to the wrapper. *)

(* The block at hand, and the bytes of the blocks before it. *)
Current == IF IsInline THEN XattrPayload(xattr) ELSE BlockAt(fork, block_index)

Before == IF IsInline THEN << >> ELSE BlocksContent(fork, Size, block_index)

WInv ==
  /\ pc \in {"open", "block"} => raw_dst = << >>
  /\ pc \in {"block", "raw"} =>
       /\ dst = Before
       /\ ~IsInline => /\ Whole(fork, Size, block_index)
                       /\ previous_offset = Offset(fork, block_index)
  /\ pc = "raw" =>
       /\ raw_src = Current
       /\ ~IsStored(Current, Expected)
       /\ ~IsInline => InOrder(fork, block_index + 1)
       /\ P!RInv
  /\ pc = "done" =>
       WritesContent /\ AcceptsWholeWrappers /\ FailsAtFirstFault

LEMMA InitWInv == Init => WInv
BY DEF Init, WInv

(* What is at hand is bytes, of a size that is a number. *)
LEMMA CurrentType ==
  ASSUME IInv, WInv, pc = "raw"
  PROVE  /\ Expected \in Nat
         /\ raw_src \in Seq(Byte) /\ raw_dst \in Seq(Byte)
         /\ dst \in Seq(Byte)
         /\ Raw!TypeOK /\ Raw!CopiesInBounds /\ raw_capacity = Expected
<1>1. /\ TypeOK /\ Fits /\ Size \in Nat /\ block_index \in Nat
      /\ Count \in Nat
  BY OpenedWrapper DEF IInv, TypeOK
<1>2. /\ Raw!TypeOK /\ Raw!CopiesInBounds /\ raw_capacity = Expected
      /\ ~IsInline => block_index < Count
  BY DEF IInv, TypeOK
<1>3. Expected \in Nat
  <2>1. CASE IsInline
    BY <1>1, <2>1 DEF Expected
  <2>2. CASE ~IsInline
    <3>1. Opened = "fork"
      BY <1>1, <2>2, OpenedWrapper DEF Fits
    <3>2. InOrder(fork, block_index + 1)
      BY <2>2 DEF WInv
    <3>3. RemainingBlockSize(Size, block_index) \in Nat
      BY <1>1, <1>2, <2>2, <3>1, <3>2, BlockType
    <3>4. QED
      BY <2>2, <3>3 DEF Expected
  <2>3. QED
    BY <2>1, <2>2
<1>4. raw_src \in Seq(Byte) /\ raw_dst \in Seq(Byte)
  BY <1>2 DEF Raw!TypeOK, Raw!Byte, Byte
<1>5. dst \in Seq(Byte)
  BY <1>1 DEF TypeOK, Byte
<1>6. QED
  BY <1>2, <1>3, <1>4, <1>5

LEMMA PayloadType ==
  ASSUME TypeOK, Fits
  PROVE  XattrPayload(xattr) \in Seq(Byte)
<1>1. xattr \in Seq(Byte) /\ Len(xattr) \in Nat /\ Len(xattr) >= 16
  BY OpenedWrapper
<1>2. Len(xattr) \in 0..Len(xattr) /\ 16 \in 0..Len(xattr)
  BY <1>1
<1>3. QED
  BY <1>1, <1>2, WindowProperties DEF XattrPayload, HeaderLength

(* What was written is always the beginning of the contents. *)
LEMMA InvariantWrites ==
  ASSUME IInv, WInv
  PROVE  WritesContent
<1> SUFFICES ASSUME Fits
             PROVE  IsPrefix(dst \o raw_dst,
                      IF IsInline
                        THEN Content(XattrPayload(xattr), Size)
                        ELSE BlocksContent(fork, Size,
                               IF raw_dst = << >> THEN block_index
                                                  ELSE block_index + 1))
  BY Zenon DEF WritesContent, Fits
<1>1. /\ TypeOK /\ Size \in Nat /\ Count \in Nat /\ block_index \in Nat
      /\ IsInline <=> Opened = "inline"
      /\ dst \in Seq(Byte) /\ raw_dst \in Seq(Byte)
      /\ pc \in {"open", "block", "raw", "done"}
  BY OpenedWrapper DEF IInv, TypeOK, Byte, Raw!TypeOK, Raw!Byte
<1>2. << >> \in Seq(Byte) /\ << >> \o << >> = << >> /\ dst \o << >> = dst
      /\ << >> \o raw_dst = raw_dst
  BY <1>1
<1>3. CASE pc = "open"
  <2>1. dst = << >> /\ raw_dst = << >> /\ block_index = 0
    BY <1>3 DEF IInv
  <2>2. CASE IsInline
    <3>1. Content(XattrPayload(xattr), Size) \in Seq(Byte)
      BY <1>1, PayloadType, ContentType
    <3>2. IsPrefix(<< >>, Content(XattrPayload(xattr), Size))
      BY <1>2, <3>1, PrefixFacts
    <3>3. QED
      BY <1>2, <2>1, <2>2, <3>2, Zenon
  <2>3. CASE ~IsInline
    <3>1. IsPrefix(<< >>, << >>)
      BY <1>2, PrefixFacts
    <3>2. QED
      BY <1>2, <2>1, <2>3, <3>1, NoContent, Zenon
  <2>4. QED
    BY <2>2, <2>3
<1>4. CASE pc = "block"
  <2>1. raw_dst = << >> /\ dst = Before /\ ~IsInline
    BY <1>4 DEF IInv, WInv
  <2>2. dst = BlocksContent(fork, Size, block_index)
    BY <2>1, Zenon DEF Before
  <2>3. IsPrefix(dst, dst)
    BY <1>1, PrefixFacts
  <2>4. QED
    BY <1>2, <2>1, <2>2, <2>3, Zenon
<1>5. CASE pc = "raw"
  <2>1. /\ dst = Before /\ raw_src = Current /\ P!RInv
        /\ ~IsStored(Current, Expected)
    BY <1>5 DEF WInv
  <2>2. /\ Expected \in Nat /\ raw_capacity = Expected
        /\ Raw!TypeOK /\ Raw!CopiesInBounds
    BY <1>5, CurrentType
  <2>3. /\ Reference(raw_src).out \in Seq(Byte)
        /\ IsPrefix(raw_dst, Reference(raw_src).out)
    BY <2>1, <2>2, RawVerdict
  <2>4. Content(Current, Expected) = Reference(raw_src).out
    BY <2>1, BlockCases, Zenon
  <2>5. CASE IsInline
    <3>1. /\ dst = << >> /\ Current = XattrPayload(xattr)
          /\ Expected = Size
      BY <2>1, <2>5, Zenon DEF Before, Current, Expected
    <3>2. QED
      BY <1>2, <2>3, <2>4, <2>5, <3>1, Zenon
  <2>6. CASE ~IsInline
    <3>1. /\ dst = BlocksContent(fork, Size, block_index)
          /\ Current = BlockAt(fork, block_index)
          /\ Expected = RemainingBlockSize(Size, block_index)
      BY <2>1, <2>6, Zenon DEF Before, Current, Expected
    <3>2. CASE raw_dst = << >>
      <4>1. IsPrefix(dst, dst)
        BY <1>1, PrefixFacts
      <4>2. QED
        BY <1>2, <2>6, <3>1, <3>2, <4>1, Zenon
    <3>3. CASE raw_dst # << >>
      <4>1. /\ Opened = "fork" /\ block_index < Count
            /\ InOrder(fork, block_index + 1)
        BY <1>1, <1>5, <2>6 DEF IInv, WInv, Fits
      <4>2. BlocksContent(fork, Size, block_index + 1)
              = dst \o Reference(raw_src).out
        <5>1. BlocksContent(fork, Size, block_index + 1)
                = BlocksContent(fork, Size, block_index)
                    \o Content(BlockAt(fork, block_index),
                               RemainingBlockSize(Size, block_index))
          BY <1>1, <4>1, NextContent
        <5>2. QED
          BY <2>4, <3>1, <5>1, Zenon
      <4>3. IsPrefix(dst \o raw_dst, dst \o Reference(raw_src).out)
        BY <1>1, <2>3, PrefixFacts
      <4>4. QED
        BY <2>6, <3>3, <4>2, <4>3, Zenon
    <3>4. QED
      BY <3>2, <3>3
  <2>7. QED
    BY <2>5, <2>6
<1>6. CASE pc = "done"
  BY <1>6, Zenon DEF WInv, WritesContent, Fits
<1>7. QED
  BY <1>1, <1>3, <1>4, <1>5, <1>6

(* What the error of a call has to be where it stops. *)
Fault(error) ==
  /\ Opened = "inline" => error \in BlockErrors(XattrPayload(xattr), Size)
  /\ Opened = "fork" =>
       /\ \A k \in 0..(block_index - 1) :
            /\ IsCutOut(k)
            /\ IsBlock(BlockAt(fork, k), RemainingBlockSize(Size, k))
       /\ IF block_index = Count
            THEN /\ error = "InvalidResourceFork"
                 /\ Offset(fork, Count) # Len(fork)
            ELSE IF ~IsCutOut(block_index)
              THEN error = "InvalidResourceFork"
              ELSE error \in BlockErrors(BlockAt(fork, block_index),
                               RemainingBlockSize(Size, block_index))

LEMMA FaultOfResult ==
  FailsAtFirstFault <=> (pc = "done" /\ result # "Ok" => Fault(result))
BY Zenon DEF FailsAtFirstFault, Fault

LEMMA FaultOfNextResult ==
  FailsAtFirstFault' <=>
    (pc' = "done" /\ result' # "Ok" => Fault(result)')
BY Zenon DEF FailsAtFirstFault, Fault

(* The blocks in front of the one where it stops are whole. *)
LEMMA WholeCutOut ==
  ASSUME NEW k \in Nat, Whole(fork, Size, k)
  PROVE  \A i \in 0..(k - 1) :
           /\ IsCutOut(i)
           /\ IsBlock(BlockAt(fork, i), RemainingBlockSize(Size, i))
<1> SUFFICES ASSUME NEW i \in 0..(k - 1)
             PROVE  /\ IsCutOut(i)
                    /\ IsBlock(BlockAt(fork, i), RemainingBlockSize(Size, i))
  OBVIOUS
<1>1. i + 1 \in 1..k /\ (i + 1) - 1 = i
  OBVIOUS
<1>2. Offset(fork, i + 1) \in Offset(fork, (i + 1) - 1)..Len(fork)
  BY <1>1, Zenon DEF Whole, InOrder
<1>3. IsCutOut(i)
  BY <1>1, <1>2, Zenon DEF IsCutOut
<1>4. QED
  BY <1>3, Zenon DEF Whole

(* A return that changes nothing else, with the right verdict. *)
LEMMA Returned ==
  ASSUME IInv, WInv, NEW verdict, Return(verdict),
         UNCHANGED <<args, block_index, previous_offset, dst, raw_vars>>,
         verdict = "Ok" <=> (HasRoom /\ IsWrapper(xattr, fork)),
         verdict = "Ok" => dst = WrapperContent(xattr, fork),
         verdict # "Ok" => Fault(verdict)
  PROVE  WInv'
<1>1. /\ pc' = "done" /\ result' = verdict
      /\ block_index' = block_index /\ dst' = dst /\ UNCHANGED args
      /\ raw_dst' = raw_dst
  BY DEF Return, raw_vars
<1>2. /\ xattr' = xattr /\ fork' = fork /\ capacity' = capacity
      /\ Size' = Size /\ IsInline' = IsInline /\ Count' = Count
  BY <1>1, ArgsKept
<1>3. Opened' = Opened
  BY <1>1, ArgsKept
<1>4. WritesContent'
  BY <1>1, <1>2, <1>3, InvariantWrites, Zenon DEF WritesContent
<1>5. HasRoom' = HasRoom
  BY <1>1, ArgsKept
<1>6. AcceptsWholeWrappers'
  BY <1>1, <1>2, <1>5, Zenon DEF AcceptsWholeWrappers
<1>7. Fault(result)' <=> Fault(verdict)
  BY <1>1, <1>2, <1>3, Zenon DEF Fault, IsCutOut
<1>8. FailsAtFirstFault'
  BY <1>1, <1>7, FaultOfNextResult
<1>9. QED
  BY <1>1, <1>4, <1>6, <1>8 DEF WInv

LEMMA RefuseWInv ==
  ASSUME IInv, WInv, Refuse
  PROVE  WInv'
<1>1. /\ Opened \notin {"inline", "fork"} /\ Return(Opened)
      /\ UNCHANGED <<args, block_index, previous_offset, dst, raw_vars>>
  BY DEF Refuse
<1>2. Opened # "Ok"
  BY Zenon DEF Opened
<1>3. ~(HasRoom /\ IsWrapper(xattr, fork))
  BY <1>1, NoWrapper DEF IInv
<1>4. Fault(Opened)
  BY <1>1 DEF Fault
<1>5. QED
  BY <1>1, <1>2, <1>3, <1>4, Returned

LEMMA BadOffsetWInv ==
  ASSUME IInv, WInv, BadOffset
  PROVE  WInv'
<1>1. /\ pc = "block" /\ block_index < Count
      /\ NextOffset < previous_offset \/ NextOffset > Len(fork)
      /\ Return("InvalidResourceFork")
      /\ UNCHANGED <<args, block_index, previous_offset, dst, raw_vars>>
  BY DEF BadOffset
<1>2. /\ TypeOK /\ Fits /\ ~IsInline /\ Opened = "fork" /\ Count \in Nat
      /\ block_index \in Nat /\ fork \in Seq(Byte) /\ Len(fork) \in Nat
      /\ previous_offset \in Nat
      /\ previous_offset = Offset(fork, block_index)
      /\ Whole(fork, Size, block_index)
  BY <1>1, OpenedWrapper DEF IInv, WInv, TypeOK, Fits
<1>3. NextOffset = Offset(fork, block_index + 1) /\ NextOffset \in Nat
  <2>1. block_index + 1 \in Nat /\ block_index + 1 <= Count
    BY <1>1, <1>2
  <2>2. QED
    BY <1>2, <2>1, OffsetType DEF NextOffset, Offset
<1>4. ~InOrder(fork, Count)
  <2> SUFFICES ASSUME InOrder(fork, Count) PROVE FALSE
    OBVIOUS
  <2>1. block_index + 1 \in 1..Count /\ (block_index + 1) - 1 = block_index
    BY <1>1, <1>2
  <2>2. Offset(fork, block_index + 1)
          \in Offset(fork, block_index)..Len(fork)
    BY <2>1 DEF InOrder
  <2>3. QED
    BY <1>1, <1>2, <1>3, <2>2
<1>5. ~IsWrapper(xattr, fork)
  BY <1>2, <1>4, ForkWrapper, Zenon DEF Whole
<1>6. Fault("InvalidResourceFork")
  <2>1. block_index # Count
    BY <1>1, <1>2
  <2>2. ~IsCutOut(block_index)
    BY <1>1, <1>2, <1>3 DEF IsCutOut
  <2>3. \A k \in 0..(block_index - 1) :
          /\ IsCutOut(k)
          /\ IsBlock(BlockAt(fork, k), RemainingBlockSize(Size, k))
    BY <1>2, WholeCutOut
  <2>4. QED
    BY <1>2, <2>1, <2>2, <2>3, Zenon DEF Fault
<1>7. QED
  BY <1>1, <1>5, <1>6, Returned

LEMMA CloseForkWInv ==
  ASSUME IInv, WInv, CloseFork
  PROVE  WInv'
<1> DEFINE verdict == IF previous_offset = Len(fork)
                        THEN "Ok" ELSE "InvalidResourceFork"
<1>1. /\ pc = "block" /\ block_index = Count /\ Return(verdict)
      /\ UNCHANGED <<args, block_index, previous_offset, dst, raw_vars>>
  BY DEF CloseFork
<1>2. /\ TypeOK /\ Fits /\ ~IsInline /\ Opened = "fork"
      /\ previous_offset = Offset(fork, block_index)
      /\ Whole(fork, Size, block_index) /\ dst = Before
  BY <1>1, OpenedWrapper DEF IInv, WInv, Fits
<1>3. /\ HasRoom
      /\ IsWrapper(xattr, fork) <=> Offset(fork, Count) = Len(fork)
      /\ WrapperContent(xattr, fork) = BlocksContent(fork, Size, Count)
  BY <1>1, <1>2, ForkWrapper
<1>4. verdict = "Ok" <=> (HasRoom /\ IsWrapper(xattr, fork))
  BY <1>1, <1>2, <1>3
<1>5. dst = WrapperContent(xattr, fork)
  BY <1>1, <1>2, <1>3, Zenon DEF Before
<1>6. verdict # "Ok" => Fault(verdict)
  <2> SUFFICES ASSUME verdict # "Ok" PROVE Fault(verdict)
    OBVIOUS
  <2>1. verdict = "InvalidResourceFork" /\ Offset(fork, Count) # Len(fork)
    BY <1>1, <1>2
  <2>2. block_index \in Nat
    BY <1>2 DEF TypeOK
  <2>3. \A k \in 0..(block_index - 1) :
          /\ IsCutOut(k)
          /\ IsBlock(BlockAt(fork, k), RemainingBlockSize(Size, k))
    BY <1>2, <2>2, WholeCutOut
  <2> HIDE DEF verdict
  <2>4. QED
    BY <1>1, <1>2, <2>1, <2>3, Zenon DEF Fault
<1> HIDE DEF verdict
<1>7. QED
  BY <1>1, <1>4, <1>5, <1>6, Returned

(* A wrapper with a block that is not what was declared is not whole. *)
LEMMA BadBlock ==
  ASSUME IInv, WInv, pc = "raw", ~IsBlock(Current, Expected)
  PROVE  ~IsWrapper(xattr, fork)
<1>1. /\ TypeOK /\ Fits /\ block_index \in Nat /\ Count \in Nat
      /\ IsInline <=> Opened = "inline"
      /\ ~IsInline => block_index < Count
  BY OpenedWrapper DEF IInv, TypeOK
<1>2. CASE IsInline
  <2>1. Current = XattrPayload(xattr) /\ Expected = Size
    BY <1>2, Zenon DEF Current, Expected
  <2>2. QED
    BY <1>1, <1>2, <2>1, InlineWrapper
<1>3. CASE ~IsInline
  <2>1. /\ Current = BlockAt(fork, block_index)
        /\ Expected = RemainingBlockSize(Size, block_index)
    BY <1>3, Zenon DEF Current, Expected
  <2>2. block_index \in 0..(Count - 1)
    BY <1>1, <1>3
  <2>3. ~Whole(fork, Size, Count)
    BY <2>1, <2>2, Zenon DEF Whole
  <2>4. Opened = "fork"
    BY <1>1, <1>3 DEF Fits
  <2>5. QED
    BY <1>1, <2>3, <2>4, ForkWrapper
<1>4. QED
  BY <1>2, <1>3

(* The error of the raw decoder is one for its payload. *)
LEMMA RawError ==
  ASSUME Raw!TypeOK, Raw!CopiesInBounds, P!RInv,
         NEW expected \in Nat, raw_capacity = expected,
         ~IsBlock(raw_src, expected), raw_result # "running",
         NEW verdict, verdict = IF raw_result = "Finished" THEN "SizeMismatch"
                                                           ELSE raw_result
  PROVE  verdict \in BlockErrors(raw_src, expected)
<1>1. /\ raw_src \in Seq(Byte) /\ raw_dst \in Seq(Byte)
      /\ Reference(raw_src).out \in Seq(Byte)
      /\ raw_result \notin {"running", "OutputTooSmall"} =>
           /\ Reference(raw_src).out = raw_dst
           /\ Reference(raw_src).verdict = raw_result
      /\ raw_result = "OutputTooSmall" =>
           \/ Len(Reference(raw_src).out) > expected
           \/ Reference(raw_src).verdict = "InvalidMatchDistance"
  BY RawAgrees
<1>2. Len(raw_dst) <= expected
  <2>1. /\ Len(raw_dst) + raw_literal_len + raw_match_len <= raw_capacity
        /\ raw_literal_len \in Nat /\ raw_match_len \in Nat
    BY DecmpfsDecodeAssumption DEF Raw!TypeOK, Raw!CopiesInBounds
  <2>2. Len(raw_dst) \in Nat
    BY <1>1
  <2>3. QED
    BY <2>1, <2>2
<1> DEFINE out == Reference(raw_src).out
           end == Reference(raw_src).verdict
<1>3. BlockErrors(raw_src, expected) =
        IF Len(out) > expected THEN {"OutputTooSmall"}
        ELSE IF end = "Finished" THEN {"SizeMismatch"}
        ELSE IF end = "InvalidMatchDistance"
          THEN {"OutputTooSmall", "InvalidMatchDistance"}
        ELSE {end}
  BY Zenon DEF BlockErrors
<1>4. /\ raw_result \notin {"running", "OutputTooSmall"} =>
           out = raw_dst /\ end = raw_result
      /\ raw_result = "OutputTooSmall" =>
           Len(out) > expected \/ end = "InvalidMatchDistance"
  BY <1>1
<1> HIDE DEF out, end
<1>5. CASE raw_result = "OutputTooSmall"
  BY <1>3, <1>4, <1>5
<1>6. CASE raw_result # "OutputTooSmall"
  <2>1. end = raw_result /\ ~(Len(out) > expected)
    <3>1. out = raw_dst /\ end = raw_result
      BY <1>4, <1>6
    <3>2. Len(raw_dst) \in Nat
      BY <1>1
    <3>3. QED
      BY <1>2, <3>1, <3>2
  <2>2. QED
    BY <1>3, <1>6, <2>1, Zenon
<1>7. QED
  BY <1>5, <1>6

LEMMA BlockFailedWInv ==
  ASSUME IInv, WInv, BlockFailed
  PROVE  WInv'
<1> DEFINE verdict == IF raw_result = "Finished" THEN "SizeMismatch"
                                                 ELSE raw_result
<1>1. /\ pc = "raw" /\ raw_result # "running" /\ Return(verdict)
      /\ raw_result = "Finished" => Len(raw_dst) # Expected
      /\ UNCHANGED <<args, block_index, previous_offset, dst, raw_vars>>
  BY DEF BlockFailed
<1>2. verdict # "Ok"
  BY <1>1 DEF IInv, TypeOK, Raw!TypeOK, Raw!Errors
<1>3. /\ raw_src = Current /\ P!RInv /\ ~IsStored(Current, Expected)
  BY <1>1 DEF WInv
<1>4. /\ Expected \in Nat /\ raw_capacity = Expected
      /\ Raw!TypeOK /\ Raw!CopiesInBounds
  BY <1>1, CurrentType
<1>5. ~ /\ Reference(raw_src).verdict = "Finished"
        /\ Len(Reference(raw_src).out) = Expected
  <2>1. CASE raw_result = "Finished"
    <3>1. Reference(raw_src).out = raw_dst
      BY <1>3, <1>4, <2>1, RawVerdict
    <3>2. QED
      BY <1>1, <2>1, <3>1
  <2>2. CASE raw_result # "Finished"
    <3>1. raw_result \notin {"running", "Finished"}
      BY <1>1, <2>2
    <3>2. PICK expected \in Nat : expected = Expected
      BY <1>4
    <3>3. QED
      BY <1>3, <1>4, <3>1, <3>2, RawVerdict
  <2>3. QED
    BY <2>1, <2>2
<1>6. ~IsBlock(Current, Expected)
  BY <1>3, <1>5, BlockCases, Zenon
<1>7. ~IsWrapper(xattr, fork)
  BY <1>1, <1>6, BadBlock
<1>8. verdict \in BlockErrors(Current, Expected)
  <2>1. PICK expected \in Nat : expected = Expected
    BY <1>4
  <2>2. ~IsBlock(raw_src, expected) /\ raw_capacity = expected
    BY <1>3, <1>4, <1>6, <2>1
  <2>3. PICK error : error = verdict
    OBVIOUS
  <2>4. error \in BlockErrors(raw_src, expected)
    BY <1>1, <1>3, <1>4, <2>2, <2>3, RawError
  <2>5. QED
    BY <1>3, <2>1, <2>3, <2>4
<1> HIDE DEF verdict
<1>9. Fault(verdict)
  <2>1. /\ TypeOK /\ Fits /\ block_index \in Nat /\ Count \in Nat
        /\ IsInline <=> Opened = "inline"
        /\ ~IsInline => /\ block_index < Count
                        /\ Whole(fork, Size, block_index)
                        /\ InOrder(fork, block_index + 1)
    BY <1>1, OpenedWrapper DEF IInv, WInv, TypeOK
  <2>2. CASE IsInline
    <3>1. Current = XattrPayload(xattr) /\ Expected = Size
      BY <2>2, Zenon DEF Current, Expected
    <3>2. QED
      BY <1>8, <2>1, <2>2, <3>1, Zenon DEF Fault
  <2>3. CASE ~IsInline
    <3>1. /\ Current = BlockAt(fork, block_index)
          /\ Expected = RemainingBlockSize(Size, block_index)
      BY <2>3, Zenon DEF Current, Expected
    <3>2. IsCutOut(block_index)
      <4>1. block_index + 1 \in 1..(block_index + 1)
            /\ (block_index + 1) - 1 = block_index
        BY <2>1
      <4>2. Offset(fork, block_index + 1)
              \in Offset(fork, (block_index + 1) - 1)..Len(fork)
        BY <2>1, <2>3, <4>1, Zenon DEF InOrder
      <4>3. QED
        BY <4>1, <4>2, Zenon DEF IsCutOut
    <3>3. \A k \in 0..(block_index - 1) :
            /\ IsCutOut(k)
            /\ IsBlock(BlockAt(fork, k), RemainingBlockSize(Size, k))
      BY <2>1, <2>3, WholeCutOut
    <3>4. block_index # Count
      BY <2>1, <2>3
    <3>5. QED
      BY <1>8, <2>1, <2>3, <3>1, <3>2, <3>3, <3>4, Zenon DEF Fault
  <2>4. QED
    BY <2>2, <2>3
<1>10. QED
  BY <1>1, <1>2, <1>7, <1>9, Returned

LEMMA OpenForkWInv ==
  ASSUME IInv, WInv, OpenFork
  PROVE  WInv'
<1>1. /\ pc = "open" /\ Opened = "fork" /\ UNCHANGED args
      /\ pc' = "block" /\ previous_offset' = ReadOffset(fork, 0)
      /\ block_index' = block_index /\ dst' = dst /\ raw_dst' = raw_dst
  BY DEF OpenFork, raw_vars
<1>2. /\ dst = << >> /\ block_index = 0 /\ raw_dst = << >> /\ ~IsInline
  BY <1>1, OpenedWrapper DEF IInv, Fits
<1>3. fork' = fork /\ Size' = Size /\ IsInline' = IsInline
  BY <1>1, ArgsKept
<1>4. Before' = BlocksContent(fork, Size, 0)
  BY <1>1, <1>2, <1>3, Zenon DEF Before
<1>5. Whole(fork, Size, 0)
  <2>1. 1..0 = {} /\ 0..(0 - 1) = {}
    OBVIOUS
  <2>2. QED
    BY <2>1, Zenon DEF Whole, InOrder
<1>6. Whole(fork, Size, block_index)'
  BY <1>1, <1>2, <1>3, <1>5, Zenon
<1>7. previous_offset' = Offset(fork', block_index')
  BY <1>1, <1>2, <1>3 DEF Offset
<1>8. dst' = Before'
  BY <1>1, <1>2, <1>4, NoContent
<1>9. QED
  BY <1>1, <1>2, <1>6, <1>7, <1>8 DEF WInv

(* A block that is not stored is handed over. *)
LEMMA HandedOver ==
  ASSUME IInv, WInv, UNCHANGED args, pc \in {"open", "block"},
         NEW payload \in Seq(Byte), NEW expected, expected = Expected,
         payload = Current, StartBlock(payload, expected),
         ~IsStored(payload, expected), dst = Before,
         ~IsInline => /\ Whole(fork, Size, block_index)
                      /\ previous_offset = Offset(fork, block_index)
                      /\ InOrder(fork, block_index + 1)
  PROVE  WInv'
<1>1. /\ pc' = "raw" /\ raw_src' = payload
      /\ raw_input' = 0 /\ raw_dst' = << >>
      /\ raw_previous_distance' = 0
      /\ raw_literal_len' = 0 /\ raw_match_len' = 0
      /\ raw_result' = "running"
      /\ block_index' = block_index /\ previous_offset' = previous_offset
      /\ dst' = dst
  BY Zenon DEF StartBlock
<1>2. /\ xattr' = xattr /\ fork' = fork /\ Size' = Size
      /\ IsInline' = IsInline
  BY ArgsKept
<1>3. /\ Current' = Current /\ Before' = Before /\ Expected' = Expected
  BY <1>1, <1>2, Zenon DEF Current, Before, Expected
<1>4. P!RInv'
  BY <1>1, RawAgreesStart
<1>5. ~IsStored(Current, Expected)'
  BY <1>3, Zenon
<1>6. ~IsInline' => /\ Whole(fork, Size, block_index)'
                    /\ previous_offset' = Offset(fork, block_index)'
                    /\ InOrder(fork, block_index + 1)'
  BY <1>1, <1>2, Zenon
<1>7. raw_src' = Current' /\ dst' = Before'
  BY <1>1, <1>3
<1>8. QED
  BY <1>1, <1>4, <1>5, <1>6, <1>7 DEF WInv

(* The payload of the xattr is decoded whole. *)
LEMMA InlineDone ==
  ASSUME IInv, WInv, UNCHANGED args, Opened = "inline",
         NEW bytes \in Seq(Byte),
         bytes = Content(XattrPayload(xattr), Size),
         IsBlock(XattrPayload(xattr), Size),
         pc' = "done", result' = "Ok", dst' = bytes, raw_dst' = << >>
  PROVE  WInv'
<1>1. /\ TypeOK /\ Fits /\ IsInline
  BY OpenedWrapper DEF IInv, Fits
<1>2. /\ xattr' = xattr /\ fork' = fork /\ capacity' = capacity
      /\ Size' = Size /\ IsInline' = IsInline
  BY ArgsKept
<1>3. /\ HasRoom /\ IsWrapper(xattr, fork)
      /\ WrapperContent(xattr, fork) = bytes
  BY <1>1, InlineWrapper
<1>4. HasRoom' = HasRoom
  BY ArgsKept
<1>5. AcceptsWholeWrappers' /\ FailsAtFirstFault'
  BY <1>2, <1>3, <1>4, Zenon DEF AcceptsWholeWrappers, FailsAtFirstFault
<1>6. bytes \o << >> = bytes /\ IsPrefix(bytes, bytes)
  BY PrefixFacts
<1>7. IsPrefix(dst' \o raw_dst', Content(XattrPayload(xattr'), Size'))
  BY <1>2, <1>6, Zenon
<1>8. WritesContent'
  BY <1>1, <1>2, <1>7, Zenon DEF WritesContent
<1>9. QED
  BY <1>5, <1>8 DEF WInv

(* A block of the fork is decoded whole. *)
LEMMA BlockWritten ==
  ASSUME IInv, WInv, UNCHANGED args, Opened = "fork",
         pc \in {"block", "raw"}, block_index < Count,
         InOrder(fork, block_index + 1),
         IsBlock(BlockAt(fork, block_index),
                 RemainingBlockSize(Size, block_index)),
         pc' = "block", block_index' = block_index + 1,
         previous_offset' = Offset(fork, block_index + 1),
         dst' = dst \o Content(BlockAt(fork, block_index),
                               RemainingBlockSize(Size, block_index)),
         raw_dst' = << >>
  PROVE  WInv'
<1>1. /\ TypeOK /\ Fits /\ ~IsInline /\ block_index \in Nat
      /\ Whole(fork, Size, block_index)
      /\ dst = BlocksContent(fork, Size, block_index)
  BY OpenedWrapper DEF IInv, WInv, Fits, Before, TypeOK
<1>2. fork' = fork /\ Size' = Size /\ IsInline' = IsInline
  BY ArgsKept
<1>3. BlocksContent(fork, Size, block_index + 1) = dst'
  BY <1>1, NextContent
<1>4. Before' = dst'
  BY <1>1, <1>2, <1>3, Zenon DEF Before
<1>5. Whole(fork, Size, block_index + 1)
  BY <1>1, NextWhole
<1>6. Whole(fork, Size, block_index)'
  BY <1>2, <1>5, Zenon
<1>7. previous_offset' = Offset(fork, block_index)'
  BY <1>2, Zenon
<1>8. QED
  BY <1>4, <1>6, <1>7 DEF WInv

LEMMA OpenInlineWInv ==
  ASSUME IInv, WInv, OpenInline
  PROVE  WInv'
<1>1. /\ pc = "open" /\ Opened = "inline" /\ UNCHANGED args
      /\ StartBlock(XattrPayload(xattr), Size)
  BY DEF OpenInline
<1>2. TypeOK /\ Fits /\ IsInline /\ Size \in Nat
  BY <1>1, OpenedWrapper DEF Fits, IInv
<1>3. XattrPayload(xattr) \in Seq(Byte)
  BY <1>2, PayloadType
<1>4. dst = << >> /\ raw_dst = << >>
  BY <1>1 DEF IInv
<1>5. PICK payload \in Seq(Byte) : payload = XattrPayload(xattr)
  BY <1>3
<1>6. PICK expected \in Nat : expected = Size
  BY <1>2
<1>7. /\ expected = Expected /\ payload = Current /\ dst = Before
      /\ StartBlock(payload, expected)
  BY <1>1, <1>2, <1>4, <1>5, <1>6 DEF Expected, Current, Before
<1>8. CASE IsStored(payload, expected)
  <2>1. /\ dst' = dst \o Tail(payload)
        /\ pc' = "done" /\ result' = "Ok" /\ raw_dst' = raw_dst
    BY <1>2, <1>7, <1>8 DEF StartBlock, Return, raw_vars
  <2>2. /\ IsBlock(payload, expected)
        /\ Content(payload, expected) = Tail(payload)
    BY <1>8, BlockCases
  <2>3. Tail(payload) \in Seq(Byte)
    BY <1>8, StoredBlock
  <2>4. PICK bytes \in Seq(Byte) : bytes = Tail(payload)
    BY <2>3
  <2>5. dst' = bytes
    BY <1>4, <2>1, <2>4
  <2>6. /\ bytes = Content(XattrPayload(xattr), Size)
        /\ IsBlock(XattrPayload(xattr), Size)
    BY <1>5, <1>6, <2>2, <2>4
  <2>7. QED
    BY <1>1, <1>4, <2>1, <2>5, <2>6, InlineDone
<1>9. CASE ~IsStored(payload, expected)
  BY <1>1, <1>2, <1>7, <1>9, HandedOver
<1>10. QED
  BY <1>8, <1>9

LEMMA NextBlockWInv ==
  ASSUME IInv, WInv, NextBlock
  PROVE  WInv'
<1>1. /\ pc = "block" /\ block_index < Count /\ UNCHANGED args
      /\ NextOffset >= previous_offset /\ NextOffset <= Len(fork)
      /\ StartBlock(SubSeq(fork, previous_offset + 1, NextOffset), Expected)
  BY DEF NextBlock
<1>2. /\ TypeOK /\ Fits /\ ~IsInline /\ Opened = "fork" /\ Count \in Nat
      /\ block_index \in Nat /\ fork \in Seq(Byte) /\ Len(fork) \in Nat
      /\ previous_offset \in Nat /\ raw_dst = << >> /\ dst = Before
      /\ Whole(fork, Size, block_index)
      /\ previous_offset = Offset(fork, block_index)
  BY <1>1, OpenedWrapper DEF IInv, WInv, TypeOK, Fits
<1>3. NextOffset = Offset(fork, block_index + 1) /\ NextOffset \in Nat
  <2>1. block_index + 1 \in Nat /\ block_index + 1 <= Count
    BY <1>1, <1>2
  <2>2. QED
    BY <1>2, <2>1, OffsetType DEF NextOffset, Offset
<1>4. Offset(fork, block_index + 1) \in Offset(fork, block_index)..Len(fork)
  BY <1>1, <1>2, <1>3
<1>5. InOrder(fork, block_index + 1)
  BY <1>2, <1>4, NextInOrder DEF Whole
<1>6. /\ RemainingBlockSize(Size, block_index) \in Nat
      /\ BlockAt(fork, block_index) \in Seq(Byte)
      /\ Len(BlockAt(fork, block_index)) = NextOffset - previous_offset
  BY <1>1, <1>2, <1>3, <1>5, BlockType
<1>7. /\ Current = BlockAt(fork, block_index)
      /\ Expected = RemainingBlockSize(Size, block_index)
      /\ Current = SubSeq(fork, previous_offset + 1, NextOffset)
  BY <1>2, <1>3, Zenon DEF Current, Expected, BlockAt
<1>8. PICK payload \in Seq(Byte) : payload = Current
  BY <1>6, <1>7
<1>9. PICK expected \in Nat : expected = Expected
  BY <1>6, <1>7
<1>10. StartBlock(payload, expected)
  BY <1>1, <1>7, <1>8, <1>9, Zenon DEF StartBlock
<1>11. CASE IsStored(payload, expected)
  <2>1. /\ dst' = dst \o Tail(payload)
        /\ pc' = "block" /\ raw_dst' = << >>
        /\ block_index' = block_index + 1
        /\ previous_offset' = previous_offset + Len(payload)
    BY <1>1, <1>2, <1>10, <1>11 DEF StartBlock, raw_vars
  <2>2. /\ IsBlock(payload, expected)
        /\ Content(payload, expected) = Tail(payload)
    BY <1>11, BlockCases
  <2>3. previous_offset' = Offset(fork, block_index + 1)
    BY <1>2, <1>3, <1>6, <1>7, <1>8, <2>1, SMTT(30)
  <2>4. /\ IsBlock(BlockAt(fork, block_index),
                   RemainingBlockSize(Size, block_index))
        /\ dst' = dst \o Content(BlockAt(fork, block_index),
                                 RemainingBlockSize(Size, block_index))
    BY <1>7, <1>8, <1>9, <2>1, <2>2
  <2>5. QED
    BY <1>1, <1>2, <1>5, <2>1, <2>3, <2>4, BlockWritten
<1>12. CASE ~IsStored(payload, expected)
  BY <1>1, <1>2, <1>5, <1>8, <1>9, <1>10, <1>12, HandedOver
<1>13. QED
  BY <1>11, <1>12

LEMMA DecodeBlockWInv ==
  ASSUME IInv, WInv, DecodeBlock
  PROVE  WInv'
<1>1. /\ pc = "raw" /\ Raw!Next /\ UNCHANGED args
      /\ block_index' = block_index /\ previous_offset' = previous_offset
      /\ dst' = dst /\ pc' = pc
  BY DEF DecodeBlock
<1>2. /\ fork' = fork /\ xattr' = xattr /\ Size' = Size
      /\ IsInline' = IsInline
  BY <1>1, ArgsKept
<1>3. Current' = Current /\ Before' = Before /\ Expected' = Expected
  BY <1>1, <1>2, Zenon DEF Current, Before, Expected
<1>4. P!RInv' /\ raw_src' = raw_src
  BY <1>1, RawAgreesStep DEF IInv, WInv, TypeOK
<1>5. ~IsStored(Current, Expected)'
  BY <1>1, <1>3, Zenon DEF WInv
<1>6. ~IsInline' => /\ Whole(fork, Size, block_index)'
                    /\ previous_offset' = Offset(fork, block_index)'
                    /\ InOrder(fork, block_index + 1)'
  BY <1>1, <1>2, Zenon DEF WInv
<1>7. raw_src' = Current' /\ dst' = Before'
  BY <1>1, <1>3, <1>4 DEF WInv
<1>8. QED
  BY <1>1, <1>4, <1>5, <1>6, <1>7 DEF WInv

LEMMA BlockDoneWInv ==
  ASSUME IInv, WInv, BlockDone
  PROVE  WInv'
<1>1. /\ pc = "raw" /\ raw_result = "Finished" /\ Len(raw_dst) = Expected
      /\ dst' = dst \o raw_dst /\ raw_dst' = << >> /\ UNCHANGED args
  BY DEF BlockDone
<1>2. IF IsInline
        THEN pc' = "done" /\ result' = "Ok"
        ELSE /\ block_index' = block_index + 1
             /\ previous_offset' = NextOffset
             /\ pc' = "block"
  BY DEF BlockDone, Return
<1>3. /\ raw_src = Current /\ P!RInv /\ ~IsStored(Current, Expected)
      /\ dst = Before
  BY <1>1 DEF WInv
<1>4. /\ Expected \in Nat /\ raw_capacity = Expected
      /\ Raw!TypeOK /\ Raw!CopiesInBounds
  BY <1>1, CurrentType
<1>5. /\ Reference(raw_src).verdict = "Finished"
      /\ Reference(raw_src).out = raw_dst
      /\ raw_dst \in Seq(Byte)
  BY <1>1, <1>3, <1>4, RawVerdict
<1>6. /\ IsBlock(Current, Expected)
      /\ Content(Current, Expected) = raw_dst
  BY <1>1, <1>3, <1>5, BlockCases, Zenon
<1>7. /\ TypeOK /\ Fits /\ block_index \in Nat /\ Count \in Nat
      /\ IsInline <=> Opened = "inline"
  BY <1>1, OpenedWrapper DEF IInv, TypeOK
<1>8. CASE IsInline
  <2>1. Current = XattrPayload(xattr) /\ Expected = Size /\ dst = << >>
    BY <1>3, <1>8, Zenon DEF Current, Expected, Before
  <2>2. dst' = raw_dst
    BY <1>1, <1>5, <2>1
  <2>3. PICK bytes \in Seq(Byte) : bytes = raw_dst
    BY <1>5
  <2>4. /\ bytes = Content(XattrPayload(xattr), Size)
        /\ IsBlock(XattrPayload(xattr), Size)
    BY <1>6, <2>1, <2>3
  <2>5. QED
    BY <1>1, <1>2, <1>7, <1>8, <2>2, <2>3, <2>4, InlineDone
<1>9. CASE ~IsInline
  <2>1. /\ Current = BlockAt(fork, block_index)
        /\ Expected = RemainingBlockSize(Size, block_index)
    BY <1>9, Zenon DEF Current, Expected
  <2>2. /\ Opened = "fork" /\ block_index < Count
        /\ InOrder(fork, block_index + 1)
    BY <1>1, <1>7, <1>9 DEF Fits, IInv, WInv
  <2>3. previous_offset' = Offset(fork, block_index + 1)
    BY <1>2, <1>9 DEF NextOffset, Offset
  <2>4. QED
    BY <1>1, <1>2, <1>6, <1>9, <2>1, <2>2, <2>3, BlockWritten
<1>10. QED
  BY <1>8, <1>9

LEMMA StutterWInv ==
  ASSUME IInv, WInv, UNCHANGED vars
  PROVE  WInv'
<1>1. /\ xattr' = xattr /\ fork' = fork /\ capacity' = capacity
      /\ block_index' = block_index /\ previous_offset' = previous_offset
      /\ dst' = dst /\ pc' = pc /\ result' = result
      /\ raw_src' = raw_src /\ raw_capacity' = raw_capacity
      /\ raw_input' = raw_input /\ raw_dst' = raw_dst
      /\ raw_previous_distance' = raw_previous_distance
      /\ raw_literal_len' = raw_literal_len
      /\ raw_match_len' = raw_match_len /\ raw_result' = raw_result
      /\ UNCHANGED args
  BY DEF vars, args, raw_vars
<1>2. Size' = Size /\ IsInline' = IsInline
  BY <1>1, ArgsKept
<1>3. Current' = Current /\ Before' = Before /\ Expected' = Expected
  BY <1>1, <1>2, Zenon DEF Current, Before, Expected
<1>4. P!RInv' <=> P!RInv
  BY <1>1, Zenon DEF P!RInv, P!Ahead
<1>5. Opened' = Opened /\ HasRoom' = HasRoom /\ Count' = Count
  BY <1>1, ArgsKept
<1>6. WritesContent' <=> WritesContent
  BY <1>1, <1>2, <1>5, Zenon DEF WritesContent
<1>7. AcceptsWholeWrappers' <=> AcceptsWholeWrappers
  BY <1>1, <1>5, Zenon DEF AcceptsWholeWrappers
<1>8. FailsAtFirstFault' <=> FailsAtFirstFault
  <2>1. Fault(result)' <=> Fault(result)
    BY <1>1, <1>2, <1>5, Zenon DEF Fault, IsCutOut
  <2>2. QED
    BY <1>1, <2>1, FaultOfResult, FaultOfNextResult, Zenon
<1>9. QED
  BY <1>1, <1>2, <1>3, <1>4, <1>6, <1>7, <1>8, Zenon DEF WInv

(* It is inductive: one fact per action. *)
LEMMA NextWInv ==
  ASSUME IInv, WInv, [Next]_vars
  PROVE  WInv'
BY OpenInlineWInv, OpenForkWInv, RefuseWInv, NextBlockWInv, BadOffsetWInv,
   DecodeBlockWInv, BlockDoneWInv, BlockFailedWInv, CloseForkWInv,
   StutterWInv
DEF Next

LEMMA WriteInvariant == Spec => [](IInv /\ WInv)
<1>1. Init => IInv /\ WInv
  BY InitIInv, InitWInv
<1>2. (IInv /\ WInv) /\ [Next]_vars => (IInv /\ WInv)'
  BY NextIInv, NextWInv
<1>3. QED
  BY <1>1, <1>2, PTL DEF Spec

(* A call succeeds exactly when the wrapper is whole and the caller has    *)
(* room for the declared size, and then has written all of its bytes:      *)
(* every other wrapper is an error, whatever is wrong with its header, its *)
(* table or one of its blocks (decmpfs.rs 199-334).                        *)
THEOREM DecmpfsAccepts == Spec => []AcceptsWholeWrappers
<1>1. IInv /\ WInv => AcceptsWholeWrappers
  BY DEF WInv, AcceptsWholeWrappers
<1>2. QED
  BY <1>1, WriteInvariant, PTL

(* At any moment, also when the call fails half way, what was written is   *)
(* the beginning of what the wrapper's blocks hold, in their order         *)
(* (decmpfs.rs 302-325).                                                   *)
THEOREM DecmpfsWrites == Spec => []WritesContent
<1>1. IInv /\ WInv => WritesContent
  BY InvariantWrites
<1>2. QED
  BY <1>1, WriteInvariant, PTL

(* A call that fails stops at the first thing that is wrong: the blocks in *)
(* front are whole, and the error is the one for what comes next, be that  *)
(* a block, its offset, or bytes behind the last block (decmpfs.rs         *)
(* 302-334).                                                               *)
THEOREM DecmpfsFailsAtFirstFault == Spec => []FailsAtFirstFault
<1>1. IInv /\ WInv => FailsAtFirstFault
  BY DEF WInv, FailsAtFirstFault
<1>2. QED
  BY <1>1, WriteInvariant, PTL
=============================================================================
