-------------------------- MODULE BvxnCodecProofs ---------------------------
(***************************************************************************)
(* The two ends of the bvxn container that work on the whole of their      *)
(* input at once.  What the incremental encoders hand out is one encoding, *)
(* for every one-shot encoder, every source and all sizes of the buffers,  *)
(* and also for a caller that feeds too late.  And the one-shot decoders   *)
(* accept exactly the blocks that hold what they declare, for every block  *)
(* and every buffer; so that decoding what was handed out gives the source *)
(* back.                                                                   *)
(*                                                                         *)
(* P is a copy of the theory of the raw decoder.  Its definitions are      *)
(* those of Raw, the instance that decodes the payload, under other names; *)
(* lemmas in the second part say so.                                       *)
(***************************************************************************)
EXTENDS DrainEncoder, BvxnOneShotReference, LzvnProofs

P == INSTANCE RawDecodeProofs WITH
       Sources <- Seq(0..255), Capacities <- Nat, Unbounded <- Exact,
       src <- raw_src, capacity <- raw_capacity, input <- raw_input,
       dst <- raw_dst, previous_distance <- raw_previous_distance,
       literal_len <- raw_literal_len, match_len <- raw_match_len,
       result <- raw_result
-----------------------------------------------------------------------------
(* The incremental encoders. *)

Encoding(n) == EncodeOf(SubSeq(src, 1, n))

(* The input is what was fed; the encoding is that of what had been fed    *)
(* when it was prepared, which was everything unless the caller is late;   *)
(* and the offset counts what was handed out.                              *)
IInv ==
  /\ TypeOK
  /\ input = SubSeq(src, 1, fed)
  /\ finished_input /\ ~feeds_late => fed = Len(src)
  /\ prepared =>
       /\ finished_input
       /\ encoded = Encoding(taken)
       /\ ~feeds_late => taken = Len(src)
  /\ ~prepared => encoded = << >>
  /\ delivered = SubSeq(encoded, 1, output_offset)
  /\ result = "Finished" => prepared /\ output_offset = Len(encoded)

(* The first n bytes of s. *)
LEMMA Prefix ==
  ASSUME NEW s \in Seq(Byte), NEW n \in 0..Len(s)
  PROVE  /\ SubSeq(s, 1, n) \in Seq(Byte)
         /\ Len(SubSeq(s, 1, n)) = n
<1>1. 0 \in 0..n /\ n - 0 = n /\ 0 + 1 = 1
  OBVIOUS
<1>2. /\ SubSeq(s, 0 + 1, n) \in Seq(Byte)
      /\ Len(SubSeq(s, 0 + 1, n)) = n - 0
  BY <1>1, WindowProperties
<1>3. QED
  BY <1>1, <1>2

(* No bytes at all, and all of them. *)
LEMMA EmptyPrefix ==
  ASSUME NEW s \in Seq(Byte)
  PROVE  SubSeq(s, 1, 0) = << >>
<1>1. 0 \in 0..Len(s)
  OBVIOUS
<1>2. SubSeq(s, 1, 0) \in Seq(Byte) /\ Len(SubSeq(s, 1, 0)) = 0
  BY <1>1, Prefix
<1>3. QED
  BY <1>2, EmptySeq

LEMMA WholePrefix ==
  ASSUME NEW s \in Seq(Byte)
  PROVE  SubSeq(s, 1, Len(s)) = s
<1>1. /\ 0 \in 0..Len(s) /\ Len(s) \in 0..Len(s)
      /\ Len(s) - 0 = Len(s) /\ \A k \in 1..Len(s) : 0 + k = k
      /\ 0 + 1 = 1
  OBVIOUS
<1> DEFINE t == SubSeq(s, 0 + 1, Len(s))
<1>2. /\ t \in Seq(Byte)
      /\ Len(t) = Len(s) - 0
      /\ \A k \in 1..(Len(s) - 0) : t[k] = s[0 + k]
  BY <1>1, WindowProperties
<1>3. t = s
  <2> HIDE DEF t
  <2>1. Len(t) = Len(s) /\ \A k \in 1..Len(s) : t[k] = s[k]
    BY <1>1, <1>2
  <2>2. QED
    BY <1>2, <2>1, SeqEqual
<1>4. QED
  BY <1>1, <1>3

(* The next n bytes continue the first o. *)
LEMMA LongerPrefix ==
  ASSUME NEW s \in Seq(Byte), NEW o \in 0..Len(s), NEW n \in 0..(Len(s) - o)
  PROVE  SubSeq(s, 1, o) \o SubSeq(s, o + 1, o + n) = SubSeq(s, 1, o + n)
<1>1. 0 \in 0..o /\ 0 + 1 = 1
  OBVIOUS
<1>2. SubSeq(s, 0 + 1, o) \o SubSeq(s, o + 1, o + n)
        = SubSeq(s, 0 + 1, o + n)
  BY <1>1, ExtendRun
<1>3. QED
  BY <1>1, <1>2

(* The types, for arithmetic, and with the name of the set of bytes. *)
LEMMA Types ==
  ASSUME TypeOK
  PROVE  /\ src \in Seq(Byte) /\ input \in Seq(Byte)
         /\ encoded \in Seq(Byte) /\ delivered \in Seq(Byte)
         /\ Len(src) \in Nat /\ fed \in Nat /\ fed <= Len(src)
         /\ Len(encoded) \in Nat /\ output_offset \in Nat
         /\ output_offset <= Len(encoded)
         /\ taken \in Nat /\ taken <= fed
<1>1. src \in Seq(Byte) /\ input \in Seq(Byte)
      /\ encoded \in Seq(Byte) /\ delivered \in Seq(Byte)
  BY DrainEncoderAssumption DEF TypeOK, Byte
<1>2. Len(src) \in Nat /\ Len(encoded) \in Nat
  BY <1>1
<1>3. QED
  BY <1>1, <1>2 DEF TypeOK

(* A new encoder holds nothing. *)
LEMMA InitIInv == Init => IInv
<1> SUFFICES ASSUME Init PROVE IInv
  OBVIOUS
<1>1. src \in Seq(Byte) /\ << >> \in Seq(Byte)
  BY DrainEncoderAssumption DEF Init, Byte
<1>2. Len(src) \in Nat /\ Len(<< >>) = 0
  BY <1>1
<1>3. TypeOK
  <2>1. 0 \in 0..Len(src) /\ 0 \in 0..Len(<< >>) /\ 0 \in 0..0
        /\ << >> \in Seq(0..255)
    BY <1>2
  <2>2. QED
    BY <2>1, Zenon DEF Init, TypeOK
<1>4. SubSeq(src, 1, 0) = << >> /\ SubSeq(<< >>, 1, 0) = << >>
  BY <1>1, EmptyPrefix
<1>5. QED
  BY <1>3, <1>4 DEF Init, IInv

(* Feeding lengthens the input and leaves the encoding alone. *)
LEMMA FeedStep ==
  ASSUME IInv, NEW n \in 1..(Len(src) - fed), Feed(n)
  PROVE  IInv'
<1>1. /\ finished_input => feeds_late
      /\ input' = input \o SubSeq(src, fed + 1, fed + n)
      /\ fed' = fed + n
      /\ src' = src /\ feeds_late' = feeds_late /\ encoded' = encoded
      /\ output_offset' = output_offset /\ finished_input' = finished_input
      /\ prepared' = prepared /\ result' = result
      /\ delivered' = delivered /\ taken' = taken
  BY DEF Feed
<1>2. TypeOK
  BY DEF IInv
<1>3. /\ src \in Seq(Byte) /\ Len(src) \in Nat /\ fed \in Nat
      /\ fed <= Len(src) /\ taken \in Nat /\ taken <= fed
  BY <1>2, Types
<1>4. /\ n \in Nat /\ fed \in 0..Len(src) /\ n \in 0..(Len(src) - fed)
      /\ fed + n \in 0..Len(src) /\ taken \in 0..(fed + n)
  BY <1>3
<1>5. input' = SubSeq(src, 1, fed + n)
  BY <1>1, <1>3, <1>4, LongerPrefix DEF IInv
<1>6. input' \in Seq(0..255)
  BY <1>3, <1>4, <1>5, Prefix DEF Byte
<1>7. TypeOK'
  BY <1>1, <1>2, <1>4, <1>6 DEF TypeOK
<1>8. QED
  BY <1>1, <1>5, <1>7 DEF IInv, Encoding

(* Declaring the source complete changes only that. *)
LEMMA FinishInputStep ==
  ASSUME IInv, FinishInput
  PROVE  IInv'
BY DEF FinishInput, IInv, TypeOK, Encoding

(* A call before that only asks for input. *)
LEMMA NeedInputStep ==
  ASSUME IInv, NeedInput
  PROVE  IInv'
BY DEF NeedInput, IInv, TypeOK, Encoding

(* A source that is too long is refused, now and in every later call. *)
LEMMA RefuseStep ==
  ASSUME IInv, Refuse
  PROVE  IInv'
BY DEF Refuse, IInv, TypeOK, Encoding

(* Handing out bytes of an encoding: as many as there are, in their order. *)
LEMMA DrainStep ==
  ASSUME IInv, NEW bytes \in Seq(Byte), NEW dst_len \in Nat,
         output_offset <= Len(bytes),
         delivered = SubSeq(bytes, 1, output_offset),
         Drain(bytes, dst_len)
  PROVE  /\ output_offset' \in 0..Len(bytes)
         /\ delivered' = SubSeq(bytes, 1, output_offset')
         /\ delivered' \in Seq(Byte)
         /\ result' \in {"Finished", "NeedOutput"}
         /\ result' = "Finished" => output_offset' = Len(bytes)
         /\ src' = src /\ feeds_late' = feeds_late /\ fed' = fed
         /\ input' = input /\ finished_input' = finished_input
<1> DEFINE remaining == Len(bytes) - output_offset
           written == IF remaining <= dst_len THEN remaining ELSE dst_len
<1>1. /\ delivered' = delivered \o SubSeq(bytes, output_offset + 1,
                                          output_offset + written)
      /\ output_offset' = output_offset + written
      /\ result' = IF output_offset' = Len(bytes)
                     THEN "Finished" ELSE "NeedOutput"
      /\ src' = src /\ feeds_late' = feeds_late /\ fed' = fed
      /\ input' = input /\ finished_input' = finished_input
  BY DEF Drain
<1>2. output_offset \in Nat /\ Len(bytes) \in Nat
  BY DEF IInv, TypeOK
<1>3. /\ written \in 0..(Len(bytes) - output_offset)
      /\ output_offset + written \in 0..Len(bytes)
      /\ output_offset \in 0..Len(bytes)
  BY <1>2
<1> HIDE DEF written
<1>4. delivered' = SubSeq(bytes, 1, output_offset + written)
  BY <1>1, <1>3, LongerPrefix
<1>5. delivered' \in Seq(Byte)
  BY <1>3, <1>4, Prefix
<1>6. QED
  BY <1>1, <1>3, <1>4, <1>5

(* The first call after finish_input encodes what was fed. *)
LEMMA PrepareAndDrainStep ==
  ASSUME IInv, NEW dst_len \in BufferSizes, PrepareAndDrain(dst_len)
  PROVE  IInv'
<1> DEFINE bytes == EncodeOf(input)
<1>1. /\ ~prepared /\ finished_input /\ bytes # SizeOverflow
      /\ encoded' = bytes /\ prepared' = TRUE /\ taken' = fed
      /\ Drain(bytes, dst_len)
  BY DEF PrepareAndDrain
<1>2. TypeOK
  BY DEF IInv
<1>3. /\ src \in Seq(Byte) /\ Len(src) \in Nat /\ fed \in Nat
      /\ fed \in 0..Len(src) /\ dst_len \in Nat
  BY <1>2, Types, DrainEncoderAssumption
<1>4. bytes = Encoding(fed)
  BY DEF IInv, Encoding
<1>5. bytes \in Seq(Byte)
  <2>1. src \in Sources
    BY <1>2 DEF TypeOK
  <2>2. EncodeOf(SubSeq(src, 1, fed)) \in Seq(0..255) \cup {SizeOverflow}
    BY <1>3, <2>1, DrainEncoderAssumption
  <2>3. QED
    BY <1>1, <1>4, <2>2 DEF Encoding, Byte
<1> HIDE DEF bytes
<1>6. output_offset = 0 /\ delivered = << >>
  <2>1. output_offset \in 0..Len(<< >>) /\ encoded = << >>
    BY <1>1, <1>2 DEF IInv, TypeOK
  <2>2. output_offset = 0
    BY <2>1
  <2>3. << >> \in Seq(Byte)
    OBVIOUS
  <2>4. QED
    BY <2>1, <2>2, <2>3, EmptyPrefix DEF IInv
<1>7. output_offset <= Len(bytes) /\ delivered = SubSeq(bytes, 1, output_offset)
  BY <1>5, <1>6, EmptyPrefix
<1>8. /\ output_offset' \in 0..Len(bytes)
      /\ delivered' = SubSeq(bytes, 1, output_offset')
      /\ delivered' \in Seq(Byte)
      /\ result' \in {"Finished", "NeedOutput"}
      /\ result' = "Finished" => output_offset' = Len(bytes)
      /\ src' = src /\ feeds_late' = feeds_late /\ fed' = fed
      /\ input' = input /\ finished_input' = finished_input
  BY <1>1, <1>3, <1>5, <1>7, DrainStep
<1>9. TypeOK'
  <2>1. taken' \in 0..fed' /\ encoded' \in Seq(0..255)
        /\ delivered' \in Seq(0..255)
    BY <1>1, <1>3, <1>5, <1>8 DEF Byte
  <2>2. QED
    BY <1>1, <1>2, <1>8, <2>1 DEF TypeOK
<1>10. encoded' = Encoding(taken)'
  BY <1>1, <1>4, <1>8 DEF Encoding
<1>11. QED
  BY <1>1, <1>8, <1>9, <1>10 DEF IInv

(* Every later call hands out more of the same encoding. *)
LEMMA DrainPreparedStep ==
  ASSUME IInv, NEW dst_len \in BufferSizes, DrainPrepared(dst_len)
  PROVE  IInv'
<1>1. /\ prepared /\ Drain(encoded, dst_len)
      /\ encoded' = encoded /\ prepared' = prepared /\ taken' = taken
  BY DEF DrainPrepared
<1>2. TypeOK
  BY DEF IInv
<1>3. /\ encoded \in Seq(Byte) /\ output_offset <= Len(encoded)
      /\ dst_len \in Nat
      /\ delivered = SubSeq(encoded, 1, output_offset)
  BY <1>2, Types, DrainEncoderAssumption DEF IInv
<1>4. /\ output_offset' \in 0..Len(encoded)
      /\ delivered' = SubSeq(encoded, 1, output_offset')
      /\ delivered' \in Seq(Byte)
      /\ result' \in {"Finished", "NeedOutput"}
      /\ result' = "Finished" => output_offset' = Len(encoded)
      /\ src' = src /\ feeds_late' = feeds_late /\ fed' = fed
      /\ input' = input /\ finished_input' = finished_input
  BY <1>1, <1>3, DrainStep
<1>5. TypeOK'
  BY <1>1, <1>2, <1>4 DEF TypeOK, Byte
<1>6. QED
  BY <1>1, <1>4, <1>5 DEF IInv, Encoding

(* The invariant is inductive: one fact per action. *)
LEMMA NextIInv ==
  ASSUME IInv, [Next]_vars
  PROVE  IInv'
<1>1. ASSUME NEW n \in 1..(Len(src) - fed), Feed(n)
      PROVE  IInv'
  BY <1>1, FeedStep
<1>2. CASE FinishInput
  BY <1>2, FinishInputStep
<1>3. CASE NeedInput
  BY <1>3, NeedInputStep
<1>4. CASE Refuse
  BY <1>4, RefuseStep
<1>5. ASSUME NEW dst_len \in BufferSizes, PrepareAndDrain(dst_len)
      PROVE  IInv'
  BY <1>5, PrepareAndDrainStep
<1>6. ASSUME NEW dst_len \in BufferSizes, DrainPrepared(dst_len)
      PROVE  IInv'
  BY <1>6, DrainPreparedStep
<1>7. CASE UNCHANGED vars
  BY <1>7 DEF vars, IInv, TypeOK, Encoding
<1>8. QED
  BY <1>1, <1>2, <1>3, <1>4, <1>5, <1>6, <1>7 DEF Next

(* The inductive invariant holds, whatever the caller does. *)
LEMMA EncoderInvariant == Spec => []IInv
<1>1. Init => IInv
  BY InitIInv
<1>2. IInv /\ [Next]_vars => IInv'
  BY NextIInv
<1>3. QED
  BY <1>1, <1>2, PTL DEF Spec

(* Every variable keeps its type: in particular the offset never leaves    *)
(* the encoding, also when the caller feeds after it was prepared.         *)
THEOREM EncoderTypes == Spec => []TypeOK
<1>1. IInv => TypeOK
  BY DEF IInv
<1>2. QED
  BY <1>1, EncoderInvariant, PTL

(* What is handed out are the first bytes of one encoding, that of what    *)
(* was fed before it was prepared: no byte is lost, repeated or disturbed, *)
(* whatever the sizes of the buffers and whenever the caller feeds         *)
(* (raw/stream.rs 400-439, bvxn.rs 127-166).                               *)
THEOREM EncoderDeliversOne == Spec => []DeliversOneEncoding
<1>1. IInv => DeliversOneEncoding
  <2> SUFFICES ASSUME IInv PROVE DeliversOneEncoding
    OBVIOUS
  <2>1. /\ encoded \in Seq(Byte) /\ output_offset \in 0..Len(encoded)
        /\ delivered = SubSeq(encoded, 1, output_offset)
    BY Types DEF IInv
  <2>2. Len(delivered) = output_offset
    BY <2>1, Prefix
  <2>3. prepared => encoded = EncodeOf(SubSeq(src, 1, taken))
    BY DEF IInv, Encoding
  <2>4. ~prepared => delivered = << >>
    <3> SUFFICES ASSUME ~prepared PROVE delivered = << >>
      OBVIOUS
    <3>1. encoded = << >>
      BY DEF IInv
    <3>2. output_offset = 0
      BY <2>1, <3>1
    <3>3. QED
      BY <2>1, <3>2, EmptyPrefix
  <2>5. result = "Finished" => prepared /\ delivered = encoded
    BY <2>1, WholePrefix DEF IInv
  <2>6. QED
    BY <2>1, <2>2, <2>3, <2>4, <2>5 DEF DeliversOneEncoding
<1>2. QED
  BY <1>1, EncoderInvariant, PTL

(* A caller that feeds nothing after finish_input gets the encoding of     *)
(* all of its source.                                                      *)
THEOREM EncoderEncodesAll == Spec => []EncodesAllOfIt
<1>1. IInv => EncodesAllOfIt
  <2> SUFFICES ASSUME IInv, ~feeds_late, result = "Finished"
               PROVE  delivered = EncodeOf(src)
    BY DEF EncodesAllOfIt
  <2>1. src \in Seq(Byte) /\ encoded \in Seq(Byte)
    BY Types DEF IInv
  <2>2. prepared /\ output_offset = Len(encoded) /\ taken = Len(src)
    BY DEF IInv
  <2>3. delivered = encoded
    BY <2>1, <2>2, WholePrefix DEF IInv
  <2>4. encoded = EncodeOf(src)
    BY <2>1, <2>2, WholePrefix DEF IInv, Encoding
  <2>5. QED
    BY <2>3, <2>4
<1>2. QED
  BY <1>1, EncoderInvariant, PTL
-----------------------------------------------------------------------------
(* The one-shot decoders. *)

(* Both copies know the same instructions *)
LEMMA SameKinds ==
  /\ \A b : Raw!Classify(b) = P!Classify(b)
  /\ \A kind : Raw!HeaderLen(kind) = P!HeaderLen(kind)
  /\ Raw!LiteralKinds = P!LiteralKinds
  /\ Raw!MatchKinds = P!MatchKinds
BY Zenon DEF Raw!Classify, P!Classify, Raw!HeaderLen, P!HeaderLen,
   Raw!LiteralKinds, P!LiteralKinds, Raw!MatchKinds, P!MatchKinds

(* with the same fields *)
LEMMA SameLiteralLen ==
  ASSUME NEW s, NEW i
  PROVE  Raw!LiteralLen(s, i) = P!LiteralLen(s, i)
BY Zenon DEF Raw!LiteralLen, P!LiteralLen, Raw!Classify, P!Classify

LEMMA SameMatchLen ==
  ASSUME NEW s, NEW i
  PROVE  Raw!MatchLen(s, i) = P!MatchLen(s, i)
BY Zenon DEF Raw!MatchLen, P!MatchLen, Raw!Classify, P!Classify

LEMMA SameMatchDistance ==
  ASSUME NEW s, NEW i, NEW d
  PROVE  Raw!MatchDistance(s, i, d) = P!MatchDistance(s, i, d)
BY Zenon DEF Raw!MatchDistance, P!MatchDistance, Raw!Classify, P!Classify

LEMMA SameIsComplete == \A s, i : Raw!IsComplete(s, i) <=> P!IsComplete(s, i)
BY SameKinds, SameLiteralLen, Zenon DEF Raw!IsComplete, P!IsComplete

LEMMA SameIsEosPadding == \A t : Raw!IsEosPadding(t) <=> P!IsEosPadding(t)
BY Zenon DEF Raw!IsEosPadding, P!IsEosPadding, Raw!AllZero, P!AllZero,
   Raw!MaxEosPadding, P!MaxEosPadding

(* and take the same steps. *)
LEMMA SameNext == Raw!Next => P!Next
<1> USE SameKinds, SameLiteralLen, SameMatchLen, SameMatchDistance,
        SameIsComplete, SameIsEosPadding
    DEF Raw!AtInstruction, P!AtInstruction, Raw!AtOpcode, P!AtOpcode,
        Raw!Kind, P!Kind, Raw!Opcode, P!Opcode, Raw!HasInput, P!HasInput,
        Raw!HasOutput, P!HasOutput, Raw!HasDistance, P!HasDistance,
        Raw!Distance, P!Distance, Raw!IsValidDistance, P!IsValidDistance,
        Raw!Fail, P!Fail
<1>1. Raw!Instruction => P!Instruction
  BY Zenon DEF Raw!Instruction, P!Instruction
<1>2. ASSUME NEW count \in 1..raw_literal_len, Raw!CopyLiteral(count)
      PROVE  P!CopyLiteral(count)
  BY <1>2, Zenon DEF Raw!CopyLiteral, P!CopyLiteral
<1>3. Raw!CopyMatchByte => P!CopyMatchByte
  BY Zenon DEF Raw!CopyMatchByte, P!CopyMatchByte
<1>4. Raw!Nop => P!Nop
  BY Zenon DEF Raw!Nop, P!Nop, Raw!AtNop, P!AtNop
<1>5. Raw!Eos => P!Eos
  BY Zenon DEF Raw!Eos, P!Eos
<1>6. Raw!TruncatedInput => P!TruncatedInput
  BY Zenon DEF Raw!TruncatedInput, P!TruncatedInput
<1>7. Raw!InvalidOpcode => P!InvalidOpcode
  BY Zenon DEF Raw!InvalidOpcode, P!InvalidOpcode
<1>8. Raw!OutputTooSmall => P!OutputTooSmall
  BY Zenon DEF Raw!OutputTooSmall, P!OutputTooSmall
<1>9. Raw!InvalidMatchDistance => P!InvalidMatchDistance
  BY Zenon DEF Raw!InvalidMatchDistance, P!InvalidMatchDistance
<1>10. QED
  BY <1>1, <1>2, <1>3, <1>4, <1>5, <1>6, <1>7, <1>8, <1>9, Zenon
  DEF Raw!Next, P!Next

LEMMA RawAssumption == P!RawDecodeAssumption
BY BvxnOneShotAssumption DEF P!RawDecodeAssumption, P!Byte

(* The reference of P is the reference here: it executes instructions      *)
(* alike,                                                                  *)
LEMMA SameExecute ==
  ASSUME NEW s, NEW p
  PROVE  P!Execute(s, p) = Execute(s, p)
<1>1. /\ \A b : P!Classify(b) = Classify(b)
      /\ \A kind : P!HeaderLen(kind) = HeaderLen(kind)
      /\ P!LiteralKinds = LiteralKinds
  BY Zenon DEF P!Classify, Classify, P!HeaderLen, HeaderLen,
     P!LiteralKinds, LiteralKinds
<1>2. ASSUME NEW u, NEW i
      PROVE  P!LiteralLen(u, i) = LiteralLen(u, i)
  BY Zenon DEF P!LiteralLen, LiteralLen, P!Classify, Classify
<1>3. ASSUME NEW u, NEW i
      PROVE  P!MatchLen(u, i) = MatchLen(u, i)
  BY Zenon DEF P!MatchLen, MatchLen, P!Classify, Classify
<1>4. ASSUME NEW u, NEW i, NEW d
      PROVE  P!MatchDistance(u, i, d) = MatchDistance(u, i, d)
  BY Zenon DEF P!MatchDistance, MatchDistance, P!Classify, Classify
<1>5. \A u, i : P!IsComplete(u, i) <=> IsComplete(u, i)
  BY <1>1, <1>2, Zenon DEF P!IsComplete, IsComplete
<1>6. \A u : P!IsEosPadding(u) <=> IsEosPadding(u)
  BY Zenon DEF P!IsEosPadding, IsEosPadding, P!AllZero, AllZero,
     P!MaxEosPadding, MaxEosPadding
<1>7. \A o, d, m : P!Periodic(o, d, m) = Periodic(o, d, m)
  BY Zenon DEF P!Periodic, Periodic
<1>8. QED
  BY <1>1, <1>2, <1>3, <1>4, <1>5, <1>6, <1>7, Zenon
  DEF P!Execute, Execute

(* and its states follow each other alike. *)
LEMMA SameReference ==
  ASSUME NEW s \in Seq(Byte)
  PROVE  P!Reference(s) = Reference(s)
<1> DEFINE f == P!Trace(s)
           g == Trace(s)
           b == Len(s) + 1
           T == {n \in 0..b : f[n] = g[n]}
<1>1. Len(s) \in Nat /\ b \in Nat /\ b \in 0..b
  OBVIOUS
<1>2. /\ f[0] = P!Start
      /\ \A n \in 0..Len(s) : f[n + 1] = P!Executed(s, f[n])
  BY <1>1, RawAssumption, P!TraceStates
<1>3. /\ g[0] = Start
      /\ \A n \in 0..Len(s) : g[n + 1] = Executed(s, g[n])
  BY <1>1, TraceStates
<1>4. /\ P!Start = Start
      /\ \A p : P!Executed(s, p) = Executed(s, p)
  BY SameExecute, Zenon DEF P!Start, Start, P!Executed, Executed
<1> HIDE DEF f, g
<1>5. 0 \in T
  BY <1>1, <1>2, <1>3, <1>4
<1>6. ASSUME NEW n \in 0..(b - 1), n \in T
      PROVE  n + 1 \in T
  <2>1. n \in 0..Len(s) /\ n + 1 \in 0..b
    BY <1>1
  <2>2. f[n] = g[n]
    BY <1>6
  <2>3. QED
    BY <1>2, <1>3, <1>4, <2>1, <2>2
<1>7. \A n \in 0..b : n \in T
  <2> HIDE DEF T, b
  <2> QED
    BY <1>1, <1>5, <1>6, UpTo
<1>8. f[b] = g[b]
  BY <1>1, <1>7
<1>9. QED
  BY <1>8 DEF f, g, P!Reference, Reference

(* It starts with it. *)
LEMMA RawAgreesStart ==
  ASSUME NEW payload \in Seq(Byte),
         raw_src' = payload, raw_input' = 0, raw_dst' = << >>,
         raw_previous_distance' = 0, raw_literal_len' = 0,
         raw_match_len' = 0, raw_result' = "running"
  PROVE  P!RInv'
<1>1. SubSeq(payload, 0 + 1, 0 + 0) = << >>
  <2>1. 0 + 1 \in Int /\ 0 + 0 \in Int /\ 0 + 0 < 0 + 1
    OBVIOUS
  <2>2. QED
    BY <2>1, SubSeqEmpty, Zenon
<1>2. /\ 0 + 0 = 0
      /\ P!Periodic(<< >> \o SubSeq(payload, 0 + 1, 0 + 0), 0, 0) = << >>
  <2>1. << >> \in Seq(Byte) /\ << >> \o << >> = << >> /\ 0 + 0 = 0
    OBVIOUS
  <2>2. P!Periodic(<< >>, 0, 0) = Periodic(<< >>, 0, 0)
    BY Zenon DEF P!Periodic, Periodic
  <2>3. Periodic(<< >>, 0, 0) = << >>
    BY <2>1, PeriodicNone
  <2>4. QED
    BY <1>1, <2>1, <2>2, <2>3, Zenon
<1>3. P!Ahead' = P!Start
  <2>1. P!Ahead' =
          [position |-> 0 + 0, distance |-> 0,
           out |-> P!Periodic(<< >> \o SubSeq(payload, 0 + 1, 0 + 0), 0, 0),
           verdict |-> "running"]
    BY Zenon DEF P!Ahead
  <2>2. QED
    BY <1>2, <2>1, Zenon DEF P!Start
<1>4. Len(payload) \in Nat /\ 0 \in 0..Len(payload)
  OBVIOUS
<1>5. P!Trace(payload)[0] = P!Start
  BY <1>4, RawAssumption, P!TraceStates
<1>6. P!Reaches(payload, P!Start)
  BY <1>4, <1>5 DEF P!Reaches
<1>7. P!Reaches(raw_src', P!Ahead')
  BY <1>3, <1>6
<1>8. raw_result' = "running" /\ raw_result' \notin {"OutputTooSmall"}
  OBVIOUS
<1>9. QED
  BY <1>7, <1>8 DEF P!RInv

(* What split_block says of a block, and what it leaves to decode. *)
LEMMA SplitOf ==
  ASSUME NEW b \in Seq(Byte)
  PROVE  /\ SplitBlock(b) \in {"ok", "TruncatedInput", "UnsupportedBlockMagic",
                               "TrailingData"}
         /\ SplitBlock(b) = "ok" =>
              /\ Payload(b) \in Seq(Byte)
              /\ ParseHeader(b).raw_bytes \in Nat
<1>1. SplitBlock(b) \in {"ok", "TruncatedInput", "UnsupportedBlockMagic",
                         "TrailingData"}
  BY Zenon DEF SplitBlock
<1>2. ASSUME SplitBlock(b) = "ok"
      PROVE  /\ Payload(b) \in Seq(Byte)
             /\ ParseHeader(b).raw_bytes \in Nat
  <2>1. ~(Len(b) < BlockHeaderLen)
    BY <1>2 DEF SplitBlock
  <2>2. Len(b) \in Nat /\ 12 <= Len(b)
    BY <2>1 DEF BlockHeaderLen
  <2>3. U32(b, 5) \in Nat /\ U32(b, 9) \in Nat
    BY <2>2, U32Type
  <2>4. PICK m \in Nat : m = ParseHeader(b).payload_bytes
    BY <2>3 DEF ParseHeader
  <2>5. PICK e \in Nat :
          /\ e = SmallerOf(Len(b), BlockHeaderLen + ParseHeader(b).payload_bytes)
          /\ 12 <= e /\ e <= Len(b)
    BY <2>2, <2>4 DEF SmallerOf, BlockHeaderLen
  <2>6. Payload(b) = SubSeq(b, 12 + 1, e)
    BY <2>1, <2>5 DEF Payload, BlockHeaderLen
  <2>7. 12 \in 0..e /\ e \in 0..Len(b)
    BY <2>2, <2>5
  <2>8. QED
    BY <2>3, <2>6, <2>7, WindowProperties DEF ParseHeader
<1>3. QED
  BY <1>1, <1>2

(* The room that the payload is decoded into. *)
Room == IF capacity = Exact THEN ParseHeader(block).raw_bytes ELSE capacity

(* What is returned of the payload, once it is decoded. *)
Returned ==
  IF raw_result # "Finished" THEN raw_result
  ELSE IF Len(raw_dst) = ParseHeader(block).raw_bytes THEN "Ok"
  ELSE "SizeMismatch"

(* Only a block that split_block lets through is decoded; its payload is   *)
(* what the raw decoder gets, into the room there is, and its result and   *)
(* the size of its output are what is returned.                            *)
DecodeInv ==
  /\ block \in Blocks
  /\ capacity \in Capacities
  /\ outcome \in {"called", "running", "Ok", "UnsupportedBlockMagic",
                  "SizeMismatch"} \cup Raw!Errors
  /\ raw_capacity \in Nat
  /\ Raw!TypeOK
  /\ Raw!CopiesInBounds
  /\ outcome = "called" =>
       /\ raw_input = 0 /\ raw_dst = << >> /\ raw_previous_distance = 0
       /\ raw_literal_len = 0 /\ raw_match_len = 0 /\ raw_result = "running"
  /\ outcome = "running" => SplitBlock(block) = "ok"
  /\ outcome # "called" =>
       IF SplitBlock(block) = "ok"
         THEN /\ raw_src = Payload(block)
              /\ raw_capacity = Room
              /\ P!RInv
         ELSE outcome = SplitBlock(block)
  /\ outcome \notin {"called", "running"} /\ SplitBlock(block) = "ok" =>
       raw_result # "running" /\ outcome = Returned

(* The arguments have their types. *)
LEMMA Arguments ==
  ASSUME block \in Blocks, capacity \in Capacities
  PROVE  /\ block \in Seq(Byte)
         /\ capacity \in Nat \cup {Exact}
         /\ Exact \notin Nat
         /\ SplitBlock(block) = "ok" => Payload(block) \in Seq(Byte) /\ Room \in Nat
<1>1. /\ block \in Seq(Byte)
      /\ capacity \in Nat \cup {Exact}
      /\ Exact \notin Nat
  BY BvxnOneShotAssumption DEF Byte
<1>2. QED
  BY <1>1, SplitOf DEF Room

LEMMA InitDecodeInv == DecodeInit => DecodeInv
<1> SUFFICES ASSUME DecodeInit PROVE DecodeInv
  OBVIOUS
<1>1. << >> \in Seq(0..255) /\ Len(<< >>) = 0
  OBVIOUS
<1>2. Raw!TypeOK /\ Raw!CopiesInBounds
  BY <1>1 DEF DecodeInit, Raw!TypeOK, Raw!CopiesInBounds, Raw!Byte
<1>3. QED
  BY <1>2 DEF DecodeInit, DecodeInv

(* A step of the raw decoder keeps its invariants and its arguments. *)
LEMMA RawStep ==
  ASSUME Raw!TypeOK, Raw!CopiesInBounds, P!RInv, Raw!Next
  PROVE  /\ Raw!TypeOK' /\ Raw!CopiesInBounds' /\ P!RInv'
         /\ raw_src' = raw_src /\ raw_capacity' = raw_capacity
<1>1. P!IInv
  BY DEF P!IInv, P!TypeOK, P!CopiesInBounds, Raw!TypeOK, Raw!CopiesInBounds,
     P!Byte, Raw!Byte, P!Errors, Raw!Errors
<1>2. P!RawDecodeAssumption
  BY RawAssumption
<1>3. [P!Next]_(P!vars)
  BY SameNext
<1>4. P!IInv'
  BY <1>1, <1>2, <1>3, P!NextIInv
<1>5. Raw!TypeOK' /\ Raw!CopiesInBounds'
  BY <1>4
  DEF P!IInv, P!TypeOK, P!CopiesInBounds, Raw!TypeOK, Raw!CopiesInBounds,
      P!Byte, Raw!Byte, P!Errors, Raw!Errors
<1>6. P!RInv'
  BY <1>1, <1>2, <1>3, P!NextRInv
<1>7. raw_src' = raw_src /\ raw_capacity' = raw_capacity
  BY DEF Raw!Next, Raw!Instruction, Raw!CopyLiteral, Raw!CopyMatchByte,
     Raw!Nop, Raw!Eos, Raw!TruncatedInput, Raw!InvalidOpcode,
     Raw!OutputTooSmall, Raw!InvalidMatchDistance, Raw!Fail
<1>8. QED
  BY <1>5, <1>6, <1>7

LEMMA RefuseBlockStep ==
  ASSUME DecodeInv, RefuseBlock
  PROVE  DecodeInv'
<1>1. /\ outcome = "called" /\ SplitBlock(block) # "ok"
      /\ outcome' = SplitBlock(block)
      /\ block' = block /\ capacity' = capacity
      /\ UNCHANGED raw_vars
  BY DEF RefuseBlock
<1>2. outcome' \in {"TruncatedInput", "UnsupportedBlockMagic", "TrailingData"}
  <2>1. block \in Seq(Byte)
    BY Arguments DEF DecodeInv
  <2>2. QED
    BY <1>1, <2>1, SplitOf
<1>3. raw_capacity' \in Nat /\ Raw!TypeOK' /\ Raw!CopiesInBounds'
  BY <1>1 DEF DecodeInv, raw_vars, Raw!TypeOK, Raw!CopiesInBounds
<1>4. SplitBlock(block)' = SplitBlock(block)
  BY <1>1, Zenon
<1>5. block' \in Blocks /\ capacity' \in Capacities
  BY <1>1 DEF DecodeInv
<1>6. QED
  BY <1>1, <1>2, <1>3, <1>4, <1>5 DEF DecodeInv, Raw!Errors

LEMMA BeginStep ==
  ASSUME DecodeInv, Begin
  PROVE  DecodeInv'
<1>1. /\ outcome = "called" /\ SplitBlock(block) = "ok"
      /\ outcome' = "running"
      /\ raw_src' = Payload(block) /\ raw_capacity' = Room
      /\ block' = block /\ capacity' = capacity
      /\ raw_input' = raw_input /\ raw_dst' = raw_dst
      /\ raw_previous_distance' = raw_previous_distance
      /\ raw_literal_len' = raw_literal_len
      /\ raw_match_len' = raw_match_len /\ raw_result' = raw_result
  BY DEF Begin, Room
<1>2. Payload(block) \in Seq(Byte) /\ Room \in Nat
  BY <1>1, Arguments DEF DecodeInv
<1>3. /\ raw_input' = 0 /\ raw_dst' = << >> /\ raw_previous_distance' = 0
      /\ raw_literal_len' = 0 /\ raw_match_len' = 0
      /\ raw_result' = "running"
  BY <1>1 DEF DecodeInv
<1>4. P!RInv'
  <2>1. PICK payload \in Seq(Byte) : payload = Payload(block)
    BY <1>2
  <2>2. raw_src' = payload
    BY <1>1, <2>1
  <2>3. QED
    BY <1>3, <2>2, RawAgreesStart
<1>5. Raw!TypeOK' /\ Raw!CopiesInBounds'
  <2>1. Len(<< >>) = 0 /\ << >> \in Seq(Byte) /\ Len(raw_src') \in Nat
    BY <1>1, <1>2
  <2>2. QED
    BY <1>1, <1>2, <1>3, <2>1
    DEF Raw!TypeOK, Raw!CopiesInBounds, Raw!Byte, Byte
<1>6. SplitBlock(block)' = "ok" /\ Payload(block)' = Payload(block)
      /\ Room' = Room
  BY <1>1, Zenon DEF Room
<1>7. block' \in Blocks /\ capacity' \in Capacities /\ raw_capacity' \in Nat
  BY <1>1, <1>2 DEF DecodeInv
<1>8. QED
  BY <1>1, <1>4, <1>5, <1>6, <1>7 DEF DecodeInv

LEMMA DecodePayloadStep ==
  ASSUME DecodeInv, DecodePayload
  PROVE  DecodeInv'
<1>1. /\ outcome = "running" /\ Raw!Next
      /\ block' = block /\ capacity' = capacity /\ outcome' = outcome
  BY DEF DecodePayload
<1>2. /\ Raw!TypeOK /\ Raw!CopiesInBounds /\ raw_capacity \in Nat
      /\ SplitBlock(block) = "ok" /\ raw_src = Payload(block)
      /\ raw_capacity = Room /\ P!RInv
      /\ block \in Blocks /\ capacity \in Capacities
  BY <1>1 DEF DecodeInv
<1>3. /\ Raw!TypeOK' /\ Raw!CopiesInBounds' /\ P!RInv'
      /\ raw_src' = raw_src /\ raw_capacity' = raw_capacity
  BY <1>1, <1>2, RawStep
<1>4. SplitBlock(block)' = "ok" /\ Payload(block)' = Payload(block)
      /\ Room' = Room
  BY <1>1, <1>2, Zenon DEF Room
<1>5. QED
  BY <1>1, <1>2, <1>3, <1>4 DEF DecodeInv

LEMMA ReturnStep ==
  ASSUME DecodeInv, Return
  PROVE  DecodeInv'
<1>1. /\ outcome = "running" /\ raw_result # "running"
      /\ outcome' = Returned
      /\ block' = block /\ capacity' = capacity
      /\ UNCHANGED raw_vars
  BY DEF Return, Returned
<1>2. /\ Raw!TypeOK /\ Raw!CopiesInBounds /\ raw_capacity \in Nat
      /\ SplitBlock(block) = "ok" /\ raw_src = Payload(block)
      /\ raw_capacity = Room /\ P!RInv
      /\ block \in Blocks /\ capacity \in Capacities
  BY <1>1 DEF DecodeInv
<1>3. outcome' \in {"Ok", "SizeMismatch"} \cup Raw!Errors
  BY <1>1, <1>2 DEF Returned, Raw!TypeOK
<1>4. Raw!TypeOK' /\ Raw!CopiesInBounds'
  BY <1>1, <1>2 DEF raw_vars, Raw!TypeOK, Raw!CopiesInBounds
<1>5. P!RInv'
  BY <1>1, <1>2 DEF raw_vars, P!RInv, P!Ahead
<1>6. /\ SplitBlock(block)' = "ok" /\ Payload(block)' = Payload(block)
      /\ Room' = Room /\ Returned' = Returned
  BY <1>1, <1>2, Zenon DEF Room, Returned, raw_vars
<1>7. outcome' \notin {"called", "running"}
  BY <1>3 DEF Raw!Errors
<1>8. raw_src' = raw_src /\ raw_capacity' = raw_capacity
      /\ raw_result' = raw_result
  BY <1>1 DEF raw_vars
<1>9. QED
  BY <1>1, <1>2, <1>3, <1>4, <1>5, <1>6, <1>7, <1>8 DEF DecodeInv

(* The invariant is inductive: one fact per action. *)
LEMMA NextDecodeInv ==
  ASSUME DecodeInv, [DecodeNext]_decode_vars
  PROVE  DecodeInv'
<1>1. CASE RefuseBlock
  BY <1>1, RefuseBlockStep
<1>2. CASE Begin
  BY <1>2, BeginStep
<1>3. CASE DecodePayload
  BY <1>3, DecodePayloadStep
<1>4. CASE Return
  BY <1>4, ReturnStep
<1>5. CASE UNCHANGED decode_vars
  BY <1>5
  DEF decode_vars, raw_vars, DecodeInv, Raw!TypeOK, Raw!CopiesInBounds,
      P!RInv, P!Ahead, Room, Returned
<1>6. QED
  BY <1>1, <1>2, <1>3, <1>4, <1>5 DEF DecodeNext

LEMMA DecodeInvariant == DecodeSpec => []DecodeInv
<1>1. DecodeInit => DecodeInv
  BY InitDecodeInv
<1>2. DecodeInv /\ [DecodeNext]_decode_vars => DecodeInv'
  BY NextDecodeInv
<1>3. QED
  BY <1>1, <1>2, PTL DEF DecodeSpec

(* What is written never exceeds the room. *)
LEMMA WrittenFits ==
  ASSUME DecodeInv
  PROVE  /\ raw_src \in Seq(Byte) /\ raw_dst \in Seq(Byte)
         /\ Len(raw_dst) \in Nat /\ Len(raw_dst) <= raw_capacity
<1>1. raw_src \in Seq(Byte) /\ raw_dst \in Seq(Byte)
  BY DEF DecodeInv, Raw!TypeOK, Raw!Byte, Byte
<1>2. Len(raw_dst) \in Nat
  BY <1>1
<1>3. raw_capacity \in Nat /\ raw_capacity # Exact
  BY BvxnOneShotAssumption DEF DecodeInv
<1>4. /\ Len(raw_dst) + raw_literal_len + raw_match_len <= raw_capacity
      /\ raw_literal_len \in Nat /\ raw_match_len \in Nat
  BY <1>3 DEF DecodeInv, Raw!CopiesInBounds, Raw!TypeOK
<1>5. QED
  BY <1>1, <1>2, <1>3, <1>4

(* Every variable keeps its type, and no more is written than the caller's *)
(* buffer, or the one that decode allocates, has room for.                 *)
THEOREM BlockDecoderTypes == DecodeSpec => []DecodeTypeOK
<1>1. DecodeInv => DecodeTypeOK
  BY WrittenFits DEF DecodeInv, DecodeTypeOK, Byte
<1>2. QED
  BY <1>1, DecodeInvariant, PTL

(* What is returned of a payload says what the payload is. *)
LEMMA ReturnedAgrees ==
  ASSUME DecodeInv, SplitBlock(block) = "ok",
         outcome \notin {"called", "running"}
  PROVE  /\ outcome = "Ok" <=>
              /\ OneShotAccepts(block)
              /\ capacity # Exact => ParseHeader(block).raw_bytes <= capacity
         /\ outcome = "Ok" => raw_dst = Reference(Payload(block)).out
<1> DEFINE out == Reference(raw_src).out
           verdict == Reference(raw_src).verdict
           size == ParseHeader(block).raw_bytes
<1>1. /\ raw_result # "running" /\ outcome = Returned
      /\ raw_src = Payload(block) /\ raw_capacity = Room
      /\ Raw!TypeOK /\ Raw!CopiesInBounds /\ P!RInv
      /\ block \in Blocks /\ capacity \in Capacities
  BY DEF DecodeInv
<1>2. P!AgreesWithReference
  <2>1. P!IInv
    BY <1>1
    DEF P!IInv, P!TypeOK, P!CopiesInBounds, Raw!TypeOK, Raw!CopiesInBounds,
        P!Byte, Raw!Byte, P!Errors, Raw!Errors
  <2>2. P!RawDecodeAssumption
    BY RawAssumption
  <2>3. QED
    BY <1>1, <2>1, <2>2, P!InvariantAgrees
<1>3. /\ raw_src \in Seq(Byte) /\ raw_dst \in Seq(Byte)
      /\ Len(raw_dst) \in Nat /\ Len(raw_dst) <= raw_capacity
  BY WrittenFits
<1>4. P!Reference(raw_src) = Reference(raw_src)
  BY <1>3, SameReference
<1>5. Len(out) \in Nat
  <2>1. Reference(raw_src) \in RefState
    BY <1>3, ReferenceDecides
  <2>2. out \in Seq(Byte)
    BY <2>1 DEF RefState
  <2> HIDE DEF out
  <2>3. QED
    BY <2>2
<1>6. size \in Nat /\ capacity \in Nat \cup {Exact} /\ Exact \notin Nat
  <2>1. block \in Seq(Byte)
    BY <1>1, Arguments
  <2>2. QED
    BY <1>1, <2>1, Arguments, SplitOf
<1>7. /\ raw_result # "OutputTooSmall" => raw_dst = out /\ raw_result = verdict
      /\ raw_result = "OutputTooSmall" =>
           Len(out) > raw_capacity \/ verdict = "InvalidMatchDistance"
  BY <1>1, <1>2, <1>4, Zenon DEF P!AgreesWithReference
<1>8. OneShotAccepts(block) <=> verdict = "Finished" /\ Len(out) = size
  BY <1>1, Zenon DEF OneShotAccepts
<1>9. outcome = "Ok" <=> raw_result = "Finished" /\ Len(raw_dst) = size
  <2>1. raw_result # "Ok"
    BY <1>1 DEF Raw!TypeOK, Raw!Errors
  <2>2. QED
    BY <1>1, <2>1 DEF Returned
<1>10. raw_capacity = IF capacity = Exact THEN size ELSE capacity
  BY <1>1 DEF Room
<1>11. raw_src = Payload(block)
  BY <1>1
<1> HIDE DEF verdict, size
<1>12. outcome = "Ok" => raw_dst = out
  BY <1>7, <1>9
<1>13. /\ outcome = "Ok" =>
            /\ verdict = "Finished" /\ Len(out) = size
            /\ capacity # Exact => size <= capacity
  BY <1>3, <1>6, <1>7, <1>9, <1>10
<1> HIDE DEF out
<1>14. ASSUME verdict = "Finished", Len(out) = size,
              capacity # Exact => size <= capacity
       PROVE  outcome = "Ok"
  <2>1. raw_result # "OutputTooSmall"
    BY <1>5, <1>6, <1>7, <1>10, <1>14
  <2>2. QED
    BY <1>7, <1>9, <1>14, <2>1
<1>15. outcome = "Ok" <=>
         /\ OneShotAccepts(block)
         /\ capacity # Exact => size <= capacity
  BY <1>8, <1>13, <1>14
<1>16. QED
  BY <1>11, <1>12, <1>15 DEF out, size

(* decode and decode_into accept exactly the blocks that hold what their   *)
(* header declares, decode_into those that its buffer has room for, and    *)
(* what they write is the content of the payload: for every block and      *)
(* every buffer (bvxn.rs 288-325).                                         *)
THEOREM BlockDecoderAccepts == DecodeSpec => []AcceptsWholeBlocks
<1>1. DecodeInv => AcceptsWholeBlocks
  <2> SUFFICES ASSUME DecodeInv, outcome \notin {"called", "running"}
               PROVE  /\ outcome = "Ok" <=>
                           /\ OneShotAccepts(block)
                           /\ capacity # Exact =>
                                ParseHeader(block).raw_bytes <= capacity
                      /\ outcome = "Ok" =>
                           raw_dst = Reference(Payload(block)).out
    BY DEF AcceptsWholeBlocks
  <2>1. CASE SplitBlock(block) = "ok"
    BY <2>1, ReturnedAgrees
  <2>2. CASE SplitBlock(block) # "ok"
    <3>1. outcome = SplitBlock(block)
      BY <2>2 DEF DecodeInv
    <3>2. outcome # "Ok"
      <4>1. block \in Seq(Byte)
        BY Arguments DEF DecodeInv
      <4>2. QED
        BY <3>1, <4>1, SplitOf
    <3>3. ~OneShotAccepts(block)
      BY <2>2 DEF OneShotAccepts
    <3>4. QED
      BY <3>2, <3>3
  <2>3. QED
    BY <2>1, <2>2
<1>2. QED
  BY <1>1, DecodeInvariant, PTL
-----------------------------------------------------------------------------
(* Both ends. *)

(* What bvxn::encode returns of a source, unless it refuses it, is a block *)
(* that declares the source's size and whose payload decodes to it: what   *)
(* BlockHoldsSource says of the encoder that RawEncode models.             *)
EncodesBlocks ==
  \A s \in Sources :
    EncodeOf(s) # SizeOverflow =>
      LET bytes     == EncodeOf(s)
          reference == Reference(Payload(bytes))
      IN  /\ SplitBlock(bytes) = "ok"
          /\ ParseHeader(bytes).raw_bytes = Len(s)
          /\ reference.verdict = "Finished"
          /\ reference.out = s

(* Decoding all that an encoder handed out, with room for it, gives the    *)
(* source back.                                                            *)
Restores ==
  ( /\ ~feeds_late
    /\ result = "Finished"
    /\ block = delivered
    /\ outcome \notin {"called", "running"}
    /\ capacity # Exact => Len(src) <= capacity )
  => outcome = "Ok" /\ raw_dst = src

(* What a caller drains from a BvxnEncoder, in buffers of any size, is a   *)
(* block that decode and decode_into accept, and they give back the source *)
(* that was fed, in chunks of any size (bvxn.rs 127-166 and 288-325): for  *)
(* every one-shot encoder that makes blocks of its sources.                *)
THEOREM ContainerRoundTrip ==
  ASSUME EncodesBlocks
  PROVE  Spec /\ DecodeSpec => []Restores
<1>1. TypeOK /\ IInv /\ EncodesAllOfIt /\ AcceptsWholeBlocks => Restores
  <2> SUFFICES ASSUME TypeOK, IInv, EncodesAllOfIt, AcceptsWholeBlocks,
                      ~feeds_late, result = "Finished", block = delivered,
                      outcome \notin {"called", "running"},
                      capacity # Exact => Len(src) <= capacity
               PROVE  outcome = "Ok" /\ raw_dst = src
    BY DEF Restores
  <2>1. src \in Sources
    BY DEF TypeOK
  <2>2. block = EncodeOf(src)
    BY DEF EncodesAllOfIt
  <2>3. EncodeOf(src) # SizeOverflow
    BY <2>2, DrainEncoderAssumption DEF TypeOK
  <2>4. /\ SplitBlock(block) = "ok"
        /\ ParseHeader(block).raw_bytes = Len(src)
        /\ Reference(Payload(block)).verdict = "Finished"
        /\ Reference(Payload(block)).out = src
    BY <2>1, <2>2, <2>3, Zenon DEF EncodesBlocks
  <2>5. OneShotAccepts(block)
    BY <2>4, Zenon DEF OneShotAccepts
  <2>6. outcome = "Ok"
    BY <2>4, <2>5 DEF AcceptsWholeBlocks
  <2>7. QED
    BY <2>4, <2>6 DEF AcceptsWholeBlocks
<1>2. QED
  BY <1>1, EncoderTypes, EncoderInvariant, EncoderEncodesAll,
     BlockDecoderAccepts, PTL
=============================================================================
