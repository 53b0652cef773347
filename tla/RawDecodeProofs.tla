-------------------------- MODULE RawDecodeProofs ---------------------------
(***************************************************************************)
(* The one-shot decoder's variables keep their types and its copies stay   *)
(* in bounds, for all streams and all sizes of the output buffer.  The two *)
(* invariants are inductive together: the checks made before an            *)
(* instruction is taken are enough for all of its copies.                  *)
(***************************************************************************)
EXTENDS RawDecodeReference, LzvnProofs

(* The inductive invariant. *)
IInv == TypeOK /\ CopiesInBounds

(* The call starts with nothing read, written or pending. *)
LEMMA InitIInv == Init => IInv
<1> SUFFICES ASSUME Init PROVE IInv
  OBVIOUS
<1> USE RawDecodeAssumption DEF Init
<1>1. src \in Seq(Byte) /\ capacity \in Nat \cup {Unbounded}
  OBVIOUS
<1>2. Len(src) \in Nat
  BY <1>1
<1>3. TypeOK
  BY <1>1, <1>2 DEF TypeOK
<1>4. CopiesInBounds
  BY <1>1, <1>2 DEF CopiesInBounds
<1>5. QED
  BY <1>3, <1>4 DEF IInv

(* The lengths of the sequences, for arithmetic. *)
LEMMA Lengths ==
  ASSUME TypeOK
  PROVE  Len(src) \in Nat /\ Len(dst) \in Nat /\ input \in Nat
BY LenProperties DEF TypeOK

(* Returning an error disturbs nothing. *)
LEMMA FailStep ==
  ASSUME IInv, NEW error \in Errors, Fail(error)
  PROVE  IInv'
BY DEF Fail, IInv, TypeOK, CopiesInBounds

(* An instruction of literals only has no match. *)
LEMMA LiteralKindsMatchLen ==
  ASSUME NEW s, NEW i, Classify(s[i]) \in LiteralKinds
  PROVE  MatchLen(s, i) = 0
<1>1. Classify(s[i]) \notin
             {"SmallDistance", "LargeDistance", "PreviousDistance",
              "MediumDistance", "SmallMatch", "LargeMatch"}
  BY DEF LiteralKinds
<1>2. QED
  BY <1>1, Zenon DEF MatchLen

(* What is known of an instruction that is complete in src. *)
LEMMA CompleteInstruction ==
  ASSUME TypeOK, AtInstruction, HasInput
  PROVE  /\ HeaderLen(Kind) \in 1..3
         /\ LiteralLen(src, input + 1) \in Nat
         /\ MatchLen(src, input + 1) \in Nat
         /\ Distance \in Nat
         /\ input + HeaderLen(Kind) + LiteralLen(src, input + 1) <= Len(src)
<1> DEFINE i == input + 1
<1>1. i \in 1..Len(src)
  BY Lengths DEF AtInstruction
<1>2. /\ Kind = Classify(src[i])
      /\ Kind \in Kinds
  BY DEF AtInstruction, Kind, Opcode, Kinds
<1>3. /\ i + HeaderLen(Kind) - 1 <= Len(src)
      /\ i + HeaderLen(Kind) + LiteralLen(src, i) - 1 <= Len(src)
  BY <1>2 DEF HasInput, IsComplete
<1>4. HeaderLen(Kind) \in 1..3
  BY <1>2, HeaderLenType
<1>5. Distance = MatchDistance(src, i, previous_distance)
  BY DEF Distance
<1> HIDE DEF i
<1>6. /\ LiteralLen(src, i) \in Nat
      /\ MatchLen(src, i) \in Nat
      /\ MatchDistance(src, i, previous_distance) \in Nat
  BY <1>1, <1>2, <1>3, LiteralLenType, MatchLenType, MatchDistanceType
     DEF TypeOK
<1>7. input + HeaderLen(Kind) + LiteralLen(src, i) <= Len(src)
  <2>1. input \in Nat /\ Len(src) \in Nat
    BY Lengths
  <2>2. QED
    BY <1>3, <1>4, <1>6, <2>1 DEF i
<1>8. QED
  BY <1>4, <1>5, <1>6, <1>7 DEF i

(* The checks of an instruction cover all that it will copy. *)
LEMMA InstructionStep ==
  ASSUME IInv, Instruction
  PROVE  IInv'
<1> DEFINE header   == HeaderLen(Kind)
           literals == LiteralLen(src, input + 1)
           match    == MatchLen(src, input + 1)
<1>1. /\ AtInstruction
      /\ input' = input + header
      /\ literal_len' = literals
      /\ match_len' = match
      /\ UNCHANGED <<src, capacity, dst, result>>
  BY DEF Instruction
<1>2. /\ header \in 1..3
      /\ literals \in Nat
      /\ match \in Nat
      /\ Distance \in Nat
      /\ input + header + literals <= Len(src)
  BY CompleteInstruction DEF IInv, Instruction
<1>3. capacity # Unbounded => Len(dst) + literals + match <= capacity
  BY DEF Instruction, HasOutput
<1>4. match > 0 => Kind \in MatchKinds
  <2>1. Kind \in LiteralKinds => match = 0
    BY LiteralKindsMatchLen DEF Kind, Opcode
  <2>2. QED
    BY <1>1, <2>1 DEF AtInstruction
<1>5. Kind \in MatchKinds =>
        /\ previous_distance' = Distance
        /\ Distance # 0
        /\ Distance <= Len(dst) + literals
  BY DEF Instruction, HasDistance, IsValidDistance
<1>6. Kind \notin MatchKinds => previous_distance' = previous_distance
  BY DEF Instruction
<1> HIDE DEF header, literals, match
<1>7. input \in Nat /\ Len(src) \in Nat /\ Len(dst) \in Nat
  BY Lengths DEF IInv
<1>8. input' \in 0..Len(src) /\ literal_len' <= Len(src) - input'
  BY <1>1, <1>2, <1>7
<1>9. previous_distance' \in Nat
  BY <1>2, <1>5, <1>6 DEF IInv, TypeOK
<1>10. TypeOK'
  BY <1>1, <1>2, <1>8, <1>9 DEF IInv, TypeOK
<1>11. match_len' > 0 =>
         previous_distance' \in 1..(Len(dst') + literal_len')
  BY <1>1, <1>2, <1>4, <1>5, <1>7
<1>12. CopiesInBounds'
  BY <1>1, <1>3, <1>8, <1>11 DEF CopiesInBounds
<1>13. QED
  BY <1>10, <1>12 DEF IInv

(* Copying literals takes from the input what it adds to the output. *)
LEMMA CopyLiteralStep ==
  ASSUME IInv, NEW count \in 1..literal_len, CopyLiteral(count)
  PROVE  IInv'
<1> DEFINE run == SubSeq(src, input + 1, input + count)
<1>1. /\ dst' = dst \o run
      /\ input' = input + count
      /\ literal_len' = literal_len - count
      /\ UNCHANGED <<src, capacity, previous_distance, match_len, result>>
  BY DEF CopyLiteral
<1>2. /\ input \in Nat
      /\ Len(src) \in Nat
      /\ Len(dst) \in Nat
      /\ literal_len \in Nat
      /\ match_len \in Nat
      /\ previous_distance \in Nat
      /\ count \in Nat
      /\ count <= literal_len
      /\ input + literal_len <= Len(src)
  BY Lengths DEF IInv, TypeOK, CopiesInBounds
<1>3. input + count \in 0..Len(src) /\ input \in 0..(input + count)
  BY <1>2
<1>4. run \in Seq(Byte) /\ Len(run) = count
  <2>1. Len(run) = input + count - input
    BY <1>3, WindowProperties DEF IInv, TypeOK
  <2>2. run \in Seq(Byte)
    BY <1>3, WindowProperties DEF IInv, TypeOK
  <2> HIDE DEF run
  <2>3. QED
    BY <1>2, <2>1, <2>2
<1> HIDE DEF run
<1>5. dst' \in Seq(Byte) /\ Len(dst') = Len(dst) + count
  BY <1>1, <1>4, ConcatProperties DEF IInv, TypeOK
<1>6. literal_len' \in Nat
  BY <1>1, <1>2
<1>7. TypeOK'
  BY <1>1, <1>3, <1>5, <1>6 DEF IInv, TypeOK
<1>8. literal_len' <= Len(src') - input'
  BY <1>1, <1>2
<1>9. capacity' # Unbounded =>
        Len(dst') + literal_len' + match_len' <= capacity'
  <2>1. Len(dst') + literal_len' + match_len'
          = Len(dst) + literal_len + match_len
    BY <1>1, <1>2, <1>5
  <2>2. QED
    BY <1>1, <2>1 DEF IInv, CopiesInBounds
<1>10. match_len' > 0 =>
         previous_distance' \in 1..(Len(dst') + literal_len')
  <2>1. Len(dst') + literal_len' = Len(dst) + literal_len
    BY <1>1, <1>2, <1>5
  <2>2. QED
    BY <1>1, <2>1 DEF IInv, CopiesInBounds
<1>11. QED
  BY <1>7, <1>8, <1>9, <1>10 DEF IInv, CopiesInBounds

(* A match byte is read where one was written, and lengthens the output. *)
LEMMA CopyMatchByteStep ==
  ASSUME IInv, CopyMatchByte
  PROVE  IInv'
<1> DEFINE byte == dst[Len(dst) + 1 - previous_distance]
<1>1. /\ literal_len = 0
      /\ match_len > 0
      /\ dst' = Append(dst, byte)
      /\ match_len' = match_len - 1
      /\ UNCHANGED <<src, capacity, input, previous_distance, literal_len,
                     result>>
  BY DEF CopyMatchByte
<1>2. /\ Len(src) \in Nat
      /\ Len(dst) \in Nat
      /\ match_len \in Nat
      /\ previous_distance \in 1..Len(dst)
  BY <1>1, Lengths DEF IInv, TypeOK, CopiesInBounds
<1>3. byte \in Byte
  <2>1. Len(dst) + 1 - previous_distance \in 1..Len(dst)
    BY <1>2
  <2>2. QED
    BY <2>1, ElementOfSeq DEF IInv, TypeOK
<1> HIDE DEF byte
<1>4. dst' \in Seq(Byte) /\ Len(dst') = Len(dst) + 1
  BY <1>1, <1>3, AppendProperties DEF IInv, TypeOK
<1>5. match_len' \in Nat
  BY <1>1, <1>2
<1>6. TypeOK'
  BY <1>1, <1>4, <1>5 DEF IInv, TypeOK
<1>7. capacity' # Unbounded =>
        Len(dst') + literal_len' + match_len' <= capacity'
  <2>1. Len(dst') + literal_len' + match_len'
          = Len(dst) + literal_len + match_len
    BY <1>1, <1>2, <1>4
  <2>2. QED
    BY <1>1, <2>1 DEF IInv, CopiesInBounds
<1>8. previous_distance' \in 1..(Len(dst') + literal_len')
  BY <1>1, <1>2, <1>4
<1>9. QED
  BY <1>1, <1>6, <1>7, <1>8 DEF IInv, CopiesInBounds

(* A nop takes one byte of the input. *)
LEMMA NopStep ==
  ASSUME IInv, Nop
  PROVE  IInv'
<1>1. /\ literal_len = 0
      /\ match_len = 0
      /\ input < Len(src)
      /\ input' = input + 1
      /\ UNCHANGED <<src, capacity, dst, previous_distance, literal_len,
                     match_len, result>>
  BY DEF Nop, AtNop, AtOpcode
<1>2. input' \in 0..Len(src) /\ 0 <= Len(src) - input'
  BY <1>1, Lengths DEF IInv
<1>3. QED
  BY <1>1, <1>2 DEF IInv, TypeOK, CopiesInBounds

(* The end marker ends the call, at the end of the input or behind it. *)
LEMMA EosStep ==
  ASSUME IInv, Eos
  PROVE  IInv'
<1>1. /\ literal_len = 0
      /\ match_len = 0
      /\ input < Len(src)
      /\ UNCHANGED <<src, capacity, dst, previous_distance, literal_len,
                     match_len>>
  BY DEF Eos, AtOpcode
<1>2. /\ input' \in {Len(src), input + 1}
      /\ result' \in {"Finished", "TrailingData"}
  BY DEF Eos
<1>3. input' \in 0..Len(src) /\ 0 <= Len(src) - input'
  BY <1>1, <1>2, Lengths DEF IInv
<1>4. QED
  BY <1>1, <1>2, <1>3 DEF IInv, TypeOK, CopiesInBounds, Errors

(* The invariant is inductive: one fact per action. *)
LEMMA NextIInv ==
  ASSUME IInv, [Next]_vars
  PROVE  IInv'
<1>1. CASE Instruction
  BY <1>1, InstructionStep
<1>2. ASSUME NEW count \in 1..literal_len, CopyLiteral(count)
      PROVE  IInv'
  BY <1>2, CopyLiteralStep
<1>3. CASE CopyMatchByte
  BY <1>3, CopyMatchByteStep
<1>4. CASE Nop
  BY <1>4, NopStep
<1>5. CASE Eos
  BY <1>5, EosStep
<1>6. CASE TruncatedInput \/ InvalidOpcode \/ OutputTooSmall
             \/ InvalidMatchDistance
  <2>1. PICK error \in Errors : Fail(error)
    BY <1>6 DEF TruncatedInput, InvalidOpcode, OutputTooSmall,
       InvalidMatchDistance, Errors
  <2>2. QED
    BY <2>1, FailStep
<1>7. CASE UNCHANGED vars
  BY <1>7 DEF vars, IInv, TypeOK, CopiesInBounds
<1>8. QED
  BY <1>1, <1>2, <1>3, <1>4, <1>5, <1>6, <1>7 DEF Next

(* The inductive invariant holds in every reachable state of the call. *)
THEOREM DecodeInvariant == Spec => []IInv
<1>1. Init => IInv
  BY InitIInv
<1>2. IInv /\ [Next]_vars => IInv'
  BY NextIInv
<1>3. QED
  BY <1>1, <1>2, PTL DEF Spec

(* Every variable keeps its type. *)
THEOREM DecodeTypes == Spec => []TypeOK
<1>1. IInv => TypeOK
  BY DEF IInv
<1>2. QED
  BY <1>1, DecodeInvariant, PTL

(* No slice or index of decode.rs is out of bounds: what is checked before *)
(* an instruction is taken covers every byte that it reads and writes.     *)
THEOREM DecodeInBounds == Spec => []CopiesInBounds
<1>1. IInv => CopiesInBounds
  BY DEF IInv
<1>2. QED
  BY <1>1, DecodeInvariant, PTL
-----------------------------------------------------------------------------
(* The decoder computes the reference output. *)

(* The state of the reference once what is pending has been copied. *)
Ahead ==
  [position |-> input + literal_len,
   distance |-> previous_distance,
   out      |-> Periodic(dst \o SubSeq(src, input + 1, input + literal_len),
                         previous_distance, match_len),
   verdict  |-> "running"]

(* The state of the reference between instructions. *)
Here == [position |-> input, distance |-> previous_distance, out |-> dst,
         verdict |-> "running"]

(* While the call runs the reference gets to the state ahead; an error or  *)
(* the end is the reference's; and a lack of room is one for it too.       *)
RInv ==
  /\ result = "running" => Reaches(src, Ahead)
  /\ result \notin {"running", "OutputTooSmall"} =>
       dst = Reference(src).out /\ result = Reference(src).verdict
  /\ result = "OutputTooSmall" =>
       /\ Extends(dst, Reference(src).out)
       /\ \/ Len(Reference(src).out) > capacity
          \/ Reference(src).verdict = "InvalidMatchDistance"

(* With nothing pending there is nothing to add to the output, *)
LEMMA NothingPending ==
  ASSUME NEW s \in Seq(Byte), NEW i \in Nat, NEW out \in Seq(Byte), NEW d
  PROVE  i + 0 = i /\ Periodic(out \o SubSeq(s, i + 1, i), d, 0) = out
<1>1. SubSeq(s, i + 1, i) = << >>
  BY SubSeqEmpty
<1>2. out \o << >> = out
  BY ConcatEmptySeq
<1>3. Periodic(out, d, 0) = out
  BY PeriodicNone
<1>4. Periodic(out \o SubSeq(s, i + 1, i), d, 0) = out
  BY <1>1, <1>2, <1>3, Zenon
<1>5. i + 0 = i
  OBVIOUS
<1>6. QED
  BY <1>4, <1>5

(* and the state ahead is here. *)
LEMMA AheadAtOpcode ==
  ASSUME TypeOK, literal_len = 0, match_len = 0
  PROVE  Ahead = Here
<1>1. input \in Nat
  BY Lengths
<1>2. /\ input + 0 = input
      /\ Periodic(dst \o SubSeq(src, input + 1, input), previous_distance, 0)
           = dst
  BY <1>1, NothingPending DEF TypeOK
<1>3. QED
  BY <1>2 DEF Ahead, Here

(* What has been written is part of the output ahead. *)
LEMMA AheadExtends ==
  ASSUME IInv
  PROVE  Extends(dst, Ahead.out)
<1> DEFINE run == SubSeq(src, input + 1, input + literal_len)
           all == dst \o run
<1>1. /\ Len(src) \in Nat /\ Len(dst) \in Nat /\ input \in 0..Len(src)
      /\ literal_len \in Nat /\ input + literal_len \in 0..Len(src)
      /\ input \in 0..(input + literal_len)
      /\ match_len \in Nat
  BY Lengths DEF IInv, TypeOK, CopiesInBounds
<1>2. run \in Seq(Byte) /\ Len(run) = literal_len
  <2>1. run \in Seq(Byte) /\ Len(run) = (input + literal_len) - input
    BY <1>1, WindowProperties DEF IInv, TypeOK
  <2>2. (input + literal_len) - input = literal_len
    BY <1>1
  <2>3. QED
    BY <2>1, <2>2
<1>3. Ahead.out = Periodic(all, previous_distance, match_len)
  BY DEF Ahead
<1> HIDE DEF run
<1>4. /\ all \in Seq(Byte) /\ Len(all) = Len(dst) + literal_len
      /\ \A k \in 1..Len(dst) : all[k] = dst[k]
  BY <1>2, JoinedBytes DEF IInv, TypeOK
<1> HIDE DEF all
<1>5. Extends(dst, all)
  BY <1>1, <1>4 DEF Extends
<1>6. CASE match_len = 0
  BY <1>3, <1>4, <1>5, <1>6, PeriodicNone
<1>7. CASE match_len # 0
  <2>1. previous_distance \in 1..Len(all)
    BY <1>1, <1>4, <1>7 DEF IInv, CopiesInBounds
  <2>2. /\ Ahead.out \in Seq(Byte)
        /\ Len(Ahead.out) = Len(all) + match_len
        /\ \A k \in 1..Len(all) : Ahead.out[k] = all[k]
    <3> DEFINE out == Periodic(all, previous_distance, match_len)
    <3>1. /\ out \in Seq(Byte)
          /\ Len(out) = Len(all) + match_len
          /\ \A k \in 1..Len(all) : out[k] = all[k]
      BY <1>1, <1>4, <2>1, PeriodicType
    <3> HIDE DEF out
    <3>2. Ahead.out = out
      BY <1>3 DEF out
    <3>3. QED
      BY <3>1, <3>2
  <2>3. Extends(all, Ahead.out)
    BY <1>1, <1>4, <2>2 DEF Extends
  <2>4. QED
    BY <1>4, <1>5, <2>2, <2>3, ExtendsTransitive DEF IInv, TypeOK
<1>8. QED
  BY <1>6, <1>7

(* At first the reference is here too. *)
LEMMA InitRInv ==
  ASSUME Init, IInv
  PROVE  RInv
<1>1. Ahead = Here
  BY AheadAtOpcode DEF Init, IInv
<1>2. Here = Start
  BY DEF Init, Here, Start
<1>3. Len(src) \in Nat
  BY Lengths DEF IInv
<1>4. Trace(src)[0] = Start /\ 0 \in 0..Len(src)
  BY <1>3, TraceStates
<1>5. Reaches(src, Ahead)
  BY <1>1, <1>2, <1>4 DEF Reaches
<1>6. QED
  BY <1>5 DEF RInv, Init

(* The steps that leave the reference where it is. *)
LEMMA SameAhead ==
  ASSUME RInv, result = "running", Ahead' = Ahead,
         result' = result, src' = src
  PROVE  RInv'
<1>1. Reaches(src, Ahead)'
  BY DEF RInv, Reaches
<1>2. QED
  BY <1>1 DEF RInv

(* A step to the state after the instruction. *)
LEMMA NextAhead ==
  ASSUME RInv, AtOpcode, IInv, Ahead' = Execute(src, Here),
         result' = result, src' = src
  PROVE  RInv'
<1>1. Reaches(src, Here) /\ Here.verdict = "running"
  BY AheadAtOpcode DEF RInv, AtOpcode, Here, IInv
<1>2. Execute(src, Here).verdict = "running"
  <2>1. Ahead'.verdict = "running"
    BY DEF Ahead
  <2>2. QED
    BY <2>1
<1>3. Reaches(src, Execute(src, Here))
  BY <1>1, <1>2, ReachesNext DEF IInv, TypeOK
<1>4. Reaches(src, Ahead)'
  BY <1>3 DEF Reaches
<1>5. QED
  BY <1>4 DEF RInv, AtOpcode

(* A step that returns what the instruction decides. *)
LEMMA VerdictStep ==
  ASSUME RInv, AtOpcode, IInv, NEW v, v \notin {"running", "OutputTooSmall"},
         Execute(src, Here) = [Here EXCEPT !.verdict = v],
         result' = v, src' = src, dst' = dst
  PROVE  RInv'
<1>1. Reaches(src, Here) /\ Here.verdict = "running"
  BY AheadAtOpcode DEF RInv, AtOpcode, Here, IInv
<1>2. Execute(src, Here).verdict = v /\ Execute(src, Here).out = dst
  BY DEF Here
<1>3. Reference(src) = Execute(src, Here)
  BY <1>1, <1>2, ReachesNext DEF IInv, TypeOK
<1>4. dst = Reference(src).out /\ v = Reference(src).verdict
  BY <1>2, <1>3
<1>5. QED
  BY <1>4 DEF RInv
(* Between instructions the reference executes the decoder's. *)
LEMMA HereInstruction ==
  ASSUME IInv, AtInstruction, HasInput
  PROVE  LET i        == input + 1
             literals == WithLiterals(src, i, dst)
             total    == Len(dst) + LiteralLen(src, i)
         IN  /\ Kind = Classify(src[i]) /\ i \in 1..Len(src)
             /\ LiteralsEnd(src, i) = input + HeaderLen(Kind)
                                        + LiteralLen(src, i)
             /\ literals = dst \o SubSeq(src, input + HeaderLen(Kind) + 1,
                                         LiteralsEnd(src, i))
             /\ literals \in Seq(Byte) /\ Len(literals) = total
             /\ MatchLen(src, i) \in Nat
             /\ Kind \in LiteralKinds =>
                  Execute(src, Here) =
                    [Here EXCEPT !.position = LiteralsEnd(src, i),
                                 !.out = literals]
             /\ Kind \in MatchKinds =>
                  Execute(src, Here) =
                    IF Distance \notin 1..total
                      THEN [Here EXCEPT !.verdict = "InvalidMatchDistance"]
                      ELSE [Here EXCEPT !.position = LiteralsEnd(src, i),
                                        !.distance = Distance,
                                        !.out = Periodic(literals, Distance,
                                                         MatchLen(src, i))]
<1> DEFINE i        == input + 1
           literals == WithLiterals(src, i, dst)
           header   == HeaderLen(Kind)
           n        == LiteralLen(src, i)
<1>1. /\ input \in Nat /\ Len(src) \in Nat /\ i \in 1..Len(src)
      /\ src \in Seq(Byte) /\ dst \in Seq(Byte)
  BY Lengths DEF IInv, TypeOK, AtInstruction
<1>2. Kind = Classify(src[i]) /\ Kind \in LiteralKinds \cup MatchKinds
  BY DEF Kind, Opcode, AtInstruction
<1>3. IsComplete(src, i)
  BY DEF HasInput
<1>4. header \in 1..3 /\ n \in Nat /\ MatchLen(src, i) \in Nat
  BY CompleteInstruction DEF IInv
<1>5. LiteralsEnd(src, i) = i + header + n - 1
  BY <1>2 DEF LiteralsEnd
<1>6. i + header = input + header + 1 /\ i + header + n - 1 = input + header + n
  <2> HIDE DEF header, n
  <2> QED
    BY <1>1, <1>4
<1>7. literals = dst \o SubSeq(src, input + header + 1, LiteralsEnd(src, i))
  BY <1>2, <1>6, Zenon DEF WithLiterals
<1>8. literals \in Seq(Byte) /\ Len(literals) = Len(dst) + n
  BY <1>1, <1>2, <1>3, LiteralsInside
<1>9. /\ Here.position = input /\ Here.out = dst
      /\ Here.distance = previous_distance
  BY DEF Here
<1>10. ~(Here.position + 1 > Len(src))
  BY <1>1, <1>9
<1>11. ASSUME Kind \in LiteralKinds
       PROVE  Execute(src, Here) =
                [Here EXCEPT !.position = LiteralsEnd(src, i),
                             !.out = literals]
  <2>1. Classify(src[Here.position + 1]) \in LiteralKinds
    BY <1>2, <1>9, <1>11
  <2>2. IsComplete(src, Here.position + 1)
    BY <1>3, <1>9
  <2>3. Execute(src, Here) =
          [Here EXCEPT !.position = LiteralsEnd(src, Here.position + 1),
                       !.out = WithLiterals(src, Here.position + 1, Here.out)]
    BY <1>10, <2>1, <2>2, ExecuteLiteralKind
  <2>4. QED
    BY <1>9, <2>3
<1>12. ASSUME Kind \in MatchKinds
       PROVE  Execute(src, Here) =
                IF Distance \notin 1..(Len(dst) + n)
                  THEN [Here EXCEPT !.verdict = "InvalidMatchDistance"]
                  ELSE [Here EXCEPT !.position = LiteralsEnd(src, i),
                                    !.distance = Distance,
                                    !.out = Periodic(literals, Distance,
                                                     MatchLen(src, i))]
  <2>1. Classify(src[Here.position + 1]) \in MatchKinds
    BY <1>2, <1>9, <1>12
  <2>2. IsComplete(src, Here.position + 1)
    BY <1>3, <1>9
  <2>3. MatchDistance(src, Here.position + 1, Here.distance) = Distance
    BY <1>9 DEF Distance
  <2>4. WithLiterals(src, Here.position + 1, Here.out) = literals
    BY <1>9
  <2>5. Execute(src, Here) =
          IF Distance \notin 1..Len(literals)
            THEN [Here EXCEPT !.verdict = "InvalidMatchDistance"]
            ELSE [Here EXCEPT !.position = LiteralsEnd(src, Here.position + 1),
                              !.distance = Distance,
                              !.out = Periodic(literals, Distance,
                                       MatchLen(src, Here.position + 1))]
    <3> HIDE DEF literals
    <3> QED
      BY <1>10, <2>1, <2>2, <2>3, <2>4, ExecuteMatchKind
  <2>6. QED
    BY <1>8, <1>9, <2>5
<1>13. QED
  BY <1>1, <1>2, <1>4, <1>5, <1>6, <1>7, <1>8, <1>11, <1>12

(* Taking an instruction puts the reference's next state ahead. *)
LEMMA InstructionAgrees ==
  ASSUME IInv, RInv, Instruction
  PROVE  RInv'
<1> DEFINE i        == input + 1
           literals == WithLiterals(src, i, dst)
           last     == LiteralsEnd(src, i)
           header   == HeaderLen(Kind)
           n        == LiteralLen(src, i)
           m        == MatchLen(src, i)
<1>1. /\ AtInstruction /\ HasInput /\ HasDistance
      /\ input' = input + header
      /\ literal_len' = n
      /\ match_len' = m
      /\ previous_distance' = IF Kind \in MatchKinds THEN Distance
                                                     ELSE previous_distance
      /\ UNCHANGED <<src, capacity, dst, result>>
  BY DEF Instruction
<1>2. /\ Kind = Classify(src[i])
      /\ last = input + header + n
      /\ literals = dst \o SubSeq(src, input + header + 1, last)
      /\ literals \in Seq(Byte) /\ Len(literals) = Len(dst) + n
  BY <1>1, HereInstruction
<1>3. Ahead' = [position |-> last, distance |-> previous_distance',
                out |-> Periodic(literals, previous_distance', m),
                verdict |-> "running"]
  <2>1. input' + literal_len' = last
    BY <1>1, <1>2
  <2>2. dst' \o SubSeq(src', input' + 1, input' + literal_len') = literals
    BY <1>1, <1>2, <2>1
  <2> HIDE DEF last, literals, m
  <2>3. QED
    BY <1>1, <2>1, <2>2 DEF Ahead
<1>4. Ahead' = Execute(src, Here)
  <2>1. CASE Kind \in LiteralKinds
    <3>1. m = 0
      BY <1>2, <2>1, LiteralKindsMatchLen
    <3>2. Periodic(literals, previous_distance', m) = literals
      BY <1>2, <3>1, PeriodicNone
    <3>3. Kind \notin MatchKinds
      BY <2>1 DEF LiteralKinds, MatchKinds
    <3>4. Execute(src, Here) = [Here EXCEPT !.position = last,
                                            !.out = literals]
      BY <1>1, <2>1, HereInstruction
    <3> HIDE DEF last, literals, m
    <3>5. QED
      BY <1>1, <1>3, <3>2, <3>3, <3>4 DEF Here
  <2>2. CASE Kind \in MatchKinds
    <3>1. Distance \in 1..(Len(dst) + n)
      <4>1. Distance \in Nat /\ n \in Nat /\ Len(dst) \in Nat
        BY <1>1, Lengths, CompleteInstruction DEF IInv
      <4>2. Distance # 0 /\ Distance <= Len(dst) + n
        BY <1>1, <2>2 DEF HasDistance, IsValidDistance
      <4> HIDE DEF n
      <4>3. QED
        BY <4>1, <4>2
    <3>2. Execute(src, Here) = [Here EXCEPT !.position = last,
                                            !.distance = Distance,
                                            !.out = Periodic(literals,
                                                             Distance, m)]
      BY <1>1, <2>2, <3>1, HereInstruction
    <3> HIDE DEF last, literals, m
    <3>3. QED
      BY <1>1, <1>3, <2>2, <3>2 DEF Here
  <2>3. QED
    BY <1>1, <2>1, <2>2 DEF AtInstruction
<1>5. QED
  BY <1>1, <1>4, NextAhead DEF AtInstruction

(* Copying literals brings the decoder nearer to the same state. *)
LEMMA CopyLiteralAgrees ==
  ASSUME IInv, RInv, NEW count \in 1..literal_len, CopyLiteral(count)
  PROVE  RInv'
<1> DEFINE a == SubSeq(src, input + 1, input + count)
           b == SubSeq(src, input + count + 1, input + literal_len)
           r == SubSeq(src, input + 1, input + literal_len)
<1>1. /\ result = "running"
      /\ dst' = dst \o a
      /\ input' = input + count
      /\ literal_len' = literal_len - count
      /\ UNCHANGED <<src, capacity, previous_distance, match_len, result>>
  BY DEF CopyLiteral
<1>2. /\ input \in Nat /\ Len(src) \in Nat /\ literal_len \in Nat
      /\ count \in Nat /\ count <= literal_len
      /\ input + literal_len <= Len(src)
      /\ src \in Seq(Byte) /\ dst \in Seq(Byte)
  BY Lengths DEF IInv, TypeOK, CopiesInBounds
<1>3. /\ input + count \in 0..Len(src) /\ input \in 0..(input + count)
      /\ literal_len - count \in 0..(Len(src) - (input + count))
      /\ (input + count) + (literal_len - count) = input + literal_len
      /\ input + literal_len \in 0..Len(src)
      /\ input + count \in 0..(input + literal_len)
  BY <1>2
<1>4. a \o b = r
  <2>1. a \o SubSeq(src, (input + count) + 1,
                    (input + count) + (literal_len - count))
          = SubSeq(src, input + 1, (input + count) + (literal_len - count))
    BY <1>2, <1>3, ExtendRun
  <2>2. QED
    BY <1>3, <2>1
<1>5. a \in Seq(Byte) /\ b \in Seq(Byte)
  BY <1>2, <1>3, WindowProperties
<1> HIDE DEF a, b, r
<1>6. (dst \o a) \o b = dst \o r
  <2>1. ASSUME NEW x \in Seq(Byte), NEW y \in Seq(Byte), NEW z \in Seq(Byte)
        PROVE  (x \o y) \o z = x \o (y \o z)
    BY ConcatAssociative
  <2>2. (dst \o a) \o b = dst \o (a \o b)
    BY <1>2, <1>5, <2>1
  <2>3. QED
    BY <1>4, <2>2
<1>7. input' + literal_len' = input + literal_len
  BY <1>1, <1>3
<1>8. dst' \o SubSeq(src', input' + 1, input' + literal_len') = dst \o r
  BY <1>1, <1>6, <1>7 DEF b
<1>9. Ahead' = Ahead
  BY <1>1, <1>7, <1>8 DEF Ahead, r
<1>10. QED
  BY <1>1, <1>9, SameAhead

(* So does copying a match byte: the copy is the periodic continuation. *)
LEMMA CopyMatchByteAgrees ==
  ASSUME IInv, RInv, CopyMatchByte
  PROVE  RInv'
<1> DEFINE d    == previous_distance
           more == Append(dst, dst[Len(dst) + 1 - d])
<1>1. /\ result = "running"
      /\ literal_len = 0 /\ match_len > 0
      /\ dst' = more
      /\ match_len' = match_len - 1
      /\ UNCHANGED <<src, capacity, input, previous_distance, literal_len,
                     result>>
  BY DEF CopyMatchByte
<1>2. /\ input \in Nat /\ input + literal_len = input /\ Len(dst) \in Nat
      /\ match_len \in Nat /\ src \in Seq(Byte) /\ dst \in Seq(Byte)
      /\ d \in 1..Len(dst)
  BY <1>1, Lengths DEF IInv, TypeOK, CopiesInBounds
<1>3. match_len - 1 \in Nat /\ (match_len - 1) + 1 = match_len
  BY <1>1, <1>2
<1>4. Periodic(more, d, match_len - 1) = Periodic(dst, d, match_len)
  <2>1. Periodic(more, d, match_len - 1)
          = Periodic(dst, d, (match_len - 1) + 1)
    BY <1>2, <1>3, PeriodicStep
  <2>2. QED
    BY <1>3, <2>1
<1>5. more \in Seq(Byte)
  <2>1. dst' \in Seq(Byte)
    BY CopyMatchByteStep DEF IInv, TypeOK
  <2>2. QED
    BY <1>1, <2>1
<1>6. SubSeq(src, input + 1, input + literal_len) = << >>
  BY <1>2, SubSeqEmpty
<1> HIDE DEF more
<1>7. dst \o << >> = dst /\ more \o << >> = more
  BY <1>2, <1>5, ConcatEmptySeq
<1>8. Ahead.out = Periodic(dst, d, match_len)
  BY <1>6, <1>7 DEF Ahead
<1>9. Ahead' = [position |-> input + literal_len, distance |-> d,
                out |-> Periodic(more, d, match_len - 1),
                verdict |-> "running"]
  BY <1>1, <1>6, <1>7 DEF Ahead
<1>10. Ahead' = Ahead
  BY <1>4, <1>8, <1>9 DEF Ahead
<1>11. QED
  BY <1>1, <1>10, SameAhead

(* Stepping over a nop is the reference's step. *)
LEMMA NopAgrees ==
  ASSUME IInv, RInv, Nop
  PROVE  RInv'
<1>1. /\ AtOpcode /\ input < Len(src) /\ Kind = "Nop"
      /\ literal_len = 0 /\ match_len = 0
      /\ input' = input + 1
      /\ UNCHANGED <<src, capacity, dst, previous_distance, literal_len,
                     match_len, result>>
  BY DEF Nop, AtNop, AtOpcode
<1>2. Ahead' = Here'
  <2>1. input + 1 \in Nat /\ src \in Seq(Byte) /\ dst \in Seq(Byte)
    BY Lengths DEF IInv, TypeOK
  <2>2. /\ (input + 1) + 0 = input + 1
        /\ Periodic(dst \o SubSeq(src, (input + 1) + 1, input + 1),
                    previous_distance, 0) = dst
    BY <2>1, NothingPending
  <2>3. QED
    BY <1>1, <2>2 DEF Ahead, Here
<1>3. Execute(src, Here) = [Here EXCEPT !.position = Here.position + 1]
  <2>1. input \in Nat /\ Len(src) \in Nat /\ Here.position = input
    BY Lengths DEF IInv, Here
  <2>2. ~(Here.position + 1 > Len(src))
    BY <1>1, <2>1
  <2>3. Classify(src[Here.position + 1]) = "Nop"
    BY <1>1, <2>1 DEF Kind, Opcode
  <2>4. QED
    BY <2>2, <2>3, ExecuteNop
<1>4. Ahead' = Execute(src, Here)
  BY <1>1, <1>2, <1>3 DEF Here
<1>5. QED
  BY <1>1, <1>4, NextAhead

(* The end marker is judged as the reference judges it. *)
LEMMA EosExecutes ==
  ASSUME IInv, Eos
  PROVE  /\ Execute(src, Here) = [Here EXCEPT !.verdict = result']
         /\ result' \notin {"running", "OutputTooSmall"}
<1> DEFINE v == IF IsEosPadding(SubSeq(src, input + 1 + 1, Len(src)))
                  THEN "Finished" ELSE "TrailingData"
<1>1. AtOpcode /\ input < Len(src) /\ Kind = "Eos"
  BY DEF Eos
<1>2. input \in Nat /\ Len(src) \in Nat /\ Here.position = input
  BY Lengths DEF IInv, Here
<1>3. input + 2 = input + 1 + 1
  BY <1>2
<1>4. result' = v
  BY <1>3 DEF Eos
<1>5. Execute(src, Here) = [Here EXCEPT !.verdict = v]
  <2>1. ~(Here.position + 1 > Len(src))
    BY <1>1, <1>2
  <2>2. Classify(src[Here.position + 1]) = "Eos"
    BY <1>1, <1>2 DEF Kind, Opcode
  <2>3. Execute(src, Here) =
          [Here EXCEPT !.verdict =
             IF IsEosPadding(SubSeq(src, Here.position + 1 + 1, Len(src)))
               THEN "Finished" ELSE "TrailingData"]
    BY <2>1, <2>2, ExecuteMarker
  <2>4. QED
    BY <1>2, <2>3
<1>6. v \notin {"running", "OutputTooSmall"}
  OBVIOUS
<1> HIDE DEF v
<1>7. QED
  BY <1>4, <1>5, <1>6

LEMMA EosAgrees ==
  ASSUME IInv, RInv, Eos
  PROVE  RInv'
<1>1. AtOpcode /\ UNCHANGED <<src, dst>>
  BY DEF Eos
<1>2. PICK v : v = result'
  OBVIOUS
<1>3. /\ Execute(src, Here) = [Here EXCEPT !.verdict = v]
      /\ v \notin {"running", "OutputTooSmall"}
  BY <1>2, EosExecutes
<1>4. QED
  BY <1>1, <1>2, <1>3, VerdictStep

(* The reference stops in front of the marker too. *)
LEMMA EosPosition ==
  ASSUME IInv, RInv, Eos
  PROVE  Reference(src).position = input
<1>1. Reaches(src, Here) /\ Here.verdict = "running"
  BY AheadAtOpcode DEF RInv, Eos, AtOpcode, Here, IInv
<1>2. /\ Execute(src, Here) = [Here EXCEPT !.verdict = result']
      /\ result' # "running"
  BY EosExecutes
<1>3. Execute(src, Here).verdict # "running"
  BY <1>2 DEF Here
<1>4. Reference(src) = Execute(src, Here)
  BY <1>1, <1>3, ReachesNext DEF IInv, TypeOK
<1>5. QED
  BY <1>2, <1>4 DEF Here

(* The two ways in which the input is too short are the reference's. *)
LEMMA TruncatedAgrees ==
  ASSUME IInv, RInv, TruncatedInput
  PROVE  RInv'
<1>1. /\ AtOpcode
      /\ result' = "TruncatedInput"
      /\ UNCHANGED <<src, dst>>
  BY DEF TruncatedInput, Fail, AtInstruction
<1>2. input \in 0..Len(src) /\ Len(src) \in Nat /\ Here.position = input
  BY Lengths DEF IInv, TypeOK, Here
<1>3. Execute(src, Here) = [Here EXCEPT !.verdict = "TruncatedInput"]
  <2>1. CASE input = Len(src)
    <3>1. Here.position + 1 > Len(src)
      BY <1>2, <2>1
    <3>2. QED
      BY <3>1, ExecuteAtEnd
  <2>2. CASE AtInstruction /\ ~HasInput
    <3>1. ~(Here.position + 1 > Len(src))
      BY <1>2, <2>2 DEF AtInstruction
    <3>2. Classify(src[Here.position + 1]) \notin {"Invalid", "Nop", "Eos"}
      BY <1>2, <2>2 DEF AtInstruction, Kind, Opcode, LiteralKinds, MatchKinds
    <3>3. ~IsComplete(src, Here.position + 1)
      BY <1>2, <2>2 DEF HasInput
    <3>4. QED
      BY <3>1, <3>2, <3>3, ExecuteIncomplete
  <2>3. QED
    BY <2>1, <2>2 DEF TruncatedInput
<1>4. QED
  BY <1>1, <1>3, VerdictStep

(* So are an opcode that is none *)
LEMMA InvalidOpcodeAgrees ==
  ASSUME IInv, RInv, InvalidOpcode
  PROVE  RInv'
<1>1. /\ AtOpcode /\ input < Len(src) /\ Kind = "Invalid"
      /\ result' = "InvalidOpcode"
      /\ UNCHANGED <<src, dst>>
  BY DEF InvalidOpcode, Fail
<1>2. input \in Nat /\ Len(src) \in Nat /\ Here.position = input
  BY Lengths DEF IInv, Here
<1>3. ~(Here.position + 1 > Len(src))
  BY <1>1, <1>2
<1>4. Classify(src[Here.position + 1]) = "Invalid"
  BY <1>1, <1>2 DEF Kind, Opcode
<1>5. Execute(src, Here) = [Here EXCEPT !.verdict = "InvalidOpcode"]
  BY <1>3, <1>4, ExecuteInvalid
<1>6. QED
  BY <1>1, <1>5, VerdictStep

(* and a distance that leads before the output. *)
LEMMA InvalidDistanceAgrees ==
  ASSUME IInv, RInv, InvalidMatchDistance
  PROVE  RInv'
<1>1. /\ AtInstruction /\ HasInput /\ ~HasDistance
      /\ result' = "InvalidMatchDistance"
      /\ UNCHANGED <<src, dst>>
  BY DEF InvalidMatchDistance, Fail
<1>2. Kind \in MatchKinds
  BY <1>1 DEF HasDistance
<1>3. Distance \notin 1..(Len(dst) + LiteralLen(src, input + 1))
  <2>1. ~IsValidDistance(Distance, Len(dst) + LiteralLen(src, input + 1))
    BY <1>1 DEF HasDistance
  <2>2. Len(dst) \in Nat /\ LiteralLen(src, input + 1) \in Nat
    BY <1>1, Lengths, CompleteInstruction DEF IInv
  <2>3. QED
    BY <2>1, <2>2 DEF IsValidDistance
<1>4. Execute(src, Here) = [Here EXCEPT !.verdict = "InvalidMatchDistance"]
  BY <1>1, <1>2, <1>3, HereInstruction
<1>5. QED
  BY <1>1, <1>4, VerdictStep DEF AtInstruction

(* An instruction that there is no room for is one of the reference, whose *)
(* output is then longer than the buffer, or one that it refuses.          *)
LEMMA OutputTooSmallAgrees ==
  ASSUME IInv, RInv, OutputTooSmall
  PROVE  RInv'
<1> DEFINE i        == input + 1
           literals == WithLiterals(src, i, dst)
           n        == LiteralLen(src, i)
           m        == MatchLen(src, i)
           q        == Execute(src, Here)
           whole    == Reference(src)
<1>1. /\ AtInstruction /\ HasInput /\ ~HasOutput
      /\ result' = "OutputTooSmall"
      /\ UNCHANGED <<src, capacity, dst>>
  BY DEF OutputTooSmall, Fail
<1>2. Reaches(src, Here) /\ Here.verdict = "running" /\ Here.out = dst
  BY <1>1, AheadAtOpcode DEF RInv, AtInstruction, AtOpcode, Here, IInv
<1>3. /\ Extends(dst, whole.out) /\ Extends(q.out, whole.out)
      /\ q.verdict # "running" => whole = q
  BY <1>2, ReachesNext DEF IInv, TypeOK
<1>4. whole.out \in Seq(Byte) /\ q.out \in Seq(Byte)
  <2>1. whole \in RefState /\ q \in RefState
    BY <1>2, ReachesNext, ReferenceDecides DEF IInv, TypeOK
  <2> HIDE DEF q, whole
  <2>2. QED
    BY <2>1 DEF RefState
<1>5. capacity \in Nat /\ Len(dst) + n + m > capacity
  <2>1. capacity # Unbounded /\ ~(Len(dst) + n + m <= capacity)
    BY <1>1 DEF HasOutput
  <2>2. Len(dst) \in Nat /\ n \in Nat /\ m \in Nat
    BY <1>1, Lengths, CompleteInstruction DEF IInv
  <2> HIDE DEF n, m
  <2>3. QED
    BY <2>1, <2>2 DEF IInv, TypeOK
<1>6. whole.verdict = "InvalidMatchDistance"
        \/ Len(q.out) = Len(dst) + n + m
  <2>1. /\ literals \in Seq(Byte) /\ Len(literals) = Len(dst) + n
        /\ m \in Nat
    BY <1>1, HereInstruction
  <2>2. n \in Nat /\ Len(dst) \in Nat
    BY <1>1, Lengths, CompleteInstruction DEF IInv
  <2>3. CASE Kind \in LiteralKinds
    <3>1. q = [Here EXCEPT !.position = LiteralsEnd(src, i),
                           !.out = literals]
      BY <1>1, <2>3, HereInstruction
    <3>2. q.out = literals
      BY <3>1 DEF Here
    <3>3. m = 0
      BY <2>3, LiteralKindsMatchLen DEF Kind, Opcode
    <3> HIDE DEF q, literals, n, m
    <3>4. QED
      BY <2>1, <2>2, <3>2, <3>3
  <2>4. CASE Kind \in MatchKinds
    <3>1. q = IF Distance \notin 1..(Len(dst) + n)
                THEN [Here EXCEPT !.verdict = "InvalidMatchDistance"]
                ELSE [Here EXCEPT !.position = LiteralsEnd(src, i),
                                  !.distance = Distance,
                                  !.out = Periodic(literals, Distance, m)]
      BY <1>1, <2>4, HereInstruction
    <3>2. CASE Distance \notin 1..(Len(dst) + n)
      <4>1. q.verdict = "InvalidMatchDistance"
        BY <3>1, <3>2 DEF Here
      <4>2. QED
        BY <1>3, <4>1
    <3>3. CASE Distance \in 1..(Len(dst) + n)
      <4>1. q.out = Periodic(literals, Distance, m)
        BY <3>1, <3>3 DEF Here
      <4>2. Len(Periodic(literals, Distance, m)) = Len(literals) + m
        <5> HIDE DEF literals, n, m
        <5> QED
          BY <2>1, <3>3, PeriodicType
      <4> HIDE DEF q, literals, n, m
      <4>3. QED
        BY <2>1, <4>1, <4>2
    <3>4. QED
      BY <3>2, <3>3
  <2>5. QED
    BY <1>1, <2>3, <2>4 DEF AtInstruction
<1> HIDE DEF q, whole, n, m
<1>7. Len(whole.out) > capacity \/ whole.verdict = "InvalidMatchDistance"
  <2>1. Len(q.out) <= Len(whole.out)
    BY <1>3 DEF Extends
  <2>2. Len(q.out) \in Nat /\ Len(whole.out) \in Nat
    BY <1>4
  <2>3. QED
    BY <1>5, <1>6, <2>1, <2>2
<1>8. QED
  BY <1>1, <1>3, <1>7 DEF RInv, whole

(* Every step keeps the decoder and the reference together. *)
LEMMA NextRInv ==
  ASSUME IInv, RInv, [Next]_vars
  PROVE  RInv'
<1>1. CASE Instruction
  BY <1>1, InstructionAgrees
<1>2. ASSUME NEW count \in 1..literal_len, CopyLiteral(count)
      PROVE  RInv'
  BY <1>2, CopyLiteralAgrees
<1>3. CASE CopyMatchByte
  BY <1>3, CopyMatchByteAgrees
<1>4. CASE Nop
  BY <1>4, NopAgrees
<1>5. CASE Eos
  BY <1>5, EosAgrees
<1>6. CASE TruncatedInput
  BY <1>6, TruncatedAgrees
<1>7. CASE InvalidOpcode
  BY <1>7, InvalidOpcodeAgrees
<1>8. CASE OutputTooSmall
  BY <1>8, OutputTooSmallAgrees
<1>9. CASE InvalidMatchDistance
  BY <1>9, InvalidDistanceAgrees
<1>10. CASE UNCHANGED vars
  BY <1>10 DEF vars, RInv, Reaches, Ahead
<1>11. QED
  BY <1>1, <1>2, <1>3, <1>4, <1>5, <1>6, <1>7, <1>8, <1>9, <1>10 DEF Next

(* What agrees with the reference. *)
LEMMA InvariantAgrees ==
  ASSUME IInv, RInv
  PROVE  AgreesWithReference
<1> DEFINE whole == Reference(src)
<1>1. dst \in Seq(Byte) /\ src \in Seq(Byte)
  BY DEF IInv, TypeOK
<1>2. whole.out \in Seq(Byte)
  <2>1. whole \in RefState
    BY <1>1, ReferenceDecides
  <2> HIDE DEF whole
  <2>2. QED
    BY <2>1 DEF RefState
<1>3. Extends(dst, whole.out)
  <2>1. CASE result = "running"
    <3>1. Reaches(src, Ahead)
      BY <2>1 DEF RInv
    <3>2. Ahead.verdict = "running"
      BY DEF Ahead
    <3>3. Extends(Ahead.out, whole.out) /\ Ahead \in RefState
      BY <1>1, <3>1, <3>2, ReachesNext
    <3>4. Ahead.out \in Seq(Byte)
      BY <3>3 DEF RefState
    <3>5. Extends(dst, Ahead.out)
      BY AheadExtends
    <3> HIDE DEF whole
    <3>6. QED
      BY <1>1, <1>2, <3>3, <3>4, <3>5, ExtendsTransitive
  <2>2. CASE result = "OutputTooSmall"
    BY <2>2 DEF RInv
  <2>3. CASE result \notin {"running", "OutputTooSmall"}
    <3>1. dst = whole.out
      BY <2>3 DEF RInv
    <3>2. QED
      BY <1>1, <3>1 DEF Extends
  <2>4. QED
    BY <2>1, <2>2, <2>3
<1>4. IsPrefix(dst, whole.out)
  <2> HIDE DEF whole
  <2>1. Len(dst) \in Nat /\ Len(whole.out) \in Nat
    BY <1>1, <1>2
  <2>2. QED
    BY <1>1, <1>2, <1>3, <2>1 DEF Extends, IsPrefix
<1>5. QED
  BY <1>4 DEF RInv, AgreesWithReference

(* The one-shot decoder computes the reference output and verdict, for     *)
(* every stream and every size of the output buffer (decode_into).         *)
THEOREM DecodeAgrees == Spec => []AgreesWithReference
<1>1. Init => IInv /\ RInv
  BY InitIInv, InitRInv
<1>2. IInv /\ RInv /\ [Next]_vars => IInv' /\ RInv'
  BY NextIInv, NextRInv
<1>3. IInv /\ RInv => AgreesWithReference
  BY InvariantAgrees
<1>4. QED
  BY <1>1, <1>2, <1>3, PTL DEF Spec
=============================================================================
