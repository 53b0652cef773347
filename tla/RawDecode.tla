----------------------------- MODULE RawDecode ------------------------------
(***************************************************************************)
(* The one-shot raw LZVN decoder, raw::decode_into: the whole stream src   *)
(* and the whole output buffer are at hand, and one call decodes until the *)
(* end marker or an error.  It is also what the incremental decoder has to *)
(* agree with (RawStream), whatever the sizes of its buffers.              *)
(*                                                                         *)
(* One step is one arm of the decoder's loop.  The output buffer is the    *)
(* sequence dst of the bytes written so far, so that the source's output   *)
(* is Len(dst); input counts the bytes consumed, so that the source's      *)
(* src[input] is src[input + 1] here.  A match is copied byte by byte, as  *)
(* perform_match does; copy_from_slice copies literals in any runs.        *)
(***************************************************************************)
EXTENDS LzvnOpcode

CONSTANTS
  Sources,     (* the encoded streams a caller may hand over               *)
  Capacities,  (* the sizes of the output buffer a caller may provide      *)
  Unbounded    (* in Capacities: a buffer that any stream's output fits in *)

ASSUME RawDecodeAssumption ==
  /\ Sources \subseteq Seq(Byte)
  /\ Capacities \subseteq Nat \cup {Unbounded}
  /\ Unbounded \notin Nat

VARIABLES
  src,                (* the encoded stream, fixed for the call            *)
  capacity,           (* the size of the output buffer, fixed too          *)
  input,              (* bytes of src consumed                             *)
  dst,                (* bytes written to the output buffer                *)
  previous_distance,  (* the distance of the last match                    *)
  literal_len,        (* literals of the current instruction to be copied  *)
  match_len,          (* match bytes of the current instruction to copy    *)
  result              (* "running", "Finished", or the error returned      *)

vars == <<src, capacity, input, dst, previous_distance, literal_len,
          match_len, result>>

Errors == {"TruncatedInput", "InvalidOpcode", "InvalidMatchDistance",
           "OutputTooSmall", "TrailingData"}

Init ==
  /\ src \in Sources
  /\ capacity \in Capacities
  /\ input = 0
  /\ dst = << >>
  /\ previous_distance = 0
  /\ literal_len = 0
  /\ match_len = 0
  /\ result = "running"
-----------------------------------------------------------------------------
Opcode == src[input + 1]

Kind == Classify(Opcode)

(* The top of the decoder's loop: the previous instruction is done. *)
AtOpcode ==
  /\ result = "running"
  /\ literal_len = 0
  /\ match_len = 0

AtInstruction ==
  /\ AtOpcode
  /\ input < Len(src)
  /\ Kind \in LiteralKinds \cup MatchKinds

(* require_input of byte_at and of the instruction as a whole. *)
HasInput == IsComplete(src, input + 1)

(* A bug to plant: off by one, output that just fits is refused. *)
BuggyHasOutput ==
  capacity # Unbounded =>
    Len(dst) + LiteralLen(src, input + 1) + MatchLen(src, input + 1) < capacity

(* And the match is not counted. *)
ShortHasOutput ==
  capacity # Unbounded =>
    Len(dst) + LiteralLen(src, input + 1) <= capacity

(* require_output. *)
HasOutput ==
  capacity # Unbounded =>
    Len(dst) + LiteralLen(src, input + 1) + MatchLen(src, input + 1)
      <= capacity

Distance == MatchDistance(src, input + 1, previous_distance)

(* A bug to plant: distance 0 is not refused. *)
BuggyHasDistance ==
  Kind \in MatchKinds => Distance <= Len(dst) + LiteralLen(src, input + 1)

HasDistance ==
  Kind \in MatchKinds =>
    IsValidDistance(Distance, Len(dst) + LiteralLen(src, input + 1))

Fail(error) ==
  /\ result' = error
  /\ UNCHANGED <<src, capacity, input, dst, previous_distance, literal_len,
                 match_len>>

TruncatedInput ==
  /\ \/ AtOpcode /\ input = Len(src)
     \/ AtInstruction /\ ~HasInput
  /\ Fail("TruncatedInput")

InvalidOpcode ==
  /\ AtOpcode
  /\ input < Len(src)
  /\ Kind = "Invalid"
  /\ Fail("InvalidOpcode")

OutputTooSmall ==
  /\ AtInstruction
  /\ HasInput
  /\ ~HasOutput
  /\ Fail("OutputTooSmall")

InvalidMatchDistance ==
  /\ AtInstruction
  /\ HasInput
  /\ HasOutput
  /\ ~HasDistance
  /\ Fail("InvalidMatchDistance")

(* copy_literal_only, copy_match_only and copy_literal_and_match, up to    *)
(* their copies.                                                           *)
Instruction ==
  /\ AtInstruction
  /\ HasInput
  /\ HasOutput
  /\ HasDistance
  /\ input' = input + HeaderLen(Kind)
  /\ literal_len' = LiteralLen(src, input + 1)
  /\ match_len' = MatchLen(src, input + 1)
  /\ previous_distance' = IF Kind \in MatchKinds
                            THEN Distance
                            ELSE previous_distance
  /\ UNCHANGED <<src, capacity, dst, result>>

CopyLiteral(count) ==
  /\ result = "running"
  /\ dst' = dst \o SubSeq(src, input + 1, input + count)
  /\ input' = input + count
  /\ literal_len' = literal_len - count
  /\ UNCHANGED <<src, capacity, previous_distance, match_len, result>>

(* One turn of the loop of perform_match. *)
CopyMatchByte ==
  /\ result = "running"
  /\ literal_len = 0
  /\ match_len > 0
  /\ dst' = Append(dst, dst[Len(dst) + 1 - previous_distance])
  /\ match_len' = match_len - 1
  /\ UNCHANGED <<src, capacity, input, previous_distance, literal_len,
                 result>>

AtNop ==
  /\ AtOpcode
  /\ input < Len(src)
  /\ Kind = "Nop"

(* Bugs to plant: a nop takes a byte too many, or is never consumed. *)
BuggyNop ==
  /\ AtNop
  /\ input' = input + 2
  /\ UNCHANGED <<src, capacity, dst, previous_distance, literal_len,
                 match_len, result>>

StuckNop == AtNop /\ UNCHANGED vars

Nop ==
  /\ AtNop
  /\ input' = input + 1
  /\ UNCHANGED <<src, capacity, dst, previous_distance, literal_len,
                 match_len, result>>

(* finish: what follows the end marker decides. *)
Eos ==
  /\ AtOpcode
  /\ input < Len(src)
  /\ Kind = "Eos"
  /\ IF IsEosPadding(SubSeq(src, input + 2, Len(src)))
       THEN /\ input' = Len(src)
            /\ result' = "Finished"
       ELSE /\ input' = input + 1
            /\ result' = "TrailingData"
  /\ UNCHANGED <<src, capacity, dst, previous_distance, literal_len,
                 match_len>>

Next ==
  \/ Instruction
  \/ \E count \in 1..literal_len : CopyLiteral(count)
  \/ CopyMatchByte
  \/ Nop
  \/ Eos
  \/ TruncatedInput
  \/ InvalidOpcode
  \/ OutputTooSmall
  \/ InvalidMatchDistance

Spec == Init /\ [][Next]_vars

(* The call is a loop without waits: it runs until it returns. *)
FairSpec == Spec /\ WF_vars(Next)
-----------------------------------------------------------------------------
(* The type of every variable. *)
TypeOK ==
  /\ src \in Seq(Byte)
  /\ capacity \in Nat \cup {Unbounded}
  /\ input \in 0..Len(src)
  /\ dst \in Seq(Byte)
  /\ previous_distance \in Nat
  /\ literal_len \in Nat
  /\ match_len \in Nat
  /\ result \in {"running", "Finished"} \cup Errors

(* The indexing of decode.rs never panics: while an instruction is being   *)
(* copied its literals lie inside src, its output fits in the buffer and   *)
(* every match byte is read at an index that was already written.          *)
CopiesInBounds ==
  /\ literal_len <= Len(src) - input
  /\ capacity # Unbounded => Len(dst) + literal_len + match_len <= capacity
  /\ match_len > 0 =>
       previous_distance \in 1..(Len(dst) + literal_len)

(* decode_into always returns: no stream keeps the loop running. *)
Returns == <>(result # "running")
=============================================================================
