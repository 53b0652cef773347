----------------------------- MODULE RawStream ------------------------------
(***************************************************************************)
(* The incremental raw decoder, RawDecoder in raw/stream.rs, and its       *)
(* caller.  The caller holds an encoded stream src and may, between two    *)
(* calls, feed any further run of it, declare it complete, or ask for      *)
(* output with a buffer of any size.  The decoder keeps the unconsumed     *)
(* input (compacted now and then), the whole decoded history, and the part *)
(* of an instruction that did not fit in the last output buffer.           *)
(*                                                                         *)
(* feed, finish_input and the immediate returns of decode_into are one     *)
(* step each.  The loop of decode_into is one step per turn: pc is         *)
(* "decode" while the call runs, and the caller has to wait (the method    *)
(* takes &mut self).  copy_pending_match is one step per copied byte.      *)
(*                                                                         *)
(* Offsets are counts of bytes, as in the source: input[input_offset] of   *)
(* the source is input[input_offset + 1] here.                             *)
(***************************************************************************)
EXTENDS LzvnOpcode

CONSTANTS
  Sources,          (* the encoded streams a caller may hold               *)
  DstLens,          (* the sizes of the buffers passed to decode_into      *)
  CompactThreshold, (* INPUT_COMPACT_THRESHOLD, 4096 in the source         *)
  RetryAfterError   (* whether the caller calls again after an Err         *)

ASSUME RawStreamAssumption ==
  /\ Sources \subseteq Seq(Byte)
  /\ DstLens \subseteq Nat
  /\ CompactThreshold \in Nat
  /\ RetryAfterError \in BOOLEAN

VARIABLES
  (* the fields of RawDecoder *)
  input, input_offset, input_base, history, previous_distance, pending,
  finished_input, finished, eos_padding, trailing_after_finish,
  (* the call in progress, and what the last call returned *)
  pc, dst_len, written, result,
  (* the caller: its stream and how much of it was fed *)
  src, fed,
  (* history variables: bytes reported as written by the calls that        *)
  (* returned Ok, and where in src the end marker ended (0: not seen)      *)
  reported, marker_end

inputVars == <<input, input_offset, input_base>>
eosVars   == <<finished, eos_padding, trailing_after_finish, marker_end>>
outVars   == <<history, previous_distance, pending>>
callVars  == <<pc, dst_len, written, result, reported>>
callerVars == <<src, fed, finished_input>>

vars == <<inputVars, eosVars, outVars, callVars, callerVars>>

Errors == {"TruncatedInput", "InvalidOpcode", "InvalidMatchDistance",
           "TrailingData"}

Statuses == {"NeedInput", "NeedOutput", "Finished"}

NoPending == [literal |-> 0, match |-> 0, distance |-> 0]

Init ==
  /\ input = << >>
  /\ input_offset = 0
  /\ input_base = 0
  /\ history = << >>
  /\ previous_distance = 0
  /\ pending = NoPending
  /\ finished_input = FALSE
  /\ finished = FALSE
  /\ eos_padding = 0
  /\ trailing_after_finish = 0
  /\ pc = "idle"
  /\ dst_len = 0
  /\ written = 0
  /\ result = "none"
  /\ src \in Sources
  /\ fed = 0
  /\ reported = 0
  /\ marker_end = 0
-----------------------------------------------------------------------------
(* The caller's steps. *)

(* A bug to plant: padding that was accepted before is not counted. *)
BuggyIsMorePadding(chunk) == IsEosPadding(chunk)

IsMorePadding(chunk) ==
  AllZero(chunk) /\ eos_padding + Len(chunk) <= MaxEosPadding

(* feed, given a non-empty chunk. *)
FeedBytes(chunk) ==
  IF finished
    THEN /\ IF IsMorePadding(chunk)
              THEN /\ eos_padding' = eos_padding + Len(chunk)
                   /\ UNCHANGED trailing_after_finish
              ELSE /\ trailing_after_finish' =
                        trailing_after_finish + Len(chunk)
                   /\ UNCHANGED eos_padding
         /\ UNCHANGED input
    ELSE /\ input' = input \o chunk
         /\ UNCHANGED <<eos_padding, trailing_after_finish>>

Feed(n) ==
  /\ pc = "idle"
  /\ fed + n <= Len(src)
  /\ FeedBytes(SubSeq(src, fed + 1, fed + n))
  /\ fed' = fed + n
  /\ UNCHANGED <<input_offset, input_base, finished, marker_end, outVars,
                 callVars, src, finished_input>>

(* The caller declares the stream complete once all of it was fed. *)
FinishInput ==
  /\ pc = "idle"
  /\ fed = Len(src)
  /\ ~finished_input
  /\ finished_input' = TRUE
  /\ UNCHANGED <<inputVars, eosVars, outVars, callVars, src, fed>>

MayCall ==
  /\ pc = "idle"
  /\ result \in Errors => RetryAfterError

(* decode_into returns at once: trailing bytes, or nothing more to do. *)
CallAfterFinish ==
  /\ MayCall
  /\ finished \/ trailing_after_finish # 0
  /\ result' = IF trailing_after_finish # 0 THEN "TrailingData" ELSE "Finished"
  /\ UNCHANGED <<inputVars, eosVars, outVars, callerVars, pc, dst_len,
                 written, reported>>

(* decode_into enters its loop with an output buffer of n bytes. *)
CallDecode(n) ==
  /\ MayCall
  /\ ~finished
  /\ trailing_after_finish = 0
  /\ pc' = "decode"
  /\ dst_len' = n
  /\ written' = 0
  /\ UNCHANGED <<inputVars, eosVars, outVars, callerVars, result, reported>>
-----------------------------------------------------------------------------
(* The loop of decode_into. *)

(* A bug to plant: the call reports nothing written. *)
BuggyReturn(status) ==
  /\ pc' = "idle"
  /\ result' = status
  /\ UNCHANGED <<dst_len, written, reported>>

Return(status) ==
  /\ pc' = "idle"
  /\ result' = status
  /\ reported' = reported + written
  /\ UNCHANGED <<dst_len, written>>

(* An Err carries no count: what this call wrote is not reported. *)
ReturnErr(error) ==
  /\ pc' = "idle"
  /\ result' = error
  /\ UNCHANGED <<dst_len, written, reported>>

(* More input is needed than is buffered (ensure_buffered, and the empty   *)
(* buffer).  A bug to plant: the end of the stream is not looked at.       *)
BuggyNeedInput == Return("NeedInput")

NeedInput ==
  IF finished_input THEN ReturnErr("TruncatedInput") ELSE Return("NeedInput")

AvailableInput == Len(input) - input_offset

IsEmpty(p) == p.literal = 0 /\ p.match = 0

(* A bug to plant: the bytes dropped are not counted. *)
BuggyCompact(offset) ==
  /\ input' = SubSeq(input, offset + 1, Len(input))
  /\ input_offset' = 0
  /\ UNCHANGED input_base

(* compact_input: drop the consumed bytes. *)
Compact(offset) ==
  /\ input' = SubSeq(input, offset + 1, Len(input))
  /\ input_base' = input_base + offset
  /\ input_offset' = 0

(* Set input_offset to offset, then compact_input_if_necessary, p being    *)
(* the pending instruction at that point.                                  *)
Advance(offset, p) ==
  IF /\ IsEmpty(p)
     /\ \/ offset = Len(input)
        \/ offset >= CompactThreshold
        \/ offset * 2 >= Len(input)
    THEN Compact(offset)
    ELSE /\ input_offset' = offset
         /\ UNCHANGED <<input, input_base>>

HasRoom == pc = "decode" /\ written < dst_len

ReturnFull ==
  /\ pc = "decode"
  /\ written = dst_len
  /\ Return("NeedOutput")
  /\ UNCHANGED <<inputVars, eosVars, outVars, callerVars>>

SmallerOf(a, b) == IF a <= b THEN a ELSE b

CopyPendingLiteral ==
  /\ HasRoom
  /\ pending.literal # 0
  /\ LET count == SmallerOf(pending.literal, dst_len - written)
         left  == [pending EXCEPT !.literal = @ - count]
     IN  /\ history' = history \o
                         SubSeq(input, input_offset + 1, input_offset + count)
         /\ pending' = left
         /\ written' = written + count
         /\ Advance(input_offset + count, left)
  /\ UNCHANGED <<eosVars, callerVars, previous_distance, pc, dst_len, result,
                 reported>>

(* One turn of copy_pending_match; the last one forgets the distance. *)
CopyPendingMatch ==
  /\ HasRoom
  /\ pending.literal = 0
  /\ pending.match # 0
  /\ history' = Append(history, history[Len(history) + 1 - pending.distance])
  /\ pending' = IF pending.match = 1
                  THEN NoPending
                  ELSE [pending EXCEPT !.match = @ - 1]
  /\ written' = written + 1
  /\ UNCHANGED <<inputVars, eosVars, callerVars, previous_distance, pc,
                 dst_len, result, reported>>

(* The decoder looks for the next opcode. *)
Fetching == HasRoom /\ IsEmpty(pending)

NoInput ==
  /\ Fetching
  /\ AvailableInput = 0
  /\ Compact(input_offset)
  /\ NeedInput
  /\ UNCHANGED <<eosVars, outVars, callerVars>>

AtOpcode == Fetching /\ AvailableInput > 0

Opcode == input[input_offset + 1]

Kind == Classify(Opcode)

InvalidOpcode ==
  /\ AtOpcode
  /\ Kind = "Invalid"
  /\ ReturnErr("InvalidOpcode")
  /\ UNCHANGED <<inputVars, eosVars, outVars, callerVars>>

AtInstruction == AtOpcode /\ Kind \in LiteralKinds \cup MatchKinds

(* A bug to plant: the literals are not waited for. *)
BuggyIsBuffered == AvailableInput >= HeaderLen(Kind)

(* The calls of ensure_buffered: the header, then header and literals. *)
IsBuffered == IsComplete(input, input_offset + 1)

PartialInstruction ==
  /\ AtInstruction
  /\ ~IsBuffered
  /\ NeedInput
  /\ UNCHANGED <<inputVars, eosVars, outVars, callerVars>>

Literals == LiteralLen(input, input_offset + 1)

(* A bug to plant: the previous distance is taken from what is pending. *)
BuggyDistance == MatchDistance(input, input_offset + 1, pending.distance)

Distance == MatchDistance(input, input_offset + 1, previous_distance)

PrepareLiteral ==
  /\ AtInstruction
  /\ IsBuffered
  /\ Kind \in LiteralKinds
  /\ input_offset' = input_offset + HeaderLen(Kind)
  /\ pending' = [NoPending EXCEPT !.literal = Literals]
  /\ UNCHANGED <<input, input_base, eosVars, history, previous_distance,
                 callVars, callerVars>>

(* prepare_match_only and prepare_literal_and_match.  Only the former ends *)
(* with compact_input_if_necessary, where a match is pending: no effect.   *)
PrepareMatch ==
  /\ AtInstruction
  /\ IsBuffered
  /\ Kind \in MatchKinds
  /\ IsValidDistance(Distance, Len(history) + Literals)
  /\ input_offset' = input_offset + HeaderLen(Kind)
  /\ previous_distance' = Distance
  /\ pending' = [literal  |-> Literals,
                 match    |-> MatchLen(input, input_offset + 1),
                 distance |-> Distance]
  /\ UNCHANGED <<input, input_base, eosVars, history, callVars, callerVars>>

InvalidMatchDistance ==
  /\ AtInstruction
  /\ IsBuffered
  /\ Kind \in MatchKinds
  /\ ~IsValidDistance(Distance, Len(history) + Literals)
  /\ ReturnErr("InvalidMatchDistance")
  /\ UNCHANGED <<inputVars, eosVars, outVars, callerVars>>

Nop ==
  /\ AtOpcode
  /\ Kind = "Nop"
  /\ Advance(input_offset + 1, pending)
  /\ UNCHANGED <<eosVars, outVars, callVars, callerVars>>

(* consume_eos.  The end marker stays consumed when it is refused.         *)
Eos ==
  /\ AtOpcode
  /\ Kind = "Eos"
  /\ marker_end' = input_base + input_offset + 1
  /\ LET padding == SubSeq(input, input_offset + 2, Len(input))
     IN  IF IsEosPadding(padding)
           THEN /\ eos_padding' = Len(padding)
                /\ Compact(Len(input))
                /\ finished' = TRUE
                /\ Return("Finished")
           ELSE /\ input_offset' = input_offset + 1
                /\ ReturnErr("TrailingData")
                /\ UNCHANGED <<input, input_base, eos_padding, finished>>
  /\ UNCHANGED <<trailing_after_finish, outVars, callerVars>>

Turn ==
  \/ ReturnFull
  \/ CopyPendingLiteral
  \/ CopyPendingMatch
  \/ NoInput
  \/ InvalidOpcode
  \/ PartialInstruction
  \/ PrepareLiteral
  \/ PrepareMatch
  \/ InvalidMatchDistance
  \/ Nop
  \/ Eos

Supply == (\E n \in 1..(Len(src) - fed) : Feed(n)) \/ FinishInput

Call == (\E n \in DstLens : CallDecode(n)) \/ CallAfterFinish

Next == Supply \/ Call \/ Turn

Spec == Init /\ [][Next]_vars

CallWithRoom == (\E n \in DstLens \ {0} : CallDecode(n)) \/ CallAfterFinish

(***************************************************************************)
(* The driver of tests/stream.rs: a call runs until it returns (weak       *)
(* fairness); the driver keeps calling with room for a byte or more, and   *)
(* between calls keeps coming back to feed the next run or to declare the  *)
(* stream complete, both disabled while a call runs (strong fairness).     *)
(* Calls with an empty buffer may come in between.                         *)
(***************************************************************************)
FairSpec ==
  Spec /\ WF_vars(Turn) /\ SF_vars(CallWithRoom) /\ SF_vars(Supply)
-----------------------------------------------------------------------------
(* The type of every variable. *)
TypeOK ==
  /\ src \in Seq(Byte)
  /\ fed \in 0..Len(src)
  /\ input \in Seq(Byte)
  /\ input_offset \in Nat
  /\ input_base \in Nat
  /\ history \in Seq(Byte)
  /\ previous_distance \in Nat
  /\ pending \in [literal : Nat, match : Nat, distance : Nat]
  /\ finished_input \in BOOLEAN
  /\ finished \in BOOLEAN
  /\ eos_padding \in 0..MaxEosPadding
  /\ trailing_after_finish \in Nat
  /\ pc \in {"idle", "decode"}
  /\ dst_len \in Nat
  /\ written \in Nat
  /\ result \in {"none"} \cup Statuses \cup Errors
  /\ reported \in Nat
  /\ marker_end \in Nat

(* The slicing and indexing of stream.rs never panics: the literals of a   *)
(* pending instruction are still buffered, however the caller's buffers    *)
(* split it and whatever was compacted, its match starts inside the        *)
(* history, and a call writes no more than its buffer holds.               *)
CopiesInBounds ==
  /\ input_offset <= Len(input)
  /\ pending.literal <= AvailableInput
  /\ pending.match > 0 =>
       pending.distance \in 1..(Len(history) + pending.literal)
  /\ pc = "decode" => written <= dst_len

(* Compaction neither drops nor repeats a byte: the buffer is the part of  *)
(* the stream from input_base up to what was fed, so that absolute_offset, *)
(* which errors report, is an offset in the stream.                        *)
BufferIsTheUnreadStream ==
  ~finished => input = SubSeq(src, input_base + 1, fed)

(* The bytes after the end marker are judged alike however they are cut    *)
(* into chunks, and however many of them come after the decoder finished:  *)
(* they are refused, by whichever call, only if the one-shot decoder       *)
(* refuses them, and once all was fed they are accepted only if it does.   *)
TailFrom(end) == SubSeq(src, end + 1, Len(src))

PaddingVerdict ==
  /\ result = "TrailingData" => ~IsEosPadding(TailFrom(marker_end))
  /\ trailing_after_finish # 0 => ~IsEosPadding(TailFrom(marker_end))
  /\ finished /\ fed = Len(src) /\ trailing_after_finish = 0 =>
       IsEosPadding(TailFrom(marker_end))

(* Why PaddingVerdict is inductive: what was accepted after the end marker *)
(* so far is zero and counted, what was refused cannot become padding.     *)
PaddingCounted ==
  /\ result = "TrailingData" => ~IsEosPadding(TailFrom(marker_end))
  /\ trailing_after_finish # 0 => finished
  /\ finished =>
       /\ marker_end \in 1..fed
       /\ trailing_after_finish = 0 =>
            /\ eos_padding = fed - marker_end
            /\ \A k \in (marker_end + 1)..fed : src[k] = 0
       /\ trailing_after_finish # 0 => ~IsEosPadding(TailFrom(marker_end))

(* The inductive invariant. *)
IInv ==
  /\ TypeOK
  /\ CopiesInBounds
  /\ BufferIsTheUnreadStream
  /\ ~finished => input_base + Len(input) = fed
  /\ pc = "decode" => ~finished
  /\ PaddingCounted

(* A caller that stops at the first Err was told of every decoded byte but *)
(* those that the call which failed wrote: the history is what the calls   *)
(* reported, and the bytes of the call that runs or gave an error midway.  *)
(* TrailingData after the end is an error that leaves nothing unreported   *)
(* (stream.rs 91-133).                                                     *)
ReportsUntilError ==
  Len(history) = reported + (IF \/ pc = "decode"
                                \/ result \in Errors /\ ~finished
                               THEN written ELSE 0)

(* "terminated by an end marker" (raw/mod.rs:3): nothing is decoded from   *)
(* what follows it.                                                        *)
NothingAfterMarker == [][marker_end # 0 => UNCHANGED history]_vars

(* A driver that feeds the stream, declares it complete and keeps calling  *)
(* with non-empty buffers is told Finished or an error in the end.         *)
DriverTerminates ==
  <>(pc = "idle" /\ result \in {"Finished"} \cup Errors)
-----------------------------------------------------------------------------
(***************************************************************************)
(* The incremental decoder implements the one-shot decoder of the whole    *)
(* stream, given an output buffer that is large enough: the history is     *)
(* what that decoder wrote, an absolute offset is its input position.  At  *)
(* the end marker the one-shot decoder also judges what follows it.        *)
(***************************************************************************)
OneShotInput ==
  IF marker_end = 0
    THEN input_base + input_offset
    ELSE IF IsEosPadding(TailFrom(marker_end)) THEN Len(src) ELSE marker_end

OneShotResult ==
  IF marker_end # 0
    THEN IF IsEosPadding(TailFrom(marker_end)) THEN "Finished" ELSE "TrailingData"
    ELSE IF pc = "idle" /\ result \in Errors THEN result ELSE "running"

OneShot == INSTANCE RawDecode WITH
  Capacities  <- {"unbounded"},
  Unbounded   <- "unbounded",
  capacity    <- "unbounded",
  input       <- OneShotInput,
  dst         <- history,
  literal_len <- pending.literal,
  match_len   <- pending.match,
  result      <- OneShotResult

(* Whatever the chunks and buffers, the output, the offsets and the errors *)
(* are those of decode_into on the whole stream (the claim of the test     *)
(* raw_stream_matches_one_shot, tests/proptest.rs:137).                    *)
ImplementsOneShot == OneShot!Spec
=============================================================================
