----------------------------- MODULE BvxnStream -----------------------------
(***************************************************************************)
(* The incremental bvxn decoder, BvxnDecoder in apple/bvxn.rs, and its     *)
(* caller.  It buffers the block, parses the header once it has all of it, *)
(* pumps the payload into the RawDecoder it owns, calls that decoder with  *)
(* the caller's buffer and checks the size of what came out.               *)
(*                                                                         *)
(* The RawDecoder is an instance of RawStream whose variables are the raw_ *)
(* ones; its stream is the declared payload of the block.  A call of       *)
(* decode_into runs through pc: "header" (when it is not parsed), "pump"   *)
(* (pump_payload), "raw" (raw.decode_into and what follows it), "idle".    *)
(***************************************************************************)
EXTENDS BvxnBlock

CONSTANTS
  Blocks,           (* the encoded blocks a caller may hold, broken or not *)
  DstLens,          (* the sizes of the buffers passed to decode_into      *)
  CompactThreshold, (* of the RawDecoder                                   *)
  RetryAfterError   (* whether the caller calls again after an Err         *)

ASSUME BvxnStreamAssumption ==
  /\ Blocks \subseteq Seq(0..255)
  /\ DstLens \subseteq Nat
  /\ CompactThreshold \in Nat
  /\ RetryAfterError \in BOOLEAN

VARIABLES
  (* the fields of BvxnDecoder *)
  input, input_offset, input_base, header, payload_remaining,
  finished_input, finished, trailing_after_finish,
  (* the call in progress, and what the last call returned *)
  pc, dst_len, result,
  (* the caller: its block and how much of it was fed *)
  block, fed,
  (* the field raw, a RawDecoder *)
  raw_input, raw_input_offset, raw_input_base, raw_history,
  raw_previous_distance, raw_pending, raw_finished_input, raw_finished,
  raw_eos_padding, raw_trailing_after_finish, raw_pc, raw_dst_len,
  raw_written, raw_result, raw_fed, raw_reported, raw_marker_end

inputVars  == <<input, input_offset, input_base>>
blockVars  == <<header, payload_remaining>>
endVars    == <<finished, trailing_after_finish>>
callVars   == <<pc, dst_len, result>>
callerVars == <<block, fed, finished_input>>

rawVars ==
  <<raw_input, raw_input_offset, raw_input_base, raw_history,
    raw_previous_distance, raw_pending, raw_finished_input, raw_finished,
    raw_eos_padding, raw_trailing_after_finish, raw_pc, raw_dst_len,
    raw_written, raw_result, raw_fed, raw_reported, raw_marker_end>>

vars == <<inputVars, blockVars, endVars, callVars, callerVars, rawVars>>

Raw == INSTANCE RawStream WITH
  Sources <- {Payload(b) : b \in Blocks},
  src <- Payload(block),
  input <- raw_input,
  input_offset <- raw_input_offset,
  input_base <- raw_input_base,
  history <- raw_history,
  previous_distance <- raw_previous_distance,
  pending <- raw_pending,
  finished_input <- raw_finished_input,
  finished <- raw_finished,
  eos_padding <- raw_eos_padding,
  trailing_after_finish <- raw_trailing_after_finish,
  pc <- raw_pc,
  dst_len <- raw_dst_len,
  written <- raw_written,
  result <- raw_result,
  fed <- raw_fed,
  reported <- raw_reported,
  marker_end <- raw_marker_end

Errors == Raw!Errors \cup {"UnsupportedBlockMagic", "SizeMismatch"}

NoHeader == [raw_bytes |-> -1, payload_bytes |-> -1]

Init ==
  /\ block \in Blocks
  /\ fed = 0
  /\ input = << >>
  /\ input_offset = 0
  /\ input_base = 0
  /\ header = NoHeader
  /\ payload_remaining = 0
  /\ finished_input = FALSE
  /\ finished = FALSE
  /\ trailing_after_finish = 0
  /\ pc = "idle"
  /\ dst_len = 0
  /\ result = "none"
  /\ raw_input = << >>
  /\ raw_input_offset = 0
  /\ raw_input_base = 0
  /\ raw_history = << >>
  /\ raw_previous_distance = 0
  /\ raw_pending = Raw!NoPending
  /\ raw_finished_input = FALSE
  /\ raw_finished = FALSE
  /\ raw_eos_padding = 0
  /\ raw_trailing_after_finish = 0
  /\ raw_pc = "idle"
  /\ raw_dst_len = 0
  /\ raw_written = 0
  /\ raw_result = "none"
  /\ raw_fed = 0
  /\ raw_reported = 0
  /\ raw_marker_end = 0
-----------------------------------------------------------------------------
(* The caller's steps. *)

(* feed, given a non-empty chunk. *)
Feed(n) ==
  /\ pc = "idle"
  /\ fed + n <= Len(block)
  /\ IF finished
       THEN /\ trailing_after_finish' = trailing_after_finish + n
            /\ UNCHANGED input
       ELSE /\ input' = input \o SubSeq(block, fed + 1, fed + n)
            /\ UNCHANGED trailing_after_finish
  /\ fed' = fed + n
  /\ UNCHANGED <<input_offset, input_base, finished, blockVars, callVars,
                 block, finished_input, rawVars>>

(* The caller declares the block complete once all of it was fed. *)
FinishInput ==
  /\ pc = "idle"
  /\ fed = Len(block)
  /\ ~finished_input
  /\ finished_input' = TRUE
  /\ UNCHANGED <<inputVars, blockVars, endVars, callVars, block, fed, rawVars>>

MayCall ==
  /\ pc = "idle"
  /\ result \in Errors => RetryAfterError

(* decode_into returns at once: trailing bytes, or nothing more to do. *)
CallAfterFinish ==
  /\ MayCall
  /\ finished \/ trailing_after_finish # 0
  /\ result' = IF trailing_after_finish # 0 THEN "TrailingData" ELSE "Finished"
  /\ UNCHANGED <<inputVars, blockVars, endVars, callerVars, pc, dst_len,
                 rawVars>>

(* decode_into goes to work with an output buffer of n bytes. *)
CallDecode(n) ==
  /\ MayCall
  /\ ~finished
  /\ trailing_after_finish = 0
  /\ pc' = IF header = NoHeader THEN "header" ELSE "pump"
  /\ dst_len' = n
  /\ UNCHANGED <<inputVars, blockVars, endVars, callerVars, result, rawVars>>
-----------------------------------------------------------------------------
(* The body of decode_into. *)

Return(status) ==
  /\ pc' = "idle"
  /\ result' = status
  /\ UNCHANGED dst_len

AvailableInput == Len(input) - input_offset

(* A bug to plant: the bytes dropped are not counted. *)
BuggyAdvance(offset) ==
  IF offset # 0 /\ (offset = Len(input) \/ offset * 2 >= Len(input))
    THEN /\ input' = SubSeq(input, offset + 1, Len(input))
         /\ input_offset' = 0
         /\ UNCHANGED input_base
    ELSE /\ input_offset' = offset
         /\ UNCHANGED <<input, input_base>>

(* Set input_offset to offset, then compact_input_if_necessary. *)
Advance(offset) ==
  IF offset # 0 /\ (offset = Len(input) \/ offset * 2 >= Len(input))
    THEN /\ input' = SubSeq(input, offset + 1, Len(input))
         /\ input_base' = input_base + offset
         /\ input_offset' = 0
    ELSE /\ input_offset' = offset
         /\ UNCHANGED <<input, input_base>>

ShortHeader ==
  /\ pc = "header"
  /\ AvailableInput < BlockHeaderLen
  /\ Return(IF finished_input THEN "TruncatedInput" ELSE "NeedInput")
  /\ UNCHANGED <<inputVars, blockVars, endVars, callerVars, rawVars>>

UnreadInput == SubSeq(input, input_offset + 1, Len(input))

UnsupportedBlockMagic ==
  /\ pc = "header"
  /\ AvailableInput >= BlockHeaderLen
  /\ ~HasMagic(UnreadInput)
  /\ Return("UnsupportedBlockMagic")
  /\ UNCHANGED <<inputVars, blockVars, endVars, callerVars, rawVars>>

TakeHeader ==
  /\ pc = "header"
  /\ AvailableInput >= BlockHeaderLen
  /\ HasMagic(UnreadInput)
  /\ header' = ParseHeader(UnreadInput)
  /\ payload_remaining' = header'.payload_bytes
  /\ Advance(input_offset + BlockHeaderLen)
  /\ pc' = "pump"
  /\ UNCHANGED <<endVars, callerVars, dst_len, result, rawVars>>

(* A bug to plant: the payload is not told from what follows it. *)
BuggyToFeed == AvailableInput

ToFeed == SmallerOf(AvailableInput, payload_remaining)

(* pump_payload: hand the RawDecoder what there is of the payload, *)
FeedPayload ==
  /\ pc = "pump"
  /\ ToFeed # 0
  /\ Raw!FeedBytes(SubSeq(input, input_offset + 1, input_offset + ToFeed))
  /\ raw_fed' = raw_fed + ToFeed
  /\ payload_remaining' = payload_remaining - ToFeed
  /\ Advance(input_offset + ToFeed)
  /\ UNCHANGED <<header, endVars, callVars, callerVars,
                 raw_input_offset, raw_input_base, raw_history,
                 raw_previous_distance, raw_pending, raw_finished_input,
                 raw_finished, raw_pc, raw_dst_len, raw_written, raw_result,
                 raw_reported, raw_marker_end>>

(* tell it when that was all of it, *)
FinishPayload ==
  /\ pc = "pump"
  /\ ToFeed = 0
  /\ payload_remaining = 0
  /\ ~raw_finished_input
  /\ raw_finished_input' = TRUE
  /\ UNCHANGED <<inputVars, blockVars, endVars, callVars, callerVars,
                 raw_input, raw_input_offset, raw_input_base, raw_history,
                 raw_previous_distance, raw_pending, raw_finished,
                 raw_eos_padding, raw_trailing_after_finish, raw_pc,
                 raw_dst_len, raw_written, raw_result, raw_fed, raw_reported,
                 raw_marker_end>>

(* A bug to plant: nothing follows the payload. *)
BuggyHasTrailingInput == FALSE

HasTrailingInput == payload_remaining = 0 /\ AvailableInput # 0

(* and refuse what follows it. *)
TrailingPayload ==
  /\ pc = "pump"
  /\ ToFeed = 0
  /\ raw_finished_input
  /\ HasTrailingInput
  /\ Return("TrailingData")
  /\ UNCHANGED <<inputVars, blockVars, endVars, callerVars, rawVars>>

(* raw.decode_into is called, *)
CallRaw ==
  /\ pc = "pump"
  /\ ToFeed = 0
  /\ payload_remaining = 0 => raw_finished_input
  /\ ~HasTrailingInput
  /\ pc' = "raw"
  /\ UNCHANGED <<inputVars, blockVars, endVars, callerVars, dst_len, result>>
  /\ Raw!CallDecode(dst_len) \/ Raw!CallAfterFinish

(* runs, *)
RunRaw ==
  /\ pc = "raw"
  /\ UNCHANGED <<inputVars, blockVars, endVars, callVars, callerVars>>
  /\ Raw!Turn

(* and returns. *)
RawReturned == pc = "raw" /\ raw_pc = "idle"

RawFailed ==
  /\ RawReturned
  /\ raw_result \in Errors
  /\ Return(raw_result)
  /\ UNCHANGED <<inputVars, blockVars, endVars, callerVars, rawVars>>

(* A bug to plant: output that is short of the declared size is accepted. *)
BuggyHasWrongSize == Len(raw_history) > header.raw_bytes

(* The payload decodes to more than the header declares, or has ended with *)
(* less.                                                                   *)
HasWrongSize ==
  \/ Len(raw_history) > header.raw_bytes
  \/ raw_result = "Finished" /\ Len(raw_history) # header.raw_bytes

SizeMismatch ==
  /\ RawReturned
  /\ raw_result \notin Errors
  /\ HasWrongSize
  /\ Return("SizeMismatch")
  /\ UNCHANGED <<inputVars, blockVars, endVars, callerVars, rawVars>>

(* Bugs to plant: more input may come, or is always expected to. *)
BuggyPayloadIsCut == payload_remaining # 0 /\ AvailableInput = 0

HopefulPayloadIsCut == FALSE

PayloadIsCut ==
  payload_remaining # 0 /\ finished_input /\ AvailableInput = 0

NeedInput ==
  /\ RawReturned
  /\ raw_result = "NeedInput"
  /\ ~HasWrongSize
  /\ Return(IF PayloadIsCut THEN "TruncatedInput" ELSE "NeedInput")
  /\ UNCHANGED <<inputVars, blockVars, endVars, callerVars, rawVars>>

NeedOutput ==
  /\ RawReturned
  /\ raw_result = "NeedOutput"
  /\ ~HasWrongSize
  /\ Return("NeedOutput")
  /\ UNCHANGED <<inputVars, blockVars, endVars, callerVars, rawVars>>

Finish ==
  /\ RawReturned
  /\ raw_result = "Finished"
  /\ ~HasWrongSize
  /\ finished' = TRUE
  /\ Return(IF AvailableInput # 0 THEN "TrailingData" ELSE "Finished")
  /\ UNCHANGED <<inputVars, blockVars, trailing_after_finish, callerVars,
                 rawVars>>

Step ==
  \/ ShortHeader
  \/ UnsupportedBlockMagic
  \/ TakeHeader
  \/ FeedPayload
  \/ FinishPayload
  \/ TrailingPayload
  \/ CallRaw
  \/ RunRaw
  \/ RawFailed
  \/ SizeMismatch
  \/ NeedInput
  \/ NeedOutput
  \/ Finish

Supply == (\E n \in 1..(Len(block) - fed) : Feed(n)) \/ FinishInput

Call == (\E n \in DstLens : CallDecode(n)) \/ CallAfterFinish

Next == Supply \/ Call \/ Step

Spec == Init /\ [][Next]_vars

(* The driver of tests/proptest.rs:92, as for RawStream; empty buffers may *)
(* come in between.                                                        *)
CallWithRoom == (\E n \in DstLens \ {0} : CallDecode(n)) \/ CallAfterFinish

FairSpec ==
  Spec /\ WF_vars(Step) /\ SF_vars(CallWithRoom) /\ SF_vars(Supply)
-----------------------------------------------------------------------------
(* The type of every variable. *)
TypeOK ==
  /\ block \in Seq(0..255)
  /\ fed \in 0..Len(block)
  /\ input \in Seq(0..255)
  /\ input_offset \in 0..Len(input)
  /\ input_base \in Nat
  /\ header \in [raw_bytes : Nat, payload_bytes : Nat] \cup {NoHeader}
  /\ payload_remaining \in Nat
  /\ finished_input \in BOOLEAN
  /\ finished \in BOOLEAN
  /\ trailing_after_finish \in Nat
  /\ pc \in {"idle", "header", "pump", "raw"}
  /\ dst_len \in Nat
  /\ result \in {"none"} \cup Raw!Statuses \cup Errors
  /\ Raw!TypeOK

(* Every byte of the declared payload goes to the RawDecoder once and in   *)
(* order, and no other byte does: what was taken from the buffer is the    *)
(* header and the payload pumped so far, what is left in it comes next.    *)
PayloadPumpedOnce ==
  /\ ~finished => input = SubSeq(block, input_base + 1, fed)
  /\ IF header = NoHeader
       THEN input_base + input_offset = 0 /\ raw_fed = 0
       ELSE /\ header = ParseHeader(block)
            /\ input_base + input_offset = BlockHeaderLen + raw_fed
            /\ raw_fed + payload_remaining = header.payload_bytes

(* The RawDecoder is used as its own caller would have to use it: the      *)
(* declared payload is its stream, whatever the chunks the block comes in, *)
(* it is told of its end once and only then, and not called in between.    *)
UsesRawStream == Raw!Spec

(* The sizes the header declares hold of what the caller is given: never   *)
(* more bytes than declared without an error, exactly as many at the end.  *)
DeclaredSize ==
  /\ (pc = "idle" /\ result \in Raw!Statuses /\ header # NoHeader) =>
       Len(raw_history) <= header.raw_bytes
  /\ finished => Len(raw_history) = header.raw_bytes

(* A driver that feeds the block, declares it complete and keeps calling   *)
(* with non-empty buffers is told Finished or an error in the end.         *)
DriverTerminates ==
  <>(pc = "idle" /\ result \in {"Finished"} \cup Errors)

(* "Return whether the block has fully decoded" (bvxn.rs:265): a decoder   *)
(* that says so was given all of the block it declares.                    *)
FinishedHasWholePayload == finished => payload_remaining = 0
=============================================================================
