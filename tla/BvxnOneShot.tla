---------------------------- MODULE BvxnOneShot -----------------------------
(***************************************************************************)
(* The one-shot bvxn decoders: decode, which allocates the declared size,  *)
(* and decode_into, which takes a buffer of any size and only compares     *)
(* the sizes when the payload is decoded.                                  *)
(*                                                                         *)
(* The raw_ variables are those of the one-shot raw decoder (RawDecode)    *)
(* that both run on the payload.  The other names differ from those of     *)
(* DrainEncoder, so that one module can extend both.                       *)
(***************************************************************************)
EXTENDS BvxnBlock

CONSTANTS
  Blocks,      (* the blocks a caller may hand over                        *)
  Capacities,  (* the sizes of the buffer it may provide                   *)
  Exact        (* in Capacities: decode                                    *)

ASSUME BvxnOneShotAssumption ==
  /\ Blocks \subseteq Seq(0..255)
  /\ Capacities \subseteq Nat \cup {Exact}
  /\ Exact \notin Nat

VARIABLES
  block, capacity,  (* the arguments                                       *)
  outcome,          (* "called", "running", "Ok" or the error returned     *)
  raw_src, raw_capacity, raw_input, raw_dst, raw_previous_distance,
  raw_literal_len, raw_match_len, raw_result

raw_vars == <<raw_src, raw_capacity, raw_input, raw_dst,
              raw_previous_distance, raw_literal_len, raw_match_len,
              raw_result>>

decode_vars == <<block, capacity, outcome, raw_vars>>

Raw == INSTANCE RawDecode WITH
         Sources <- Seq(0..255), Capacities <- Nat, Unbounded <- Exact,
         src <- raw_src, capacity <- raw_capacity, input <- raw_input,
         dst <- raw_dst, previous_distance <- raw_previous_distance,
         literal_len <- raw_literal_len, match_len <- raw_match_len,
         result <- raw_result

DecodeInit ==
  /\ block \in Blocks
  /\ capacity \in Capacities
  /\ outcome = "called"
  /\ raw_src = << >> /\ raw_capacity = 0 /\ raw_input = 0 /\ raw_dst = << >>
  /\ raw_previous_distance = 0 /\ raw_literal_len = 0 /\ raw_match_len = 0
  /\ raw_result = "running"

(* split_block. *)
RefuseBlock ==
  /\ outcome = "called"
  /\ SplitBlock(block) # "ok"
  /\ outcome' = SplitBlock(block)
  /\ UNCHANGED <<block, capacity, raw_vars>>

Begin ==
  /\ outcome = "called"
  /\ SplitBlock(block) = "ok"
  /\ outcome' = "running"
  /\ raw_src' = Payload(block)
  /\ raw_capacity' =
       IF capacity = Exact THEN ParseHeader(block).raw_bytes ELSE capacity
  /\ UNCHANGED <<block, capacity, raw_input, raw_dst, raw_previous_distance,
                 raw_literal_len, raw_match_len, raw_result>>

DecodePayload ==
  /\ outcome = "running"
  /\ Raw!Next
  /\ UNCHANGED <<block, capacity, outcome>>

(* A bug to plant: a short result is accepted. *)
BuggyReturn ==
  /\ outcome = "running"
  /\ raw_result # "running"
  /\ outcome' = IF raw_result # "Finished" THEN raw_result
                ELSE IF Len(raw_dst) <= ParseHeader(block).raw_bytes THEN "Ok"
                ELSE "SizeMismatch"
  /\ UNCHANGED <<block, capacity, raw_vars>>

(* raw::decode and decode_into make the same check of the size. *)
Return ==
  /\ outcome = "running"
  /\ raw_result # "running"
  /\ outcome' = IF raw_result # "Finished" THEN raw_result
                ELSE IF Len(raw_dst) = ParseHeader(block).raw_bytes THEN "Ok"
                ELSE "SizeMismatch"
  /\ UNCHANGED <<block, capacity, raw_vars>>

DecodeNext ==
  \/ RefuseBlock
  \/ Begin
  \/ DecodePayload
  \/ Return

DecodeSpec == DecodeInit /\ [][DecodeNext]_decode_vars
=============================================================================
