---------------------------- MODULE DecmpfsDecode ---------------------------
(***************************************************************************)
(* Decoding a decmpfs wrapper, decode and decode_into: the header is read, *)
(* then the payload of the xattr or one block of the resource fork after   *)
(* the other is copied or decoded into its part of the caller's buffer.    *)
(*                                                                         *)
(* The raw_ variables are those of the one-shot raw decoder (RawDecode)    *)
(* that decodes one block; its buffer is the part of the block, so that    *)
(* the bytes written so far are dst followed by raw_dst.                   *)
(***************************************************************************)
EXTENDS DecmpfsFormat

CONSTANTS
  Wrappers,    (* pairs of an xattr and a resource fork                    *)
  Capacities,  (* the sizes of the buffer a caller may provide             *)
  Exact,       (* in Capacities: decode, which allocates the declared size *)
  MaxUsize     (* usize::MAX: 2^64 - 1 or 2^32 - 1                         *)

(* isize::MAX: no slice and no vector is longer. *)
MaxLen == MaxUsize \div 2

ASSUME DecmpfsDecodeAssumption ==
  /\ Wrappers \subseteq Seq(0..255) \X (Seq(0..255) \cup {NoFork})
  /\ \A w \in Wrappers : w[2] # NoFork => Len(w[2]) <= MaxLen
  /\ MaxUsize \in Nat
  /\ Capacities \subseteq 0..MaxLen \cup {Exact}
  /\ Exact \notin Nat

VARIABLES
  xattr, fork, capacity,  (* the arguments                                 *)
  block_index,            (* blocks of the fork that are done              *)
  previous_offset,        (* where the last one ended                      *)
  dst,                    (* what the blocks that are done decoded to      *)
  pc,                     (* "open", "block", "raw" or "done"              *)
  result,                 (* what the call returned                        *)
  raw_src, raw_capacity, raw_input, raw_dst, raw_previous_distance,
  raw_literal_len, raw_match_len, raw_result

args == <<xattr, fork, capacity>>

raw_vars == <<raw_src, raw_capacity, raw_input, raw_dst,
              raw_previous_distance, raw_literal_len, raw_match_len,
              raw_result>>

vars == <<args, block_index, previous_offset, dst, pc, result, raw_vars>>

Raw == INSTANCE RawDecode WITH
         Sources <- Seq(0..255), Capacities <- Nat, Unbounded <- Exact,
         src <- raw_src, capacity <- raw_capacity, input <- raw_input,
         dst <- raw_dst, previous_distance <- raw_previous_distance,
         literal_len <- raw_literal_len, match_len <- raw_match_len,
         result <- raw_result

Init ==
  /\ \E w \in Wrappers : xattr = w[1] /\ fork = w[2]
  /\ capacity \in Capacities
  /\ block_index = 0
  /\ previous_offset = 0
  /\ dst = << >>
  /\ pc = "open"
  /\ result = "running"
  /\ raw_src = << >> /\ raw_capacity = 0 /\ raw_input = 0 /\ raw_dst = << >>
  /\ raw_previous_distance = 0 /\ raw_literal_len = 0 /\ raw_match_len = 0
  /\ raw_result = "Finished"
-----------------------------------------------------------------------------
Size == XattrSize(xattr)

(* usize::try_from of the size, by its halves: TLC cannot compute a size   *)
(* whose upper half is not zero.                                           *)
SizeFits ==
  LET low  == U32(xattr, 9)
      high == U32(xattr, 13)
  IN  /\ low <= MaxUsize
      /\ high <= ((MaxUsize - low) \div 65536) \div 65536

IsInline == XattrType(xattr) = LzvnXattr

Count == BlockCount(Size)

(* The checks before anything is written, in their order: an error, or     *)
(* where the payload is.  CapacityOverflow is the panic of vec! when decode *)
(* is to allocate more than a vector may hold.                             *)
Opened ==
  IF Len(xattr) < HeaderLength THEN "TruncatedInput"
  ELSE IF SubSeq(xattr, 1, 4) # Magic THEN "InvalidDecmpfsMagic"
  ELSE IF ~SizeFits THEN "SizeOverflow"
  ELSE IF capacity = Exact /\ Size > MaxLen THEN "CapacityOverflow"
  ELSE IF capacity # Exact /\ capacity < Size THEN "OutputTooSmall"
  ELSE IF IsInline THEN "inline"
  ELSE IF XattrType(xattr) # LzvnResourceFork
    THEN "UnsupportedDecmpfsCompressionType"
  ELSE IF XattrPayload(xattr) # << >> THEN "TrailingData"
  ELSE IF fork = NoFork THEN "MissingResourceFork"
  ELSE IF OffsetTableLen(Count) > MaxUsize THEN "SizeOverflow"
  ELSE IF Len(fork) < OffsetTableLen(Count) THEN "InvalidResourceFork"
  ELSE IF ReadOffset(fork, 0) # OffsetTableLen(Count)
    THEN "InvalidResourceFork"
  ELSE "fork"

Return(verdict) ==
  /\ pc' = "done"
  /\ result' = verdict

(* decode_lzvn_block: copy, or hand over to the raw decoder, which gets no *)
(* more of the buffer than the block may fill.                             *)
StartBlock(payload, expected) ==
  IF IsStored(payload, expected)
    THEN /\ dst' = dst \o Tail(payload)
         /\ IF IsInline
              THEN Return("Ok") /\ UNCHANGED <<block_index, previous_offset>>
              ELSE /\ block_index' = block_index + 1
                   /\ previous_offset' = previous_offset + Len(payload)
                   /\ UNCHANGED <<pc, result>>
         /\ UNCHANGED raw_vars
    ELSE /\ pc' = "raw"
         /\ raw_src' = payload /\ raw_capacity' = expected
         /\ raw_input' = 0 /\ raw_dst' = << >>
         /\ raw_previous_distance' = 0
         /\ raw_literal_len' = 0 /\ raw_match_len' = 0
         /\ raw_result' = "running"
         /\ UNCHANGED <<block_index, previous_offset, dst, result>>

OpenInline ==
  /\ pc = "open"
  /\ Opened = "inline"
  /\ StartBlock(XattrPayload(xattr), Size)
  /\ UNCHANGED args

OpenFork ==
  /\ pc = "open"
  /\ Opened = "fork"
  /\ pc' = "block"
  /\ previous_offset' = ReadOffset(fork, 0)
  /\ UNCHANGED <<args, block_index, dst, result, raw_vars>>

Refuse ==
  /\ pc = "open"
  /\ Opened \notin {"inline", "fork"}
  /\ Return(Opened)
  /\ UNCHANGED <<args, block_index, previous_offset, dst, raw_vars>>

NextOffset == ReadOffset(fork, block_index + 1)

Expected ==
  IF IsInline THEN Size ELSE RemainingBlockSize(Size, block_index)

NextBlock ==
  /\ pc = "block"
  /\ block_index < Count
  /\ NextOffset >= previous_offset
  /\ NextOffset <= Len(fork)
  /\ StartBlock(SubSeq(fork, previous_offset + 1, NextOffset), Expected)
  /\ UNCHANGED args

BadOffset ==
  /\ pc = "block"
  /\ block_index < Count
  /\ NextOffset < previous_offset \/ NextOffset > Len(fork)
  /\ Return("InvalidResourceFork")
  /\ UNCHANGED <<args, block_index, previous_offset, dst, raw_vars>>

(* raw::decode_into, up to its return. *)
DecodeBlock ==
  /\ pc = "raw"
  /\ Raw!Next
  /\ UNCHANGED <<args, block_index, previous_offset, dst, pc, result>>

(* A bug to plant: a block that is too short is not noticed, *)
BuggyBlockDone ==
  /\ pc = "raw"
  /\ raw_result = "Finished"
  /\ dst' = dst \o raw_dst
  /\ raw_dst' = << >>
  /\ IF IsInline
       THEN Return("Ok") /\ UNCHANGED <<block_index, previous_offset>>
       ELSE /\ block_index' = block_index + 1
            /\ previous_offset' = NextOffset
            /\ pc' = "block"
            /\ UNCHANGED result
  /\ UNCHANGED <<args, raw_src, raw_capacity, raw_input,
                 raw_previous_distance, raw_literal_len, raw_match_len,
                 raw_result>>

(* and one more: the next block starts where this one did. *)
StaleBlockDone ==
  /\ pc = "raw"
  /\ raw_result = "Finished"
  /\ Len(raw_dst) = Expected
  /\ dst' = dst \o raw_dst
  /\ raw_dst' = << >>
  /\ IF IsInline
       THEN Return("Ok") /\ UNCHANGED <<block_index, previous_offset>>
       ELSE /\ block_index' = block_index + 1
            /\ pc' = "block"
            /\ UNCHANGED <<previous_offset, result>>
  /\ UNCHANGED <<args, raw_src, raw_capacity, raw_input,
                 raw_previous_distance, raw_literal_len, raw_match_len,
                 raw_result>>

(* The block is whole: its bytes stay, the next block comes behind them. *)
BlockDone ==
  /\ pc = "raw"
  /\ raw_result = "Finished"
  /\ Len(raw_dst) = Expected
  /\ dst' = dst \o raw_dst
  /\ raw_dst' = << >>
  /\ IF IsInline
       THEN Return("Ok") /\ UNCHANGED <<block_index, previous_offset>>
       ELSE /\ block_index' = block_index + 1
            /\ previous_offset' = NextOffset
            /\ pc' = "block"
            /\ UNCHANGED result
  /\ UNCHANGED <<args, raw_src, raw_capacity, raw_input,
                 raw_previous_distance, raw_literal_len, raw_match_len,
                 raw_result>>

(* A bug to plant: the error of the block is lost. *)
BuggyBlockFailed ==
  /\ pc = "raw"
  /\ raw_result # "running"
  /\ raw_result = "Finished" => Len(raw_dst) # Expected
  /\ Return("SizeMismatch")
  /\ UNCHANGED <<args, block_index, previous_offset, dst, raw_vars>>

BlockFailed ==
  /\ pc = "raw"
  /\ raw_result # "running"
  /\ raw_result = "Finished" => Len(raw_dst) # Expected
  /\ Return(IF raw_result = "Finished" THEN "SizeMismatch" ELSE raw_result)
  /\ UNCHANGED <<args, block_index, previous_offset, dst, raw_vars>>

(* A bug to plant: bytes behind the last block are not noticed. *)
BuggyCloseFork ==
  /\ pc = "block"
  /\ block_index = Count
  /\ Return("Ok")
  /\ UNCHANGED <<args, block_index, previous_offset, dst, raw_vars>>

(* Behind the last block nothing may be left of the fork. *)
CloseFork ==
  /\ pc = "block"
  /\ block_index = Count
  /\ Return(IF previous_offset = Len(fork) THEN "Ok"
                                           ELSE "InvalidResourceFork")
  /\ UNCHANGED <<args, block_index, previous_offset, dst, raw_vars>>

Next ==
  \/ OpenInline
  \/ OpenFork
  \/ Refuse
  \/ NextBlock
  \/ BadOffset
  \/ DecodeBlock
  \/ BlockDone
  \/ BlockFailed
  \/ CloseFork

Spec == Init /\ [][Next]_vars

(* The call is a loop without waits: it runs until it returns. *)
FairSpec == Spec /\ WF_vars(Next)
-----------------------------------------------------------------------------
(* Every variable has its type. *)
TypeOK ==
  /\ <<xattr, fork>> \in Wrappers
  /\ capacity \in Capacities
  /\ block_index \in Nat
  /\ previous_offset \in Nat
  /\ dst \in Seq(0..255)
  /\ pc \in {"open", "block", "raw", "done"}
  /\ result \in {"running", "Ok", "TruncatedInput", "InvalidDecmpfsMagic",
       "SizeOverflow", "CapacityOverflow", "OutputTooSmall",
       "UnsupportedDecmpfsCompressionType", "TrailingData",
       "MissingResourceFork", "InvalidResourceFork", "SizeMismatch",
       "InvalidOpcode", "InvalidMatchDistance"}
  /\ Raw!TypeOK

(* Whatever the offsets and the blocks are, a block is written to its own  *)
(* part of the buffer: behind whole blocks only, and never past the chunk  *)
(* it stands for or the declared size, so that the room the caller has     *)
(* behind that size stays as it was (decmpfs.rs 218-223 and 310-325).      *)
WritesItsOwnPart ==
  Opened \in {"inline", "fork"} =>
    /\ Len(dst) <= Size
    /\ ~IsInline => \/ Len(dst) = block_index * ChunkSize
                    \/ block_index = Count /\ Len(dst) = Size
    /\ pc = "raw" => Len(dst) + Expected <= Size /\ Len(raw_dst) <= Expected

(* The call returns, or panics at once. *)
Returns == <>(pc = "done")
=============================================================================
