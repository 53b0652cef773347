---------------------------- MODULE DecmpfsEncode ---------------------------
(***************************************************************************)
(* Encoding a decmpfs wrapper: all of the source as one payload if that    *)
(* fits in the xattr, else chunk after chunk into a resource fork.         *)
(*                                                                         *)
(* The raw_ variables are those of the raw encoder (RawEncode) at work on  *)
(* the source or on a chunk of it.                                         *)
(***************************************************************************)
EXTENDS DecmpfsFormat, SequencesExt

CONSTANTS
  Inputs,      (* the byte strings a caller may encode                     *)
  OffsetLimit  (* the largest offset of the table: u32::MAX                *)

ASSUME DecmpfsEncodeAssumption ==
  /\ Inputs \subseteq Seq(0..255)
  /\ \A bytes \in Inputs : FitsU64(Len(bytes))
  /\ OffsetLimit \in Nat /\ FitsU32(OffsetLimit)

VARIABLES
  src,            (* the bytes to encode                                   *)
  offsets,        (* the offset table so far                               *)
  blocks,         (* the blocks of the fork so far                         *)
  xattr, fork,    (* the wrapper returned                                  *)
  phase,          (* "inline", "fork" or "done"                            *)
  result,         (* "running", "Ok" or "SizeOverflow"                     *)
  raw_src, raw_output, raw_table, raw_position, raw_previous_distance,
  raw_covered, raw_match, raw_pc

raw_vars == <<raw_src, raw_output, raw_table, raw_position,
              raw_previous_distance, raw_covered, raw_match, raw_pc>>

vars == <<src, offsets, blocks, xattr, fork, phase, result, raw_vars>>

Raw == INSTANCE RawEncode WITH
         Inputs <- Seq(0..255),
         src <- raw_src, output <- raw_output, table <- raw_table,
         position <- raw_position,
         previous_distance <- raw_previous_distance,
         covered <- raw_covered, match <- raw_match, pc <- raw_pc

Init ==
  /\ src \in Inputs
  /\ offsets = << >>
  /\ blocks = << >>
  /\ xattr = << >>
  /\ fork = NoFork
  /\ phase = "inline"
  /\ result = "running"
  /\ raw_src = src
  /\ raw_output = << >>
  /\ raw_table = << >>
  /\ raw_position = 0
  /\ raw_previous_distance = 0
  /\ raw_covered = 0
  /\ raw_match = Raw!NoMatch
  /\ raw_pc = "search"
-----------------------------------------------------------------------------
(* src.chunks(ChunkSize): the k-th, from 0 on. *)
Chunk(k) ==
  SubSeq(src, k * ChunkSize + 1,
         k * ChunkSize + RemainingBlockSize(Len(src), k))

StartEncoder(bytes) ==
  /\ raw_src' = bytes
  /\ raw_output' = << >>
  /\ raw_table' = << >>
  /\ raw_position' = 0
  /\ raw_previous_distance' = 0
  /\ raw_covered' = 0
  /\ raw_match' = Raw!NoMatch
  /\ raw_pc' = "search"

(* raw::encode, up to its return. *)
EncodeRaw ==
  /\ phase # "done"
  /\ Raw!Next
  /\ UNCHANGED <<src, offsets, blocks, xattr, fork, phase, result>>

Encoded == phase # "done" /\ raw_pc = "done"

(* A bug to plant: nothing is stored. *)
BuggyBest == raw_output

(* best_lzvn_wrapper_payload: stored if that is strictly shorter. *)
Best ==
  IF Len(raw_src) + 1 < Len(raw_output)
    THEN << Sentinel >> \o raw_src
    ELSE raw_output

Finish(type, payload, fork_bytes) ==
  /\ xattr' = BuildXattr(type, Len(src), payload)
  /\ fork' = fork_bytes
  /\ phase' = "done"
  /\ result' = "Ok"

FitsInline ==
  /\ Encoded
  /\ phase = "inline"
  /\ Len(Best) <= MaxXattrData
  /\ Finish(LzvnXattr, Best, NoFork)
  /\ UNCHANGED <<src, offsets, blocks, raw_vars>>

TableLen == OffsetTableLen(BlockCount(Len(src)))

BeginFork ==
  /\ Encoded
  /\ phase = "inline"
  /\ Len(Best) > MaxXattrData
  /\ TableLen <= OffsetLimit
  /\ phase' = "fork"
  /\ offsets' = << TableLen >>
  /\ StartEncoder(Chunk(0))
  /\ UNCHANGED <<src, blocks, xattr, fork, result>>

NewOffset == offsets[Len(offsets)] + Len(Best)

AddBlock ==
  /\ Encoded
  /\ phase = "fork"
  /\ NewOffset <= OffsetLimit
  /\ offsets' = Append(offsets, NewOffset)
  /\ blocks' = Append(blocks, Best)
  /\ IF Len(blocks') < BlockCount(Len(src))
       THEN /\ StartEncoder(Chunk(Len(blocks')))
            /\ UNCHANGED <<xattr, fork, phase, result>>
       ELSE /\ Finish(LzvnResourceFork, << >>,
                FlattenSeq([i \in 1..Len(offsets') |-> U32Bytes(offsets'[i])])
                  \o FlattenSeq(blocks'))
            /\ UNCHANGED raw_vars
  /\ UNCHANGED src

(* u32::try_from and checked_add: the fork is too long for its table. *)
SizeOverflow ==
  /\ Encoded
  /\ \/ /\ phase = "inline"
        /\ Len(Best) > MaxXattrData
        /\ TableLen > OffsetLimit
     \/ /\ phase = "fork"
        /\ NewOffset > OffsetLimit
  /\ phase' = "done"
  /\ result' = "SizeOverflow"
  /\ UNCHANGED <<src, offsets, blocks, xattr, fork, raw_vars>>

Next ==
  \/ EncodeRaw
  \/ FitsInline
  \/ BeginFork
  \/ AddBlock
  \/ SizeOverflow

Spec == Init /\ [][Next]_vars
-----------------------------------------------------------------------------
(* Every variable has its type. *)
TypeOK ==
  /\ src \in Inputs
  /\ offsets \in Seq(Nat)
  /\ blocks \in Seq(Seq(0..255))
  /\ xattr \in Seq(0..255)
  /\ fork \in Seq(0..255) \cup {NoFork}
  /\ phase \in {"inline", "fork", "done"}
  /\ result \in {"running", "Ok", "SizeOverflow"}
  /\ raw_src \in Seq(0..255)
  /\ raw_output \in Seq(0..255)

(* A wrapper is never much longer than its source: a payload costs one     *)
(* byte, a fork five for each chunk and four more; and what has a fork did *)
(* not fit in the xattr, not even stored (decmpfs.rs 168-185, 354-401).    *)
BoundedOverhead ==
  result = "Ok" =>
    IF fork = NoFork
      THEN Len(xattr) <= HeaderLength + Len(src) + 1
      ELSE /\ Len(xattr) = HeaderLength
           /\ Len(src) + 1 > MaxXattrData
           /\ Len(fork) <= Len(src) + 5 * BlockCount(Len(src)) + 4
=============================================================================
