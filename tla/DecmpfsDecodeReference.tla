----------------------- MODULE DecmpfsDecodeReference ------------------------
(***************************************************************************)
(* Decoding a decmpfs wrapper compared with what the wrapper holds.        *)
(***************************************************************************)
EXTENDS DecmpfsDecode, DecmpfsReference

(* The declared size is one that a usize can hold, and there is room for   *)
(* it: in the caller's buffer, or in a vector.                             *)
HasRoom ==
  /\ Len(xattr) >= HeaderLength
  /\ SizeFits
  /\ Size <= (IF capacity = Exact THEN MaxLen ELSE capacity)

(* A call succeeds exactly when the wrapper is whole and there is room for *)
(* the 64 bits of the declared size, and then gives all of its bytes: room *)
(* to spare does not change what is accepted, and every byte of the fork   *)
(* was accounted for (decmpfs.rs 126-150 and 199-334).                     *)
AcceptsWholeWrappers ==
  pc = "done" =>
    /\ result = "Ok" <=> (HasRoom /\ IsWrapper(xattr, fork))
    /\ result = "Ok" => dst = WrapperContent(xattr, fork)

(* When a call fails half way, what it wrote before is right: the bytes of *)
(* the blocks in front of the one that failed, and perhaps the first bytes *)
(* of that block (decmpfs.rs 302-325).                                     *)
WritesContent ==
  Opened \in {"inline", "fork"} =>
    IsPrefix(dst \o raw_dst,
      IF IsInline
        THEN Content(XattrPayload(xattr), Size)
        ELSE BlocksContent(fork, Size,
               IF raw_dst = << >> THEN block_index ELSE block_index + 1))

(* The errors for a payload that is no block of the declared size.  Output *)
(* beyond that size does not fit in the part of the block; a distance that *)
(* is invalid may belong to an instruction that does not fit either, which *)
(* is looked at first.                                                     *)
BlockErrors(payload, expected) ==
  LET reference == Reference(payload)
  IN  IF IsBlock(payload, expected) THEN {}
      ELSE IF Len(reference.out) > expected THEN {"OutputTooSmall"}
      ELSE IF reference.verdict = "Finished" THEN {"SizeMismatch"}
      ELSE IF reference.verdict = "InvalidMatchDistance"
        THEN {"OutputTooSmall", "InvalidMatchDistance"}
      ELSE {reference.verdict}

(* The k-th block is cut out of the fork by its two offsets. *)
IsCutOut(k) == Offset(fork, k + 1) \in Offset(fork, k)..Len(fork)

(* A call that fails stops at the first thing that is wrong: the blocks it *)
(* counts as done are whole, and its error is that of the block behind     *)
(* them, of the offset where that should end, or of the bytes behind the   *)
(* last block; a fault further back is not reported (decmpfs.rs 302-334).  *)
FailsAtFirstFault ==
  pc = "done" /\ result # "Ok" =>
    /\ Opened = "inline" => result \in BlockErrors(XattrPayload(xattr), Size)
    /\ Opened = "fork" =>
         /\ \A k \in 0..(block_index - 1) :
              /\ IsCutOut(k)
              /\ IsBlock(BlockAt(fork, k), RemainingBlockSize(Size, k))
         /\ IF block_index = Count
              THEN /\ result = "InvalidResourceFork"
                   /\ Offset(fork, Count) # Len(fork)
              ELSE IF ~IsCutOut(block_index)
                THEN result = "InvalidResourceFork"
                ELSE result \in BlockErrors(BlockAt(fork, block_index),
                                RemainingBlockSize(Size, block_index))
=============================================================================
