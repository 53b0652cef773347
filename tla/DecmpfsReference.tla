-------------------------- MODULE DecmpfsReference --------------------------
(***************************************************************************)
(* What a decmpfs wrapper holds, defined by its layout and by what raw     *)
(* streams decode to: a reference for both directions of the conversion.   *)
(***************************************************************************)
EXTENDS DecmpfsFormat, RawReference, SequencesExt

(* What a block decodes to, and whether it is exactly what was declared. *)
Content(payload, expected) ==
  IF IsStored(payload, expected) THEN Tail(payload)
                                 ELSE Reference(payload).out

IsBlock(payload, expected) ==
  \/ IsStored(payload, expected)
  \/ LET reference == Reference(payload)
     IN  reference.verdict = "Finished" /\ Len(reference.out) = expected

(* A header that can be read and declares LZVN. *)
HasHeader(xattr) ==
  /\ Len(xattr) >= HeaderLength
  /\ SubSeq(xattr, 1, 4) = Magic
  /\ XattrType(xattr) \in {LzvnXattr, LzvnResourceFork}

Offset(fork, k) == ReadOffset(fork, k)

(* The offsets say where the table and every block end, in order. *)
HasBlocks(fork, size) ==
  LET count == BlockCount(size)
  IN  /\ OffsetTableLen(count) <= Len(fork)
      /\ Offset(fork, 0) = OffsetTableLen(count)
      /\ \A k \in 1..count : Offset(fork, k) \in Offset(fork, k - 1)..Len(fork)
      /\ Offset(fork, count) = Len(fork)

BlockAt(fork, k) == SubSeq(fork, Offset(fork, k) + 1, Offset(fork, k + 1))

(* The wrapper is whole: it decodes to the bytes of WrapperContent. *)
IsWrapper(xattr, fork) ==
  /\ HasHeader(xattr)
  /\ LET size == XattrSize(xattr)
     IN  IF XattrType(xattr) = LzvnXattr
           THEN IsBlock(XattrPayload(xattr), size)
           ELSE /\ XattrPayload(xattr) = << >>
                /\ fork # NoFork
                /\ HasBlocks(fork, size)
                /\ \A k \in 0..(BlockCount(size) - 1) :
                     IsBlock(BlockAt(fork, k), RemainingBlockSize(size, k))

(* The bytes of the first n blocks. *)
BlocksContent(fork, size, n) ==
  FlattenSeq([k \in 1..n |-> Content(BlockAt(fork, k - 1),
                                     RemainingBlockSize(size, k - 1))])

WrapperContent(xattr, fork) ==
  LET size == XattrSize(xattr)
  IN  IF XattrType(xattr) = LzvnXattr
        THEN Content(XattrPayload(xattr), size)
        ELSE BlocksContent(fork, size, BlockCount(size))
=============================================================================
