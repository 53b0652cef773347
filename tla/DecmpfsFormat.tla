---------------------------- MODULE DecmpfsFormat ---------------------------
(***************************************************************************)
(* The layout of a decmpfs wrapper, apple/fs/decmpfs.rs: an xattr with a   *)
(* 16-byte header (magic, compression type, decoded size), which also      *)
(* holds the payload if that is short; else a resource fork, a table of    *)
(* block offsets followed by one block for every ChunkSize bytes.  A block *)
(* is a raw LZVN stream, or the byte 0x06 followed by the bytes as they    *)
(* are.                                                                    *)
(***************************************************************************)
EXTENDS LittleEndian

CONSTANTS
  ChunkSize,    (* DECMPFS_CHUNK_SIZE: 64 KiB in the source                *)
  MaxXattrData, (* DECMPFS_MAX_XATTR_DATA_SIZE: 3786 in the source         *)
  NoFork        (* no resource fork, which is not the same as an empty one *)

ASSUME DecmpfsFormatAssumption ==
  /\ ChunkSize \in Nat \ {0}
  /\ MaxXattrData \in Nat \ {0}
  /\ NoFork \notin Seq(0..255)

HeaderLength == 16

Magic == << \h66, \h70, \h6D, \h63 >>

LzvnXattr == 7
LzvnResourceFork == 8

Sentinel == \h06

(* build_xattr. *)
BuildXattr(type, size, payload) ==
  Magic \o U32Bytes(type) \o U64Bytes(size) \o payload

XattrType(xattr) == U32(xattr, 5)

XattrSize(xattr) == U64(xattr, 9)

XattrPayload(xattr) == SubSeq(xattr, HeaderLength + 1, Len(xattr))

(* block_count: the size divided by the size of a chunk, rounded up. *)
BlockCount(size) == (size + ChunkSize - 1) \div ChunkSize

OffsetTableLen(count) == (count + 1) * 4

(* read_offset: the k-th entry of the table, from 0 on.  The table was     *)
(* found to lie inside the fork, so every entry that is read exists.       *)
ReadOffset(fork, k) == U32(fork, 4 * k + 1)

(* A bug to plant: a last block that fills its chunk counts as empty. *)
BuggyRemainingBlockSize(total, k) ==
  IF k + 1 = BlockCount(total) THEN total % ChunkSize ELSE ChunkSize

(* Every block but the last decodes to a whole chunk. *)
RemainingBlockSize(total, k) ==
  IF total - k * ChunkSize <= ChunkSize
    THEN total - k * ChunkSize
    ELSE ChunkSize

(* A payload that is to be copied, not decoded. *)
IsStored(payload, expected) ==
  /\ Len(payload) = expected + 1
  /\ payload[1] = Sentinel
=============================================================================
