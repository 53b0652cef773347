----------------------------- MODULE BvxnBlock ------------------------------
(***************************************************************************)
(* The container of apple/bvxn.rs: a 12-byte header (magic, size of the    *)
(* decoded data, size of the payload) followed by a raw LZVN payload.      *)
(***************************************************************************)
EXTENDS LittleEndian

BlockHeaderLen == 12

BvxnMagic == << \h62, \h76, \h78, \h6E >>

(* parse_header, given at least BlockHeaderLen bytes. *)
HasMagic(s) == SubSeq(s, 1, 4) = BvxnMagic

ParseHeader(s) == [raw_bytes |-> U32(s, 5), payload_bytes |-> U32(s, 9)]

(* split_block: what is wrong with a whole block, "ok" if nothing is. *)
SplitBlock(s) ==
  IF Len(s) < BlockHeaderLen THEN "TruncatedInput"
  ELSE IF ~HasMagic(s) THEN "UnsupportedBlockMagic"
  ELSE LET total == BlockHeaderLen + ParseHeader(s).payload_bytes
       IN  IF Len(s) < total THEN "TruncatedInput"
           ELSE IF Len(s) > total THEN "TrailingData"
           ELSE "ok"

(* A bug to plant: the sizes are swapped. *)
BuggyBlock(raw_bytes, payload) ==
  BvxnMagic \o U32Bytes(Len(payload)) \o U32Bytes(raw_bytes)
            \o payload

(* encode, given what raw::encode made of raw_bytes bytes: what it refuses *)
TooLarge(raw_bytes, payload) == ~FitsU32(raw_bytes) \/ ~FitsU32(Len(payload))

(* and what it returns of the rest. *)
Block(raw_bytes, payload) ==
  BvxnMagic \o U32Bytes(raw_bytes) \o U32Bytes(Len(payload))
            \o payload

SmallerOf(a, b) == IF a <= b THEN a ELSE b

(* The declared payload, or what there is of it. *)
Payload(s) ==
  IF Len(s) < BlockHeaderLen
    THEN << >>
    ELSE SubSeq(s, BlockHeaderLen + 1,
                SmallerOf(Len(s), BlockHeaderLen + ParseHeader(s).payload_bytes))
=============================================================================
