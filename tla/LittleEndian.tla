---------------------------- MODULE LittleEndian ----------------------------
(***************************************************************************)
(* The little-endian numbers of the headers and offset tables.             *)
(***************************************************************************)
EXTENDS Integers, Sequences

(* u32::from_le_bytes of the four bytes of s from index i on. *)
U32(s, i) ==
  s[i] + s[i + 1] * 256 + s[i + 2] * 65536 + s[i + 3] * 16777216

(* Up to u32::MAX: the fourth byte takes what is left. *)
FitsU32(n) == n \div 16777216 < 256

(* u32::to_le_bytes. *)
U32Bytes(n) ==
  << n % 256, (n \div 256) % 256, (n \div 65536) % 256, n \div 16777216 >>

(* u64::from_le_bytes: the lower half in front of the upper one. *)
U64(s, i) == U32(s, i) + U32(s, i + 4) * 65536 * 65536

(* Up to u64::MAX. *)
FitsU64(n) == FitsU32((n \div 16777216) \div 256)

(* u64::to_le_bytes. *)
U64Bytes(n) ==
  << n % 256, (n \div 256) % 256, (n \div 65536) % 256,
     (n \div 16777216) % 256 >> \o U32Bytes((n \div 16777216) \div 256)
=============================================================================
