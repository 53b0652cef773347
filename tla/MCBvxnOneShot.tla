--------------------------- MODULE MCBvxnOneShot ----------------------------
(***************************************************************************)
(* Bounded instances of BvxnOneShotReference.                              *)
(***************************************************************************)
EXTENDS BvxnOneShotReference

(* Payloads that decode to zero to four bytes, and broken ones. *)
Payloads == {
  << \hE1, 7, \h06 >>,
  << \hE2, 7, 8, \h06, 0, 0 >>,
  << \h40, 1, 7, \h06, 0 >>,
  << \h0E, \h06, 0, 0, 0, 0, 0, 0, 0 >>,
  << \hE1, 7, \h06, 5 >>,
  << \hE1, 7 >>,
  << \hE1, 7, \h1E, \h06 >>,
  << \h40, 2, 7, \h06 >>,
  << >> }

(* Every payload with every declared size, and blocks cut short, followed  *)
(* by a byte or with another magic.                                        *)
MCBlocks ==
  { Block(raw_bytes, p) : raw_bytes \in 0..5, p \in Payloads } \cup
  { Block(1, << \hE1, 7, \h06 >>) \o << 0 >>,
    << \h62, \h76, \h78, \h2D >> \o U32Bytes(0) \o U32Bytes(0) }
    \cup
  { SubSeq(Block(1, << \hE1, 7, \h06 >>), 1, n) : n \in {0, 11, 12, 14} }

MCCapacities == 0..6 \cup {Exact}
=============================================================================
