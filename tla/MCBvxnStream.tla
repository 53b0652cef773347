---------------------------- MODULE MCBvxnStream ----------------------------
(***************************************************************************)
(* Bounded instances of BvxnStreamReference.                               *)
(***************************************************************************)
EXTENDS BvxnStreamReference

BlockOf(raw_bytes, payload_bytes, payload) ==
  BvxnMagic \o U32Bytes(raw_bytes) \o U32Bytes(payload_bytes) \o payload

(* Payloads and the sizes they decode to: with and without padding, with   *)
(* too much of it, padding that is not zero or a stream of its own behind  *)
(* the end marker, cut short, invalid, empty.                              *)
Payloads == {
  [bytes |-> << \hE1, 7, \h06 >>, decoded |-> 1],
  [bytes |-> << \hE2, 7, 8, \h06, 0, 0 >>, decoded |-> 2],
  [bytes |-> << \h40, 1, 7, \h06, 0 >>, decoded |-> 4],
  [bytes |-> << \h06 >> \o [k \in 1..8 |-> 0], decoded |-> 0],
  [bytes |-> << \hE1, 7, \h06, 5 >>, decoded |-> 1],
  [bytes |-> << \h06, \hE1, 7, \h06 >>, decoded |-> 1],
  [bytes |-> << \hE1, 7 >>, decoded |-> 1],
  [bytes |-> << \h0E, \h1E, \h06 >>, decoded |-> 0],
  [bytes |-> << \h40, 2, 7, \h06 >>, decoded |-> 0],
  [bytes |-> << >>, decoded |-> 0] }

(* Blocks that declare the right sizes or wrong ones, and blocks cut short *)
(* or followed by more bytes.                                              *)
WellSized ==
  { BlockOf(p.decoded, Len(p.bytes), p.bytes) : p \in Payloads }

Missized ==
  { BlockOf(p.decoded + 1, Len(p.bytes), p.bytes) : p \in Payloads } \cup
  { BlockOf(0, Len(p.bytes), p.bytes) : p \in Payloads } \cup
  { BlockOf(p.decoded, Len(p.bytes) + 1, p.bytes) : p \in Payloads } \cup
  { BlockOf(p.decoded, Len(p.bytes) - 1, p.bytes) :
      p \in {q \in Payloads : q.bytes # << >>} }

MCBlocks ==
  WellSized \cup Missized \cup
  { b \o << 0 >> : b \in WellSized } \cup
  { SubSeq(BlockOf(1, 3, << \hE1, 7, \h06 >>), 1, n) : n \in {0, 5, 11, 12, 14} } \cup
  { << \h62, \h76, \h78, \h2D >> \o U32Bytes(0) \o U32Bytes(1) \o << \h06 >> }
=============================================================================
