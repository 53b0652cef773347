------------------------------ MODULE MCStreams -----------------------------
(***************************************************************************)
(* The encoded streams of the bounded runs.                                *)
(***************************************************************************)
EXTENDS Integers, Sequences

Zeros(n) == [k \in 1..n |-> 0]

(* Streams that use every kind of instruction, most of them from           *)
(* tests/raw_decode.rs, and every kind of error.                           *)
Crafted == {
  << \hE1, 7, \h06 >> \o Zeros(7),                   \* the padded end marker
  << \hE1, 7, \h06 >> \o Zeros(8),                   \* one padding byte too many
  << \hE1, 7, \h06, 0, 5, 0 >>,                      \* padding that is not zero
  << \h06, \hE1, 7, \h06 >>,                         \* a stream behind the marker
  << \h40, 1, 7, \h46, 8, \hF2, \h06 >>,             \* previous distance, match
  << \h48, 1, 7, \h0E, \hE2, 8, 9, \h16, \h06, 0 >>, \* overlap, nops
  << \hC0, 3, 7, 8, 9, \hF4, \h06 >>,                \* distance 3
  << \hA8, 4, 0, 7, \hB0, 10, 0, 8, 9, \h06 >>,      \* medium distance
  << \h47, 1, 0, 7, \h06 >>,                         \* large distance
  << \hE2, 7, 8, \h07, 2, 0, \hF0, 0, \h06 >>,       \* large match
  << \hE0, 0 >> \o [k \in 1..16 |-> k] \o << \h06 >>, \* large literal
  << \hE1, 7, \h1E, \h06 >>,                         \* invalid opcode
  << \h40, 0, 7, \h06 >>,                            \* distance 0
  << \h40, 2, 7, \h06 >>,                            \* one byte too far
  << \h40, 1, 7, \h00, 5, \h06 >>,                   \* later distance too far
  << \hF1, \h06 >>,                                  \* no previous distance
  << \hE3, 7, 8 >>,                                  \* truncated literals
  << \hE1, 7, \hA0, 4 >>,                            \* truncated header
  << \hE1, 7 >>,                                     \* no end marker
  << >> }

(* Every stream of up to n bytes over an alphabet whose bytes are opcodes, *)
(* lengths, distances and literals in turn.                                *)
Exhaustive(n) ==
  UNION { [1..k -> {0, 1, \h06, \h0E, \h40, \h46, \hE1, \hF1}] : k \in 0..n }
=============================================================================
