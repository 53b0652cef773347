--------------------------- MODULE MCDrainEncoder ---------------------------
(***************************************************************************)
(* Bounded instances of DrainEncoder.                                      *)
(***************************************************************************)
EXTENDS DrainEncoder

(* Sources of distinct bytes, the longest just too long. *)
MCSources == { [i \in 1..n |-> 6 + i] : n \in 0..6 }

(* What raw::encode gives for up to fifteen distinct bytes: no match, one  *)
(* literal instruction, the end marker.  Six bytes stand for 2^32.         *)
MCEncodeOf(s) ==
  IF Len(s) > 5 THEN SizeOverflow
  ELSE (IF s = << >> THEN << >> ELSE << \hE0 + Len(s) >> \o s)
         \o << \h06, 0, 0, 0, 0, 0, 0, 0 >>
=============================================================================
