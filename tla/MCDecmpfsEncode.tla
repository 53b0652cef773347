-------------------------- MODULE MCDecmpfsEncode ---------------------------
(***************************************************************************)
(* Bounded instances of DecmpfsRoundTrip.                                  *)
(***************************************************************************)
EXTENDS DecmpfsRoundTrip

Run(byte, n) == [i \in 1..n |-> byte]

Fresh(byte, n) == [i \in 1..n |-> byte + i]

(* With chunks of thirteen bytes, runs of twelve and more are compressed:  *)
(* sources that fit in the xattr, and around one, two and three chunks,    *)
(* with chunks that are stored and compressed in turn.                     *)
MCInputs ==
  { Run(7, n) : n \in {0, 1, 11, 12, 13, 14, 25, 26, 27, 39, 40, 70, 208,
                   310} } \cup
  { Fresh(6, n) : n \in {1, 12, 13, 14, 15, 25, 26, 27, 40} } \cup
  { Run(7, 13) \o Fresh(6, n) : n \in {1, 12, 13, 14} } \cup
  { Fresh(20, 13) \o Run(6, n) : n \in {1, 12, 13, 14} } \cup
  { Fresh(4, n) \o Fresh(4, n) : n \in {6, 7, 13} }
=============================================================================
