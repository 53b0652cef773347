----------------------------- MODULE MCRawEncode ----------------------------
(***************************************************************************)
(* Bounded instances of RawRoundTrip.                                      *)
(***************************************************************************)
EXTENDS RawRoundTrip

(* Every string of up to n bytes over two letters. *)
Exhaustive(n) == UNION { [1..k -> {0, 7}] : k \in 0..n }

(* n different bytes, from the k-th on. *)
Fresh(k, n) == [i \in 1..n |-> (k + i - 1) % 256]

Run(n) == [i \in 1..n |-> 200]

(* Literals at the limits of one literal instruction. *)
Literals == {Fresh(0, n) : n \in {15, 16, 17, 31, 32}}
              \cup {Fresh(0, 256) \o Fresh(100, n) : n \in {15, 16}}

(* A match at distance 1 at the limits of its instructions. *)
Runs == {Run(n) : n \in 9..12 \cup 35..37 \cup {50, 51, 306, 307}}

(* n literals between a match at distance 40 and a match of length m at    *)
(* another distance, *)
NewDistance(n, m) ==
  Fresh(1, 40) \o Fresh(1, 4) \o Fresh(100, n) \o Fresh(20, m)

(* and at the same distance, *)
SameDistance(n, m) ==
  Fresh(1, 40) \o Fresh(1, 4) \o Fresh(100, n) \o Fresh(5 + n, m)

(* each with a match that fits beside n literals or is just too long. *)
Inline == UNION { {NewDistance(n, m), SameDistance(n, m)} :
                    n \in 0..4, m \in {3, 4, 5, 6, 7, 8, 9, 10, 11, 20} }

(* Matches of m bytes around the limit of the small distances. *)
Far == { Fresh(1, 9) \o Run(n) \o Fresh(1, m) :
           n \in {\h600 - 10, \h600 - 9}, m \in {3, 4} }

MCInputs == Exhaustive(7) \cup Literals \cup Runs \cup Inline \cup Far
=============================================================================
