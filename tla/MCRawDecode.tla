----------------------------- MODULE MCRawDecode ----------------------------
(***************************************************************************)
(* Bounded instances of RawDecode, compared with the reference definition. *)
(***************************************************************************)
EXTENDS RawDecodeReference, MCStreams

MCSources == Crafted \cup Exhaustive(4)

MCCapacities == 0..5 \cup {Unbounded}
=============================================================================
