---------------------------- MODULE MCRawStream -----------------------------
(***************************************************************************)
(* Bounded instances of RawStream.                                         *)
(***************************************************************************)
EXTENDS RawStream, MCStreams

(* Every error and every kind of instruction, and all short streams. *)
MCSources == Crafted \cup Exhaustive(3)
=============================================================================
