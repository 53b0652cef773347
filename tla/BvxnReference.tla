--------------------------- MODULE BvxnReference ----------------------------
(***************************************************************************)
(* Which blocks hold what they declare, by the reference definition of     *)
(* their payload: the blocks that decode of apple/bvxn.rs accepts.         *)
(***************************************************************************)
EXTENDS BvxnBlock, RawReference

OneShotAccepts(bytes) ==
  /\ SplitBlock(bytes) = "ok"
  /\ LET reference == Reference(Payload(bytes))
     IN  /\ reference.verdict = "Finished"
         /\ Len(reference.out) = ParseHeader(bytes).raw_bytes
=============================================================================
