------------------------ MODULE BvxnOneShotReference ------------------------
(***************************************************************************)
(* The one-shot bvxn decoders compared with the reference definition of    *)
(* the payload.                                                            *)
(***************************************************************************)
EXTENDS BvxnOneShot, BvxnReference

(* decode accepts the blocks that hold what they declare; decode_into      *)
(* accepts them too, in any buffer that has the declared size or more, and *)
(* nothing in a smaller one; and what both give is the payload's content   *)
(* (bvxn.rs 288-325, raw/decode.rs 20-31).                                 *)
AcceptsWholeBlocks ==
  outcome \notin {"called", "running"} =>
    /\ outcome = "Ok" <=>
         /\ OneShotAccepts(block)
         /\ capacity # Exact => ParseHeader(block).raw_bytes <= capacity
    /\ outcome = "Ok" => raw_dst = Reference(Payload(block)).out

(* Every variable that a call may change has its type. *)
DecodeTypeOK ==
  /\ block \in Blocks
  /\ capacity \in Capacities
  /\ outcome \in {"called", "running", "Ok", "UnsupportedBlockMagic",
                  "SizeMismatch"} \cup Raw!Errors
  /\ raw_src \in Seq(0..255)
  /\ raw_dst \in Seq(0..255)
  /\ Len(raw_dst) <= raw_capacity
=============================================================================
