------------------------ MODULE BvxnStreamReference -------------------------
(***************************************************************************)
(* The incremental bvxn decoder compared with the one-shot decoder of      *)
(* apple/bvxn.rs on the whole block.                                       *)
(***************************************************************************)
EXTENDS BvxnStream, BvxnReference

(* A decoder that finished gave the output of the one-shot decoder and     *)
(* stopped at the payload's end marker; if it had pumped the whole payload *)
(* by then, that decoder accepts the block too, unless trailing bytes were *)
(* noticed.  The exception is a caller that calls again after the end      *)
(* marker was refused for what follows it: the raw decoder has left the    *)
(* marker behind (stream.rs 371-383), and may finish at a later one.       *)
FinishedAgrees ==
  LET reference == Reference(Payload(block))
  IN  finished =>
        \/ /\ raw_marker_end = reference.position + 1
           /\ raw_history = reference.out
           /\ fed = Len(block) /\ payload_remaining = 0 =>
                (trailing_after_finish = 0 <=> OneShotAccepts(block))
        \/ /\ RetryAfterError
           /\ reference.verdict = "TrailingData"
           /\ raw_marker_end > reference.position + 1

(* A block that the one-shot decoder accepts is never refused, except for  *)
(* payload bytes that come after the decoder finished.                     *)
RefusesOnlyLatePadding ==
  (pc = "idle" /\ result \in Errors) =>
    ~OneShotAccepts(block) \/ trailing_after_finish # 0

(* bvxn_stream_matches_one_shot (tests/proptest.rs:158): a block that the  *)
(* one-shot decoder accepts is accepted however it is cut into chunks.     *)
AcceptsWhatOneShotAccepts ==
  (pc = "idle" /\ result \in Errors) => ~OneShotAccepts(block)
=============================================================================
