---------------------------- MODULE RawRoundTrip ----------------------------
(***************************************************************************)
(* The raw encoder with a reader that executes every instruction when it   *)
(* is emitted, by the reference definition of the stream, and the block    *)
(* that bvxn::encode makes of the output.                                  *)
(***************************************************************************)
EXTENDS RawEncode, RawReference, BvxnBlock

VARIABLE decoder  (* the state of the reader *)

RoundTripVars == <<vars, decoder>>

RoundTripInit == Init /\ decoder = Start

RoundTripNext ==
  /\ Next
  /\ decoder' = IF output' = output THEN decoder ELSE Execute(output', decoder)

RoundTripSpec == RoundTripInit /\ [][RoundTripNext]_RoundTripVars

FairRoundTripSpec == RoundTripSpec /\ WF_RoundTripVars(RoundTripNext)

(* What was emitted so far is a sequence of whole instructions that decode *)
(* to the part of the source it covers and leave a decoder with the        *)
(* encoder's previous distance; with the end marker it decodes to all of   *)
(* the source and is finished (encode.rs 61-85 and 198-334).               *)
EmittedDecodes ==
  /\ decoder.out = SubSeq(src, 1, covered)
  /\ decoder.distance = previous_distance
  /\ pc # "done" =>
       decoder.verdict = "running" /\ decoder.position = Len(output)
  /\ pc = "done" => decoder.verdict = "Finished" /\ covered = Len(src)

(* The block that bvxn::encode builds of the output is whole, declares the *)
(* source's size and decodes to the source by the reference, so a decoder  *)
(* of blocks gives back what was encoded (bvxn.rs 94-118, encode.rs).      *)
BlockHoldsSource ==
  pc = "done" /\ ~TooLarge(Len(src), output) =>
    LET block     == Block(Len(src), output)
        reference == Reference(Payload(block))
    IN  /\ SplitBlock(block) = "ok"
        /\ ParseHeader(block).raw_bytes = Len(src)
        /\ reference.verdict = "Finished" /\ reference.out = src
=============================================================================
