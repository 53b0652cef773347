------------------------ MODULE RawDecodeReference --------------------------
(***************************************************************************)
(* The one-shot raw decoder compared with the reference definition.        *)
(***************************************************************************)
EXTENDS RawDecode, RawReference, SequencesExt

(* The decoder computes the reference output: it never writes a byte that  *)
(* is not part of it, whatever the capacity; a call that runs to its end   *)
(* has written all of it and returns the reference's verdict; and one that *)
(* has room for all of it never complains of the room, except for a match  *)
(* whose distance it did not look at yet (decode.rs 61-142).               *)
AgreesWithReference ==
  LET reference == Reference(src)
  IN  /\ IsPrefix(dst, reference.out)
      /\ result \notin {"running", "OutputTooSmall"} =>
           dst = reference.out /\ result = reference.verdict
      /\ result = "OutputTooSmall" =>
           \/ Len(reference.out) > capacity
           \/ reference.verdict = "InvalidMatchDistance"
=============================================================================
