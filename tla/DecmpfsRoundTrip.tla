-------------------------- MODULE DecmpfsRoundTrip --------------------------
(***************************************************************************)
(* Encoding a decmpfs wrapper with a reader that executes every            *)
(* instruction of a raw stream when it is emitted, by the reference        *)
(* definition of the stream.                                               *)
(***************************************************************************)
EXTENDS DecmpfsEncode, DecmpfsReference

VARIABLE decoder  (* the state of the reader of the current raw stream *)

RoundTripVars == <<vars, decoder>>

RoundTripInit == Init /\ decoder = Start

(* Every raw stream is read from its start. *)
RoundTripNext ==
  /\ Next
  /\ decoder' = IF Encoded THEN Start
                ELSE IF raw_output' = raw_output THEN decoder
                ELSE Execute(raw_output', decoder)

RoundTripSpec == RoundTripInit /\ [][RoundTripNext]_RoundTripVars

(* What is returned holds the source: decoding it by the reference gives   *)
(* the source back, and every byte of a fork is within the offsets that    *)
(* its table can hold (decmpfs.rs 168-186 and 354-391).                    *)
HoldsSource ==
  result = "Ok" =>
    /\ IsWrapper(xattr, fork)
    /\ XattrSize(xattr) = Len(src)
    /\ WrapperContent(xattr, fork) = src
    /\ fork # NoFork => Len(fork) <= OffsetLimit
=============================================================================
