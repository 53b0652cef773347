---------------------------- MODULE RawReference ----------------------------
(***************************************************************************)
(* A reference definition of what a raw LZVN stream decodes to, to check   *)
(* the decoders against: whole instructions, and a match of length m at    *)
(* distance d as the periodic continuation of the last d bytes.            *)
(***************************************************************************)
EXTENDS LzvnOpcode

Periodic(out, d, m) ==
  [k \in 1..(Len(out) + m) |->
     IF k <= Len(out) THEN out[k]
                      ELSE out[Len(out) - d + 1 + ((k - Len(out) - 1) % d)]]

(* The decoding state p after the instruction at its position, where the   *)
(* verdict is not known yet.                                               *)
Execute(s, p) ==
  LET i == p.position + 1
  IN  IF i > Len(s) THEN [p EXCEPT !.verdict = "TruncatedInput"]
      ELSE
  LET kind == Classify(s[i])
  IN  IF kind = "Invalid" THEN [p EXCEPT !.verdict = "InvalidOpcode"]
      ELSE IF kind = "Nop" THEN [p EXCEPT !.position = i]
      ELSE IF kind = "Eos" THEN
        [p EXCEPT !.verdict = IF IsEosPadding(SubSeq(s, i + 1, Len(s)))
                                THEN "Finished" ELSE "TrailingData"]
      ELSE IF ~IsComplete(s, i) THEN [p EXCEPT !.verdict = "TruncatedInput"]
      ELSE
  LET first    == i + HeaderLen(kind)
      last     == first + LiteralLen(s, i) - 1
      literals == p.out \o SubSeq(s, first, last)
      distance == MatchDistance(s, i, p.distance)
  IN  IF kind \in LiteralKinds
        THEN [p EXCEPT !.position = last, !.out = literals]
      ELSE IF distance \notin 1..Len(literals)
        THEN [p EXCEPT !.verdict = "InvalidMatchDistance"]
      ELSE [p EXCEPT !.position = last,
                     !.distance = distance,
                     !.out = Periodic(literals, distance, MatchLen(s, i))]

(* Before the first instruction. *)
Start == [position |-> 0, distance |-> 0, out |-> << >>,
          verdict |-> "running"]

(* One instruction, unless the verdict is known. *)
Executed(s, p) == IF p.verdict = "running" THEN Execute(s, p) ELSE p

(* Every instruction consumes a byte, so Len(s) + 1 of them decide. *)
Trace(s) ==
  LET state[n \in 0..(Len(s) + 1)] ==
        IF n = 0 THEN Start ELSE Executed(s, state[n - 1])
  IN  state

Reference(s) == Trace(s)[Len(s) + 1]
=============================================================================
