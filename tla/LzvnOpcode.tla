----------------------------- MODULE LzvnOpcode -----------------------------
(***************************************************************************)
(* The LZVN instruction set: how an opcode byte is classified and how the  *)
(* literal length, match length and match distance of an instruction are   *)
(* extracted from its header bytes.  The one-shot decoder (decode.rs) and  *)
(* the incremental decoder (stream.rs) each repeat these formulas; both    *)
(* are modelled with the operators of this module.                         *)
(*                                                                         *)
(* An instruction is named by a byte sequence s and the 1-based index i of *)
(* its opcode in s.  A field may only be taken when the header, the        *)
(* HeaderLen(Classify(s[i])) bytes from s[i] on, lies inside s.            *)
(***************************************************************************)
EXTENDS Integers, Sequences

Byte == 0..255

(* "Invalid" stands for the None that classify returns. *)
Classify(opcode) ==
  CASE opcode = \h06 -> "Eos"
    [] opcode \in {\h0E, \h16} -> "Nop"
    [] opcode \in \hA0..\hBF -> "MediumDistance"
    [] opcode = \hE0 -> "LargeLiteral"
    [] opcode \in \hE1..\hEF -> "SmallLiteral"
    [] opcode = \hF0 -> "LargeMatch"
    [] opcode \in \hF1..\hFF -> "SmallMatch"
    [] opcode \in {\h46, \h4E, \h56, \h5E, \h66, \h6E,
                   \h86, \h8E, \h96, \h9E, \hC6, \hCE} -> "PreviousDistance"
    [] opcode \in {\h07, \h0F, \h17, \h1F, \h27, \h2F, \h37, \h3F,
                   \h47, \h4F, \h57, \h5F, \h67, \h6F,
                   \h87, \h8F, \h97, \h9F, \hC7, \hCF} -> "LargeDistance"
    [] opcode \in {\h1E, \h26, \h2E, \h36, \h3E}
                     \cup \h70..\h7F \cup \hD0..\hDF -> "Invalid"
    [] OTHER -> "SmallDistance"

LiteralKinds == {"SmallLiteral", "LargeLiteral"}

MatchKinds == {"SmallDistance", "MediumDistance", "LargeDistance",
               "PreviousDistance", "SmallMatch", "LargeMatch"}

Kinds == LiteralKinds \cup MatchKinds \cup {"Nop", "Eos", "Invalid"}

(* Bytes before the literals: the opcode and what completes its fields. *)
HeaderLen(kind) ==
  CASE kind \in {"MediumDistance", "LargeDistance"} -> 3
    [] kind \in {"SmallDistance", "LargeLiteral", "LargeMatch"} -> 2
    [] OTHER -> 1

LiteralLen(s, i) ==
  LET kind == Classify(s[i])
  IN  CASE kind \in {"SmallDistance", "LargeDistance", "PreviousDistance"} ->
             s[i] \div 64
        [] kind = "MediumDistance" -> (s[i] \div 8) % 4
        [] kind = "SmallLiteral" -> s[i] % 16
        [] kind = "LargeLiteral" -> s[i + 1] + 16
        [] OTHER -> 0

MatchLen(s, i) ==
  LET kind == Classify(s[i])
  IN  CASE kind \in {"SmallDistance", "LargeDistance", "PreviousDistance"} ->
             ((s[i] \div 8) % 8) + 3
        [] kind = "MediumDistance" -> (s[i] % 8) * 4 + (s[i + 1] % 4) + 3
        [] kind = "SmallMatch" -> s[i] % 16
        [] kind = "LargeMatch" -> s[i + 1] + 16
        [] OTHER -> 0

(* Kinds that carry no distance of their own reuse the previous one. *)
MatchDistance(s, i, previous) ==
  LET kind == Classify(s[i])
  IN  CASE kind = "SmallDistance" -> (s[i] % 8) * 256 + s[i + 1]
        [] kind = "MediumDistance" -> s[i + 1] \div 4 + s[i + 2] * 64
        [] kind = "LargeDistance" -> s[i + 1] + s[i + 2] * 256
        [] OTHER -> previous

(* The whole instruction at s[i], its literals included, is inside s. *)
IsComplete(s, i) ==
  LET header == HeaderLen(Classify(s[i]))
  IN  /\ i + header - 1 <= Len(s)
      /\ i + header + LiteralLen(s, i) - 1 <= Len(s)

(* validate_distance of both decoders. *)
IsValidDistance(distance, available) ==
  distance # 0 /\ distance <= available

MaxEosPadding == 7

AllZero(bytes) == \A k \in 1..Len(bytes) : bytes[k] = 0

(* What may follow the end marker: at most seven zero bytes. *)
IsEosPadding(tail) == AllZero(tail) /\ Len(tail) <= MaxEosPadding
=============================================================================
