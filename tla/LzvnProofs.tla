----------------------------- MODULE LzvnProofs -----------------------------
(***************************************************************************)
(* Facts that the proofs about the components share: the fields of an      *)
(* instruction, their types and that the bytes of its header determine     *)
(* them; runs of a byte sequence; and what the reference definition of a   *)
(* stream does, for every stream: its states follow each other as the      *)
(* definition says, every instruction takes a byte and keeps the output    *)
(* there is, a verdict is reached and stays, and bytes behind what was     *)
(* executed change nothing.  Last come numbers in bytes and stored bytes.  *)
(***************************************************************************)
EXTENDS RawReference, LittleEndian, SequencesExt, SequenceTheorems,
        WellFoundedInduction, TLAPS

(* Every byte is an instruction of some kind, or invalid. *)
LEMMA ClassifyType ==
  ASSUME NEW b \in Byte
  PROVE  Classify(b) \in Kinds
BY DEF Classify, Kinds, LiteralKinds, MatchKinds

(* A header is one to three bytes long. *)
LEMMA HeaderLenType ==
  ASSUME NEW kind \in Kinds
  PROVE  HeaderLen(kind) \in 1..3
BY DEF HeaderLen

(* The index of the second byte, where the kind says that there is one. *)
LEMMA HeaderLenValues ==
  ASSUME NEW kind \in Kinds
  PROVE  /\ kind \in {"MediumDistance", "LargeDistance"} => HeaderLen(kind) = 3
         /\ kind \in {"SmallDistance", "LargeLiteral", "LargeMatch"} =>
              HeaderLen(kind) = 2
BY DEF HeaderLen

(* What lies in the header of an instruction whose header is inside s. *)
LEMMA HeaderBytes ==
  ASSUME NEW s \in Seq(Byte), NEW i \in 1..Len(s),
         i + HeaderLen(Classify(s[i])) - 1 <= Len(s)
  PROVE  /\ s[i] \in Byte
         /\ Classify(s[i]) \in Kinds
         /\ Classify(s[i]) \in {"SmallDistance", "MediumDistance",
              "LargeDistance", "LargeLiteral", "LargeMatch"} =>
                s[i + 1] \in Byte
         /\ Classify(s[i]) \in {"MediumDistance", "LargeDistance"} =>
              s[i + 2] \in Byte
<1>1. s[i] \in Byte
  OBVIOUS
<1>2. Classify(s[i]) \in Kinds
  BY <1>1, ClassifyType
<1>3. Classify(s[i]) \in {"SmallDistance", "MediumDistance",
              "LargeDistance", "LargeLiteral", "LargeMatch"} =>
                s[i + 1] \in Byte
  BY <1>2, HeaderLenValues
<1>4. Classify(s[i]) \in {"MediumDistance", "LargeDistance"} =>
              s[i + 2] \in Byte
  BY <1>2, HeaderLenValues
<1>5. QED
  BY <1>1, <1>2, <1>3, <1>4

(* The arithmetic of the fields stays among the naturals. *)
LEMMA ByteArithmetic ==
  ASSUME NEW x \in Byte
  PROVE  /\ x \div 64 \in Nat
         /\ (x \div 8) % 4 \in Nat
         /\ x % 16 \in Nat
         /\ x + 16 \in Nat
         /\ ((x \div 8) % 8) + 3 \in Nat
BY DEF Byte

(* The same for the fields that span two header bytes. *)
LEMMA BytePairArithmetic ==
  ASSUME NEW x \in Byte, NEW y \in Byte
  PROVE  /\ (x % 8) * 4 + (y % 4) + 3 \in Nat
         /\ (x % 8) * 256 + y \in Nat
         /\ x \div 4 + y * 64 \in Nat
         /\ x + y * 256 \in Nat
BY DEF Byte

(* The number of literals is a natural number. *)
LEMMA LiteralLenType ==
  ASSUME NEW s \in Seq(Byte), NEW i \in 1..Len(s),
         i + HeaderLen(Classify(s[i])) - 1 <= Len(s)
  PROVE  LiteralLen(s, i) \in Nat
<1>1. CASE Classify(s[i]) \in
             {"SmallDistance", "LargeDistance", "PreviousDistance"}
  <2>1. LiteralLen(s, i) = s[i] \div 64
    BY <1>1, Zenon DEF LiteralLen
  <2>2. QED
    BY <2>1, HeaderBytes, ByteArithmetic
<1>2. CASE Classify(s[i]) = "MediumDistance"
  <2>1. LiteralLen(s, i) = (s[i] \div 8) % 4
    BY <1>2, Zenon DEF LiteralLen
  <2>2. QED
    BY <2>1, HeaderBytes, ByteArithmetic
<1>3. CASE Classify(s[i]) = "SmallLiteral"
  <2>1. LiteralLen(s, i) = s[i] % 16
    BY <1>3, Zenon DEF LiteralLen
  <2>2. QED
    BY <2>1, HeaderBytes, ByteArithmetic
<1>4. CASE Classify(s[i]) = "LargeLiteral"
  <2>1. LiteralLen(s, i) = s[i + 1] + 16
    BY <1>4, Zenon DEF LiteralLen
  <2>2. QED
    BY <1>4, <2>1, HeaderBytes, ByteArithmetic
<1>5. CASE Classify(s[i]) \notin
             {"SmallDistance", "LargeDistance", "PreviousDistance",
              "MediumDistance", "SmallLiteral", "LargeLiteral"}
  <2>1. LiteralLen(s, i) = 0
    BY <1>5, Zenon DEF LiteralLen
  <2>2. QED
    BY <2>1
<1>6. QED
  BY <1>1, <1>2, <1>3, <1>4, <1>5

(* The number of match bytes is a natural number. *)
LEMMA MatchLenType ==
  ASSUME NEW s \in Seq(Byte), NEW i \in 1..Len(s),
         i + HeaderLen(Classify(s[i])) - 1 <= Len(s)
  PROVE  MatchLen(s, i) \in Nat
<1>1. CASE Classify(s[i]) \in
             {"SmallDistance", "LargeDistance", "PreviousDistance"}
  <2>1. MatchLen(s, i) = ((s[i] \div 8) % 8) + 3
    BY <1>1, Zenon DEF MatchLen
  <2>2. QED
    BY <2>1, HeaderBytes, ByteArithmetic
<1>2. CASE Classify(s[i]) = "MediumDistance"
  <2>1. MatchLen(s, i) = (s[i] % 8) * 4 + (s[i + 1] % 4) + 3
    BY <1>2, Zenon DEF MatchLen
  <2>2. s[i] \in Byte /\ s[i + 1] \in Byte
    BY <1>2, HeaderBytes
  <2>3. (s[i] % 8) * 4 + (s[i + 1] % 4) + 3 \in Nat
    BY <2>2, BytePairArithmetic, Zenon
  <2>4. QED
    BY <2>1, <2>3
<1>3. CASE Classify(s[i]) = "SmallMatch"
  <2>1. MatchLen(s, i) = s[i] % 16
    BY <1>3, Zenon DEF MatchLen
  <2>2. QED
    BY <2>1, HeaderBytes, ByteArithmetic
<1>4. CASE Classify(s[i]) = "LargeMatch"
  <2>1. MatchLen(s, i) = s[i + 1] + 16
    BY <1>4, Zenon DEF MatchLen
  <2>2. QED
    BY <1>4, <2>1, HeaderBytes, ByteArithmetic
<1>5. CASE Classify(s[i]) \notin
             {"SmallDistance", "LargeDistance", "PreviousDistance",
              "MediumDistance", "SmallMatch", "LargeMatch"}
  <2>1. MatchLen(s, i) = 0
    BY <1>5, Zenon DEF MatchLen
  <2>2. QED
    BY <2>1
<1>6. QED
  BY <1>1, <1>2, <1>3, <1>4, <1>5

(* The distance is a natural number, if the one it may repeat is. *)
LEMMA MatchDistanceType ==
  ASSUME NEW s \in Seq(Byte), NEW i \in 1..Len(s), NEW previous \in Nat,
         i + HeaderLen(Classify(s[i])) - 1 <= Len(s)
  PROVE  MatchDistance(s, i, previous) \in Nat
<1>1. CASE Classify(s[i]) = "SmallDistance"
  <2>1. MatchDistance(s, i, previous) = (s[i] % 8) * 256 + s[i + 1]
    BY <1>1, Zenon DEF MatchDistance
  <2>2. s[i] \in Byte /\ s[i + 1] \in Byte
    BY <1>1, HeaderBytes
  <2>3. (s[i] % 8) * 256 + s[i + 1] \in Nat
    BY <2>2, BytePairArithmetic, Zenon
  <2>4. QED
    BY <2>1, <2>3
<1>2. CASE Classify(s[i]) = "MediumDistance"
  <2>1. MatchDistance(s, i, previous) = s[i + 1] \div 4 + s[i + 2] * 64
    BY <1>2, Zenon DEF MatchDistance
  <2>2. s[i + 1] \in Byte /\ s[i + 2] \in Byte
    BY <1>2, HeaderBytes
  <2>3. s[i + 1] \div 4 + s[i + 2] * 64 \in Nat
    BY <2>2, BytePairArithmetic, ZenonT(30)
  <2>4. QED
    BY <2>1, <2>3
<1>3. CASE Classify(s[i]) = "LargeDistance"
  <2>1. MatchDistance(s, i, previous) = s[i + 1] + s[i + 2] * 256
    BY <1>3, Zenon DEF MatchDistance
  <2>2. s[i + 1] \in Byte /\ s[i + 2] \in Byte
    BY <1>3, HeaderBytes
  <2>3. s[i + 1] + s[i + 2] * 256 \in Nat
    BY <2>2, BytePairArithmetic, ZenonT(30)
  <2>4. QED
    BY <2>1, <2>3
<1>4. CASE Classify(s[i]) \notin
             {"SmallDistance", "MediumDistance", "LargeDistance"}
  <2>1. MatchDistance(s, i, previous) = previous
    BY <1>4, Zenon DEF MatchDistance
  <2>2. QED
    BY <2>1
<1>5. QED
  BY <1>1, <1>2, <1>3, <1>4
-----------------------------------------------------------------------------
(* The header at i in s is the header at j in t. *)
SameHeader(s, i, t, j) ==
  /\ s[i] = t[j]
  /\ HeaderLen(Classify(s[i])) \in {2, 3} => s[i + 1] = t[j + 1]
  /\ HeaderLen(Classify(s[i])) = 3 => s[i + 2] = t[j + 2]

(* The header decides how many literals there are, *)
LEMMA HeaderDecidesLiteralLen ==
  ASSUME NEW s, NEW t, NEW i \in Nat, NEW j \in Nat,
         Classify(s[i]) \in Kinds, SameHeader(s, i, t, j)
  PROVE  LiteralLen(s, i) = LiteralLen(t, j)
<1>1. s[i] = t[j]
  BY DEF SameHeader
<1>2. CASE Classify(s[i]) = "LargeLiteral"
  <2>1. LiteralLen(s, i) = s[i + 1] + 16
    BY <1>2, Zenon DEF LiteralLen
  <2>2. LiteralLen(t, j) = t[j + 1] + 16
    BY <1>1, <1>2, Zenon DEF LiteralLen
  <2>3. s[i + 1] = t[j + 1]
    BY <1>2, HeaderLenValues DEF SameHeader
  <2>4. QED
    BY <2>1, <2>2, <2>3
<1>3. CASE Classify(s[i]) # "LargeLiteral"
  BY <1>1, <1>3, Zenon DEF LiteralLen
<1>4. QED
  BY <1>2, <1>3

(* how long the match is, *)
LEMMA HeaderDecidesMatchLen ==
  ASSUME NEW s, NEW t, NEW i \in Nat, NEW j \in Nat,
         Classify(s[i]) \in Kinds, SameHeader(s, i, t, j)
  PROVE  MatchLen(s, i) = MatchLen(t, j)
<1>1. s[i] = t[j]
  BY DEF SameHeader
<1>2. CASE Classify(s[i]) = "LargeMatch"
  <2>1. MatchLen(s, i) = s[i + 1] + 16
    BY <1>2, Zenon DEF MatchLen
  <2>2. MatchLen(t, j) = t[j + 1] + 16
    BY <1>1, <1>2, Zenon DEF MatchLen
  <2>3. s[i + 1] = t[j + 1]
    BY <1>2, HeaderLenValues DEF SameHeader
  <2>4. QED
    BY <2>1, <2>2, <2>3
<1>3. CASE Classify(s[i]) = "MediumDistance"
  <2>1. MatchLen(s, i) = (s[i] % 8) * 4 + (s[i + 1] % 4) + 3
    BY <1>3, Zenon DEF MatchLen
  <2>2. MatchLen(t, j) = (t[j] % 8) * 4 + (t[j + 1] % 4) + 3
    BY <1>1, <1>3, Zenon DEF MatchLen
  <2>3. s[i + 1] = t[j + 1]
    BY <1>3, HeaderLenValues DEF SameHeader
  <2>4. QED
    BY <1>1, <2>1, <2>2, <2>3
<1>4. CASE Classify(s[i]) \notin {"LargeMatch", "MediumDistance"}
  <2>1. Classify(s[i]) # "LargeMatch" /\ Classify(s[i]) # "MediumDistance"
    BY <1>4
  <2>2. QED
    BY <1>1, <2>1, Zenon DEF MatchLen
<1>5. QED
  BY <1>2, <1>3, <1>4

(* and, with the previous one, the distance. *)
LEMMA HeaderDecidesMatchDistance ==
  ASSUME NEW s, NEW t, NEW i \in Nat, NEW j \in Nat, NEW previous,
         Classify(s[i]) \in Kinds, SameHeader(s, i, t, j)
  PROVE  MatchDistance(s, i, previous) = MatchDistance(t, j, previous)
<1>1. s[i] = t[j]
  BY DEF SameHeader
<1>2. CASE Classify(s[i]) = "SmallDistance"
  <2>1. MatchDistance(s, i, previous) = (s[i] % 8) * 256 + s[i + 1]
    BY <1>2, Zenon DEF MatchDistance
  <2>2. MatchDistance(t, j, previous) = (t[j] % 8) * 256 + t[j + 1]
    BY <1>1, <1>2, Zenon DEF MatchDistance
  <2>3. s[i + 1] = t[j + 1]
    BY <1>2, HeaderLenValues DEF SameHeader
  <2>4. QED
    BY <1>1, <2>1, <2>2, <2>3
<1>3. CASE Classify(s[i]) = "MediumDistance"
  <2>1. MatchDistance(s, i, previous) = s[i + 1] \div 4 + s[i + 2] * 64
    BY <1>3, Zenon DEF MatchDistance
  <2>2. MatchDistance(t, j, previous) = t[j + 1] \div 4 + t[j + 2] * 64
    BY <1>1, <1>3, Zenon DEF MatchDistance
  <2>3. s[i + 1] = t[j + 1] /\ s[i + 2] = t[j + 2]
    BY <1>3, HeaderLenValues DEF SameHeader
  <2>4. QED
    BY <2>1, <2>2, <2>3
<1>4. CASE Classify(s[i]) = "LargeDistance"
  <2>1. MatchDistance(s, i, previous) = s[i + 1] + s[i + 2] * 256
    BY <1>4, Zenon DEF MatchDistance
  <2>2. MatchDistance(t, j, previous) = t[j + 1] + t[j + 2] * 256
    BY <1>1, <1>4, Zenon DEF MatchDistance
  <2>3. s[i + 1] = t[j + 1] /\ s[i + 2] = t[j + 2]
    BY <1>4, HeaderLenValues DEF SameHeader
  <2>4. QED
    BY <2>1, <2>2, <2>3
<1>5. CASE Classify(s[i]) \notin
             {"SmallDistance", "MediumDistance", "LargeDistance"}
  <2>1. MatchDistance(s, i, previous) = previous
    BY <1>5, Zenon DEF MatchDistance
  <2>2. MatchDistance(t, j, previous) = previous
    BY <1>1, <1>5, Zenon DEF MatchDistance
  <2>3. QED
    BY <2>1, <2>2
<1>6. QED
  BY <1>2, <1>3, <1>4, <1>5
-----------------------------------------------------------------------------
(* Runs of a byte sequence, as the decoders cut and join them. *)

(* A run of s: where its bytes come from. *)
LEMMA RunProperties ==
  ASSUME NEW s \in Seq(Byte), NEW m \in 1..(Len(s) + 1),
         NEW n \in (m - 1)..Len(s)
  PROVE  /\ SubSeq(s, m, n) \in Seq(Byte)
         /\ Len(SubSeq(s, m, n)) = n - m + 1
         /\ \A k \in 1..(n - m + 1) : SubSeq(s, m, n)[k] = s[m + k - 1]
<1>1. m \in Int /\ n \in Int
  OBVIOUS
<1>2. \A k \in m..n : s[k] \in Byte
  BY ElementOfSeq
<1>3. QED
  BY <1>1, <1>2, SubSeqProperties

(* The same, for the run from offset b up to offset f. *)
LEMMA WindowProperties ==
  ASSUME NEW s \in Seq(Byte), NEW f \in 0..Len(s), NEW b \in 0..f
  PROVE  /\ SubSeq(s, b + 1, f) \in Seq(Byte)
         /\ Len(SubSeq(s, b + 1, f)) = f - b
         /\ \A k \in 1..(f - b) : SubSeq(s, b + 1, f)[k] = s[b + k]
BY RunProperties

(* Dropping a prefix of a run leaves the rest of the run. *)
LEMMA RestOfRun ==
  ASSUME NEW s \in Seq(Byte), NEW f \in 0..Len(s), NEW b \in 0..f,
         NEW o \in 0..(f - b)
  PROVE  SubSeq(SubSeq(s, b + 1, f), o + 1, f - b) = SubSeq(s, b + o + 1, f)
<1> DEFINE run  == SubSeq(s, b + 1, f)
           rest == SubSeq(run, o + 1, f - b)
           want == SubSeq(s, b + o + 1, f)
<1>1. /\ run \in Seq(Byte)
      /\ Len(run) = f - b
      /\ \A k \in 1..(f - b) : run[k] = s[b + k]
  BY RunProperties
<1>2. /\ want \in Seq(Byte)
      /\ Len(want) = f - b - o
      /\ \A k \in 1..(f - b - o) : want[k] = s[b + o + k]
  BY RunProperties
<1> HIDE DEF run, want
<1>3. /\ rest \in Seq(Byte)
      /\ Len(rest) = f - b - o
      /\ \A k \in 1..(f - b - o) : rest[k] = run[o + k]
  BY <1>1, RunProperties
<1> HIDE DEF rest
<1>4. \A k \in 1..(f - b - o) : rest[k] = want[k]
  BY <1>1, <1>2, <1>3
<1>5. rest = want
  BY <1>2, <1>3, <1>4, SeqEqual
<1>6. QED
  BY <1>5 DEF rest, want, run

(* A run of a run is a run. *)
LEMMA RunOfRun ==
  ASSUME NEW s \in Seq(Byte), NEW f \in 0..Len(s), NEW b \in 0..f,
         NEW o \in 0..(f - b), NEW n \in 0..(f - b - o)
  PROVE  SubSeq(SubSeq(s, b + 1, f), o + 1, o + n)
           = SubSeq(s, b + o + 1, b + o + n)
<1> DEFINE run  == SubSeq(s, b + 1, f)
           part == SubSeq(run, o + 1, o + n)
           want == SubSeq(s, b + o + 1, b + o + n)
<1>1. /\ run \in Seq(Byte)
      /\ Len(run) = f - b
      /\ \A k \in 1..(f - b) : run[k] = s[b + k]
  BY RunProperties
<1>2. /\ want \in Seq(Byte)
      /\ Len(want) = n
      /\ \A k \in 1..n : want[k] = s[b + o + k]
  <2>1. b + o + n \in 0..Len(s) /\ b + o \in 0..(b + o + n)
    OBVIOUS
  <2>2. b + o + n - (b + o) = n
    OBVIOUS
  <2>3. QED
    BY <2>1, <2>2, WindowProperties
<1> HIDE DEF run, want
<1>3. /\ part \in Seq(Byte)
      /\ Len(part) = n
      /\ \A k \in 1..n : part[k] = run[o + k]
  <2>1. o + n \in 0..Len(run) /\ o \in 0..(o + n)
    BY <1>1
  <2>2. o + n - o = n
    OBVIOUS
  <2>3. QED
    BY <1>1, <2>1, <2>2, WindowProperties
<1> HIDE DEF part
<1>4. \A k \in 1..n : part[k] = want[k]
  <2> SUFFICES ASSUME NEW k \in 1..n PROVE part[k] = want[k]
    OBVIOUS
  <2>1. o + k \in 1..(f - b) /\ b + (o + k) = b + o + k
    OBVIOUS
  <2>2. part[k] = run[o + k]
    BY <1>3
  <2>3. run[o + k] = s[b + (o + k)]
    BY <1>1, <2>1
  <2>4. want[k] = s[b + o + k]
    BY <1>2
  <2>5. QED
    BY <2>1, <2>2, <2>3, <2>4
<1>5. part = want
  BY <1>2, <1>3, <1>4, SeqEqual
<1>6. QED
  BY <1>5 DEF part, want, run

(* What is fed continues what was fed before. *)
LEMMA ExtendRun ==
  ASSUME NEW s \in Seq(Byte), NEW f \in 0..Len(s), NEW b \in 0..f,
         NEW n \in 0..(Len(s) - f)
  PROVE  SubSeq(s, b + 1, f) \o SubSeq(s, f + 1, f + n)
           = SubSeq(s, b + 1, f + n)
<1>1. /\ b + 1 \in 1..(Len(s) + 1)
      /\ f \in (b + 1 - 1)..Len(s)
      /\ f + n \in f..Len(s)
  OBVIOUS
<1>2. QED
  BY <1>1, ConcatAdjacentSubSeq
-----------------------------------------------------------------------------
(* Natural numbers. *)

(* Every set of naturals that is not empty has a least element. *)
LEMMA NatMinimum ==
  ASSUME NEW T, T \subseteq Nat, T # {}
  PROVE  \E x \in T : \A y \in T : x <= y
<1> DEFINE R == OpToRel(<, Nat)
<1>1. IsWellFoundedOn(R, Nat)
  BY NatLessThanWellFounded
<1>2. \A x, y \in Nat : y < x => <<y, x>> \in R
  BY DEF OpToRel
<1>3. PICK x \in T : \A y \in T : ~(<<y, x>> \in R)
  <2> HIDE DEF R
  <2> QED
    BY <1>1, WFMin
<1>4. ASSUME NEW y \in T
      PROVE  x <= y
  <2>1. x \in Nat /\ y \in Nat
    OBVIOUS
  <2>2. ~(y < x)
    BY <1>2, <1>3, <2>1
  <2>3. QED
    BY <2>1, <2>2
<1>5. QED
  BY <1>4

(* Quotient and remainder, *)
LEMMA DivMod ==
  ASSUME NEW d \in Nat \ {0}, NEW j \in Nat
  PROVE  /\ j \div d \in Nat
         /\ j % d \in 0..(d - 1)
         /\ j = d * (j \div d) + (j % d)
OBVIOUS

(* which they are alone, *)
LEMMA ModUnique ==
  ASSUME NEW d \in Nat \ {0}, NEW q \in Nat, NEW r \in 0..(d - 1)
  PROVE  (d * q + r) % d = r
OBVIOUS

(* so that a step of the divisor leaves the remainder, *)
LEMMA ModStep ==
  ASSUME NEW d \in Nat \ {0}, NEW k \in Nat
  PROVE  (k + d) % d = k % d
<1>1. PICK q \in Nat, r \in 0..(d - 1) : r = k % d /\ k = d * q + r
  BY DivMod
<1>2. d * (q + 1) = d * q + d /\ d * q \in Int
  OBVIOUS
<1>3. k + d = d * (q + 1) + r
  BY <1>1, <1>2
<1>4. (d * (q + 1) + r) % d = r
  <2>1. q + 1 \in Nat
    OBVIOUS
  <2>2. QED
    BY <2>1, ModUnique
<1>5. QED
  BY <1>1, <1>3, <1>4

(* a number below the divisor is its own remainder, *)
LEMMA ModSmall ==
  ASSUME NEW d \in Nat \ {0}, NEW j \in 0..(d - 1)
  PROVE  j % d = j
OBVIOUS

(* and the remainders of successive numbers go round. *)
LEMMA ModNext ==
  ASSUME NEW d \in Nat \ {0}, NEW j \in Nat
  PROVE  (j + 1) % d = IF j % d = d - 1 THEN 0 ELSE (j % d) + 1
<1>1. PICK q \in Nat, r \in 0..(d - 1) : r = j % d /\ j = d * q + r
  BY DivMod
<1>2. d * (q + 1) = d * q + d /\ d * q \in Int
  OBVIOUS
<1>3. CASE r = d - 1
  <2>1. j + 1 = d * (q + 1) + 0
    BY <1>1, <1>2, <1>3
  <2>2. (d * (q + 1) + 0) % d = 0
    <3>1. q + 1 \in Nat /\ 0 \in 0..(d - 1)
      OBVIOUS
    <3>2. QED
      BY <3>1, ModUnique
  <2>3. QED
    BY <1>1, <1>3, <2>1, <2>2
<1>4. CASE r # d - 1
  <2>1. j + 1 = d * q + (r + 1)
    BY <1>1, <1>2
  <2>2. (d * q + (r + 1)) % d = r + 1
    <3>1. r + 1 \in 0..(d - 1)
      BY <1>4
    <3>2. QED
      BY <3>1, ModUnique
  <2>3. QED
    BY <1>1, <1>4, <2>1, <2>2
<1>5. QED
  BY <1>3, <1>4

(* What holds at first and from each number to the next holds up to b. *)
LEMMA UpTo ==
  ASSUME NEW b \in Nat, NEW T, 0 \in T,
         \A n \in 0..(b - 1) : n \in T => n + 1 \in T
  PROVE  \A n \in 0..b : n \in T
<1> DEFINE Bad == {n \in 0..b : n \notin T}
<1> SUFFICES ASSUME Bad # {} PROVE FALSE
  OBVIOUS
<1>1. Bad \subseteq Nat
  OBVIOUS
<1>2. PICK n \in Bad : \A j \in Bad : n <= j
  BY <1>1, NatMinimum
<1>3. n \in 0..b /\ n \notin T /\ n # 0
  BY <1>2
<1>4. n - 1 \in 0..(b - 1) /\ (n - 1) + 1 = n
  BY <1>3
<1>5. n - 1 \in T
  <2>1. n - 1 \notin Bad
    BY <1>2, <1>3
  <2>2. QED
    BY <1>4, <2>1
<1>6. QED
  BY <1>3, <1>4, <1>5

-----------------------------------------------------------------------------
(* The states of the reference. *)

(* There is a function that the recursive definition describes. *)
LEMMA TraceExists ==
  ASSUME NEW s, NEW m \in Nat
  PROVE  \E f : f = [n \in 0..m |->
                       IF n = 0 THEN Start ELSE Executed(s, f[n - 1])]
<1> DEFINE Is(f, k) == f = [n \in 0..k |->
                              IF n = 0 THEN Start ELSE Executed(s, f[n - 1])]
           Bad == {k \in Nat : ~ \E f : Is(f, k)}
<1>1. ASSUME NEW k \in Nat, NEW f, Is(f, k)
      PROVE  \E g : Is(g, k + 1)
  <2> DEFINE g == [n \in 0..(k + 1) |-> IF n <= k THEN f[n] ELSE Executed(s, f[k])]
             h == [n \in 0..(k + 1) |-> IF n = 0 THEN Start ELSE Executed(s, g[n - 1])]
  <2>1. ASSUME NEW n \in 0..(k + 1)
        PROVE  g[n] = h[n]
    <3>1. CASE n = 0
      <4>1. f[0] = Start
        BY <1>1
      <4>2. QED
        BY <3>1, <4>1
    <3>2. CASE n \in 1..k
      <4>1. f[n] = Executed(s, f[n - 1])
        BY <1>1, <3>2
      <4>2. g[n - 1] = f[n - 1]
        BY <3>2
      <4>3. QED
        BY <3>2, <4>1, <4>2
    <3>3. CASE n = k + 1
      <4>1. g[k] = f[k] /\ g[n] = Executed(s, f[k])
        BY <3>3
      <4>2. h[n] = Executed(s, g[k])
        BY <3>3
      <4>3. QED
        BY <4>1, <4>2
    <3>4. QED
      BY <3>1, <3>2, <3>3
  <2>2. g = h
    BY <2>1
  <2>3. Is(g, k + 1)
    BY <2>2, Zenon
  <2>4. QED
    BY <2>3, Zenon
<1>2. \E f : Is(f, 0)
  <2> DEFINE g == [n \in 0..0 |-> Start]
             h == [n \in 0..0 |-> IF n = 0 THEN Start ELSE Executed(s, g[n - 1])]
  <2>1. g = h
    OBVIOUS
  <2>2. Is(g, 0)
    BY <2>1, Zenon
  <2>3. QED
    BY <2>2, Zenon
<1> HIDE DEF Is
<1>3. Bad = {}
  <2> SUFFICES ASSUME Bad # {} PROVE FALSE
    OBVIOUS
  <2>1. PICK k \in Bad : \A j \in Bad : k <= j
    BY NatMinimum
  <2>2. k # 0
    BY <1>2
  <2>3. k - 1 \in Nat /\ k - 1 \notin Bad
    BY <2>1, <2>2
  <2>4. PICK f : Is(f, k - 1)
    BY <2>3
  <2>5. \E g : Is(g, (k - 1) + 1)
    BY <1>1, <2>3, <2>4
  <2>6. (k - 1) + 1 = k
    OBVIOUS
  <2>7. QED
    BY <2>5, <2>6
<1>4. \E f : Is(f, m)
  BY <1>3
<1>5. QED
  BY <1>4 DEF Is

(* So the states follow each other as the definition says. *)
LEMMA TraceStates ==
  ASSUME NEW s, Len(s) \in Nat
  PROVE  /\ Trace(s)[0] = Start
         /\ \A n \in 0..Len(s) : Trace(s)[n + 1] = Executed(s, Trace(s)[n])
<1> DEFINE m == Len(s) + 1
           f == Trace(s)
<1>1. f = [n \in 0..m |-> IF n = 0 THEN Start ELSE Executed(s, f[n - 1])]
  <2>1. \E g : g = [n \in 0..m |-> IF n = 0 THEN Start ELSE Executed(s, g[n - 1])]
    <3>1. m \in Nat
      OBVIOUS
    <3> HIDE DEF m
    <3>2. QED
      BY <3>1, TraceExists, Zenon
  <2>2. QED
    BY <2>1, Zenon DEF Trace
<1> HIDE DEF f
<1>2. f[0] = Start
  BY <1>1
<1>3. ASSUME NEW n \in 0..Len(s)
      PROVE  f[n + 1] = Executed(s, f[n])
  <2>1. n + 1 \in 0..m /\ n + 1 # 0 /\ (n + 1) - 1 = n
    OBVIOUS
  <2>2. QED
    BY <1>1, <2>1
<1>4. QED
  BY <1>2, <1>3 DEF f
-----------------------------------------------------------------------------
(* Sequences and matches. *)

(* Where the bytes of two joined sequences are. *)
LEMMA JoinedBytes ==
  ASSUME NEW a \in Seq(Byte), NEW b \in Seq(Byte)
  PROVE  /\ a \o b \in Seq(Byte)
         /\ Len(a \o b) = Len(a) + Len(b)
         /\ \A k \in 1..Len(a) : (a \o b)[k] = a[k]
         /\ \A k \in 1..Len(b) : (a \o b)[Len(a) + k] = b[k]
OBVIOUS


(* A match lengthens the output and keeps what there is. *)
LEMMA PeriodicType ==
  ASSUME NEW out \in Seq(Byte), NEW m \in Nat, NEW d \in 1..Len(out)
  PROVE  /\ Periodic(out, d, m) \in Seq(Byte)
         /\ Len(Periodic(out, d, m)) = Len(out) + m
         /\ \A k \in 1..Len(out) : Periodic(out, d, m)[k] = out[k]
<1> DEFINE n == Len(out)
           e(k) == IF k <= n THEN out[k] ELSE out[n - d + 1 + ((k - n - 1) % d)]
           f == [k \in 1..(n + m) |-> e(k)]
<1>1. n \in Nat /\ \A k \in 1..n : out[k] \in Byte
  BY ElementOfSeq
<1>2. ASSUME NEW k \in 1..(n + m)
      PROVE  e(k) \in Byte
  <2>1. CASE k <= n
    BY <1>1, <2>1
  <2>2. CASE k > n
    <3>1. PICK j \in Nat : j = k - n - 1
      <4>1. k - n - 1 \in Nat
        BY <1>1, <2>2
      <4>2. QED
        BY <4>1
    <3>2. d \in Nat \ {0} /\ d <= n
      BY <1>1
    <3>3. j % d \in 0..(d - 1)
      BY <3>1, <3>2, DivMod
    <3> HIDE DEF n
    <3>4. n - d + 1 + (j % d) \in 1..n
      BY <1>1, <3>2, <3>3
    <3>5. e(k) = out[n - d + 1 + (j % d)]
      BY <1>1, <2>2, <3>1
    <3>6. QED
      BY <1>1, <3>4, <3>5
  <2>3. QED
    BY <1>1, <2>1, <2>2
<1>3. Periodic(out, d, m) = f
  BY DEF Periodic
<1>4. n + m \in Nat
  BY <1>1
<1> HIDE DEF n
<1>5. \A k \in 1..n : e(k) = out[k]
  BY <1>1
<1> HIDE DEF e
<1>6. f \in Seq(Byte) /\ Len(f) = n + m
  BY <1>2, <1>4, SeqDef, LenProperties
<1>7. \A k \in 1..n : f[k] = out[k]
  BY <1>1, <1>5
<1>8. QED
  BY <1>3, <1>6, <1>7 DEF n

(* A match of no bytes changes nothing. *)
LEMMA PeriodicNone ==
  ASSUME NEW out \in Seq(Byte), NEW d
  PROVE  Periodic(out, d, 0) = out
<1>1. Len(out) \in Nat /\ Len(out) + 0 = Len(out)
  OBVIOUS
<1>2. out = [k \in 1..Len(out) |-> out[k]]
  OBVIOUS
<1>3. \A k \in 1..Len(out) : k <= Len(out)
  BY <1>1
<1>4. Periodic(out, d, 0) = [k \in 1..Len(out) |-> out[k]]
  BY <1>1, <1>3 DEF Periodic
<1>5. QED
  BY <1>2, <1>4
(* The first byte of a match is that of a shorter one. *)
LEMMA PeriodicStep ==
  ASSUME NEW out \in Seq(Byte), NEW m \in Nat, NEW d \in 1..Len(out)
  PROVE  Periodic(Append(out, out[Len(out) + 1 - d]), d, m)
           = Periodic(out, d, m + 1)
<1> DEFINE n    == Len(out)
           out1 == Append(out, out[n + 1 - d])
           e(k) == IF k <= n THEN out[k] ELSE out[n - d + 1 + ((k - n - 1) % d)]
           g(k) == IF k <= n + 1 THEN out1[k]
                   ELSE out1[(n + 1) - d + 1 + ((k - (n + 1) - 1) % d)]
<1>1. n \in Nat /\ n + 1 - d \in 1..n /\ d \in Nat \ {0} /\ d <= n
  OBVIOUS
<1>2. /\ Len(out1) = n + 1
      /\ \A k \in 1..n : out1[k] = out[k]
      /\ out1[n + 1] = out[n + 1 - d]
  OBVIOUS
<1>3. Periodic(out, d, m + 1) = [k \in 1..(n + (m + 1)) |-> e(k)]
  BY DEF Periodic
<1>4. Periodic(out1, d, m) = [k \in 1..((n + 1) + m) |-> g(k)]
  <2> DEFINE f(o, c) == [k \in 1..(c + m) |->
                IF k <= c THEN o[k] ELSE o[c - d + 1 + ((k - c - 1) % d)]]
  <2>1. \A o : Periodic(o, d, m) = f(o, Len(o))
    BY Zenon DEF Periodic
  <2>2. Len(out1) = n + 1
    BY <1>2
  <2>3. f(out1, n + 1) = [k \in 1..((n + 1) + m) |-> g(k)]
    <3> HIDE DEF out1, n
    <3> QED
      BY Zenon
  <2> HIDE DEF out1, n, f
  <2>4. Periodic(out1, d, m) = f(out1, n + 1)
    BY <2>1, <2>2, Zenon
  <2> HIDE DEF g
  <2>5. QED
    BY <2>3, <2>4, Zenon
<1> HIDE DEF out1, n
<1>5. ASSUME NEW k \in 1..(n + (m + 1))
      PROVE  g(k) = e(k)
  <2>1. CASE k <= n
    BY <1>1, <1>2, <2>1
  <2>2. CASE k = n + 1
    <3>1. 0 % d = 0
      <4>1. 0 \in 0..(d - 1)
        BY <1>1
      <4>2. QED
        BY <1>1, <4>1, ModSmall
    <3>2. k - n - 1 = 0 /\ ~(k <= n) /\ n - d + 1 + 0 = n + 1 - d
      BY <1>1, <2>2
    <3>3. e(k) = out[n + 1 - d]
      BY <3>1, <3>2
    <3>4. QED
      BY <1>1, <1>2, <2>2, <3>3
  <2>3. CASE k > n + 1
    <3>1. PICK j \in Nat : k = n + j + 2
      <4>1. k - n - 2 \in Nat /\ k = n + (k - n - 2) + 2
        BY <1>1, <2>3
      <4>2. QED
        BY <4>1
    <3>2. k - n - 1 = j + 1 /\ k - (n + 1) - 1 = j
      BY <1>1, <3>1
    <3>3. PICK r \in 0..(d - 1) : r = j % d
      BY <1>1, DivMod
    <3>4. (j + 1) % d = IF r = d - 1 THEN 0 ELSE r + 1
      BY <1>1, <3>3, ModNext
    <3>5. e(k) = out[n - d + 1 + IF r = d - 1 THEN 0 ELSE r + 1]
      <4>1. ~(k <= n)
        BY <1>1, <2>3
      <4>2. QED
        BY <3>2, <3>4, <4>1
    <3>6. g(k) = out1[(n + 1) - d + 1 + r]
      <4>1. ~(k <= n + 1)
        BY <1>1, <2>3
      <4>2. QED
        BY <3>2, <3>3, <4>1
    <3> HIDE DEF e, g
    <3>7. CASE r = d - 1
      <4>1. (n + 1) - d + 1 + r = n + 1 /\ n - d + 1 + 0 = n + 1 - d
        BY <1>1, <3>7
      <4>2. QED
        BY <1>2, <3>5, <3>6, <3>7, <4>1
    <3>8. CASE r # d - 1
      <4>1. /\ (n + 1) - d + 1 + r \in 1..n
            /\ n - d + 1 + (r + 1) = (n + 1) - d + 1 + r
        BY <1>1, <3>8
      <4>2. QED
        BY <1>2, <3>5, <3>6, <3>8, <4>1
    <3>9. QED
      BY <3>7, <3>8
  <2>4. QED
    BY <1>1, <2>1, <2>2, <2>3
<1>6. n + (m + 1) = (n + 1) + m
  BY <1>1
<1> HIDE DEF e, g
<1>7. Periodic(out1, d, m) = Periodic(out, d, m + 1)
  BY <1>3, <1>4, <1>5, <1>6
<1>8. QED
  BY <1>7 DEF out1, n
-----------------------------------------------------------------------------
(* What an instruction does, case by case. *)

LEMMA ExecuteAtEnd ==
  ASSUME NEW s, NEW p, p.position + 1 > Len(s)
  PROVE  Execute(s, p) = [p EXCEPT !.verdict = "TruncatedInput"]
BY Zenon DEF Execute

LEMMA ExecuteInvalid ==
  ASSUME NEW s, NEW p, ~(p.position + 1 > Len(s)),
         Classify(s[p.position + 1]) = "Invalid"
  PROVE  Execute(s, p) = [p EXCEPT !.verdict = "InvalidOpcode"]
BY Zenon DEF Execute

LEMMA ExecuteNop ==
  ASSUME NEW s, NEW p, ~(p.position + 1 > Len(s)),
         Classify(s[p.position + 1]) = "Nop"
  PROVE  Execute(s, p) = [p EXCEPT !.position = p.position + 1]
<1>1. Classify(s[p.position + 1]) # "Invalid"
  OBVIOUS
<1>2. QED
  BY <1>1, Zenon DEF Execute

LEMMA ExecuteMarker ==
  ASSUME NEW s, NEW p, ~(p.position + 1 > Len(s)),
         Classify(s[p.position + 1]) = "Eos"
  PROVE  Execute(s, p) =
           [p EXCEPT !.verdict =
              IF IsEosPadding(SubSeq(s, p.position + 1 + 1, Len(s)))
                THEN "Finished" ELSE "TrailingData"]
<1>1. /\ Classify(s[p.position + 1]) # "Invalid"
      /\ Classify(s[p.position + 1]) # "Nop"
  OBVIOUS
<1>2. QED
  BY <1>1, Zenon DEF Execute

LEMMA ExecuteIncomplete ==
  ASSUME NEW s, NEW p, ~(p.position + 1 > Len(s)),
         Classify(s[p.position + 1]) \notin {"Invalid", "Nop", "Eos"},
         ~IsComplete(s, p.position + 1)
  PROVE  Execute(s, p) = [p EXCEPT !.verdict = "TruncatedInput"]
BY Zenon DEF Execute

(* Where the literals of the instruction at i end, *)
LiteralsEnd(s, i) == i + HeaderLen(Classify(s[i])) + LiteralLen(s, i) - 1

(* and what the output is with them. *)
WithLiterals(s, i, out) ==
  out \o SubSeq(s, i + HeaderLen(Classify(s[i])), LiteralsEnd(s, i))

LEMMA ExecuteLiteralKind ==
  ASSUME NEW s, NEW p, ~(p.position + 1 > Len(s)),
         Classify(s[p.position + 1]) \in LiteralKinds,
         IsComplete(s, p.position + 1)
  PROVE  Execute(s, p) =
           [p EXCEPT !.position = LiteralsEnd(s, p.position + 1),
                     !.out = WithLiterals(s, p.position + 1, p.out)]
<1>1. Classify(s[p.position + 1]) \notin {"Invalid", "Nop", "Eos"}
  BY DEF LiteralKinds
<1>2. QED
  BY <1>1, Zenon DEF Execute, LiteralsEnd, WithLiterals

LEMMA ExecuteMatchKind ==
  ASSUME NEW s, NEW p, ~(p.position + 1 > Len(s)),
         Classify(s[p.position + 1]) \in MatchKinds,
         IsComplete(s, p.position + 1)
  PROVE  LET i        == p.position + 1
             distance == MatchDistance(s, i, p.distance)
             literals == WithLiterals(s, i, p.out)
         IN  Execute(s, p) =
               IF distance \notin 1..Len(literals)
                 THEN [p EXCEPT !.verdict = "InvalidMatchDistance"]
                 ELSE [p EXCEPT !.position = LiteralsEnd(s, i),
                                !.distance = distance,
                                !.out = Periodic(literals, distance,
                                                 MatchLen(s, i))]
<1>1. /\ Classify(s[p.position + 1]) \notin {"Invalid", "Nop", "Eos"}
      /\ Classify(s[p.position + 1]) \notin LiteralKinds
  BY DEF MatchKinds, LiteralKinds
<1>2. QED
  BY <1>1, Zenon DEF Execute, LiteralsEnd, WithLiterals
-----------------------------------------------------------------------------
(* What every instruction does. *)

Verdicts == {"running", "Finished", "TrailingData", "TruncatedInput",
             "InvalidOpcode", "InvalidMatchDistance"}

RefState == [position : Nat, distance : Nat, out : Seq(Byte),
             verdict : Verdicts]

(* The output b is longer than a, or the same. *)
Extends(a, b) ==
  Len(a) <= Len(b) /\ \A k \in 1..Len(a) : b[k] = a[k]

LEMMA ExtendsTransitive ==
  ASSUME NEW a \in Seq(Byte), NEW b \in Seq(Byte), NEW c \in Seq(Byte),
         Extends(a, b), Extends(b, c)
  PROVE  Extends(a, c)
<1>1. Len(a) \in Nat /\ Len(b) \in Nat /\ Len(c) \in Nat
  OBVIOUS
<1>2. QED
  BY <1>1 DEF Extends

(* The literals of a whole instruction lie in the stream. *)
LEMMA LiteralsInside ==
  ASSUME NEW s \in Seq(Byte), NEW i \in 1..Len(s), NEW out \in Seq(Byte),
         Classify(s[i]) \in LiteralKinds \cup MatchKinds, IsComplete(s, i)
  PROVE  /\ LiteralsEnd(s, i) \in i..Len(s)
         /\ LiteralLen(s, i) \in Nat
         /\ WithLiterals(s, i, out) \in Seq(Byte)
         /\ Len(WithLiterals(s, i, out)) = Len(out) + LiteralLen(s, i)
         /\ Extends(out, WithLiterals(s, i, out))
<1> DEFINE header == HeaderLen(Classify(s[i]))
           n      == LiteralLen(s, i)
           run    == SubSeq(s, i + header, i + header + n - 1)
<1>1. Classify(s[i]) \in Kinds
  BY DEF Kinds
<1>2. header \in 1..3
  BY <1>1, HeaderLenType
<1>3. i + header - 1 <= Len(s) /\ i + header + n - 1 <= Len(s)
  BY DEF IsComplete
<1>4. n \in Nat
  BY <1>1, <1>3, LiteralLenType
<1>5. Len(s) \in Nat /\ Len(out) \in Nat /\ i \in Nat
  OBVIOUS
<1>6. LiteralsEnd(s, i) = i + header + n - 1
  BY DEF LiteralsEnd
<1>7. WithLiterals(s, i, out) = out \o run
  BY DEF WithLiterals, LiteralsEnd
<1> HIDE DEF header, n
<1>8. i + header + n - 1 \in i..Len(s)
  BY <1>2, <1>3, <1>4, <1>5
<1>9. run \in Seq(Byte) /\ Len(run) = n
  <2>1. i + header \in 1..(Len(s) + 1)
    BY <1>2, <1>3, <1>5
  <2>2. i + header + n - 1 \in ((i + header) - 1)..Len(s)
    BY <1>2, <1>3, <1>4, <1>5
  <2>3. (i + header + n - 1) - (i + header) + 1 = n
    BY <1>2, <1>4, <1>5
  <2>4. QED
    BY <2>1, <2>2, <2>3, RunProperties
<1> HIDE DEF run
<1>10. /\ out \o run \in Seq(Byte)
       /\ Len(out \o run) = Len(out) + n
       /\ \A k \in 1..Len(out) : (out \o run)[k] = out[k]
  BY <1>9, JoinedBytes
<1>11. Extends(out, out \o run)
  BY <1>4, <1>5, <1>10 DEF Extends
<1>12. QED
  BY <1>4, <1>6, <1>7, <1>8, <1>10, <1>11 DEF n

(* A state ends with a verdict, or it moves on and keeps its output. *)
LEMMA ExecuteStep ==
  ASSUME NEW s \in Seq(Byte), NEW p \in RefState,
         p.verdict = "running", p.position <= Len(s)
  PROVE  LET q == Execute(s, p)
         IN  /\ q \in RefState
             /\ q.position <= Len(s)
             /\ q.verdict = "running" => p.position < q.position
             /\ q.verdict # "running" => q = [p EXCEPT !.verdict = q.verdict]
             /\ Extends(p.out, q.out)
<1> DEFINE q    == Execute(s, p)
           i    == p.position + 1
           kind == Classify(s[i])
           Goal == /\ q \in RefState
                   /\ q.position <= Len(s)
                   /\ q.verdict = "running" => p.position < q.position
                   /\ q.verdict # "running" =>
                        q = [p EXCEPT !.verdict = q.verdict]
                   /\ Extends(p.out, q.out)
<1>1. /\ p.position \in Nat /\ p.distance \in Nat
      /\ p.out \in Seq(Byte) /\ p.verdict \in Verdicts
      /\ Len(s) \in Nat /\ Len(p.out) \in Nat
  BY DEF RefState
<1>2. Extends(p.out, p.out)
  BY <1>1 DEF Extends
<1> HIDE DEF q
<1>3. ASSUME NEW v \in Verdicts \ {"running"},
             q = [p EXCEPT !.verdict = v]
      PROVE  Goal
  <2>1. /\ q \in RefState /\ q.position = p.position /\ q.out = p.out
        /\ q.verdict = v
    BY <1>3 DEF RefState
  <2>2. QED
    BY <1>2, <1>3, <2>1
<1>4. ASSUME i > Len(s) PROVE Goal
  <2>1. q = [p EXCEPT !.verdict = "TruncatedInput"]
    BY <1>4, ExecuteAtEnd DEF q
  <2>2. QED
    BY <1>3, <2>1 DEF Verdicts
<1> USE DEF Verdicts
<1>5. ASSUME ~(i > Len(s)) PROVE Goal
  <2>1. i \in 1..Len(s)
    BY <1>1, <1>5
  <2>2. kind \in Kinds
    <3>1. s[i] \in Byte
      BY <2>1, ElementOfSeq
    <3>2. QED
      BY <3>1, ClassifyType
  <2>3. CASE kind = "Invalid"
    <3>1. q = [p EXCEPT !.verdict = "InvalidOpcode"]
      BY <1>5, <2>3, ExecuteInvalid DEF q
    <3>2. QED
      BY <1>3, <3>1
  <2>4. CASE kind = "Nop"
    <3>1. q = [p EXCEPT !.position = i]
      BY <1>5, <2>4, ExecuteNop DEF q
    <3>2. /\ q \in RefState /\ q.position = i /\ q.out = p.out
          /\ q.verdict = "running"
      BY <2>1, <3>1 DEF RefState
    <3>3. QED
      BY <1>1, <1>2, <2>1, <3>2
  <2>5. CASE kind = "Eos"
    <3>1. PICK v \in {"Finished", "TrailingData"} :
            q = [p EXCEPT !.verdict = v]
      BY <1>5, <2>5, ExecuteMarker DEF q
    <3>2. QED
      BY <1>3, <3>1
  <2>6. CASE kind \notin {"Invalid", "Nop", "Eos"} /\ ~IsComplete(s, i)
    <3>1. q = [p EXCEPT !.verdict = "TruncatedInput"]
      BY <1>5, <2>6, ExecuteIncomplete DEF q
    <3>2. QED
      BY <1>3, <3>1
  <2>7. ASSUME kind \in LiteralKinds \cup MatchKinds, IsComplete(s, i)
        PROVE  Goal
    <3> DEFINE literals == WithLiterals(s, i, p.out)
               last     == LiteralsEnd(s, i)
               distance == MatchDistance(s, i, p.distance)
    <3>0. /\ last \in i..Len(s)
          /\ literals \in Seq(Byte)
          /\ Extends(p.out, literals)
      BY <1>1, <2>1, <2>7, LiteralsInside
    <3> HIDE DEF literals, last
    <3>1. /\ last \in i..Len(s)
          /\ literals \in Seq(Byte)
          /\ Extends(p.out, literals)
          /\ last \in Nat
      BY <2>1, <3>0
    <3>2. CASE kind \in LiteralKinds
      <4>1. q = [p EXCEPT !.position = last, !.out = literals]
        BY <1>5, <2>7, <3>2, ExecuteLiteralKind DEF q, literals, last
      <4>2. /\ q.position = last /\ q.out = literals
            /\ q.verdict = "running"
        BY <4>1 DEF RefState
      <4>3. q \in RefState
        BY <2>1, <3>1, <4>1 DEF RefState
      <4>4. QED
        BY <1>1, <2>1, <3>1, <4>2, <4>3
    <3>3. CASE kind \in MatchKinds
      <4> DEFINE m   == MatchLen(s, i)
                 out == Periodic(literals, distance, m)
      <4>1. q = IF distance \notin 1..Len(literals)
                  THEN [p EXCEPT !.verdict = "InvalidMatchDistance"]
                  ELSE [p EXCEPT !.position = last, !.distance = distance,
                                 !.out = out]
        BY <1>5, <2>7, <3>3, ExecuteMatchKind DEF q, literals, last
      <4>2. CASE distance \notin 1..Len(literals)
        <5>1. q = [p EXCEPT !.verdict = "InvalidMatchDistance"]
          BY <4>1, <4>2
        <5>2. QED
          BY <1>3, <5>1
      <4>3. CASE distance \in 1..Len(literals)
        <5>1. m \in Nat
          <6>1. i + HeaderLen(kind) - 1 <= Len(s)
            BY <2>7 DEF IsComplete
          <6>2. QED
            BY <2>1, <2>2, <6>1, MatchLenType
        <5> HIDE DEF m, distance
        <5>2. out \in Seq(Byte) /\ Len(out) = Len(literals) + m
              /\ \A k \in 1..Len(literals) : out[k] = literals[k]
          BY <3>1, <4>3, <5>1, PeriodicType
        <5>3. Extends(literals, out)
          BY <3>1, <5>1, <5>2 DEF Extends
        <5> HIDE DEF out
        <5>4. Extends(p.out, out)
          BY <1>1, <3>1, <5>2, <5>3, ExtendsTransitive
        <5>5. q = [p EXCEPT !.position = last, !.distance = distance,
                            !.out = out]
          BY <4>1, <4>3
        <5>6. /\ q.position = last /\ q.out = out
              /\ q.verdict = "running"
          BY <5>5 DEF RefState
        <5>7. distance \in Nat
          BY <3>1, <4>3
        <5>8. q \in RefState
          BY <2>1, <3>1, <5>2, <5>5, <5>7 DEF RefState
        <5>9. QED
          BY <1>1, <2>1, <3>1, <5>4, <5>6, <5>8
      <4>4. QED
        BY <4>2, <4>3
    <3>4. QED
      BY <2>7, <3>2, <3>3
  <2>8. QED
    BY <2>2, <2>3, <2>4, <2>5, <2>6, <2>7 DEF Kinds
<1>6. QED
  BY <1>4, <1>5 DEF q
-----------------------------------------------------------------------------
(* The states of a stream. *)

(* The n-th state is one, and has consumed n bytes or has a verdict. *)
LEMMA TraceTypes ==
  ASSUME NEW s \in Seq(Byte)
  PROVE  \A n \in 0..(Len(s) + 1) :
           /\ Trace(s)[n] \in RefState
           /\ Trace(s)[n].position <= Len(s)
           /\ Trace(s)[n].verdict = "running" => n <= Trace(s)[n].position
<1> DEFINE b == Len(s) + 1
           f == Trace(s)
           Good(n) == /\ f[n] \in RefState
                      /\ f[n].position <= Len(s)
                      /\ f[n].verdict = "running" => n <= f[n].position
           T == {n \in 0..b : Good(n)}
<1>1. Len(s) \in Nat /\ b \in Nat
  OBVIOUS
<1>2. /\ f[0] = Start
      /\ \A n \in 0..Len(s) : f[n + 1] = Executed(s, f[n])
  BY <1>1, TraceStates
<1> HIDE DEF f
<1>3. 0 \in T
  <2>1. Start \in RefState /\ Start.position = 0
    BY DEF Start, RefState, Verdicts
  <2>2. QED
    BY <1>1, <1>2, <2>1
<1>4. ASSUME NEW n \in 0..(b - 1), n \in T
      PROVE  n + 1 \in T
  <2>1. /\ n \in 0..Len(s) /\ n + 1 \in 0..b
        /\ f[n + 1] = Executed(s, f[n]) /\ Good(n)
    BY <1>1, <1>2, <1>4
  <2>2. CASE f[n].verdict = "running"
    <3>1. f[n + 1] = Execute(s, f[n])
      BY <2>1, <2>2 DEF Executed
    <3>2. /\ f[n + 1] \in RefState
          /\ f[n + 1].position <= Len(s)
          /\ f[n + 1].verdict = "running" =>
               f[n].position < f[n + 1].position
      BY <2>1, <2>2, <3>1, ExecuteStep
    <3>3. f[n].position \in Nat /\ f[n + 1].position \in Nat
      BY <2>1, <3>2 DEF RefState
    <3>4. Good(n + 1)
      BY <2>1, <2>2, <3>2, <3>3
    <3>5. QED
      BY <2>1, <3>4
  <2>3. CASE f[n].verdict # "running"
    <3>1. f[n + 1] = f[n]
      BY <2>1, <2>3 DEF Executed
    <3>2. QED
      BY <2>1, <2>3, <3>1
  <2>4. QED
    BY <2>2, <2>3
<1>5. \A n \in 0..b : n \in T
  <2> HIDE DEF T
  <2> QED
    BY <1>1, <1>3, <1>4, UpTo
<1>6. QED
  BY <1>5 DEF f

(* A state is an extension of every earlier one, and equal to one that has *)
(* its verdict.                                                            *)
LEMMA TraceOrder ==
  ASSUME NEW s \in Seq(Byte), NEW n \in 0..(Len(s) + 1),
         NEW m \in n..(Len(s) + 1)
  PROVE  /\ Extends(Trace(s)[n].out, Trace(s)[m].out)
         /\ Trace(s)[n].verdict # "running" => Trace(s)[m] = Trace(s)[n]
<1> DEFINE b == Len(s) + 1
           f == Trace(s)
           Good(k) == /\ Extends(f[n].out, f[k].out)
                      /\ f[n].verdict # "running" => f[k] = f[n]
           T == {k \in 0..b : n <= k => Good(k)}
<1>1. Len(s) \in Nat /\ b \in Nat
  OBVIOUS
<1>2. /\ \A k \in 0..Len(s) : f[k + 1] = Executed(s, f[k])
      /\ \A k \in 0..b : f[k] \in RefState /\ f[k].position <= Len(s)
  BY <1>1, TraceStates, TraceTypes
<1> HIDE DEF f
<1>3. \A k \in 0..b : f[k].out \in Seq(Byte)
  BY <1>2 DEF RefState
<1>4. Good(n)
  <2>1. f[n].out \in Seq(Byte)
    BY <1>3
  <2>2. QED
    BY <2>1 DEF Extends
<1>5. 0 \in T
  BY <1>1, <1>4
<1>6. ASSUME NEW k \in 0..(b - 1), k \in T
      PROVE  k + 1 \in T
  <2>1. k \in 0..Len(s) /\ k \in 0..b /\ k + 1 \in 0..b
    BY <1>1
  <2>2. CASE k + 1 <= n
    <3>1. n <= k + 1 => n = k + 1
      BY <2>1, <2>2
    <3>2. QED
      BY <1>4, <2>1, <3>1
  <2>3. CASE n <= k
    <3>1. Good(k) /\ f[k + 1] = Executed(s, f[k])
      BY <1>2, <1>6, <2>1, <2>3
    <3>2. Extends(f[k].out, f[k + 1].out)
      <4>1. CASE f[k].verdict = "running"
        <5>1. f[k + 1] = Execute(s, f[k])
          BY <3>1, <4>1 DEF Executed
        <5>2. QED
          BY <1>2, <2>1, <4>1, <5>1, ExecuteStep
      <4>2. CASE f[k].verdict # "running"
        <5>1. f[k + 1] = f[k] /\ f[k].out \in Seq(Byte)
          BY <1>3, <2>1, <3>1, <4>2 DEF Executed
        <5>2. QED
          BY <5>1 DEF Extends
      <4>3. QED
        BY <4>1, <4>2
    <3>3. Extends(f[n].out, f[k + 1].out)
      BY <1>3, <2>1, <3>1, <3>2, ExtendsTransitive
    <3>4. f[n].verdict # "running" => f[k + 1] = f[n]
      BY <3>1 DEF Executed
    <3>5. QED
      BY <2>1, <3>3, <3>4
  <2>4. QED
    BY <2>1, <2>2, <2>3
<1>7. \A k \in 0..b : k \in T
  <2> HIDE DEF T
  <2> QED
    BY <1>1, <1>5, <1>6, UpTo
<1>8. QED
  BY <1>1, <1>7 DEF f

(* Every stream gets a verdict: that of any state that has one. *)
THEOREM ReferenceDecides ==
  ASSUME NEW s \in Seq(Byte)
  PROVE  /\ Reference(s) \in RefState
         /\ Reference(s).verdict # "running"
         /\ \A n \in 0..(Len(s) + 1) :
              /\ Extends(Trace(s)[n].out, Reference(s).out)
              /\ Trace(s)[n].verdict # "running" =>
                   Reference(s) = Trace(s)[n]
<1> DEFINE b == Len(s) + 1
<1>1. Len(s) \in Nat /\ b \in 0..b
  OBVIOUS
<1>2. /\ Trace(s)[b] \in RefState
      /\ Trace(s)[b].position <= Len(s)
      /\ Trace(s)[b].verdict = "running" => b <= Trace(s)[b].position
  BY <1>1, TraceTypes
<1>3. Trace(s)[b].position \in Nat
  BY <1>2 DEF RefState
<1>4. ASSUME NEW n \in 0..b
      PROVE  /\ Extends(Trace(s)[n].out, Trace(s)[b].out)
             /\ Trace(s)[n].verdict # "running" => Trace(s)[b] = Trace(s)[n]
  <2>1. b \in n..b
    BY <1>1
  <2>2. QED
    BY <2>1, TraceOrder
<1>5. QED
  BY <1>1, <1>2, <1>3, <1>4 DEF Reference

(* The reference of s gets to the state p. *)
Reaches(s, p) == \E n \in 0..Len(s) : Trace(s)[n] = p

(* From a state without verdict it gets to the one after the instruction,  *)
(* whose verdict, if there is one, is that of the stream.                  *)
LEMMA ReachesNext ==
  ASSUME NEW s \in Seq(Byte), NEW p, Reaches(s, p), p.verdict = "running"
  PROVE  LET q == Execute(s, p)
         IN  /\ p \in RefState /\ p.position <= Len(s) /\ q \in RefState
             /\ Extends(p.out, Reference(s).out)
             /\ Extends(q.out, Reference(s).out)
             /\ q.verdict = "running" => Reaches(s, q)
             /\ q.verdict # "running" => Reference(s) = q
<1> DEFINE q == Execute(s, p)
<1>1. PICK n \in 0..Len(s) : Trace(s)[n] = p
  BY DEF Reaches
<1>2. Len(s) \in Nat /\ n \in 0..(Len(s) + 1) /\ n + 1 \in 0..(Len(s) + 1)
  OBVIOUS
<1>3. Trace(s)[n + 1] = q
  BY <1>1, <1>2, TraceStates DEF Executed
<1> HIDE DEF q
<1>4. p \in RefState /\ p.position <= Len(s)
  BY <1>1, <1>2, TraceTypes
<1>5. /\ q \in RefState /\ q.position <= Len(s)
      /\ q.verdict = "running" => n + 1 <= q.position
  BY <1>2, <1>3, TraceTypes
<1>6. q.verdict = "running" => Reaches(s, q)
  <2>1. q.position \in Nat
    BY <1>5 DEF RefState
  <2>2. q.verdict = "running" => n + 1 \in 0..Len(s)
    BY <1>2, <1>5, <2>1
  <2>3. QED
    BY <1>3, <2>2 DEF Reaches
<1>7. /\ Extends(p.out, Reference(s).out)
      /\ Extends(q.out, Reference(s).out)
      /\ q.verdict # "running" => Reference(s) = q
  BY <1>1, <1>2, <1>3, ReferenceDecides
<1>8. QED
  BY <1>4, <1>5, <1>6, <1>7 DEF q
-----------------------------------------------------------------------------
(* More bytes behind a stream change nothing before its end. *)

(* The instruction at i of s is the same in o, which s is the start of. *)
LEMMA InstructionKept ==
  ASSUME NEW s \in Seq(Byte), NEW o \in Seq(Byte), Extends(s, o),
         NEW i \in 1..Len(s), NEW out, NEW previous,
         Classify(s[i]) \in LiteralKinds \cup MatchKinds, IsComplete(s, i)
  PROVE  /\ IsComplete(o, i)
         /\ LiteralsEnd(o, i) = LiteralsEnd(s, i)
         /\ WithLiterals(o, i, out) = WithLiterals(s, i, out)
         /\ MatchLen(o, i) = MatchLen(s, i)
         /\ MatchDistance(o, i, previous)
              = MatchDistance(s, i, previous)
<1> DEFINE header == HeaderLen(Classify(s[i]))
           n      == LiteralLen(s, i)
<1>1. /\ Len(s) <= Len(o) /\ Len(s) \in Nat /\ Len(o) \in Nat
      /\ \A k \in 1..Len(s) : o[k] = s[k]
  BY DEF Extends
<1>2. /\ Len(s) \in Nat /\ Len(o) \in Nat
      /\ i \in Nat /\ 1 <= i /\ i <= Len(s)
  BY <1>1
<1>3. Classify(s[i]) \in Kinds
  BY DEF Kinds
<1>4. header \in 1..3
  BY <1>3, HeaderLenType
<1>5. i + header - 1 <= Len(s) /\ i + header + n - 1 <= Len(s)
  BY DEF IsComplete
<1>6. n \in Nat
  BY <1>5, LiteralLenType
<1>7. SameHeader(s, i, o, i)
  <2>1. s[i] = o[i]
    BY <1>1, <1>2
  <2>2. header \in {2, 3} => s[i + 1] = o[i + 1]
    <3> HIDE DEF header
    <3>1. header \in {2, 3} => i + 1 \in 1..Len(s)
      BY <1>2, <1>5
    <3>2. QED
      BY <1>1, <3>1
  <2>3. header = 3 => s[i + 2] = o[i + 2]
    <3> HIDE DEF header
    <3>1. header = 3 => i + 2 \in 1..Len(s)
      BY <1>2, <1>5
    <3>2. QED
      BY <1>1, <3>1
  <2>4. QED
    BY <2>1, <2>2, <2>3 DEF SameHeader
<1>8. /\ Classify(o[i]) = Classify(s[i])
      /\ LiteralLen(o, i) = n
      /\ MatchLen(o, i) = MatchLen(s, i)
      /\ MatchDistance(o, i, previous) = MatchDistance(s, i, previous)
  <2>1. o[i] = s[i]
    BY <1>7 DEF SameHeader
  <2>2. i \in Nat
    BY <1>2
  <2>3. QED
    BY <1>3, <1>7, <2>1, <2>2, HeaderDecidesLiteralLen,
       HeaderDecidesMatchLen, HeaderDecidesMatchDistance
<1>9. LiteralsEnd(o, i) = i + header + n - 1
      /\ LiteralsEnd(s, i) = i + header + n - 1
  BY <1>8 DEF LiteralsEnd
<1>10. IsComplete(o, i)
  <2>1. i + header - 1 <= Len(o) /\ i + header + n - 1 <= Len(o)
    <3> HIDE DEF header, n
    <3> QED
      BY <1>1, <1>2, <1>4, <1>5, <1>6
  <2>2. QED
    BY <1>8, <2>1 DEF IsComplete
<1>11. SubSeq(o, i + header, i + header + n - 1)
         = SubSeq(s, i + header, i + header + n - 1)
  <2> DEFINE a == i + header
             z == i + header + n - 1
  <2> HIDE DEF header, n
  <2>1. /\ a \in 1..(Len(s) + 1) /\ z \in (a - 1)..Len(s)
        /\ a \in 1..(Len(o) + 1) /\ z \in (a - 1)..Len(o)
        /\ a \in Nat /\ z \in Int /\ 1 <= a /\ z <= Len(s)
    BY <1>1, <1>2, <1>4, <1>5, <1>6
  <2> HIDE DEF a, z
  <2>2. /\ SubSeq(o, a, z) \in Seq(Byte) /\ Len(SubSeq(o, a, z)) = z - a + 1
        /\ \A k \in 1..(z - a + 1) : SubSeq(o, a, z)[k] = o[a + k - 1]
    BY <1>1, <2>1, RunProperties
  <2>3. /\ SubSeq(s, a, z) \in Seq(Byte) /\ Len(SubSeq(s, a, z)) = z - a + 1
        /\ \A k \in 1..(z - a + 1) : SubSeq(s, a, z)[k] = s[a + k - 1]
    BY <2>1, RunProperties
  <2>4. \A k \in 1..(z - a + 1) : a + k - 1 \in 1..Len(s)
    BY <1>2, <2>1
  <2>5. \A k \in 1..(z - a + 1) : SubSeq(o, a, z)[k] = SubSeq(s, a, z)[k]
    BY <1>1, <2>2, <2>3, <2>4
  <2>6. SubSeq(o, a, z) = SubSeq(s, a, z)
    BY <2>2, <2>3, <2>5, SeqEqual
  <2>7. QED
    BY <2>6 DEF a, z
<1>12. WithLiterals(o, i, out) = WithLiterals(s, i, out)
  BY <1>8, <1>9, <1>11 DEF WithLiterals
<1>13. QED
  BY <1>8, <1>9, <1>10, <1>12

(* An instruction after which decoding goes on is executed alike. *)
LEMMA ExecuteLonger ==
  ASSUME NEW s \in Seq(Byte), NEW o \in Seq(Byte), Extends(s, o),
         NEW p \in RefState, p.verdict = "running", p.position <= Len(s),
         Execute(s, p).verdict = "running"
  PROVE  Execute(o, p) = Execute(s, p)
<1> DEFINE i    == p.position + 1
           kind == Classify(s[i])
<1>1. p.position \in Nat /\ Len(s) \in Nat
  BY DEF RefState
<1>2. /\ Len(s) <= Len(o) /\ Len(s) \in Nat /\ Len(o) \in Nat
      /\ \A k \in 1..Len(s) : o[k] = s[k]
  BY DEF Extends
<1>3. \A v : [p EXCEPT !.verdict = v].verdict = v
  BY DEF RefState
<1>4. ~(i > Len(s))
  <2> SUFFICES ASSUME i > Len(s) PROVE FALSE
    OBVIOUS
  <2>1. Execute(s, p) = [p EXCEPT !.verdict = "TruncatedInput"]
    BY ExecuteAtEnd
  <2>2. Execute(s, p).verdict = "TruncatedInput"
    BY <1>3, <2>1
  <2>3. QED
    BY <2>2
<1>5. i \in 1..Len(s)
  BY <1>1, <1>4
<1>6. o[i] = s[i] /\ ~(i > Len(o))
  BY <1>1, <1>2, <1>5
<1>7. kind \in Kinds
  <2>1. s[i] \in Byte
    BY <1>5, ElementOfSeq
  <2>2. QED
    BY <2>1, ClassifyType
<1>8. kind # "Invalid"
  <2> SUFFICES ASSUME kind = "Invalid" PROVE FALSE
    OBVIOUS
  <2>1. Execute(s, p) = [p EXCEPT !.verdict = "InvalidOpcode"]
    BY <1>4, ExecuteInvalid
  <2>2. Execute(s, p).verdict = "InvalidOpcode"
    BY <1>3, <2>1
  <2>3. QED
    BY <2>2
<1>9. kind # "Eos"
  <2> SUFFICES ASSUME kind = "Eos" PROVE FALSE
    OBVIOUS
  <2>1. PICK v \in {"Finished", "TrailingData"} :
          Execute(s, p) = [p EXCEPT !.verdict = v]
    BY <1>4, ExecuteMarker
  <2>2. Execute(s, p).verdict = v
    BY <1>3, <2>1
  <2>3. QED
    BY <2>2
<1>10. CASE kind = "Nop"
  <2>1. Execute(s, p) = [p EXCEPT !.position = i]
    BY <1>4, <1>10, ExecuteNop
  <2>2. Execute(o, p) = [p EXCEPT !.position = i]
    <3>1. Classify(o[i]) = "Nop"
      BY <1>6, <1>10
    <3>2. QED
      BY <1>6, <3>1, ExecuteNop
  <2>3. QED
    BY <2>1, <2>2
<1>11. CASE kind \in LiteralKinds \cup MatchKinds
  <2>1. IsComplete(s, i)
    <3> SUFFICES ASSUME ~IsComplete(s, i) PROVE FALSE
      OBVIOUS
    <3>1. kind \notin {"Invalid", "Nop", "Eos"}
      BY <1>11 DEF LiteralKinds, MatchKinds
    <3>2. Execute(s, p) = [p EXCEPT !.verdict = "TruncatedInput"]
      BY <1>4, <3>1, ExecuteIncomplete
    <3>3. Execute(s, p).verdict = "TruncatedInput"
      BY <1>3, <3>2
    <3>4. QED
      BY <3>3
  <2>2. /\ IsComplete(o, i)
        /\ LiteralsEnd(o, i) = LiteralsEnd(s, i)
        /\ WithLiterals(o, i, p.out) = WithLiterals(s, i, p.out)
        /\ MatchLen(o, i) = MatchLen(s, i)
        /\ MatchDistance(o, i, p.distance) = MatchDistance(s, i, p.distance)
    BY <1>5, <1>11, <2>1, InstructionKept
  <2>3. CASE kind \in LiteralKinds
    <3>1. Execute(s, p) = [p EXCEPT !.position = LiteralsEnd(s, i),
                                    !.out = WithLiterals(s, i, p.out)]
      BY <1>4, <2>1, <2>3, ExecuteLiteralKind
    <3>2. Execute(o, p) = [p EXCEPT !.position = LiteralsEnd(o, i),
                                    !.out = WithLiterals(o, i, p.out)]
      BY <1>6, <2>2, <2>3, ExecuteLiteralKind
    <3>3. QED
      BY <2>2, <3>1, <3>2
  <2>4. CASE kind \in MatchKinds
    <3> DEFINE Result(distance, literals, last, m) ==
                 IF distance \notin 1..Len(literals)
                   THEN [p EXCEPT !.verdict = "InvalidMatchDistance"]
                   ELSE [p EXCEPT !.position = last, !.distance = distance,
                                  !.out = Periodic(literals, distance, m)]
    <3>1. Execute(s, p) = Result(MatchDistance(s, i, p.distance),
                                 WithLiterals(s, i, p.out),
                                 LiteralsEnd(s, i), MatchLen(s, i))
      BY <1>4, <2>1, <2>4, ExecuteMatchKind
    <3>2. Execute(o, p) = Result(MatchDistance(o, i, p.distance),
                                 WithLiterals(o, i, p.out),
                                 LiteralsEnd(o, i), MatchLen(o, i))
      BY <1>6, <2>2, <2>4, ExecuteMatchKind
    <3> HIDE DEF Result
    <3>3. QED
      BY <2>2, <3>1, <3>2
  <2>5. QED
    BY <1>11, <2>3, <2>4
<1>12. QED
  BY <1>7, <1>8, <1>9, <1>10, <1>11 DEF Kinds

(* A longer stream gets to every state without verdict of a shorter one. *)
LEMMA ReachesLonger ==
  ASSUME NEW s \in Seq(Byte), NEW o \in Seq(Byte), Extends(s, o), NEW p,
         Reaches(s, p), p.verdict = "running"
  PROVE  Reaches(o, p)
<1> DEFINE f == Trace(s)
           g == Trace(o)
           T == {k \in 0..Len(s) : f[k].verdict = "running" => g[k] = f[k]}
<1>1. Len(s) <= Len(o) /\ Len(s) \in Nat /\ Len(o) \in Nat
  BY DEF Extends
<1>2. /\ f[0] = Start
      /\ \A k \in 0..Len(s) : f[k + 1] = Executed(s, f[k])
      /\ \A k \in 0..Len(s) : f[k] \in RefState /\ f[k].position <= Len(s)
  BY <1>1, TraceStates, TraceTypes
<1>3. /\ g[0] = Start
      /\ \A k \in 0..Len(o) : g[k + 1] = Executed(o, g[k])
  <2>1. Len(o) \in Nat
    BY <1>1
  <2>2. QED
    BY <2>1, TraceStates
<1> HIDE DEF f, g
<1>4. 0 \in T
  BY <1>1, <1>2, <1>3
<1>5. ASSUME NEW k \in 0..(Len(s) - 1), k \in T
      PROVE  k + 1 \in T
  <2>1. k \in 0..Len(s) /\ k \in 0..Len(o) /\ k + 1 \in 0..Len(s)
    BY <1>1
  <2>2. /\ f[k + 1] = Executed(s, f[k]) /\ g[k + 1] = Executed(o, g[k])
        /\ f[k] \in RefState /\ f[k].position <= Len(s)
        /\ f[k].verdict = "running" => g[k] = f[k]
    BY <1>2, <1>3, <1>5, <2>1
  <2>3. ASSUME f[k + 1].verdict = "running" PROVE g[k + 1] = f[k + 1]
    <3>1. f[k].verdict = "running"
      BY <2>2, <2>3 DEF Executed
    <3>2. g[k] = f[k] /\ f[k + 1] = Execute(s, f[k])
      BY <2>2, <3>1 DEF Executed
    <3>3. Execute(o, f[k]) = Execute(s, f[k])
      BY <2>2, <2>3, <3>1, <3>2, ExecuteLonger
    <3>4. g[k + 1] = Execute(o, f[k])
      BY <2>2, <3>1, <3>2 DEF Executed
    <3>5. QED
      BY <3>2, <3>3, <3>4
  <2>4. QED
    BY <2>1, <2>3
<1>6. \A k \in 0..Len(s) : k \in T
  <2> HIDE DEF T
  <2> QED
    BY <1>1, <1>4, <1>5, UpTo
<1>7. PICK n \in 0..Len(s) : f[n] = p
  BY DEF Reaches, f
<1>8. n \in 0..Len(o) /\ g[n] = p
  BY <1>1, <1>6, <1>7
<1>9. QED
  BY <1>8 DEF Reaches, g

(* Before the first instruction. *)
LEMMA ReachesStart ==
  ASSUME NEW s \in Seq(Byte)
  PROVE  Reaches(s, Start)
<1>1. Len(s) \in Nat /\ 0 \in 0..Len(s)
  OBVIOUS
<1>2. Trace(s)[0] = Start
  BY TraceStates
<1>3. QED
  BY <1>1, <1>2 DEF Reaches
-----------------------------------------------------------------------------
(* Sequences joined. *)

(* The first i sequences of s, joined. *)
Joined(s) ==
  LET joined[i \in 1..Len(s)] ==
        IF i = 1 THEN s[i] ELSE joined[i - 1] \o s[i]
  IN  joined

LEMMA FlattenIsJoined ==
  ASSUME NEW s, Len(s) # 0
  PROVE  FlattenSeq(s) = Joined(s)[Len(s)]
BY Zenon DEF FlattenSeq, Joined

LEMMA JoinedExists ==
  ASSUME NEW s, NEW m \in Nat
  PROVE  \E f : f = [i \in 1..m |-> IF i = 1 THEN s[i] ELSE f[i - 1] \o s[i]]
<1> DEFINE Is(f, k) == f = [i \in 1..k |->
                              IF i = 1 THEN s[i] ELSE f[i - 1] \o s[i]]
           T == {k \in Nat : \E f : Is(f, k)}
<1>1. ASSUME NEW k \in Nat, NEW f, Is(f, k)
      PROVE  \E g : Is(g, k + 1)
  <2> DEFINE last == IF k = 0 THEN s[1] ELSE f[k] \o s[k + 1]
             g == [i \in 1..(k + 1) |-> IF i <= k THEN f[i] ELSE last]
             h == [i \in 1..(k + 1) |->
                     IF i = 1 THEN s[i] ELSE g[i - 1] \o s[i]]
  <2>1. ASSUME NEW i \in 1..(k + 1)
        PROVE  g[i] = h[i]
    <3>1. CASE i <= k
      <4>1. f[i] = IF i = 1 THEN s[i] ELSE f[i - 1] \o s[i]
        <5>1. i \in 1..k
          BY <3>1
        <5>2. f = [j \in 1..k |-> IF j = 1 THEN s[j] ELSE f[j - 1] \o s[j]]
          BY <1>1
        <5> HIDE DEF Is
        <5>3. QED
          BY <5>1, <5>2
      <4>2. i # 1 => g[i - 1] = f[i - 1]
        BY <3>1
      <4>3. QED
        BY <3>1, <4>1, <4>2
    <3>2. CASE i = k + 1
      <4>1. g[i] = last /\ (i = 1 <=> k = 0) /\ i - 1 = k
        BY <3>2
      <4>2. k # 0 => g[k] = f[k]
        OBVIOUS
      <4>3. h[i] = IF i = 1 THEN s[i] ELSE g[i - 1] \o s[i]
        OBVIOUS
      <4> HIDE DEF g, h
      <4>4. QED
        BY <3>2, <4>1, <4>2, <4>3, Zenon
    <3>3. QED
      BY <3>1, <3>2
  <2>2. g = h
    BY <2>1
  <2>3. Is(g, k + 1)
    BY <2>2, Zenon
  <2>4. QED
    BY <2>3, Zenon
<1>2. \E f : Is(f, 0)
  <2> DEFINE g == [i \in 1..0 |-> s[1]]
             h == [i \in 1..0 |-> IF i = 1 THEN s[i] ELSE g[i - 1] \o s[i]]
  <2>1. g = h
    OBVIOUS
  <2>2. Is(g, 0)
    BY <2>1, Zenon
  <2>3. QED
    BY <2>2, Zenon
<1> HIDE DEF Is
<1>3. 0 \in T /\ \A n \in 0..(m - 1) : n \in T => n + 1 \in T
  BY <1>1, <1>2
<1>4. m \in T
  <2> HIDE DEF T
  <2>1. \A n \in 0..m : n \in T
    BY <1>3, UpTo
  <2>2. QED
    BY <2>1
<1>5. QED
  BY <1>4 DEF Is

(* They are joined one by one. *)
LEMMA JoinedSteps ==
  ASSUME NEW s, NEW n \in Nat, Len(s) = n, n # 0
  PROVE  /\ Joined(s)[1] = s[1]
         /\ \A i \in 1..(n - 1) : Joined(s)[i + 1] = Joined(s)[i] \o s[i + 1]
<1> DEFINE f == Joined(s)
<1>1. f = [i \in 1..n |-> IF i = 1 THEN s[i] ELSE f[i - 1] \o s[i]]
  <2>1. \E g : g = [i \in 1..n |-> IF i = 1 THEN s[i] ELSE g[i - 1] \o s[i]]
    BY JoinedExists, Zenon
  <2>2. QED
    BY <2>1, Zenon DEF Joined
<1> HIDE DEF f
<1>2. f[1] = s[1]
  BY <1>1
<1>3. ASSUME NEW i \in 1..(n - 1)
      PROVE  f[i + 1] = f[i] \o s[i + 1]
  <2>1. i + 1 \in 1..n /\ i + 1 # 1 /\ (i + 1) - 1 = i
    OBVIOUS
  <2>2. QED
    BY <1>1, <2>1
<1>4. QED
  BY <1>2, <1>3 DEF f

(* One sequence more is joined to the others. *)
LEMMA FlattenAppend ==
  ASSUME NEW S, NEW s \in Seq(Seq(S)), NEW e \in Seq(S)
  PROVE  /\ FlattenSeq(s) \in Seq(S)
         /\ FlattenSeq(Append(s, e)) = FlattenSeq(s) \o e
<1> DEFINE n == Len(s)
           t == Append(s, e)
           f == Joined(s)
           g == Joined(t)
<1>1. /\ n \in Nat /\ Len(t) = n + 1 /\ t \in Seq(Seq(S))
      /\ \A i \in 1..n : t[i] = s[i] /\ s[i] \in Seq(S)
      /\ t[n + 1] = e
  OBVIOUS
<1> HIDE DEF t
<1>2. /\ FlattenSeq(t) = g[n + 1]
      /\ g[1] = t[1]
      /\ \A i \in 1..n : g[i + 1] = g[i] \o t[i + 1]
  <2>1. Len(t) # 0 /\ n + 1 \in Nat /\ (n + 1) - 1 = n
    BY <1>1
  <2>2. FlattenSeq(t) = g[n + 1]
    BY <1>1, <2>1, FlattenIsJoined
  <2>3. /\ g[1] = t[1]
        /\ \A i \in 1..((n + 1) - 1) : g[i + 1] = g[i] \o t[i + 1]
    BY <1>1, <2>1, JoinedSteps
  <2>4. QED
    BY <2>1, <2>2, <2>3
<1>3. CASE n = 0
  <2>1. s = << >> /\ FlattenSeq(s) = s
    BY <1>3, <1>1, Zenon, EmptySeq DEF FlattenSeq
  <2>2. << >> \o e = e /\ << >> \in Seq(S)
    BY ConcatEmptySeq
  <2>3. FlattenSeq(t) = e
    BY <1>1, <1>2, <1>3
  <2>4. QED
    BY <2>1, <2>2, <2>3 DEF t
<1>4. CASE n # 0
  <2>1. /\ FlattenSeq(s) = f[n]
        /\ f[1] = s[1]
        /\ \A i \in 1..(n - 1) : f[i + 1] = f[i] \o s[i + 1]
    BY <1>1, <1>4, FlattenIsJoined, JoinedSteps
  <2> DEFINE T == {i \in 0..(n - 1) : f[i + 1] \in Seq(S) /\ g[i + 1] = f[i + 1]}
  <2> HIDE DEF f, g, n
  <2>2. 0 \in T
    <3>1. 1 \in 1..n /\ 0 \in 0..(n - 1) /\ 0 + 1 = 1
      BY <1>1, <1>4
    <3>2. QED
      BY <1>1, <1>2, <2>1, <3>1
  <2>3. ASSUME NEW i \in 0..(n - 1 - 1), i \in T
        PROVE  i + 1 \in T
    <3>1. /\ i + 1 \in 0..(n - 1) /\ i + 1 \in 1..(n - 1) /\ i + 1 \in 1..n
          /\ (i + 1) + 1 \in 1..n
      BY <1>1, <1>4
    <3>2. /\ f[(i + 1) + 1] = f[i + 1] \o s[(i + 1) + 1]
          /\ g[(i + 1) + 1] = g[i + 1] \o t[(i + 1) + 1]
      BY <1>2, <2>1, <3>1
    <3>3. f[i + 1] \in Seq(S) /\ g[i + 1] = f[i + 1]
      BY <2>3
    <3>4. s[(i + 1) + 1] \in Seq(S) /\ t[(i + 1) + 1] = s[(i + 1) + 1]
      BY <1>1, <3>1
    <3>5. f[i + 1] \o s[(i + 1) + 1] \in Seq(S)
      BY <3>3, <3>4, ConcatProperties
    <3>6. QED
      BY <3>1, <3>2, <3>3, <3>4, <3>5
  <2>4. \A i \in 0..(n - 1) : i \in T
    <3>1. n - 1 \in Nat
      BY <1>1, <1>4
    <3> HIDE DEF T
    <3>2. QED
      BY <2>2, <2>3, <3>1, UpTo
  <2>5. f[n] \in Seq(S) /\ g[n] = f[n]
    <3>1. n - 1 \in 0..(n - 1) /\ (n - 1) + 1 = n
      BY <1>1, <1>4
    <3>2. QED
      BY <2>4, <3>1
  <2>6. g[n + 1] = g[n] \o t[n + 1]
    <3>1. n \in 1..n
      BY <1>1, <1>4
    <3>2. QED
      BY <1>2, <3>1
  <2>7. QED
    BY <1>1, <1>2, <2>1, <2>5, <2>6 DEF t
<1>5. QED
  BY <1>3, <1>4 DEF t
-----------------------------------------------------------------------------
(* Numbers in bytes, and parts that are counted. *)

(* Four bytes of a header or a table are a number. *)
LEMMA U32Type ==
  ASSUME NEW s \in Seq(Byte), NEW i \in Nat, 1 <= i, i + 3 <= Len(s)
  PROVE  U32(s, i) \in Nat
<1>1. /\ i \in 1..Len(s) /\ i + 1 \in 1..Len(s)
      /\ i + 2 \in 1..Len(s) /\ i + 3 \in 1..Len(s)
  OBVIOUS
<1>2. /\ s[i] \in Byte /\ s[i + 1] \in Byte
      /\ s[i + 2] \in Byte /\ s[i + 3] \in Byte
  BY <1>1, ElementOfSeq
<1>3. /\ s[i] \in Nat /\ s[i + 1] \in Nat
      /\ s[i + 2] \in Nat /\ s[i + 3] \in Nat
  <2>1. \A b \in Byte : b \in Nat
    BY DEF Byte
  <2>2. QED
    BY <1>2, <2>1
<1> DEFINE w == s[i]
           x == s[i + 1]
           y == s[i + 2]
           z == s[i + 3]
<1>4. w \in Nat /\ x \in Nat /\ y \in Nat /\ z \in Nat
  BY <1>3
<1>5. U32(s, i) = w + x * 256 + y * 65536 + z * 16777216
  BY DEF U32
<1> HIDE DEF w, x, y, z
<1>6. QED
  BY <1>4, <1>5

(* So are eight. *)
LEMMA U64Type ==
  ASSUME NEW s \in Seq(Byte), NEW i \in Nat, 1 <= i, i + 7 <= Len(s)
  PROVE  U64(s, i) \in Nat
<1>1. /\ i + 4 \in Nat /\ 1 <= i + 4 /\ (i + 4) + 3 <= Len(s)
      /\ i + 3 <= Len(s)
  OBVIOUS
<1>2. U32(s, i) \in Nat /\ U32(s, i + 4) \in Nat
  BY <1>1, U32Type
<1> DEFINE low == U32(s, i)
           high == U32(s, i + 4)
<1>3. low \in Nat /\ high \in Nat /\ U64(s, i) = low + high * 65536 * 65536
  BY <1>2 DEF U64
<1> HIDE DEF low, high
<1>4. QED
  BY <1>3

(* The quotient of two numbers, rounded up. *)
LEMMA RoundedUp ==
  ASSUME NEW n \in Nat, NEW c \in Nat, c > 0, NEW q, q = (n + c - 1) \div c
  PROVE  /\ q \in Nat
         /\ n <= q * c
         /\ q * c < n + c
<1>1. n + c - 1 \in Nat
  OBVIOUS
<1>2. PICK m \in Nat : m = n + c - 1
  BY <1>1
<1>3. q = m \div c
  BY <1>2
<1>4. /\ q \in Int /\ m = c * q + (m % c)
      /\ m % c \in 0..(c - 1)
  BY <1>3
<1>5. q >= 0
  BY <1>3
<1>6. q * c \in Int /\ q * c = c * q
  BY <1>4
<1>7. QED
  BY <1>2, <1>4, <1>5, <1>6

(* Of the parts of length c that are counted so every one has bytes, and   *)
(* only the last may have fewer than c.                                    *)
LEMMA CountedPart ==
  ASSUME NEW n \in Nat, NEW c \in Nat, c > 0, NEW q, q = (n + c - 1) \div c,
         NEW k \in Nat, k < q
  PROVE  /\ k * c \in Nat
         /\ k * c < n
         /\ (k + 1) * c = k * c + c
         /\ n - k * c <= c <=> k + 1 = q
<1>1. c \in Nat /\ c > 0
  OBVIOUS
<1>2. /\ q \in Nat
      /\ n <= q * c
      /\ q * c < n + c
  BY RoundedUp
<1>3. k < q
  OBVIOUS
<1>4. PICK d \in Nat : q = k + 1 + d
  <2>1. q - k - 1 \in Nat /\ q = k + 1 + (q - k - 1)
    BY <1>2, <1>3
  <2>2. QED
    BY <2>1
<1>5. /\ k * c \in Nat /\ d * c \in Nat
      /\ (k + 1) * c = k * c + c
      /\ q * c = k * c + c + d * c
  BY <1>1, <1>4
<1>6. d # 0 => d * c >= c
  BY <1>1
<1>7. k * c < n
  BY <1>1, <1>2, <1>5
<1>8. n - k * c <= c => d = 0
  BY <1>1, <1>2, <1>5, <1>6
<1>9. n - k * c <= c => k + 1 = q
  BY <1>4, <1>8
<1>10. k + 1 = q => n - k * c <= c
  BY <1>1, <1>2, <1>5
<1>11. QED
  BY <1>5, <1>7, <1>9, <1>10

(* A number is its low byte and the rest, *)
LEMMA LowAndRest ==
  ASSUME NEW n \in Nat
  PROVE  \E a \in Nat, x \in Nat :
           /\ x <= 255 /\ n = a * 256 + x
           /\ a = n \div 256 /\ x = n % 256
BY SMT

(* and the higher ones are what is left of it. *)
LEMMA HigherBytes ==
  ASSUME NEW n \in Nat, NEW a \in Nat, NEW b \in Nat, NEW c \in Nat,
         NEW x \in Nat, NEW y \in Nat, NEW z \in Nat,
         x <= 255, y <= 255, z <= 255,
         n = a * 256 + x, a = b * 256 + y, b = c * 256 + z
  PROVE  /\ n \div 65536 = b /\ n \div 16777216 = c
         /\ x + y * 256 + z * 65536 + c * 16777216 = n
<1>1. \A q \in Nat, r \in Nat : r < 65536 => (q * 65536 + r) \div 65536 = q
  BY SMT
<1>2. \A q \in Nat, r \in Nat :
        r < 16777216 => (q * 16777216 + r) \div 16777216 = q
  BY SMT
<1>3. /\ n = b * 65536 + (y * 256 + x)
      /\ y * 256 + x \in Nat /\ y * 256 + x < 65536
  BY SMT
<1>4. /\ n = c * 16777216 + (z * 65536 + y * 256 + x)
      /\ z * 65536 + y * 256 + x \in Nat
      /\ z * 65536 + y * 256 + x < 16777216
  BY SMT
<1>5. n \div 65536 = b
  BY <1>1, <1>3, SMT
<1>6. n \div 16777216 = c
  BY <1>2, <1>4, SMT
<1>7. QED
  BY <1>4, <1>5, <1>6, SMT

(* Four bytes hold a number up to u32::MAX. *)
LEMMA U32BytesRead ==
  ASSUME NEW n \in Nat, FitsU32(n)
  PROVE  /\ U32Bytes(n) \in Seq(Byte) /\ Len(U32Bytes(n)) = 4
         /\ U32(U32Bytes(n), 1) = n
<1>1. PICK a \in Nat, x \in Nat :
        x <= 255 /\ n = a * 256 + x /\ a = n \div 256 /\ x = n % 256
  BY LowAndRest
<1>2. PICK b \in Nat, y \in Nat :
        y <= 255 /\ a = b * 256 + y /\ b = a \div 256 /\ y = a % 256
  BY LowAndRest
<1>3. PICK c \in Nat, z \in Nat :
        z <= 255 /\ b = c * 256 + z /\ c = b \div 256 /\ z = b % 256
  BY LowAndRest
<1>4. /\ x <= 255 /\ y <= 255 /\ z <= 255
      /\ n = a * 256 + x /\ a = b * 256 + y /\ b = c * 256 + z
  BY <1>1, <1>2, <1>3, Zenon
<1>5. /\ n \div 65536 = b /\ n \div 16777216 = c
      /\ x + y * 256 + z * 65536 + c * 16777216 = n
  BY <1>4, HigherBytes, SMT
<1>6. c <= 255
  BY <1>5, SMT DEF FitsU32
<1>7. U32Bytes(n) = << x, y, z, c >>
  <2>1. n % 256 = x
    BY <1>1, SMT
  <2>2. (n \div 256) % 256 = y
    <3>1. n \div 256 = a /\ a % 256 = y
      BY <1>1, <1>2, Zenon
    <3>2. QED
      BY <3>1, Zenon
  <2>3. (n \div 65536) % 256 = z
    BY <1>3, <1>5, SMT
  <2>4. QED
    BY <1>5, <2>1, <2>2, <2>3, SMT DEF U32Bytes
<1>8. << x, y, z, c >> \in Seq(Byte) /\ Len(<< x, y, z, c >>) = 4
  BY <1>4, <1>6, SMT DEF Byte
<1>9. QED
  BY <1>5, <1>7, <1>8, SMT DEF U32

(* What joins a of length m and b of length n. *)
JoinOf(a, b, m, n) ==
  /\ a \o b \in Seq(Byte)
  /\ Len(a \o b) = m + n
  /\ \A k \in 1..m : (a \o b)[k] = a[k]
  /\ \A k \in 1..n : (a \o b)[m + k] = b[k]

LEMMA JoinedAt ==
  ASSUME NEW a \in Seq(Byte), NEW b \in Seq(Byte)
  PROVE  JoinOf(a, b, Len(a), Len(b))
BY JoinedBytes DEF JoinOf

(* Eight bytes hold a number up to u64::MAX: four and what is left. *)
LEMMA U64BytesRead ==
  ASSUME NEW n \in Nat, FitsU64(n)
  PROVE  /\ U64Bytes(n) \in Seq(Byte) /\ Len(U64Bytes(n)) = 8
         /\ U64(U64Bytes(n), 1) = n
<1>1. PICK a \in Nat, x \in Nat :
        x <= 255 /\ n = a * 256 + x /\ a = n \div 256 /\ x = n % 256
  BY LowAndRest
<1>2. PICK b \in Nat, y \in Nat :
        y <= 255 /\ a = b * 256 + y /\ b = a \div 256 /\ y = a % 256
  BY LowAndRest
<1>3. PICK c \in Nat, z \in Nat :
        z <= 255 /\ b = c * 256 + z /\ c = b \div 256 /\ z = b % 256
  BY LowAndRest
<1>4. PICK h \in Nat, w \in Nat :
        w <= 255 /\ c = h * 256 + w /\ h = c \div 256 /\ w = c % 256
  BY LowAndRest
<1>5. /\ x <= 255 /\ y <= 255 /\ z <= 255 /\ w <= 255
      /\ n = a * 256 + x /\ a = b * 256 + y /\ b = c * 256 + z
      /\ c = h * 256 + w
  BY <1>1, <1>2, <1>3, <1>4, Zenon
<1>6. /\ n \div 65536 = b /\ n \div 16777216 = c
      /\ x + y * 256 + z * 65536 + c * 16777216 = n
  BY <1>5, HigherBytes, SMT
<1>7. /\ n % 256 = x /\ (n \div 256) % 256 = y
      /\ (n \div 65536) % 256 = z /\ (n \div 16777216) % 256 = w
      /\ (n \div 16777216) \div 256 = h
  <2>1. n \div 256 = a /\ a % 256 = y
    BY <1>1, <1>2, Zenon
  <2>2. c % 256 = w /\ c \div 256 = h
    BY <1>4, Zenon
  <2>3. b % 256 = z /\ n % 256 = x
    BY <1>1, <1>3, Zenon
  <2>4. (n \div 256) % 256 = y
    BY <2>1, Zenon
  <2>5. (n \div 65536) % 256 = z
    BY <1>6, <2>3, SMT
  <2>6. (n \div 16777216) % 256 = w /\ (n \div 16777216) \div 256 = h
    BY <1>6, <2>2, SMT
  <2>7. QED
    BY <2>3, <2>4, <2>5, <2>6
<1> DEFINE low == << x, y, z, w >>
           high == U32Bytes(h)
<1>8. U64Bytes(n) = low \o high
  <2>1. << n % 256, (n \div 256) % 256, (n \div 65536) % 256,
           (n \div 16777216) % 256 >> = low
    BY <1>7, SMT
  <2>2. U32Bytes((n \div 16777216) \div 256) = high
    BY <1>7, SMT
  <2> DEFINE lower == << n % 256, (n \div 256) % 256, (n \div 65536) % 256,
                        (n \div 16777216) % 256 >>
             upper == U32Bytes((n \div 16777216) \div 256)
  <2>3. U64Bytes(n) = lower \o upper
    BY DEF U64Bytes
  <2>4. lower = low /\ upper = high
    BY <2>1, <2>2, SMT
  <2> HIDE DEF low, high, lower, upper
  <2>5. QED
    BY <2>3, <2>4
<1>9. /\ high \in Seq(Byte) /\ Len(high) = 4 /\ U32(high, 1) = h
  <2>1. FitsU32(h)
    BY <1>7, SMT DEF FitsU64
  <2>2. QED
    BY <2>1, U32BytesRead
<1>10. /\ low \in Seq(Byte) /\ Len(low) = 4
       /\ low[1] = x /\ low[2] = y /\ low[3] = z /\ low[4] = w
  BY <1>5, SMT DEF Byte
<1> HIDE DEF low, high
<1> DEFINE s == low \o high
<1>11. /\ s \in Seq(Byte) /\ Len(s) = 8
       /\ \A k \in 1..4 : s[k] = low[k]
       /\ \A k \in 1..4 : s[4 + k] = high[k]
  <2>1. JoinOf(low, high, 4, 4)
    BY <1>9, <1>10, JoinedAt
  <2>2. 4 + 4 = 8
    OBVIOUS
  <2>3. QED
    BY <2>1, <2>2 DEF JoinOf
<1> HIDE DEF s
<1>12. U32(s, 1) = x + y * 256 + z * 65536 + w * 16777216
  <2>1. s[1] = x /\ s[1 + 1] = y /\ s[1 + 2] = z /\ s[1 + 3] = w
    BY <1>10, <1>11
  <2>2. QED
    BY <2>1, SMT DEF U32
<1>13. U32(s, 1 + 4) = h
  <2>1. /\ s[1 + 4] = high[1] /\ s[1 + 4 + 1] = high[1 + 1]
        /\ s[1 + 4 + 2] = high[1 + 2] /\ s[1 + 4 + 3] = high[1 + 3]
    BY <1>11
  <2>2. U32(s, 1 + 4) = U32(high, 1)
    BY <2>1, SMT DEF U32
  <2>3. QED
    BY <1>9, <2>2, SMT
<1>14. U64(s, 1) = n
  <2>1. U64(s, 1) = x + y * 256 + z * 65536 + w * 16777216 + h * 65536 * 65536
    BY <1>12, <1>13, SMT DEF U64
  <2>2. n = x + y * 256 + z * 65536 + w * 16777216 + h * 65536 * 65536
    BY <1>5, <1>6, SMT
  <2>3. QED
    BY <2>1, <2>2, SMT
<1>15. QED
  BY <1>8, <1>11, <1>14, SMT DEF s

-----------------------------------------------------------------------------
(* Stored bytes. *)

(* A stream that starts with the byte of a stored block is one that ends   *)
(* at once. *)
LEMMA SentinelDecodes ==
  ASSUME NEW payload \in Seq(Byte), Len(payload) >= 1,
         payload[1] = \h06
  PROVE  Reference(payload).out = << >>
<1>1. Len(payload) \in Nat /\ 0 \in 0..Len(payload) /\ 0 + 1 = 1
      /\ 1 \in 0..(Len(payload) + 1) /\ 1 \in 1..Len(payload)
  OBVIOUS
<1>2. Trace(payload)[1] = Execute(payload, Start)
  <2>1. Trace(payload)[0 + 1] = Executed(payload, Trace(payload)[0])
        /\ Trace(payload)[0] = Start
    BY <1>1, TraceStates
  <2>2. Executed(payload, Start) = Execute(payload, Start)
    BY DEF Executed, Start
  <2>3. QED
    BY <1>1, <2>1, <2>2
<1>3. Classify(payload[1]) = "Eos"
  BY DEF Classify
<1>4. /\ Execute(payload, Start).out = << >>
      /\ Execute(payload, Start).verdict # "running"
  <2>1. Start.position = 0 /\ Start.out = << >>
    BY DEF Start
  <2>2. QED
    BY <1>1, <1>3, <2>1 DEF Execute, Start
<1>5. Reference(payload) = Trace(payload)[1]
  BY <1>1, <1>2, <1>4, ReferenceDecides
<1>6. QED
  BY <1>2, <1>4, <1>5

(* Where it is one byte longer than what it decodes to it is no other      *)
(* stream than that.                                                       *)
LEMMA StoredDecodes ==
  ASSUME NEW payload \in Seq(Byte), NEW expected,
         Len(payload) = expected + 1, payload[1] = \h06,
         Len(Reference(payload).out) = expected
  PROVE  Reference(payload).out = Tail(payload)
<1>1. Len(payload) \in Nat /\ Len(<< >>) = 0
  OBVIOUS
<1>2. payload # << >> /\ Len(payload) >= 1
  <2>1. CASE expected \in Nat
    BY <1>1, <2>1
  <2>2. CASE expected \notin Nat
    <3>1. Reference(payload) \in RefState
      BY ReferenceDecides
    <3>2. Len(Reference(payload).out) \in Nat
      BY <3>1 DEF RefState
    <3>3. QED
      BY <2>2, <3>2
  <2>3. QED
    BY <2>1, <2>2
<1>3. Reference(payload).out = << >>
  BY <1>2, SentinelDecodes
<1>4. expected = 0 /\ Len(payload) = 1
  BY <1>1, <1>3
<1>5. Tail(payload) \in Seq(Byte) /\ Len(Tail(payload)) = 0
  BY <1>2, <1>4, HeadTailProperties
<1>6. PICK tail \in Seq(Byte) : tail = Tail(payload)
  BY <1>5
<1>7. tail = << >>
  <2>1. Len(tail) = 0
    BY <1>5, <1>6
  <2>2. QED
    BY <2>1
<1>8. QED
  BY <1>3, <1>6, <1>7
=============================================================================
