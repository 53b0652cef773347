-------------------------- MODULE RawEncodeProofs ---------------------------
(***************************************************************************)
(* The raw encoder, for every source of any length.  What it emits is at   *)
(* every moment a sequence of whole instructions that decode to the part   *)
(* of the source covered so far, and a finished stream decodes to all of   *)
(* it, alone and in the block of bvxn::encode; its hash table holds what   *)
(* it should; and its output is little longer than the source at worst.    *)
(*                                                                         *)
(* First come facts about the instructions: each header the encoder builds *)
(* is read back by the opcode table as what it was built from, and a match *)
(* of the source's own bytes continues the decoded bytes with the          *)
(* source's.                                                               *)
(***************************************************************************)
EXTENDS RawRoundTrip, LzvnProofs
-----------------------------------------------------------------------------
(* The headers, as they are read back. *)

(* The two bytes of a word, and their parts. *)
LEMMA WordBytes ==
  ASSUME NEW w \in Int, 0 <= w, w <= 65535
  PROVE  /\ LowByte(w) \in Byte /\ HighByte(w) \in Byte
         /\ LowByte(w) + HighByte(w) * 256 = w
<1>1. LowByte(w) \in Int /\ 0 <= LowByte(w) /\ LowByte(w) <= 255
  BY DEF LowByte
<1>2. HighByte(w) \in Int /\ LowByte(w) + HighByte(w) * 256 = w
  BY DEF LowByte, HighByte
<1>3. 0 <= HighByte(w) /\ HighByte(w) <= 255
  BY <1>1, <1>2
<1>4. QED
  BY <1>1, <1>2, <1>3 DEF Byte

-----------------------------------------------------------------------------
(* Matches. *)

(* Bytes that repeat those d places before are periodic. *)
LEMMA RepeatIsPeriodic ==
  ASSUME NEW s \in Seq(Byte), NEW n \in Nat, NEW m \in Nat, n + m <= Len(s),
         NEW d \in 1..n,
         \A k \in 0..(m - 1) : s[n + k + 1] = s[n + k - d + 1]
  PROVE  \A k \in 0..(m - 1) : s[n + k + 1] = s[n - d + 1 + (k % d)]
<1> DEFINE Bad == {k \in 0..(m - 1) :
                     s[n + k + 1] # s[n - d + 1 + (k % d)]}
<1>1. SUFFICES ASSUME Bad # {} PROVE FALSE
  OBVIOUS
<1> d \in Nat \ {0}
  OBVIOUS
<1>2. Bad \subseteq Nat
  OBVIOUS
<1>3. PICK k \in Bad : \A j \in Bad : k <= j
  BY <1>1, <1>2, NatMinimum
<1>4. k \in 0..(m - 1) /\ s[n + k + 1] # s[n - d + 1 + (k % d)]
  BY <1>3
<1>5. s[n + k + 1] = s[n + k - d + 1]
  BY <1>4
<1>6. CASE k < d
  <2>1. k \in 0..(d - 1)
    BY <1>4, <1>6
  <2>2. k % d = k
    BY <2>1, ModSmall
  <2>3. n - d + 1 + k = n + k - d + 1
    BY <1>4
  <2>4. QED
    BY <1>4, <1>5, <2>2, <2>3
<1>7. CASE k >= d
  <2>1. PICK j \in Nat : k = j + d
    <3>1. k - d \in Nat /\ k = (k - d) + d
      BY <1>4, <1>7
    <3>2. QED
      BY <3>1
  <2>2. j \in 0..(m - 1) /\ j < k
    BY <1>4, <2>1
  <2>3. j \notin Bad
    <3> HIDE DEF Bad
    <3>1. SUFFICES ASSUME j \in Bad PROVE FALSE
      OBVIOUS
    <3>2. k <= j /\ k \in Nat
      BY <1>3, <1>4, <3>1
    <3>3. QED
      BY <2>2, <3>2
  <2>4. s[n + j + 1] = s[n - d + 1 + (j % d)]
    BY <2>2, <2>3
  <2>5. n + k - d + 1 = n + j + 1
    BY <2>1
  <2>6. k % d = j % d
    <3>1. (j + d) % d = j % d
      BY ModStep
    <3>2. QED
      BY <2>1, <3>1
  <2>7. QED
    BY <1>4, <1>5, <2>4, <2>5, <2>6
<1>8. QED
  BY <1>4, <1>6, <1>7

(* A match that the source repeats continues what was decoded of it.       *)
LEMMA MatchContinues ==
  ASSUME NEW s \in Seq(Byte), NEW n \in Nat, NEW m \in Nat, n + m <= Len(s),
         NEW d \in 1..n,
         \A k \in 0..(m - 1) : s[n + k + 1] = s[n + k - d + 1]
  PROVE  Periodic(SubSeq(s, 1, n), d, m) = SubSeq(s, 1, n + m)
<1> DEFINE a == SubSeq(s, 1, n)
           b == SubSeq(s, 1, n + m)
<1>1. /\ a \in Seq(Byte) /\ Len(a) = n
      /\ \A k \in 1..n : a[k] = s[k]
  BY WindowProperties
<1>2. /\ b \in Seq(Byte) /\ Len(b) = n + m
      /\ \A k \in 1..(n + m) : b[k] = s[k]
  BY WindowProperties
<1>3. b = [k \in 1..(n + m) |-> s[k]]
  <2> HIDE DEF b
  <2> QED
    BY <1>2
<1>4. \A k \in 0..(m - 1) : s[n + k + 1] = s[n - d + 1 + (k % d)]
  BY RepeatIsPeriodic
<1>5. Periodic(a, d, m) =
        [k \in 1..(n + m) |->
           IF k <= n THEN a[k] ELSE a[n - d + 1 + ((k - n - 1) % d)]]
  <2> HIDE DEF a
  <2> QED
    BY <1>1, Zenon DEF Periodic
<1>6. ASSUME NEW k \in 1..(n + m)
      PROVE  (IF k <= n THEN a[k] ELSE a[n - d + 1 + ((k - n - 1) % d)])
               = s[k]
  <2> HIDE DEF a, b
  <2>1. CASE k <= n
    BY <1>1, <2>1
  <2>2. CASE k > n
    <3>1. PICK j \in 0..(m - 1) : k = n + j + 1
      <4>1. k - n - 1 \in 0..(m - 1) /\ k = n + (k - n - 1) + 1
        BY <2>2
      <4>2. QED
        BY <4>1
    <3>2. k - n - 1 = j
      BY <3>1
    <3>3. j % d \in 0..(d - 1)
      <4>1. j \in Nat /\ d \in Nat \ {0}
        OBVIOUS
      <4>2. QED
        BY <4>1, DivMod
    <3>4. n - d + 1 + (j % d) \in 1..n
      BY <3>3
    <3>5. a[n - d + 1 + (j % d)] = s[n - d + 1 + (j % d)]
      BY <1>1, <3>4
    <3>6. s[k] = s[n - d + 1 + (j % d)]
      BY <1>4, <3>1
    <3>7. QED
      BY <2>2, <3>2, <3>5, <3>6
  <2>3. QED
    BY <2>1, <2>2
<1>7. QED
  <2> HIDE DEF a, b
  <2>1. Periodic(a, d, m) = [k \in 1..(n + m) |-> s[k]]
    BY <1>5, <1>6
  <2>2. QED
    BY <1>3, <2>1 DEF a, b
-----------------------------------------------------------------------------
(* Headers.  The match lengths that fit beside n literals leave every      *)
(* opcode among those of its kind: one more and it would be invalid, a     *)
(* medium distance or the end marker.                                      *)

ShortHeader(n, m, low) == n * 64 + (m - MIN_MATCH_LEN) * 8 + low

(* The fields of an opcode that holds literals, match and three low bits.  *)
LEMMA ShortHeaderFields ==
  ASSUME NEW n \in 0..3, NEW m \in 3..max_short_match(n), NEW low \in 0..7
  PROVE  /\ ShortHeader(n, m, low) \in Byte
         /\ ShortHeader(n, m, low) \div 64 = n
         /\ ((ShortHeader(n, m, low) \div 8) % 8) + 3 = m
         /\ ShortHeader(n, m, low) % 8 = low
<1>1. max_short_match(n) = 10 - n * 2
  BY DEF max_short_match
<1>2. m \in 3..10 /\ m <= 10 - n * 2
  BY <1>1
<1>3. ShortHeader(n, m, low) = n * 64 + (m - 3) * 8 + low
  BY DEF ShortHeader, MIN_MATCH_LEN
<1>4. QED
  BY <1>2, <1>3 DEF Byte

(* Small distances: *)
LEMMA SmallDistanceKind ==
  ASSUME NEW n \in 0..3, NEW m \in 3..max_short_match(n), NEW low \in 0..5
  PROVE  Classify(ShortHeader(n, m, low)) = "SmallDistance"
<1> DEFINE x == n * 64 + (m - 3) * 8 + low
<1>1. max_short_match(n) = 10 - n * 2
  BY DEF max_short_match
<1>2. ShortHeader(n, m, low) = x
  BY DEF ShortHeader, MIN_MATCH_LEN
<1>3. x \in 0..\h6D \cup \h80..\h9D \cup \hC0..\hCD
  BY <1>1
<1>4. x % 8 \in 0..5
  BY <1>1
<1>5. Classify(x) = "SmallDistance"
  <2> HIDE DEF x
  <2> QED
    BY <1>3, <1>4 DEF Classify
<1>6. QED
  BY <1>2, <1>5

(* large ones, *)
LEMMA LargeDistanceKind ==
  ASSUME NEW n \in 0..3, NEW m \in 3..max_short_match(n)
  PROVE  Classify(ShortHeader(n, m, 7)) = "LargeDistance"
<1> DEFINE x == n * 64 + (m - 3) * 8 + 7
<1>1. max_short_match(n) = 10 - n * 2
  BY DEF max_short_match
<1>2. ShortHeader(n, m, 7) = x
  BY DEF ShortHeader, MIN_MATCH_LEN
<1>3. x \in {\h07, \h0F, \h17, \h1F, \h27, \h2F, \h37, \h3F,
            \h47, \h4F, \h57, \h5F, \h67, \h6F,
            \h87, \h8F, \h97, \h9F, \hC7, \hCF}
  BY <1>1
<1>4. Classify(x) = "LargeDistance"
  <2> HIDE DEF x
  <2> QED
    BY <1>3 DEF Classify
<1>5. QED
  BY <1>2, <1>4

(* and the previous one, which needs a literal.                            *)
LEMMA PreviousDistanceKind ==
  ASSUME NEW n \in 1..3, NEW m \in 3..max_short_match(n)
  PROVE  Classify(ShortHeader(n, m, 6)) = "PreviousDistance"
<1> DEFINE x == n * 64 + (m - 3) * 8 + 6
<1>1. max_short_match(n) = 10 - n * 2
  BY DEF max_short_match
<1>2. ShortHeader(n, m, 6) = x
  BY DEF ShortHeader, MIN_MATCH_LEN
<1>3. x \in {\h46, \h4E, \h56, \h5E, \h66, \h6E,
            \h86, \h8E, \h96, \h9E, \hC6, \hCE}
  BY <1>1
<1>4. Classify(x) = "PreviousDistance"
  <2> HIDE DEF x
  <2> QED
    BY <1>3 DEF Classify
<1>5. QED
  BY <1>2, <1>4
-----------------------------------------------------------------------------
(* What a decoder reads at s[i]: a match with n literals before it, *)
ReadsMatch(s, i, header_len, n, m, d, previous) ==
  /\ Classify(s[i]) \in MatchKinds
  /\ HeaderLen(Classify(s[i])) = header_len
  /\ LiteralLen(s, i) = n
  /\ MatchLen(s, i) = m
  /\ MatchDistance(s, i, previous) = d

(* or n literals. *)
ReadsLiterals(s, i, header_len, n) ==
  /\ Classify(s[i]) \in LiteralKinds
  /\ HeaderLen(Classify(s[i])) = header_len
  /\ LiteralLen(s, i) = n

(* A small distance is read back. *)
LEMMA SmallDistanceRead ==
  ASSUME NEW s, NEW i \in Nat, NEW previous,
         NEW n \in 0..3, NEW m \in 3..max_short_match(n),
         NEW d \in 1..(MAX_SHORT_DISTANCE - 1),
         s[i] = SmallDistance(n, m, d)[1],
         s[i + 1] = SmallDistance(n, m, d)[2]
  PROVE  /\ ReadsMatch(s, i, 2, n, m, d, previous)
         /\ SmallDistance(n, m, d) \in Seq(Byte)
         /\ Len(SmallDistance(n, m, d)) = 2
<1> DEFINE high == d \div 256
           low  == d % 256
<1>1. high \in 0..5 /\ low \in Byte /\ high * 256 + low = d
  BY DEF MAX_SHORT_DISTANCE, Byte
<1>2. SmallDistance(n, m, d) = <<ShortHeader(n, m, high), low>>
  BY DEF SmallDistance, ShortHeader
<1> HIDE DEF high, low
<1> DEFINE x == ShortHeader(n, m, high)
<1>3. s[i] = x /\ s[i + 1] = low
  BY <1>2
<1>4. /\ x \in Byte /\ x \div 64 = n
      /\ ((x \div 8) % 8) + 3 = m /\ x % 8 = high
  BY <1>1, ShortHeaderFields
<1>5. Classify(s[i]) = "SmallDistance"
  BY <1>1, <1>3, SmallDistanceKind
<1> HIDE DEF x
<1>6. HeaderLen(Classify(s[i])) = 2
  BY <1>5 DEF HeaderLen
<1>7. LiteralLen(s, i) = n
  <2>1. LiteralLen(s, i) = s[i] \div 64
    BY <1>5, Zenon DEF LiteralLen
  <2>2. QED
    BY <1>3, <1>4, <2>1
<1>8. MatchLen(s, i) = m
  <2>1. MatchLen(s, i) = ((s[i] \div 8) % 8) + 3
    BY <1>5, Zenon DEF MatchLen
  <2>2. QED
    BY <1>3, <1>4, <2>1
<1>9. MatchDistance(s, i, previous) = d
  <2>1. MatchDistance(s, i, previous) = (s[i] % 8) * 256 + s[i + 1]
    BY <1>5, Zenon DEF MatchDistance
  <2>2. QED
    BY <1>1, <1>3, <1>4, <2>1
<1>10. /\ SmallDistance(n, m, d) \in Seq(Byte)
       /\ Len(SmallDistance(n, m, d)) = 2
  <2>1. SmallDistance(n, m, d) = <<x, low>>
    BY <1>2 DEF x
  <2>2. QED
    BY <1>1, <1>4, <2>1
<1>11. QED
  BY <1>5, <1>6, <1>7, <1>8, <1>9, <1>10 DEF ReadsMatch, MatchKinds

(* The two bytes of a distance, and their parts. *)
LEMMA DistanceBytes ==
  ASSUME NEW e \in Int, 0 <= e, e <= MAX_DISTANCE
  PROVE  /\ LowByte(e) \in Byte /\ HighByte(e) \in Byte
         /\ LowByte(e) + HighByte(e) * 256 = e
<1>1. e <= 65535
  BY DEF MAX_DISTANCE
<1>2. QED
  BY <1>1, WordBytes

(* The largest distance is a number. *)
LEMMA LargestDistance == MAX_DISTANCE \in Nat
BY SMTT(30) DEF MAX_DISTANCE

(* A distance that has an opcode is an integer within the bound. *)
LEMMA DistanceRange ==
  ASSUME NEW d \in 1..MAX_DISTANCE
  PROVE  d \in Int /\ 0 <= d /\ d <= MAX_DISTANCE
<1>1. ASSUME NEW m \in Nat, NEW x \in 1..m
      PROVE  x \in Int /\ 0 <= x /\ x <= m
  OBVIOUS
<1>2. QED
  BY <1>1, LargestDistance, Zenon

(* A large distance is read back. *)
LEMMA LargeDistanceRead ==
  ASSUME NEW s, NEW i \in Nat, NEW previous,
         NEW n \in 0..3, NEW m \in 3..max_short_match(n),
         NEW d \in 1..MAX_DISTANCE,
         s[i] = LargeDistance(n, m, d)[1],
         s[i + 1] = LargeDistance(n, m, d)[2],
         s[i + 2] = LargeDistance(n, m, d)[3]
  PROVE  /\ ReadsMatch(s, i, 3, n, m, d, previous)
         /\ LargeDistance(n, m, d) \in Seq(Byte)
         /\ Len(LargeDistance(n, m, d)) = 3
<1> DEFINE high == HighByte(d)
           low  == LowByte(d)
           x    == ShortHeader(n, m, 7)
<1>1. high \in Byte /\ low \in Byte /\ low + high * 256 = d
  <2>1. d \in Int /\ 0 <= d /\ d <= MAX_DISTANCE
    BY DistanceRange, Zenon
  <2>2. QED
    BY <2>1, DistanceBytes
<1>2. LargeDistance(n, m, d) = <<x, low, high>>
  BY DEF LargeDistance, ShortHeader
<1> HIDE DEF high, low
<1>3. s[i] = x /\ s[i + 1] = low /\ s[i + 2] = high
  BY <1>2
<1>4. x \in Byte /\ x \div 64 = n /\ ((x \div 8) % 8) + 3 = m
  BY ShortHeaderFields
<1>5. Classify(s[i]) = "LargeDistance"
  BY <1>3, LargeDistanceKind
<1> HIDE DEF x
<1>6. HeaderLen(Classify(s[i])) = 3
  BY <1>5 DEF HeaderLen
<1>7. LiteralLen(s, i) = n
  <2>1. LiteralLen(s, i) = s[i] \div 64
    BY <1>5, Zenon DEF LiteralLen
  <2>2. QED
    BY <1>3, <1>4, <2>1
<1>8. MatchLen(s, i) = m
  <2>1. MatchLen(s, i) = ((s[i] \div 8) % 8) + 3
    BY <1>5, Zenon DEF MatchLen
  <2>2. QED
    BY <1>3, <1>4, <2>1
<1>9. MatchDistance(s, i, previous) = d
  <2>1. MatchDistance(s, i, previous) = s[i + 1] + s[i + 2] * 256
    BY <1>5, Zenon DEF MatchDistance
  <2>2. QED
    BY <1>1, <1>3, <2>1
<1>10. /\ LargeDistance(n, m, d) \in Seq(Byte)
       /\ Len(LargeDistance(n, m, d)) = 3
  BY <1>1, <1>2, <1>4
<1>11. QED
  BY <1>5, <1>6, <1>7, <1>8, <1>9, <1>10 DEF ReadsMatch, MatchKinds

(* The previous distance is read back after at least one literal. *)
LEMMA PreviousDistanceRead ==
  ASSUME NEW s, NEW i \in Nat, NEW previous,
         NEW n \in 1..3, NEW m \in 3..max_short_match(n),
         s[i] = PreviousDistance(n, m)[1]
  PROVE  /\ ReadsMatch(s, i, 1, n, m, previous, previous)
         /\ PreviousDistance(n, m) \in Seq(Byte)
         /\ Len(PreviousDistance(n, m)) = 1
<1> DEFINE x == ShortHeader(n, m, 6)
<1>1. PreviousDistance(n, m) = <<x>>
  BY DEF PreviousDistance, ShortHeader
<1>2. s[i] = x
  BY <1>1
<1>3. x \in Byte /\ x \div 64 = n /\ ((x \div 8) % 8) + 3 = m
  BY ShortHeaderFields
<1>4. Classify(s[i]) = "PreviousDistance"
  BY <1>2, PreviousDistanceKind
<1> HIDE DEF x
<1>5. HeaderLen(Classify(s[i])) = 1
  BY <1>4 DEF HeaderLen
<1>6. LiteralLen(s, i) = n
  <2>1. LiteralLen(s, i) = s[i] \div 64
    BY <1>4, Zenon DEF LiteralLen
  <2>2. QED
    BY <1>2, <1>3, <2>1
<1>7. MatchLen(s, i) = m
  <2>1. MatchLen(s, i) = ((s[i] \div 8) % 8) + 3
    BY <1>4, Zenon DEF MatchLen
  <2>2. QED
    BY <1>2, <1>3, <2>1
<1>8. MatchDistance(s, i, previous) = previous
  BY <1>4, Zenon DEF MatchDistance
<1>9. /\ PreviousDistance(n, m) \in Seq(Byte)
      /\ Len(PreviousDistance(n, m)) = 1
  BY <1>1, <1>3
<1>10. QED
  BY <1>4, <1>5, <1>6, <1>7, <1>8, <1>9 DEF ReadsMatch, MatchKinds

(* A medium distance is read back, its match up to 34 bytes long. *)
LEMMA MediumDistanceRead ==
  ASSUME NEW s, NEW i \in Nat, NEW previous,
         NEW n \in 0..3, NEW m \in 3..MAX_MEDIUM_MATCH,
         NEW d \in 1..MAX_MEDIUM_DISTANCE,
         s[i] = MediumDistance(n, m, d)[1],
         s[i + 1] = MediumDistance(n, m, d)[2],
         s[i + 2] = MediumDistance(n, m, d)[3]
  PROVE  /\ ReadsMatch(s, i, 3, n, m, d, previous)
         /\ MediumDistance(n, m, d) \in Seq(Byte)
         /\ Len(MediumDistance(n, m, d)) = 3
<1> DEFINE code   == m - 3
           x      == \hA0 + n * 8 + code \div 4
           packed == d * 4 + (code % 4)
           low    == LowByte(packed)
           high   == HighByte(packed)
<1>1. code \in 0..31 /\ code + 3 = m /\ d \in 1..16383
  BY DEF MAX_MEDIUM_MATCH, MAX_MEDIUM_DISTANCE
<1>2. MediumDistance(n, m, d) = <<x, low, high>>
  BY DEF MediumDistance, MIN_MATCH_LEN
<1> HIDE DEF code
<1>3. /\ x \in \hA0..\hBF
      /\ (x \div 8) % 4 = n
      /\ x % 8 = code \div 4
  BY <1>1
<1>4. /\ code % 4 \in 0..3
      /\ (code \div 4) * 4 + (code % 4) = code
  BY <1>1
<1> DEFINE rest == code % 4
<1>5. rest = code % 4 /\ rest \in 0..3 /\ packed = d * 4 + rest
  BY <1>4
<1> HIDE DEF rest
<1> HIDE DEF packed
<1>6. packed \in Int /\ 0 <= packed /\ packed <= 65535
  <2>1. d \in Int /\ 1 <= d /\ d <= 16383
    BY <1>1
  <2>2. rest \in Int /\ 0 <= rest /\ rest <= 3
    BY <1>5
  <2>3. QED
    BY <1>5, <2>1, <2>2
<1>7. packed % 4 = rest /\ packed \div 4 = d
  BY <1>1, <1>5
<1>8. low \in Byte /\ high \in Byte /\ low + high * 256 = packed
  BY <1>6, WordBytes
<1> HIDE DEF low, high
<1>9. packed % 4 = low % 4 /\ packed \div 4 = low \div 4 + high * 64
  BY <1>6, <1>8 DEF Byte
<1> HIDE DEF x
<1>10. s[i] = x /\ s[i + 1] = low /\ s[i + 2] = high
  BY <1>2
<1>11. Classify(x) = "MediumDistance"
  BY <1>3 DEF Classify
<1>12. Classify(s[i]) = "MediumDistance"
  BY <1>10, <1>11
<1>13. HeaderLen(Classify(s[i])) = 3
  BY <1>12 DEF HeaderLen
<1>14. LiteralLen(s, i) = n
  <2>1. LiteralLen(s, i) = (s[i] \div 8) % 4
    BY <1>12, Zenon DEF LiteralLen
  <2>2. QED
    BY <1>3, <1>10, <2>1
<1>15. MatchLen(s, i) = m
  <2>1. MatchLen(s, i) = (s[i] % 8) * 4 + (s[i + 1] % 4) + 3
    BY <1>12, Zenon DEF MatchLen
  <2>2. (s[i] % 8) = code \div 4 /\ (s[i + 1] % 4) = code % 4
    BY <1>3, <1>5, <1>10, <1>7, <1>9
  <2>3. MatchLen(s, i) = code + 3
    BY <1>4, <2>1, <2>2
  <2>4. QED
    BY <1>1, <2>3
<1>16. MatchDistance(s, i, previous) = d
  <2>1. MatchDistance(s, i, previous) = s[i + 1] \div 4 + s[i + 2] * 64
    BY <1>12, Zenon DEF MatchDistance
  <2>2. QED
    BY <1>10, <1>7, <1>9, <2>1
<1>17. /\ MediumDistance(n, m, d) \in Seq(Byte)
       /\ Len(MediumDistance(n, m, d)) = 3
  <2>1. x \in Byte
    BY <1>3 DEF Byte
  <2>2. QED
    BY <1>2, <1>8, <2>1
<1>18. QED
  BY <1>12, <1>13, <1>14, <1>15, <1>16, <1>17 DEF ReadsMatch, MatchKinds

(* A chunk of literals is read back. *)
LEMMA LiteralHeaderRead ==
  ASSUME NEW s, NEW i \in Nat, NEW n \in 1..MAX_LITERAL_LEN,
         s[i] = LiteralHeader(n)[1],
         n > 15 => s[i + 1] = LiteralHeader(n)[2]
  PROVE  /\ ReadsLiterals(s, i, Len(LiteralHeader(n)), n)
         /\ LiteralHeader(n) \in Seq(Byte)
         /\ Len(LiteralHeader(n)) = IF n <= 15 THEN 1 ELSE 2
<1>1. n \in 1..271
  BY DEF MAX_LITERAL_LEN
<1>2. CASE n <= 15
  <2>1. LiteralHeader(n) = << \hE0 + n >>
    BY <1>2 DEF LiteralHeader
  <2>2. s[i] = \hE0 + n
    BY <2>1
  <2>3. s[i] \in \hE1..\hEF /\ s[i] % 16 = n
    BY <1>1, <1>2, <2>2
  <2>4. Classify(s[i]) = "SmallLiteral"
    BY <2>3 DEF Classify
  <2>5. HeaderLen(Classify(s[i])) = 1
    BY <2>4 DEF HeaderLen
  <2>6. LiteralLen(s, i) = s[i] % 16
    BY <2>4, Zenon DEF LiteralLen
  <2>7. LiteralHeader(n) \in Seq(Byte) /\ Len(LiteralHeader(n)) = 1
    BY <1>1, <1>2, <2>1 DEF Byte
  <2>8. QED
    BY <1>2, <2>3, <2>4, <2>5, <2>6, <2>7 DEF ReadsLiterals, LiteralKinds
<1>3. CASE n > 15
  <2>1. LiteralHeader(n) = << \hE0, n - 16 >>
    BY <1>1, <1>3 DEF LiteralHeader
  <2>2. s[i] = \hE0 /\ s[i + 1] = n - 16
    BY <1>3, <2>1
  <2>3. Classify(s[i]) = "LargeLiteral"
    BY <2>2 DEF Classify
  <2>4. HeaderLen(Classify(s[i])) = 2
    BY <2>3 DEF HeaderLen
  <2>5. LiteralLen(s, i) = s[i + 1] + 16
    BY <2>3, Zenon DEF LiteralLen
  <2>6. LiteralLen(s, i) = n
    BY <1>1, <2>2, <2>5
  <2>7. LiteralHeader(n) \in Seq(Byte) /\ Len(LiteralHeader(n)) = 2
    BY <1>1, <1>3, <2>1 DEF Byte
  <2>8. QED
    BY <1>1, <1>3, <2>3, <2>4, <2>6, <2>7 DEF ReadsLiterals, LiteralKinds
<1>4. QED
  BY <1>1, <1>2, <1>3

(* And so is a chunk of match bytes. *)
LEMMA MatchHeaderRead ==
  ASSUME NEW s, NEW i \in Nat, NEW n \in 1..MAX_MATCH_LEN, NEW previous,
         s[i] = MatchHeader(n)[1],
         n > 15 => s[i + 1] = MatchHeader(n)[2]
  PROVE  /\ ReadsMatch(s, i, Len(MatchHeader(n)), 0, n, previous, previous)
         /\ MatchHeader(n) \in Seq(Byte)
         /\ Len(MatchHeader(n)) = IF n <= 15 THEN 1 ELSE 2
<1>1. n \in 1..271
  BY DEF MAX_MATCH_LEN
<1>2. CASE n <= 15
  <2>1. MatchHeader(n) = << \hF0 + n >>
    BY <1>2 DEF MatchHeader
  <2>2. s[i] = \hF0 + n
    BY <2>1
  <2>3. s[i] \in \hF1..\hFF /\ s[i] % 16 = n
    BY <1>1, <1>2, <2>2
  <2>4. Classify(s[i]) = "SmallMatch"
    BY <2>3 DEF Classify
  <2>5. HeaderLen(Classify(s[i])) = 1
    BY <2>4 DEF HeaderLen
  <2>6. MatchLen(s, i) = s[i] % 16
    BY <2>4, Zenon DEF MatchLen
  <2>7. LiteralLen(s, i) = 0 /\ MatchDistance(s, i, previous) = previous
    BY <2>4, Zenon DEF LiteralLen, MatchDistance
  <2>8. MatchHeader(n) \in Seq(Byte) /\ Len(MatchHeader(n)) = 1
    BY <1>1, <1>2, <2>1 DEF Byte
  <2>9. QED
    BY <1>2, <2>3, <2>4, <2>5, <2>6, <2>7, <2>8 DEF ReadsMatch, MatchKinds
<1>3. CASE n > 15
  <2>1. MatchHeader(n) = << \hF0, n - 16 >>
    BY <1>1, <1>3 DEF MatchHeader
  <2>2. s[i] = \hF0 /\ s[i + 1] = n - 16
    BY <1>3, <2>1
  <2>3. Classify(s[i]) = "LargeMatch"
    BY <2>2 DEF Classify
  <2>4. HeaderLen(Classify(s[i])) = 2
    BY <2>3 DEF HeaderLen
  <2>5. MatchLen(s, i) = s[i + 1] + 16
    BY <2>3, Zenon DEF MatchLen
  <2>6. MatchLen(s, i) = n
    BY <1>1, <2>2, <2>5
  <2>7. LiteralLen(s, i) = 0 /\ MatchDistance(s, i, previous) = previous
    BY <2>3, Zenon DEF LiteralLen, MatchDistance
  <2>8. MatchHeader(n) \in Seq(Byte) /\ Len(MatchHeader(n)) = 2
    BY <1>1, <1>3, <2>1 DEF Byte
  <2>9. QED
    BY <1>1, <1>3, <2>3, <2>4, <2>6, <2>7, <2>8 DEF ReadsMatch, MatchKinds
<1>4. QED
  BY <1>1, <1>2, <1>3
-----------------------------------------------------------------------------
(* Executing the instruction that was just appended. *)

(* A reader of o that has decoded out. *)
Reader(o, distance, out) ==
  [position |-> Len(o), distance |-> distance, out |-> out,
   verdict |-> "running"]

(* Where the header and the literals of an appended instruction are. *)
LEMMA AppendedBytes ==
  ASSUME NEW o \in Seq(Byte), NEW h \in Seq(Byte), NEW literals \in Seq(Byte),
         NEW s, s = o \o h \o literals
  PROVE  /\ s \in Seq(Byte)
         /\ Len(s) = Len(o) + Len(h) + Len(literals)
         /\ \A k \in 1..Len(h) : s[Len(o) + k] = h[k]
         /\ SubSeq(s, Len(o) + Len(h) + 1, Len(s)) = literals
<1>1. PICK oh \in Seq(Byte) :
        /\ s = oh \o literals
        /\ Len(oh) = Len(o) + Len(h)
        /\ \A k \in 1..Len(h) : oh[Len(o) + k] = h[k]
  BY JoinedBytes
<1>2. Len(o) \in Nat /\ Len(h) \in Nat /\ Len(literals) \in Nat
  OBVIOUS
<1>3. /\ s \in Seq(Byte)
      /\ Len(s) = Len(oh) + Len(literals)
      /\ \A k \in 1..Len(oh) : s[k] = oh[k]
      /\ \A k \in 1..Len(literals) : s[Len(oh) + k] = literals[k]
  <2>1. /\ oh \o literals \in Seq(Byte)
        /\ Len(oh \o literals) = Len(oh) + Len(literals)
        /\ \A k \in 1..Len(oh) : (oh \o literals)[k] = oh[k]
        /\ \A k \in 1..Len(literals) :
             (oh \o literals)[Len(oh) + k] = literals[k]
    BY JoinedBytes
  <2>2. s = oh \o literals
    BY <1>1
  <2>3. QED
    BY <2>1, <2>2, Zenon
<1>4. \A k \in 1..Len(h) : s[Len(o) + k] = h[k]
  BY <1>1, <1>3
<1> DEFINE rest == SubSeq(s, Len(oh) + 1, Len(s))
<1>5. /\ rest \in Seq(Byte)
      /\ Len(rest) = Len(literals)
      /\ \A k \in 1..Len(literals) : rest[k] = s[Len(oh) + k]
  <2>1. Len(s) \in 0..Len(s) /\ Len(oh) \in 0..Len(s)
    BY <1>1, <1>3
  <2>2. Len(s) - Len(oh) = Len(literals)
    BY <1>1, <1>3
  <2>3. QED
    BY <1>3, <2>1, <2>2, WindowProperties, SMTT(30)
<1> HIDE DEF rest
<1>6. rest = literals
  BY <1>3, <1>5, SeqEqual
<1>7. QED
  BY <1>1, <1>3, <1>4, <1>6 DEF rest

LEMMA AppendedLen ==
  ASSUME NEW o \in Seq(Byte), NEW h \in Seq(Byte), NEW literals \in Seq(Byte)
  PROVE  /\ Len(o \o h \o literals) = Len(o) + Len(h) + Len(literals)
         /\ Len(o) \in Nat /\ Len(h) \in Nat /\ Len(literals) \in Nat
<1> DEFINE s == o \o h \o literals
<1>1. Len(s) = Len(o) + Len(h) + Len(literals)
  <2> HIDE DEF s
  <2>1. s = o \o h \o literals
    BY DEF s
  <2>2. QED
    BY <2>1, AppendedBytes
<1>2. QED
  BY <1>1

(* A match instruction appends its literals and the match. *)
LEMMA ExecuteMatch ==
  ASSUME NEW o \in Seq(Byte), NEW h \in Seq(Byte), NEW literals \in Seq(Byte),
         NEW out \in Seq(Byte), Len(h) >= 1,
         NEW m, NEW previous, NEW d \in 1..Len(out \o literals),
         ReadsMatch(o \o h \o literals, Len(o) + 1, Len(h), Len(literals),
                    m, d, previous)
  PROVE  Execute(o \o h \o literals, Reader(o, previous, out))
           = Reader(o \o h \o literals, d, Periodic(out \o literals, d, m))
<1> DEFINE s    == o \o h \o literals
           p    == Reader(o, previous, out)
           i    == Len(o) + 1
           kind == Classify(s[i])
<1>1. /\ s \in Seq(Byte)
      /\ Len(s) = Len(o) + Len(h) + Len(literals)
      /\ SubSeq(s, Len(o) + Len(h) + 1, Len(s)) = literals
  BY AppendedBytes
<1>2. /\ kind \in MatchKinds /\ HeaderLen(kind) = Len(h)
      /\ LiteralLen(s, i) = Len(literals) /\ MatchLen(s, i) = m
      /\ MatchDistance(s, i, previous) = d
  BY DEF ReadsMatch
<1>3. kind \notin {"Invalid", "Nop", "Eos"} /\ kind \notin LiteralKinds
  BY <1>2 DEF MatchKinds, LiteralKinds
<1>4. i <= Len(s)
  BY <1>1
<1>5. IsComplete(s, i)
  BY <1>1, <1>2 DEF IsComplete
<1>6. p.position + 1 = i /\ p.out = out /\ p.distance = previous
  BY DEF Reader
<1> HIDE DEF kind
<1>7. /\ i + HeaderLen(kind) = Len(o) + Len(h) + 1
      /\ i + HeaderLen(kind) + LiteralLen(s, i) - 1 = Len(s)
  <2> DEFINE header == HeaderLen(kind)
             run    == LiteralLen(s, i)
  <2>1. header = Len(h) /\ run = Len(literals)
    BY <1>2
  <2>2. Len(o) \in Nat /\ Len(h) \in Nat /\ Len(literals) \in Nat
    OBVIOUS
  <2> HIDE DEF header, run
  <2>3. /\ i + header = Len(o) + Len(h) + 1
        /\ i + header + run - 1 = Len(s)
    BY <1>1, <2>1, <2>2
  <2>4. QED
    BY <2>3 DEF header, run
<1>8. Execute(s, p) = [p EXCEPT !.position = Len(s), !.distance = d,
                                !.out = Periodic(out \o literals, d, m)]
  <2> HIDE DEF i, p
  <2>1. SubSeq(s, i + HeaderLen(kind),
               i + HeaderLen(kind) + LiteralLen(s, i) - 1) = literals
    BY <1>1, <1>7, Zenon
  <2>2. ~(i > Len(s))
    BY <1>1, <1>4 DEF i
  <2>3. Execute(s, p) =
          [p EXCEPT !.position = i + HeaderLen(kind) + LiteralLen(s, i) - 1,
                    !.distance = MatchDistance(s, i, p.distance),
                    !.out = Periodic(p.out \o literals,
                                     MatchDistance(s, i, p.distance),
                                     MatchLen(s, i))]
    BY <1>2, <1>3, <1>5, <1>6, <2>1, <2>2, Zenon DEF Execute, kind
  <2>4. QED
    BY <1>2, <1>6, <1>7, <2>3, Zenon
<1>9. QED
  BY <1>8 DEF Reader

(* A literal instruction appends its literals. *)
LEMMA ExecuteLiterals ==
  ASSUME NEW o \in Seq(Byte), NEW h \in Seq(Byte), NEW literals \in Seq(Byte),
         NEW out \in Seq(Byte), Len(h) >= 1, NEW previous,
         ReadsLiterals(o \o h \o literals, Len(o) + 1, Len(h), Len(literals))
  PROVE  Execute(o \o h \o literals, Reader(o, previous, out))
           = Reader(o \o h \o literals, previous, out \o literals)
<1> DEFINE s    == o \o h \o literals
           p    == Reader(o, previous, out)
           i    == Len(o) + 1
           kind == Classify(s[i])
<1>1. /\ s \in Seq(Byte)
      /\ Len(s) = Len(o) + Len(h) + Len(literals)
      /\ SubSeq(s, Len(o) + Len(h) + 1, Len(s)) = literals
  BY AppendedBytes
<1>2. /\ kind \in LiteralKinds /\ HeaderLen(kind) = Len(h)
      /\ LiteralLen(s, i) = Len(literals)
  BY DEF ReadsLiterals
<1>3. kind \notin {"Invalid", "Nop", "Eos"}
  BY <1>2 DEF LiteralKinds
<1>4. i <= Len(s)
  BY <1>1
<1>5. IsComplete(s, i)
  BY <1>1, <1>2 DEF IsComplete
<1>6. p.position + 1 = i /\ p.out = out /\ p.distance = previous
  BY DEF Reader
<1> HIDE DEF kind
<1>7. /\ i + HeaderLen(kind) = Len(o) + Len(h) + 1
      /\ i + HeaderLen(kind) + LiteralLen(s, i) - 1 = Len(s)
  <2> DEFINE header == HeaderLen(kind)
             run    == LiteralLen(s, i)
  <2>1. header = Len(h) /\ run = Len(literals)
    BY <1>2
  <2>2. Len(o) \in Nat /\ Len(h) \in Nat /\ Len(literals) \in Nat
    OBVIOUS
  <2> HIDE DEF header, run
  <2>3. /\ i + header = Len(o) + Len(h) + 1
        /\ i + header + run - 1 = Len(s)
    BY <1>1, <2>1, <2>2
  <2>4. QED
    BY <2>3 DEF header, run
<1>8. Execute(s, p) = [p EXCEPT !.position = Len(s),
                                !.out = out \o literals]
  <2> HIDE DEF i, p
  <2>1. SubSeq(s, i + HeaderLen(kind),
               i + HeaderLen(kind) + LiteralLen(s, i) - 1) = literals
    BY <1>1, <1>7, Zenon
  <2>2. ~(i > Len(s))
    BY <1>1, <1>4 DEF i
  <2>3. Execute(s, p) =
          [p EXCEPT !.position = i + HeaderLen(kind) + LiteralLen(s, i) - 1,
                    !.out = p.out \o literals]
    BY <1>2, <1>3, <1>5, <1>6, <2>1, <2>2, Zenon DEF Execute, kind
  <2>4. QED
    BY <1>6, <1>7, <2>3, Zenon
<1>9. QED
  BY <1>8 DEF Reader

(* The end marker finishes the stream. *)
LEMMA ExecuteEos ==
  ASSUME NEW o \in Seq(Byte), NEW previous, NEW out
  PROVE  Execute(o \o EOS, Reader(o, previous, out))
           = [Reader(o, previous, out) EXCEPT !.verdict = "Finished"]
<1> DEFINE s    == o \o EOS
           p    == Reader(o, previous, out)
           i    == Len(o) + 1
           tail == SubSeq(s, i + 1, Len(s))
<1>1. /\ EOS \in Seq(Byte) /\ Len(EOS) = 8 /\ EOS[1] = 6
      /\ \A k \in 2..8 : EOS[k] = 0
  BY DEF EOS, Byte
<1>2. /\ s \in Seq(Byte) /\ Len(s) = Len(o) + 8
      /\ \A k \in 1..8 : s[Len(o) + k] = EOS[k]
  <2>1. /\ s \in Seq(Byte) /\ Len(s) = Len(o) + Len(EOS)
        /\ \A k \in 1..Len(EOS) : s[Len(o) + k] = EOS[k]
    BY <1>1, JoinedBytes
  <2>2. QED
    <3> HIDE DEF s
    <3>1. QED
      BY <1>1, <2>1
<1> HIDE DEF s
<1>3. s[i] = 6 /\ i <= Len(s)
  BY <1>1, <1>2
<1>4. Classify(s[i]) = "Eos"
  BY <1>3 DEF Classify
<1>5. /\ Len(tail) = 7
      /\ \A k \in 1..7 : tail[k] = s[i + k]
  <2>1. Len(s) \in 0..Len(s) /\ i \in 0..Len(s)
    BY <1>2
  <2>2. Len(s) - i = 7
    BY <1>2
  <2>3. QED
    BY <1>2, <2>1, <2>2, WindowProperties
<1> HIDE DEF tail
<1>6. \A k \in 1..7 : tail[k] = 0
  <2> SUFFICES ASSUME NEW k \in 1..7 PROVE tail[k] = 0
    OBVIOUS
  <2>1. k + 1 \in 1..8 /\ k + 1 \in 2..8 /\ i + k = Len(o) + (k + 1)
    OBVIOUS
  <2>2. tail[k] = s[i + k]
    BY <1>5
  <2>3. s[Len(o) + (k + 1)] = EOS[k + 1]
    BY <1>2, <2>1
  <2>4. QED
    BY <1>1, <2>1, <2>2, <2>3
<1>7. IsEosPadding(tail)
  BY <1>5, <1>6 DEF IsEosPadding, AllZero, MaxEosPadding
<1>8. p.position + 1 = i
  BY DEF Reader
<1>9. Execute(s, p) = [p EXCEPT !.verdict = "Finished"]
  <2> HIDE DEF i, p
  <2>1. ~(i > Len(s))
    BY <1>2, <1>3 DEF i
  <2>2. Classify(s[i]) # "Invalid" /\ Classify(s[i]) # "Nop"
    BY <1>4
  <2>3. QED
    BY <1>4, <1>7, <1>8, <2>1, <2>2, Zenon DEF Execute, tail
<1>10. QED
  BY <1>9 DEF s
-----------------------------------------------------------------------------
(* The inductive invariant. *)

(* The match being emitted is one: the source repeats it. *)
IsMatch ==
  /\ match.distance \in 1..position
  /\ match.distance <= MAX_DISTANCE
  /\ match.length \in Nat
  /\ MIN_MATCH_LEN <= match.length
  /\ position + match.length <= Len(src)
  /\ Repeats(position, match)

(* How far the instructions are ahead of or behind the search. *)
Progress ==
  /\ pc \in {"search", "literals"} => covered <= position
  /\ pc = "chunks" =>
       /\ position <= covered
       /\ covered < position + match.length
       /\ previous_distance = match.distance
  /\ pc = "enter" => position < covered
  /\ pc = "done" => covered = Len(src)

(* The reader is where the encoder is. *)
InStep ==
  /\ pc # "done" =>
       decoder = Reader(output, previous_distance, SubSeq(src, 1, covered))
  /\ pc = "done" =>
       /\ decoder.verdict = "Finished"
       /\ decoder.distance = previous_distance
       /\ decoder.out = SubSeq(src, 1, covered)

IInv ==
  /\ src \in Seq(Byte)
  /\ output \in Seq(Byte)
  /\ position \in 0..Len(src)
  /\ covered \in 0..Len(src)
  /\ pc \in {"search", "literals", "chunks", "enter", "final", "done"}
  /\ pc \in {"literals", "chunks"} => IsMatch
  /\ Progress
  /\ InStep

(* It holds before the first position, *)
LEMMA InitInvariant == RoundTripInit => IInv
<1> SUFFICES ASSUME RoundTripInit PROVE IInv
  OBVIOUS
<1>1. /\ src \in Seq(Byte) /\ output = << >> /\ position = 0
      /\ previous_distance = 0 /\ covered = 0 /\ pc = "search"
      /\ decoder = Start
  BY RawEncodeAssumption DEF RoundTripInit, Init
<1>2. Len(src) \in Nat /\ output \in Seq(Byte)
  BY <1>1
<1>3. SubSeq(src, 1, 0) = << >>
  BY <1>1, SubSeqEmpty
<1>4. InStep
  BY <1>1, <1>3 DEF InStep, Reader, Start
<1>5. Progress
  BY <1>1 DEF Progress
<1>6. QED
  BY <1>1, <1>2, <1>4, <1>5 DEF IInv

(* and it says what is claimed. *)
LEMMA InvariantImplies == IInv => EmittedDecodes
<1> SUFFICES ASSUME IInv PROVE EmittedDecodes
  OBVIOUS
<1>1. CASE pc = "done"
  BY <1>1 DEF IInv, InStep, Progress, EmittedDecodes
<1>2. CASE pc # "done"
  <2>1. decoder = Reader(output, previous_distance, SubSeq(src, 1, covered))
    BY <1>2 DEF IInv, InStep
  <2>2. QED
    BY <1>2, <2>1 DEF Reader, EmittedDecodes
<1>3. QED
  BY <1>1, <1>2
-----------------------------------------------------------------------------
(* The steps of the search emit nothing. *)

(* What stays as it is when no bytes are emitted. *)
LEMMA QuietStep ==
  ASSUME IInv, src' = src, output' = output, covered' = covered,
         previous_distance' = previous_distance, decoder' = decoder,
         pc # "done", pc' # "done"
  PROVE  InStep'
<1>1. decoder = Reader(output, previous_distance, SubSeq(src, 1, covered))
  BY DEF IInv, InStep
<1>2. decoder' = Reader(output', previous_distance', SubSeq(src', 1, covered'))
  BY <1>1
<1>3. QED
  BY <1>2 DEF InStep

(* A position without a match is passed. *)
LEMMA SkipStep ==
  ASSUME IInv, Skip, decoder' = decoder
  PROVE  IInv'
<1>1. /\ pc = "search" /\ position < Len(src) /\ position' = position + 1
      /\ src' = src /\ output' = output /\ covered' = covered
      /\ previous_distance' = previous_distance /\ pc' = pc
  BY DEF Skip
<1>2. InStep'
  BY <1>1, QuietStep
<1>3. Progress'
  BY <1>1 DEF IInv, Progress
<1>4. QED
  BY <1>1, <1>2, <1>3 DEF IInv

(* What is found, *)
LEMMA FoundMatch ==
  ASSUME FindMatch
  PROVE  /\ ~(Len(src) - position < MIN_MATCH_LEN)
         /\ match' \in [distance : Distances(position),
                        length : MIN_MATCH_LEN..(Len(src) - position)]
         /\ IsLongest(position, match')
         /\ Repeats(position, match')
         /\ IsWorthwhile(match')
<1>1. match' \in Matches(position) /\ IsWorthwhile(match')
  BY DEF FindMatch, Found
<1>2. ~(Len(src) - position < MIN_MATCH_LEN)
  <2>1. CASE Len(src) - position < MIN_MATCH_LEN
    BY <1>1, <2>1, Zenon DEF Matches
  <2>2. QED
    BY <2>1
<1>3. match' \in {m \in [distance : Distances(position),
                          length : MIN_MATCH_LEN..(Len(src) - position)] :
                     IsLongest(position, m) /\ Repeats(position, m)}
  BY <1>1, <1>2, Zenon DEF Matches
<1>4. match' \in [distance : Distances(position),
                  length : MIN_MATCH_LEN..(Len(src) - position)]
  BY <1>3, Zenon
<1>5. IsLongest(position, match') /\ Repeats(position, match')
  BY <1>3, Zenon
<1>6. QED
  BY <1>1, <1>2, <1>4, <1>5

(* is a match. *)
LEMMA FindMatchStep ==
  ASSUME IInv, FindMatch, decoder' = decoder
  PROVE  IInv'
<1>1. /\ pc = "search" /\ position < Len(src) /\ position' = position
      /\ src' = src /\ output' = output /\ covered' = covered
      /\ previous_distance' = previous_distance /\ pc' = "literals"
  BY DEF FindMatch
<1>2. InStep'
  BY <1>1, QuietStep
<1>3. Progress'
  BY <1>1 DEF IInv, Progress
<1>4. /\ match' \in [distance : Distances(position),
                     length : MIN_MATCH_LEN..(Len(src) - position)]
      /\ Repeats(position, match')
  BY FoundMatch
<1>5. /\ match'.distance \in 1..position
      /\ match'.distance <= MAX_DISTANCE
      /\ match'.length \in MIN_MATCH_LEN..(Len(src) - position)
  BY <1>4 DEF Distances
<1>6. Repeats(position, match)'
  BY <1>1, <1>4 DEF Repeats, At
<1>7. IsMatch'
  <2>1. match'.length \in Nat /\ MIN_MATCH_LEN <= match'.length
    BY <1>5 DEF MIN_MATCH_LEN, IInv
  <2>2. position + match'.length <= Len(src)
    BY <1>5 DEF MIN_MATCH_LEN, IInv
  <2>3. QED
    BY <1>1, <1>5, <1>6, <2>1, <2>2 DEF IsMatch, MAX_DISTANCE, MIN_MATCH_LEN
<1>8. QED
  BY <1>1, <1>2, <1>3, <1>7 DEF IInv

(* A position of an emitted match is entered. *)
LEMMA EnterMatchedStep ==
  ASSUME IInv, EnterMatched, decoder' = decoder
  PROVE  IInv'
<1>1. /\ pc = "enter" /\ position' = position + 1
      /\ src' = src /\ output' = output /\ covered' = covered
      /\ previous_distance' = previous_distance
      /\ pc' = IF position + 1 = covered THEN "search" ELSE "enter"
  BY DEF EnterMatched
<1>2. InStep'
  BY <1>1, QuietStep
<1>3. position < covered
  BY <1>1 DEF IInv, Progress
<1>4. Progress'
  BY <1>1, <1>3 DEF IInv, Progress
<1>5. QED
  BY <1>1, <1>2, <1>3, <1>4 DEF IInv

(* The search is over. *)
LEMMA FinishStep ==
  ASSUME IInv, Finish, decoder' = decoder
  PROVE  IInv'
<1>1. /\ pc = "search" /\ position' = position
      /\ src' = src /\ output' = output /\ covered' = covered
      /\ previous_distance' = previous_distance /\ pc' = "final"
  BY DEF Finish
<1>2. InStep'
  BY <1>1, QuietStep
<1>3. Progress'
  BY <1>1 DEF Progress
<1>4. QED
  BY <1>1, <1>2, <1>3 DEF IInv
-----------------------------------------------------------------------------
(* The steps that emit. *)

(* The reader executes what is emitted. *)
Follow ==
  decoder' = IF output' = output THEN decoder ELSE Execute(output', decoder)

(* It executes whatever makes the output longer. *)
LEMMA FollowsGrowth ==
  ASSUME Follow, output \in Seq(Byte),
         NEW n \in Nat, 1 <= n, Len(output') = Len(output) + n
  PROVE  decoder' = Execute(output', decoder)
<1>1. Len(output) \in Nat
  OBVIOUS
<1>2. output' # output
  <2>1. SUFFICES ASSUME output' = output PROVE FALSE
    OBVIOUS
  <2>2. Len(output') = Len(output)
    BY <2>1
  <2>3. QED
    BY <1>1, <2>2
<1>3. QED
  BY <1>2 DEF Follow

(* The running decoder. *)
LEMMA RunningReader ==
  ASSUME IInv, pc # "done"
  PROVE  /\ decoder = Reader(output, previous_distance, SubSeq(src, 1, covered))
         /\ SubSeq(src, 1, covered) \in Seq(Byte)
         /\ Len(SubSeq(src, 1, covered)) = covered
<1>1. src \in Seq(Byte) /\ covered \in 0..Len(src) /\ 0 \in 0..covered
  BY DEF IInv
<1>2. /\ SubSeq(src, 0 + 1, covered) \in Seq(Byte)
      /\ Len(SubSeq(src, 0 + 1, covered)) = covered - 0
  BY <1>1, WindowProperties
<1>3. QED
  BY <1>1, <1>2 DEF IInv, InStep

(* The part of s before b and the next n bytes. *)
LEMMA NextRun ==
  ASSUME NEW s \in Seq(Byte), NEW b \in Nat, NEW n \in Nat, b + n <= Len(s)
  PROVE  /\ SubSeq(s, b + 1, b + n) \in Seq(Byte)
         /\ Len(SubSeq(s, b + 1, b + n)) = n
         /\ SubSeq(s, 1, b) \o SubSeq(s, b + 1, b + n) = SubSeq(s, 1, b + n)
<1>1. /\ b + n \in 0..Len(s) /\ b \in 0..(b + n)
      /\ b + n - b = n
  OBVIOUS
<1>2. /\ SubSeq(s, b + 1, b + n) \in Seq(Byte)
      /\ Len(SubSeq(s, b + 1, b + n)) = b + n - b
  BY <1>1, WindowProperties
<1>3. SubSeq(s, 1, b) \o SubSeq(s, b + 1, b + n) = SubSeq(s, 1, b + n)
  <2>1. /\ 1 \in 1..(Len(s) + 1)
        /\ b \in (1 - 1)..Len(s)
        /\ b + n \in b..Len(s)
    OBVIOUS
  <2>2. QED
    BY <2>1, ConcatAdjacentSubSeq
<1>4. QED
  BY <1>1, <1>2, <1>3

(* One chunk of literals. *)
LEMMA EmitLiteralsStep ==
  ASSUME IInv, EmitLiterals, Follow
  PROVE  IInv'
<1> DEFINE n == ChunkLen(LiteralEnd - covered, MAX_LITERAL_LEN)
           h == LiteralHeader(n)
           run == SubSeq(src, covered + 1, covered + n)
           out == SubSeq(src, 1, covered)
<1>1. /\ pc \in {"literals", "final"} /\ covered < LiteralEnd
      /\ output' = output \o h \o run /\ covered' = covered + n
      /\ src' = src /\ position' = position /\ pc' = pc /\ match' = match
      /\ previous_distance' = previous_distance
  BY DEF EmitLiterals
<1>2. /\ src \in Seq(Byte) /\ output \in Seq(Byte)
      /\ Len(src) \in Nat /\ position \in Nat /\ covered \in Nat
      /\ position <= Len(src)
  BY DEF IInv
<1>3. /\ LiteralEnd \in Nat /\ LiteralEnd <= Len(src)
      /\ pc = "literals" => LiteralEnd <= position
  BY <1>1, <1>2 DEF IInv, Progress, LiteralEnd, MAX_INLINE_LITERAL
<1>4. /\ n \in 1..MAX_LITERAL_LEN
      /\ covered + n <= LiteralEnd
  BY <1>1, <1>2, <1>3 DEF ChunkLen, MAX_LITERAL_LEN
<1> HIDE DEF n
<1>5. n \in Nat /\ n >= 1
  BY <1>4 DEF MAX_LITERAL_LEN
<1>6. covered + n <= Len(src)
  BY <1>2, <1>3, <1>4, <1>5
<1>7. /\ run \in Seq(Byte) /\ Len(run) = n
      /\ out \o run = SubSeq(src, 1, covered + n)
  BY <1>2, <1>5, <1>6, NextRun
<1> HIDE DEF run
<1>8. /\ h \in Seq(Byte) /\ Len(h) = IF n <= 15 THEN 1 ELSE 2
  <2>1. h[1] = LiteralHeader(n)[1] /\ h[1 + 1] = LiteralHeader(n)[2]
    OBVIOUS
  <2>2. QED
    BY <1>4, <2>1, LiteralHeaderRead
<1> DEFINE s == output \o h \o run
           i == Len(output) + 1
<1>9. /\ s \in Seq(Byte)
      /\ \A k \in 1..Len(h) : s[Len(output) + k] = h[k]
  BY <1>2, <1>7, <1>8, AppendedBytes, SMTT(30)
<1> HIDE DEF h, s
<1>10. ReadsLiterals(s, i, Len(h), n)
  <2>1. i \in Nat /\ i + 1 = Len(output) + 2
    BY <1>2
  <2>2. s[i] = h[1]
    BY <1>8, <1>9
  <2>3. n > 15 => s[i + 1] = h[2]
    BY <1>5, <1>8, <1>9, <2>1
  <2>4. QED
    BY <1>4, <2>1, <2>2, <2>3, LiteralHeaderRead DEF h
<1>11. decoder = Reader(output, previous_distance, out) /\ out \in Seq(Byte)
  BY <1>1, RunningReader
<1> HIDE DEF out
<1>12. Execute(s, Reader(output, previous_distance, out))
         = Reader(s, previous_distance, out \o run)
  <2>1. Len(h) >= 1
    BY <1>5, <1>8
  <2>2. ReadsLiterals(output \o h \o run, Len(output) + 1, Len(h), Len(run))
    BY <1>7, <1>10 DEF s
  <2>3. /\ output \in Seq(Byte) /\ h \in Seq(Byte) /\ run \in Seq(Byte)
        /\ out \in Seq(Byte)
    BY <1>2, <1>7, <1>8, <1>11
  <2>4. QED
    BY <2>1, <2>2, <2>3, ExecuteLiterals DEF s
<1>13. output' = s
  BY <1>1 DEF s
<1>14. decoder' = Reader(output', previous_distance', SubSeq(src', 1, covered'))
  <2>1. Len(s) = Len(output) + Len(h) + Len(run)
    BY <1>2, <1>7, <1>8, AppendedLen DEF s
  <2>2. /\ Len(s) = Len(output) + (Len(h) + n)
        /\ Len(h) + n \in Nat /\ 1 <= Len(h) + n
    BY <1>2, <1>5, <1>7, <1>8, <2>1
  <2>3. decoder' = Execute(output', decoder)
    BY <1>2, <1>5, <1>8, <1>13, <2>2, FollowsGrowth
  <2>4. QED
    BY <1>1, <1>7, <1>11, <1>12, <1>13, <2>3 DEF out
<1>15. InStep'
  BY <1>1, <1>14 DEF InStep
<1>16. covered' \in 0..Len(src') /\ (pc' = "literals" => covered' <= position')
  BY <1>1, <1>2, <1>3, <1>4, <1>5
<1>17. Progress'
  BY <1>1, <1>16 DEF Progress
<1>18. pc' \in {"literals", "chunks"} => IsMatch'
  BY <1>1 DEF IInv, IsMatch, Repeats, At
<1>19. QED
  BY <1>1, <1>2, <1>9, <1>13, <1>15, <1>16, <1>17, <1>18 DEF IInv

(* What is known where a header is emitted. *)
LEMMA HeaderState ==
  ASSUME IInv, AtHeader
  PROVE  /\ src \in Seq(Byte) /\ output \in Seq(Byte)
         /\ Len(src) \in Nat /\ position \in Nat /\ covered \in Nat
         /\ position <= Len(src) /\ covered + InlineLen = position
         /\ InlineLen \in 0..3 /\ InlineLen \in Nat
         /\ match.distance \in Nat /\ 1 <= match.distance
         /\ match.distance <= MAX_DISTANCE
         /\ match.length \in Nat /\ 3 <= match.length
         /\ IsMatch
<1>1. /\ pc = "literals" /\ covered >= LiteralEnd /\ covered <= position
      /\ IsMatch
  BY DEF AtHeader, IInv, Progress
<1>2. /\ src \in Seq(Byte) /\ output \in Seq(Byte)
      /\ Len(src) \in Nat /\ position \in Nat /\ covered \in Nat
      /\ position <= Len(src)
  BY DEF IInv
<1>3. position - covered <= 3
  BY <1>1, <1>2 DEF LiteralEnd, MAX_INLINE_LITERAL
<1>4. /\ match.distance \in Nat /\ 1 <= match.distance
      /\ match.distance <= MAX_DISTANCE
      /\ match.length \in Nat /\ 3 <= match.length
  BY <1>1, <1>2 DEF IsMatch, MAX_DISTANCE, MIN_MATCH_LEN
<1>5. QED
  BY <1>1, <1>2, <1>3, <1>4 DEF InlineLen

(* The first instruction of a match, whatever its kind. *)
LEMMA EmitHeaderStep ==
  ASSUME IInv, AtHeader, NEW header \in Seq(Byte), Len(header) >= 1,
         NEW length \in Nat, 1 <= length, length <= match.length,
         EmitHeader(header, length), Follow,
         ReadsMatch(output \o header \o SubSeq(src, covered + 1, position),
                    Len(output) + 1, Len(header), InlineLen,
                    length, match.distance, previous_distance)
  PROVE  IInv'
<1> DEFINE run  == SubSeq(src, covered + 1, position)
           out  == SubSeq(src, 1, covered)
           seen == SubSeq(src, 1, position)
           s    == output \o header \o run
<1>1. /\ src \in Seq(Byte) /\ output \in Seq(Byte)
      /\ Len(src) \in Nat /\ position \in Nat /\ covered \in Nat
      /\ position <= Len(src) /\ covered + InlineLen = position
      /\ InlineLen \in 0..3 /\ InlineLen \in Nat
      /\ IsMatch
  BY HeaderState
<1>2. /\ match.distance \in 1..position /\ match.length \in Nat
      /\ position + match.length <= Len(src)
      /\ Repeats(position, match)
  BY <1>1 DEF IsMatch
<1>3. /\ output' = s /\ covered' = position + length /\ src' = src
      /\ position' = position /\ match' = match
      /\ previous_distance' = match.distance
      /\ pc' = IF length = match.length THEN "enter" ELSE "chunks"
  BY DEF EmitHeader
<1>4. run \in Seq(Byte) /\ Len(run) = InlineLen /\ out \o run = seen
  BY <1>1, NextRun
<1>5. /\ decoder = Reader(output, previous_distance, out)
      /\ out \in Seq(Byte)
  BY RunningReader DEF AtHeader
<1>6. seen \in Seq(Byte) /\ Len(seen) = position
  <2>1. position \in 0..Len(src) /\ 1 \in 1..(Len(src) + 1)
        /\ position \in (1 - 1)..Len(src) /\ position - 1 + 1 = position
    BY <1>1
  <2>2. QED
    BY <1>1, <2>1, RunProperties
<1>7. s \in Seq(Byte)
  BY <1>1, <1>4, AppendedBytes
<1>8. Periodic(seen, match.distance, length)
        = SubSeq(src, 1, position + length)
  <2>1. /\ position + length <= Len(src)
        /\ \A k \in 0..(length - 1) :
             src[position + k + 1] = src[position + k - match.distance + 1]
    BY <1>1, <1>2, SMTT(30) DEF Repeats, At
  <2>2. PICK distance \in 1..position : distance = match.distance
    BY <1>2, Zenon
  <2>3. /\ position + length <= Len(src)
        /\ \A k \in 0..(length - 1) :
             src[position + k + 1] = src[position + k - distance + 1]
    BY <2>1, <2>2, Zenon
  <2>4. src \in Seq(Byte) /\ position \in Nat
    BY <1>1, Zenon
  <2>5. Periodic(SubSeq(src, 1, position), distance, length)
          = SubSeq(src, 1, position + length)
    BY <2>3, <2>4, MatchContinues
  <2>6. QED
    BY <2>2, <2>5, Zenon DEF seen
<1> HIDE DEF run, out, seen
<1>9. Execute(s, Reader(output, previous_distance, out))
        = Reader(s, match.distance,
                 Periodic(out \o run, match.distance, length))
  <2>1. ReadsMatch(output \o header \o run, Len(output) + 1, Len(header),
                   Len(run), length, match.distance, previous_distance)
    BY <1>4 DEF run
  <2>2. /\ output \in Seq(Byte) /\ run \in Seq(Byte) /\ out \in Seq(Byte)
        /\ match.distance \in 1..Len(out \o run)
    BY <1>1, <1>2, <1>4, <1>5, <1>6
  <2>3. QED
    BY <2>1, <2>2, ExecuteMatch
<1> HIDE DEF s
<1>10. decoder' = Reader(output', previous_distance', SubSeq(src', 1, covered'))
  <2>1. Len(s) = Len(output) + Len(header) + Len(run)
    <3>1. output \in Seq(Byte) /\ run \in Seq(Byte)
      BY <1>1, <1>4
    <3>2. QED
      BY <3>1, AppendedLen DEF s
  <2>2. /\ Len(s) = Len(output) + (Len(header) + InlineLen)
        /\ Len(header) + InlineLen \in Nat /\ 1 <= Len(header) + InlineLen
    BY <1>1, <1>4, <2>1
  <2>3. decoder' = Execute(output', decoder)
    BY <1>1, <1>3, <2>2, FollowsGrowth
  <2>4. QED
    BY <1>3, <1>4, <1>5, <1>8, <1>9, <2>3
<1>11. InStep'
  BY <1>3, <1>10 DEF InStep
<1>12. /\ covered' \in 0..Len(src') /\ position' < covered'
       /\ pc' = "chunks" => covered' < position' + match'.length
  BY <1>1, <1>2, <1>3
<1>13. Progress'
  BY <1>1, <1>3, <1>12 DEF Progress
<1>14. IsMatch'
  BY <1>1, <1>3 DEF IsMatch, Repeats, At
<1>15. QED
  BY <1>1, <1>3, <1>7, <1>11, <1>12, <1>13, <1>14 DEF IInv

(* How long the match of a short header is. *)
LEMMA ShortLengthType ==
  ASSUME IInv, AtHeader
  PROVE  /\ ShortLength \in 3..max_short_match(InlineLen)
         /\ ShortLength \in Nat /\ 1 <= ShortLength
         /\ ShortLength <= match.length
<1>1. InlineLen \in 0..3 /\ match.length \in Nat /\ 3 <= match.length
  BY HeaderState DEF IsMatch, MIN_MATCH_LEN
<1>2. /\ max_short_match(InlineLen) \in Nat
      /\ 3 <= max_short_match(InlineLen)
  BY <1>1 DEF max_short_match
<1>3. QED
  BY <1>1, <1>2 DEF ShortLength, ChunkLen

(* The bytes of the headers. *)
LEMMA SmallDistanceBytes ==
  ASSUME NEW n \in 0..3, NEW m \in 3..max_short_match(n),
         NEW d \in 1..(MAX_SHORT_DISTANCE - 1)
  PROVE  SmallDistance(n, m, d) \in Seq(Byte) /\ Len(SmallDistance(n, m, d)) = 2
<1> DEFINE h == SmallDistance(n, m, d)
<1>1. /\ h[1] = SmallDistance(n, m, d)[1]
      /\ h[1 + 1] = SmallDistance(n, m, d)[2]
  OBVIOUS
<1>2. 1 \in Nat
  OBVIOUS
<1> HIDE DEF h
<1>3. QED
  BY <1>1, <1>2, SmallDistanceRead

LEMMA LargeDistanceBytes ==
  ASSUME NEW n \in 0..3, NEW m \in 3..max_short_match(n),
         NEW d \in 1..MAX_DISTANCE
  PROVE  LargeDistance(n, m, d) \in Seq(Byte) /\ Len(LargeDistance(n, m, d)) = 3
<1> DEFINE h == LargeDistance(n, m, d)
<1>1. /\ h[1] = LargeDistance(n, m, d)[1]
      /\ h[1 + 1] = LargeDistance(n, m, d)[2]
      /\ h[1 + 2] = LargeDistance(n, m, d)[3]
  OBVIOUS
<1>2. 1 \in Nat
  OBVIOUS
<1> HIDE DEF h
<1>3. QED
  BY <1>1, <1>2, LargeDistanceRead

LEMMA MediumDistanceBytes ==
  ASSUME NEW n \in 0..3, NEW m \in 3..MAX_MEDIUM_MATCH,
         NEW d \in 1..MAX_MEDIUM_DISTANCE
  PROVE  MediumDistance(n, m, d) \in Seq(Byte) /\ Len(MediumDistance(n, m, d)) = 3
<1> DEFINE h == MediumDistance(n, m, d)
<1>1. /\ h[1] = MediumDistance(n, m, d)[1]
      /\ h[1 + 1] = MediumDistance(n, m, d)[2]
      /\ h[1 + 2] = MediumDistance(n, m, d)[3]
  OBVIOUS
<1>2. 1 \in Nat
  OBVIOUS
<1> HIDE DEF h
<1>3. QED
  BY <1>1, <1>2, MediumDistanceRead

LEMMA PreviousDistanceBytes ==
  ASSUME NEW n \in 1..3, NEW m \in 3..max_short_match(n)
  PROVE  PreviousDistance(n, m) \in Seq(Byte) /\ Len(PreviousDistance(n, m)) = 1
<1> DEFINE h == PreviousDistance(n, m)
<1>1. /\ h[1] = PreviousDistance(n, m)[1]
  OBVIOUS
<1>2. 1 \in Nat
  OBVIOUS
<1> HIDE DEF h
<1>3. QED
  BY <1>1, <1>2, PreviousDistanceRead

(* The distances and lengths that the headers can hold. *)
LEMMA FieldTypes ==
  ASSUME NEW d \in Nat, 1 <= d, NEW m \in Nat, 3 <= m
  PROVE  /\ d < MAX_SHORT_DISTANCE => d \in 1..(MAX_SHORT_DISTANCE - 1)
         /\ d <= MAX_MEDIUM_DISTANCE => d \in 1..MAX_MEDIUM_DISTANCE
         /\ d <= MAX_DISTANCE => d \in 1..MAX_DISTANCE
         /\ ChunkLen(m, MAX_MEDIUM_MATCH) \in 3..MAX_MEDIUM_MATCH
         /\ ChunkLen(m, MAX_MEDIUM_MATCH) \in Nat
         /\ 1 <= ChunkLen(m, MAX_MEDIUM_MATCH)
         /\ ChunkLen(m, MAX_MEDIUM_MATCH) <= m
<1>1. d < MAX_SHORT_DISTANCE => d \in 1..(MAX_SHORT_DISTANCE - 1)
  BY DEF MAX_SHORT_DISTANCE
<1> DEFINE Within(k) == d <= k => d \in 1..k
<1>a. \A k \in Nat : Within(k)
  OBVIOUS
<1> HIDE DEF Within
<1>b. MAX_MEDIUM_DISTANCE \in Nat /\ MAX_DISTANCE \in Nat
  BY DEF MAX_MEDIUM_DISTANCE, MAX_DISTANCE
<1>c. Within(MAX_MEDIUM_DISTANCE) /\ Within(MAX_DISTANCE)
  BY <1>a, <1>b, Zenon
<1>2. d <= MAX_MEDIUM_DISTANCE => d \in 1..MAX_MEDIUM_DISTANCE
  BY <1>c, Zenon DEF Within
<1>3. d <= MAX_DISTANCE => d \in 1..MAX_DISTANCE
  BY <1>c, Zenon DEF Within
<1>4. /\ ChunkLen(m, MAX_MEDIUM_MATCH) \in 3..MAX_MEDIUM_MATCH
      /\ ChunkLen(m, MAX_MEDIUM_MATCH) \in Nat
      /\ 1 <= ChunkLen(m, MAX_MEDIUM_MATCH)
      /\ ChunkLen(m, MAX_MEDIUM_MATCH) <= m
  BY DEF ChunkLen, MAX_MEDIUM_MATCH
<1>5. QED
  BY <1>1, <1>2, <1>3, <1>4

(* Where the bytes of a header are when it was appended. *)
LEMMA AppendedHeader ==
  ASSUME IInv, AtHeader, NEW h \in Seq(Byte), NEW s,
         s = output \o h \o SubSeq(src, covered + 1, position)
  PROVE  /\ \A k \in 1..Len(h) : s[Len(output) + k] = h[k]
         /\ Len(s) = Len(output) + Len(h) + InlineLen
<1> DEFINE run == SubSeq(src, covered + 1, position)
<1>1. /\ src \in Seq(Byte) /\ output \in Seq(Byte)
      /\ covered \in Nat /\ InlineLen \in Nat
      /\ covered + InlineLen = position /\ position <= Len(src)
  BY HeaderState
<1>2. run \in Seq(Byte) /\ Len(run) = InlineLen
  BY <1>1, NextRun
<1> HIDE DEF run
<1>3. s = output \o h \o run
  BY DEF run
<1>4. \A k \in 1..Len(h) : s[Len(output) + k] = h[k]
  BY <1>1, <1>2, <1>3, AppendedBytes
<1>5. Len(s) = Len(output) + Len(h) + InlineLen
  <2>1. Len(output \o h \o run) = Len(output) + Len(h) + Len(run)
    BY <1>1, <1>2, AppendedLen
  <2>2. QED
    BY <1>2, <1>3, <2>1, Zenon
<1>6. QED
  BY <1>4, <1>5

(* A match at a small distance, *)
LEMMA EmitSmallDistanceStep ==
  ASSUME IInv, EmitSmallDistance, Follow
  PROVE  IInv'
<1> DEFINE length == ShortLength
           h      == SmallDistance(InlineLen, length, match.distance)
           s      == output \o h \o SubSeq(src, covered + 1, position)
           i      == Len(output) + 1
<1>1. /\ AtHeader /\ EmitHeader(h, length)
      /\ match.distance < MAX_SHORT_DISTANCE
  BY DEF EmitSmallDistance
<1>2. /\ output \in Seq(Byte) /\ InlineLen \in 0..3
      /\ match.distance \in Nat /\ 1 <= match.distance
      /\ match.distance <= MAX_DISTANCE
      /\ match.length \in Nat /\ 3 <= match.length
  BY <1>1, HeaderState
<1>3. match.distance \in 1..(MAX_SHORT_DISTANCE - 1)
  BY <1>1, <1>2, FieldTypes
<1>4. /\ length \in 3..max_short_match(InlineLen)
      /\ length \in Nat /\ 1 <= length /\ length <= match.length
  BY <1>1, ShortLengthType
<1> HIDE DEF length
<1>5. h \in Seq(Byte) /\ Len(h) = 2
  BY <1>2, <1>3, <1>4, SmallDistanceBytes
<1> HIDE DEF h
<1>6. \A k \in 1..Len(h) : s[Len(output) + k] = h[k]
  BY <1>1, <1>5, AppendedHeader
<1> HIDE DEF s
<1>7. i \in Nat /\ s[i] = h[1] /\ s[i + 1] = h[2]
  BY <1>2, <1>5, <1>6
<1>8. ReadsMatch(s, i, 2, InlineLen, length, match.distance,
                 previous_distance)
  <2>1. /\ s[i] = SmallDistance(InlineLen, length, match.distance)[1]
        /\ s[i + 1] = SmallDistance(InlineLen, length, match.distance)[2]
    BY <1>7, Zenon DEF h
  <2>2. QED
    BY <1>2, <1>3, <1>4, <1>7, <2>1, SmallDistanceRead
<1>9. ReadsMatch(output \o h \o SubSeq(src, covered + 1, position),
                 Len(output) + 1, Len(h), InlineLen,
                 length, match.distance, previous_distance)
  BY <1>5, <1>8 DEF s
<1>10. Len(h) >= 1 /\ EmitHeader(h, length)
  BY <1>1, <1>5
<1>11. QED
  BY <1>1, <1>4, <1>5, <1>9, <1>10, EmitHeaderStep

(* at a large one, *)
LEMMA EmitLargeDistanceStep ==
  ASSUME IInv, EmitLargeDistance, Follow
  PROVE  IInv'
<1> DEFINE length == ShortLength
           h      == LargeDistance(InlineLen, length, match.distance)
           s      == output \o h \o SubSeq(src, covered + 1, position)
           i      == Len(output) + 1
<1>1. AtHeader /\ EmitHeader(h, length)
  BY DEF EmitLargeDistance
<1>2. /\ output \in Seq(Byte) /\ InlineLen \in 0..3
      /\ match.distance \in Nat /\ 1 <= match.distance
      /\ match.distance <= MAX_DISTANCE
      /\ match.length \in Nat /\ 3 <= match.length
  BY <1>1, HeaderState
<1>3. match.distance \in 1..MAX_DISTANCE
  BY <1>1, <1>2, FieldTypes
<1>4. /\ length \in 3..max_short_match(InlineLen)
      /\ length \in Nat /\ 1 <= length /\ length <= match.length
  BY <1>1, ShortLengthType
<1> HIDE DEF length
<1>5. h \in Seq(Byte) /\ Len(h) = 3
  BY <1>2, <1>3, <1>4, LargeDistanceBytes
<1> HIDE DEF h
<1>6. \A k \in 1..Len(h) : s[Len(output) + k] = h[k]
  BY <1>1, <1>5, AppendedHeader
<1> HIDE DEF s
<1>7. i \in Nat /\ s[i] = h[1] /\ s[i + 1] = h[2] /\ s[i + 2] = h[3]
  BY <1>2, <1>5, <1>6
<1>8. ReadsMatch(s, i, 3, InlineLen, length, match.distance,
                 previous_distance)
  <2>1. /\ s[i] = LargeDistance(InlineLen, length, match.distance)[1]
        /\ s[i + 1] = LargeDistance(InlineLen, length, match.distance)[2]
        /\ s[i + 2] = LargeDistance(InlineLen, length, match.distance)[3]
    BY <1>7, Zenon DEF h
  <2>2. QED
    BY <1>2, <1>3, <1>4, <1>7, <2>1, LargeDistanceRead
<1>9. ReadsMatch(output \o h \o SubSeq(src, covered + 1, position),
                 Len(output) + 1, Len(h), InlineLen,
                 length, match.distance, previous_distance)
  BY <1>5, <1>8 DEF s
<1>10. Len(h) >= 1 /\ EmitHeader(h, length)
  BY <1>1, <1>5
<1>11. QED
  BY <1>1, <1>4, <1>5, <1>9, <1>10, EmitHeaderStep

(* and a longer one at a medium distance. *)
LEMMA EmitMediumDistanceStep ==
  ASSUME IInv, EmitMediumDistance, Follow
  PROVE  IInv'
<1> DEFINE length == ChunkLen(match.length, MAX_MEDIUM_MATCH)
           h      == MediumDistance(InlineLen, length, match.distance)
           s      == output \o h \o SubSeq(src, covered + 1, position)
           i      == Len(output) + 1
<1>1. /\ AtHeader /\ EmitHeader(h, length)
      /\ match.distance <= MAX_MEDIUM_DISTANCE
  BY DEF EmitMediumDistance, FitsMedium
<1>2. /\ output \in Seq(Byte) /\ InlineLen \in 0..3
      /\ match.distance \in Nat /\ 1 <= match.distance
      /\ match.distance <= MAX_DISTANCE
      /\ match.length \in Nat /\ 3 <= match.length
  BY <1>1, HeaderState
<1>3. match.distance \in 1..MAX_MEDIUM_DISTANCE
  BY <1>1, <1>2, FieldTypes
<1>4. /\ length \in 3..MAX_MEDIUM_MATCH
      /\ length \in Nat /\ 1 <= length /\ length <= match.length
  BY <1>1, <1>2, FieldTypes
<1> HIDE DEF length
<1>5. h \in Seq(Byte) /\ Len(h) = 3
  BY <1>2, <1>3, <1>4, MediumDistanceBytes
<1> HIDE DEF h
<1>6. \A k \in 1..Len(h) : s[Len(output) + k] = h[k]
  BY <1>1, <1>5, AppendedHeader
<1> HIDE DEF s
<1>7. i \in Nat /\ s[i] = h[1] /\ s[i + 1] = h[2] /\ s[i + 2] = h[3]
  BY <1>2, <1>5, <1>6
<1>8. ReadsMatch(s, i, 3, InlineLen, length, match.distance,
                 previous_distance)
  <2>1. /\ s[i] = MediumDistance(InlineLen, length, match.distance)[1]
        /\ s[i + 1] = MediumDistance(InlineLen, length, match.distance)[2]
        /\ s[i + 2] = MediumDistance(InlineLen, length, match.distance)[3]
    BY <1>7, Zenon DEF h
  <2>2. QED
    BY <1>2, <1>3, <1>4, <1>7, <2>1, MediumDistanceRead
<1>9. ReadsMatch(output \o h \o SubSeq(src, covered + 1, position),
                 Len(output) + 1, Len(h), InlineLen,
                 length, match.distance, previous_distance)
  BY <1>5, <1>8 DEF s
<1>10. Len(h) >= 1 /\ EmitHeader(h, length)
  BY <1>1, <1>5
<1>11. QED
  BY <1>1, <1>4, <1>5, <1>9, <1>10, EmitHeaderStep

(* A match at the distance of the last one: a header only where literals   *)
(* are left.                                                               *)
LEMMA EmitPreviousDistanceStep ==
  ASSUME IInv, EmitPreviousDistance, Follow
  PROVE  IInv'
<1>1. AtHeader /\ match.distance = previous_distance
  BY DEF EmitPreviousDistance
<1>2. /\ src \in Seq(Byte) /\ output \in Seq(Byte)
      /\ Len(src) \in Nat /\ position \in Nat /\ covered \in Nat
      /\ position <= Len(src) /\ covered + InlineLen = position
      /\ InlineLen \in 0..3 /\ InlineLen \in Nat
      /\ match.length \in Nat /\ 3 <= match.length
      /\ IsMatch
  BY <1>1, HeaderState
<1>3. CASE InlineLen = 0
  <2>1. EmitHeader(<< >>, 0)
    BY <1>3 DEF EmitPreviousDistance
  <2>2. covered = position
    BY <1>2, <1>3
  <2>3. SubSeq(src, covered + 1, position) = << >>
    BY <1>2, <2>2, SubSeqEmpty
  <2>4. output' = output
    BY <1>2, <2>1, <2>3, ConcatEmptySeq DEF EmitHeader
  <2>5. /\ covered' = covered /\ src' = src /\ position' = position
        /\ match' = match /\ previous_distance' = previous_distance
        /\ pc' = "chunks" /\ decoder' = decoder
    BY <1>1, <1>2, <2>1, <2>2, <2>4 DEF EmitHeader, Follow
  <2>6. InStep'
    BY <1>1, <2>4, <2>5, QuietStep DEF AtHeader
  <2>7. Progress'
    BY <1>1, <1>2, <2>2, <2>5 DEF Progress
  <2>8. IsMatch'
    BY <1>2, <2>5 DEF IsMatch, Repeats, At
  <2>9. QED
    BY <1>2, <2>4, <2>5, <2>6, <2>7, <2>8 DEF IInv
<1>4. CASE InlineLen # 0
  <2> DEFINE length == ShortLength
             h      == PreviousDistance(InlineLen, length)
             s      == output \o h \o SubSeq(src, covered + 1, position)
             i      == Len(output) + 1
  <2>1. EmitHeader(h, length)
    BY <1>4 DEF EmitPreviousDistance
  <2>2. InlineLen \in 1..3
    BY <1>2, <1>4
  <2>3. /\ length \in 3..max_short_match(InlineLen)
        /\ length \in Nat /\ 1 <= length /\ length <= match.length
    BY <1>1, ShortLengthType
  <2> HIDE DEF length
  <2>4. h \in Seq(Byte) /\ Len(h) = 1
    BY <2>2, <2>3, PreviousDistanceBytes
  <2> HIDE DEF h
  <2>5. \A k \in 1..Len(h) : s[Len(output) + k] = h[k]
    BY <1>1, <2>4, AppendedHeader
  <2> HIDE DEF s
  <2>6. i \in Nat /\ s[i] = h[1]
    BY <1>2, <2>4, <2>5
  <2>7. ReadsMatch(s, i, 1, InlineLen, length, match.distance,
                    previous_distance)
    <3>1. s[i] = PreviousDistance(InlineLen, length)[1]
      BY <2>6, Zenon DEF h
    <3>2. QED
      BY <1>1, <2>2, <2>3, <2>6, <3>1, PreviousDistanceRead
  <2>8. ReadsMatch(output \o h \o SubSeq(src, covered + 1, position),
                    Len(output) + 1, Len(h), InlineLen,
                    length, match.distance, previous_distance)
    BY <2>4, <2>7 DEF s
  <2>9. Len(h) >= 1
    BY <2>4
  <2>10. QED
    BY <1>1, <2>1, <2>3, <2>4, <2>8, <2>9, EmitHeaderStep
<1>5. QED
  BY <1>3, <1>4

(* One chunk of the rest of a match. *)
LEMMA EmitMatchChunkStep ==
  ASSUME IInv, EmitMatchChunk, Follow
  PROVE  IInv'
<1> DEFINE left == position + match.length - covered
           n    == ChunkLen(left, MAX_MATCH_LEN)
           h    == MatchHeader(n)
           out  == SubSeq(src, 1, covered)
           d    == match.distance
           i    == Len(output) + 1
<1>1. /\ pc = "chunks" /\ output' = output \o h /\ covered' = covered + n
      /\ pc' = IF n = left THEN "enter" ELSE "chunks"
      /\ src' = src /\ position' = position /\ match' = match
      /\ previous_distance' = previous_distance
  BY DEF EmitMatchChunk
<1>2. /\ src \in Seq(Byte) /\ output \in Seq(Byte)
      /\ Len(src) \in Nat /\ position \in Nat /\ covered \in Nat
      /\ position <= covered /\ covered < position + match.length
      /\ previous_distance = d /\ IsMatch
  BY <1>1 DEF IInv, Progress
<1>3. /\ d \in 1..position /\ match.length \in Nat
      /\ position + match.length <= Len(src)
      /\ Repeats(position, match)
  BY <1>2 DEF IsMatch
<1>4. left \in Nat /\ 1 <= left /\ covered + left = position + match.length
  BY <1>2, <1>3
<1> HIDE DEF left
<1>5. n \in 1..MAX_MATCH_LEN /\ n \in Nat /\ 1 <= n /\ n <= left
  BY <1>4 DEF ChunkLen, MAX_MATCH_LEN
<1> HIDE DEF n
<1>6. /\ h \in Seq(Byte) /\ Len(h) = IF n <= 15 THEN 1 ELSE 2
  <2>1. h[1] = MatchHeader(n)[1] /\ h[1 + 1] = MatchHeader(n)[2]
    OBVIOUS
  <2>2. QED
    BY <1>5, <2>1, MatchHeaderRead
<1> HIDE DEF h
<1> DEFINE s == output \o h \o << >>
<1>7. /\ s = output \o h /\ s \in Seq(Byte)
      /\ \A k \in 1..Len(h) : s[Len(output) + k] = h[k]
  <2>1. output \o h \in Seq(Byte)
    BY <1>2, <1>6
  <2>2. s = output \o h
    BY <2>1, ConcatEmptySeq
  <2>3. << >> \in Seq(Byte)
    OBVIOUS
  <2>4. QED
    BY <1>2, <1>6, <2>2, <2>3, AppendedBytes
<1> HIDE DEF s
<1>8. ReadsMatch(s, i, Len(h), 0, n, d, d)
  <2>1. i \in Nat /\ i + 1 = Len(output) + 2
    BY <1>2
  <2>2. s[i] = h[1]
    BY <1>6, <1>7
  <2>3. n > 15 => s[i + 1] = h[2]
    BY <1>5, <1>6, <1>7, <2>1
  <2>4. QED
    BY <1>5, <2>1, <2>2, <2>3, MatchHeaderRead DEF h
<1>9. /\ decoder = Reader(output, d, out)
      /\ out \in Seq(Byte) /\ Len(out) = covered
  BY <1>1, <1>2, RunningReader
<1>10. Periodic(out, d, n) = SubSeq(src, 1, covered + n)
  <2>1. covered + n <= Len(src) /\ d \in 1..covered
    BY <1>2, <1>3, <1>4, <1>5
  <2>2. ASSUME NEW k \in 0..(n - 1)
        PROVE  src[covered + k + 1] = src[covered + k - d + 1]
    <3>1. PICK j \in 0..(match.length - 1) : position + j = covered + k
      <4>1. /\ covered + k - position \in 0..(match.length - 1)
            /\ position + (covered + k - position) = covered + k
        BY <1>2, <1>3, <1>4, <1>5
      <4>2. QED
        BY <4>1
    <3>2. src[position + j + 1] = src[position + j - d + 1]
      BY <1>3 DEF Repeats, At
    <3>3. /\ covered + k + 1 = position + j + 1
          /\ covered + k - d + 1 = position + j - d + 1
      <4>1. /\ covered \in Nat /\ k \in Int /\ position \in Nat
            /\ j \in Int /\ d \in Int
        BY <1>2, <1>3
      <4> HIDE DEF d
      <4>2. QED
        BY <3>1, <4>1
    <3>4. QED
      BY <3>2, <3>3
  <2>3. QED
    BY <1>2, <1>5, <2>1, <2>2, MatchContinues
<1> HIDE DEF out
<1>11. Execute(s, Reader(output, d, out)) = Reader(s, d, Periodic(out, d, n))
  <2>1. PICK none \in Seq(Byte) : none = << >> /\ Len(none) = 0
    <3>1. << >> \in Seq(Byte) /\ Len(<< >>) = 0
      BY EmptySeq
    <3>2. QED
      BY <3>1, Zenon
  <2>2. out \o none = out /\ s = output \o h \o none
    BY <1>9, <2>1, ConcatEmptySeq DEF s
  <2>3. d \in 1..Len(out \o none) /\ Len(h) >= 1
    BY <1>2, <1>3, <1>5, <1>6, <1>9, <2>2
  <2>4. ReadsMatch(output \o h \o none, Len(output) + 1, Len(h),
                   Len(none), n, d, d)
    BY <1>8, <2>1, <2>2
  <2> HIDE DEF d
  <2>5. Execute(output \o h \o none, Reader(output, d, out))
          = Reader(output \o h \o none, d, Periodic(out \o none, d, n))
    <3>1. output \in Seq(Byte) /\ h \in Seq(Byte) /\ out \in Seq(Byte)
      BY <1>2, <1>6, <1>9
    <3>2. QED
      BY <2>3, <2>4, <3>1, ExecuteMatch
  <2>6. QED
    BY <2>2, <2>5
<1>12. decoder' = Reader(output', previous_distance', SubSeq(src', 1, covered'))
  <2>1. Len(output \o h) = Len(output) + Len(h)
    BY <1>2, <1>6, JoinedBytes
  <2>2. Len(h) \in Nat /\ 1 <= Len(h)
    BY <1>5, <1>6
  <2>3. decoder' = Execute(output', decoder)
    BY <1>1, <1>2, <2>1, <2>2, FollowsGrowth
  <2>4. QED
    BY <1>1, <1>2, <1>7, <1>9, <1>10, <1>11, <2>3
<1>13. InStep'
  BY <1>1, <1>12 DEF InStep
<1>14. /\ covered' \in 0..Len(src') /\ position' < covered'
       /\ position' <= covered'
       /\ n # left => covered' < position' + match'.length
  BY <1>1, <1>2, <1>3, <1>4, <1>5
<1>15. Progress'
  BY <1>1, <1>2, <1>14 DEF Progress
<1>16. IsMatch'
  BY <1>1, <1>2 DEF IsMatch, Repeats, At
<1>17. output' \in Seq(Byte)
  BY <1>1, <1>7
<1>18. QED
  BY <1>1, <1>2, <1>13, <1>14, <1>15, <1>16, <1>17 DEF IInv

(* The end marker. *)
LEMMA EmitEosStep ==
  ASSUME IInv, EmitEos, Follow
  PROVE  IInv'
<1>1. /\ pc = "final" /\ covered = Len(src) /\ output' = output \o EOS
      /\ pc' = "done" /\ src' = src /\ position' = position
      /\ covered' = covered /\ match' = match
      /\ previous_distance' = previous_distance
  BY DEF EmitEos
<1>2. output \in Seq(Byte) /\ EOS \in Seq(Byte)
  BY DEF IInv, EOS, Byte
<1>3. output' \in Seq(Byte)
  BY <1>1, <1>2
<1>4. decoder = Reader(output, previous_distance, SubSeq(src, 1, covered))
  BY <1>1, RunningReader
<1>5. decoder' = [Reader(output, previous_distance, SubSeq(src, 1, covered))
                    EXCEPT !.verdict = "Finished"]
  <2>1. Len(output \o EOS) = Len(output) + Len(EOS)
    BY <1>2, JoinedBytes
  <2>2. Len(EOS) = 8
    BY DEF EOS
  <2>3. Len(output') = Len(output) + 8
    BY <1>1, <2>1, <2>2
  <2>4. decoder' = Execute(output', decoder)
    BY <1>2, <2>3, FollowsGrowth
  <2>5. QED
    BY <1>1, <1>2, <1>4, <2>4, ExecuteEos
<1>6. InStep'
  BY <1>1, <1>5 DEF InStep, Reader
<1>7. Progress'
  BY <1>1 DEF Progress
<1>8. QED
  BY <1>1, <1>3, <1>6, <1>7 DEF IInv
-----------------------------------------------------------------------------
(* The theorem. *)

(* Every step preserves the invariant. *)
LEMMA NextInvariant == IInv /\ [RoundTripNext]_RoundTripVars => IInv'
<1> SUFFICES ASSUME IInv, [RoundTripNext]_RoundTripVars PROVE IInv'
  OBVIOUS
<1>1. CASE UNCHANGED RoundTripVars
  BY <1>1 DEF RoundTripVars, vars, IInv, IsMatch, Repeats, At, Progress, InStep,
              Reader
<1>2. CASE RoundTripNext
  <2>1. Next /\ Follow
    BY <1>2 DEF RoundTripNext, Follow
  <2>2. output' = output => decoder' = decoder
    BY <2>1 DEF Follow
  <2>3. CASE Skip
    BY <2>2, <2>3, SkipStep DEF Skip
  <2>4. CASE FindMatch
    BY <2>2, <2>4, FindMatchStep DEF FindMatch
  <2>5. CASE EnterMatched
    BY <2>2, <2>5, EnterMatchedStep DEF EnterMatched
  <2>6. CASE Finish
    BY <2>2, <2>6, FinishStep DEF Finish
  <2>7. CASE EmitLiterals
    BY <2>1, <2>7, EmitLiteralsStep
  <2>8. CASE EmitPreviousDistance
    BY <2>1, <2>8, EmitPreviousDistanceStep
  <2>9. CASE EmitMediumDistance
    BY <2>1, <2>9, EmitMediumDistanceStep
  <2>10. CASE EmitSmallDistance
    BY <2>1, <2>10, EmitSmallDistanceStep
  <2>11. CASE EmitLargeDistance
    BY <2>1, <2>11, EmitLargeDistanceStep
  <2>12. CASE EmitMatchChunk
    BY <2>1, <2>12, EmitMatchChunkStep
  <2>13. CASE EmitEos
    BY <2>1, <2>13, EmitEosStep
  <2>14. QED
    BY <2>1, <2>3, <2>4, <2>5, <2>6, <2>7, <2>8, <2>9, <2>10, <2>11, <2>12,
       <2>13 DEF Next
<1>3. QED
  BY <1>1, <1>2

(* For every set of sources, what was emitted so far decodes to the part   *)
(* of the source it covers, and a finished stream to the source: the round *)
(* trip of encode and decode (encode.rs 61-85 and 198-334).                *)
THEOREM EncoderRoundTrip == RoundTripSpec => []EmittedDecodes
<1>1. RoundTripInit => IInv
  BY InitInvariant
<1>2. IInv /\ [RoundTripNext]_RoundTripVars => IInv'
  BY NextInvariant
<1>3. IInv => EmittedDecodes
  BY InvariantImplies
<1>4. QED
  BY <1>1, <1>2, <1>3, PTL DEF RoundTripSpec
-----------------------------------------------------------------------------
(* A match right behind another has another distance.                      *)

(* The source does not go on at the last distance behind covered. *)
Differs ==
  /\ previous_distance \in 1..covered
  /\ \/ covered = Len(src)
     \/ At(covered) # At(covered - previous_distance)

(* Matches are as long as they can be, and it shows behind them. *)
Longest ==
  /\ pc \in {"literals", "chunks"} => IsLongest(position, match)
  /\ pc \in {"search", "literals"} /\ position = covered /\ 0 < covered =>
       Differs
  /\ pc = "enter" => Differs

(* It holds behind the first instruction of a match, *)
LEMMA HeaderLongest ==
  ASSUME IInv, Longest, AtHeader, NEW header, NEW length,
         EmitHeader(header, length)
  PROVE  Longest'
<1>1. /\ src \in Seq(Byte) /\ Len(src) \in Nat /\ position \in Nat
      /\ match.distance \in Nat /\ 1 <= match.distance
      /\ match.length \in Nat
      /\ IsMatch
  BY HeaderState
<1>2. /\ covered' = position + length /\ src' = src /\ position' = position
      /\ match' = match /\ previous_distance' = match.distance
      /\ pc' = IF length = match.length THEN "enter" ELSE "chunks"
  BY DEF EmitHeader
<1>3. IsLongest(position, match)
  BY DEF Longest, AtHeader
<1>4. CASE length = match.length
  <2>1. previous_distance' \in 1..covered'
    BY <1>1, <1>2, <1>4 DEF IsMatch
  <2>2. \/ covered' = Len(src')
        \/ src'[covered' + 1] # src'[covered' - previous_distance' + 1]
    <3>1. \/ position + match.length = Len(src)
          \/ src[(position + match.length) + 1]
               # src[(position + match.length) - match.distance + 1]
      BY <1>1, <1>3 DEF IsLongest, At
    <3>2. /\ covered' = position + match.length /\ src' = src
          /\ previous_distance' = match.distance
      BY <1>2, <1>4
    <3>3. QED
      BY <3>1, <3>2, Zenon
  <2>3. Differs'
    BY <2>1, <2>2 DEF Differs, At
  <2>4. QED
    BY <1>2, <1>4, <2>3 DEF Longest
<1>5. CASE length # match.length
  BY <1>2, <1>3, <1>5 DEF Longest, IsLongest, At
<1>6. QED
  BY <1>4, <1>5

(* behind the rest of it, *)
LEMMA ChunkLongest ==
  ASSUME IInv, Longest, EmitMatchChunk
  PROVE  Longest'
<1> DEFINE left == position + match.length - covered
           n    == ChunkLen(left, MAX_MATCH_LEN)
<1>1. /\ pc = "chunks" /\ covered' = covered + n /\ src' = src
      /\ pc' = IF n = left THEN "enter" ELSE "chunks"
      /\ position' = position /\ match' = match
      /\ previous_distance' = previous_distance
  BY DEF EmitMatchChunk
<1>2. /\ Len(src) \in Nat /\ position \in Nat /\ covered \in Nat
      /\ match.length \in Nat /\ match.distance \in 1..position
      /\ previous_distance = match.distance
      /\ IsLongest(position, match)
  BY <1>1 DEF IInv, Progress, IsMatch, Longest
<1> HIDE DEF n
<1>3. CASE n = left
  <2>1. covered' = position + match.length
    BY <1>1, <1>2, <1>3
  <2>2. previous_distance' \in 1..covered'
    BY <1>1, <1>2, <2>1
  <2>3. \/ covered' = Len(src')
        \/ src'[covered' + 1] # src'[covered' - previous_distance' + 1]
    <3>1. \/ position + match.length = Len(src)
          \/ src[(position + match.length) + 1]
               # src[(position + match.length) - match.distance + 1]
      BY <1>2 DEF IsLongest, At
    <3>2. /\ covered' = position + match.length /\ src' = src
          /\ previous_distance' = match.distance
      BY <1>1, <1>2, <2>1
    <3>3. QED
      BY <3>1, <3>2, Zenon
  <2>4. Differs'
    BY <2>2, <2>3 DEF Differs, At
  <2>5. QED
    BY <1>1, <1>3, <2>4 DEF Longest
<1>4. CASE n # left
  BY <1>1, <1>2, <1>4 DEF Longest, IsLongest, At
<1>5. QED
  BY <1>3, <1>4

(* and after every other step. *)
LEMMA NextLongest ==
  ASSUME IInv, Longest, [RoundTripNext]_RoundTripVars
  PROVE  Longest'
<1>1. CASE UNCHANGED RoundTripVars
  BY <1>1 DEF RoundTripVars, vars, Longest, Differs, IsLongest, At
<1>2. CASE Skip
  <2>1. pc' = "search" /\ position' # covered'
    BY <1>2 DEF Skip, IInv, Progress
  <2>2. QED
    BY <2>1 DEF Longest
<1>3. CASE FindMatch
  <2>1. /\ pc = "search" /\ pc' = "literals" /\ src' = src
        /\ position' = position /\ covered' = covered
        /\ previous_distance' = previous_distance
    BY <1>3 DEF FindMatch
  <2>2. IsLongest(position, match')
    BY <1>3, FoundMatch
  <2>3. IsLongest(position, match)'
    BY <2>1, <2>2 DEF IsLongest, At
  <2>4. QED
    BY <2>1, <2>3 DEF Longest, Differs, At
<1>4. CASE EnterMatched
  <2>1. /\ pc = "enter" /\ pc' \in {"search", "enter"} /\ src' = src
        /\ covered' = covered /\ previous_distance' = previous_distance
    BY <1>4 DEF EnterMatched
  <2>2. Differs'
    BY <2>1 DEF Longest, Differs, At
  <2>3. QED
    BY <2>1, <2>2 DEF Longest
<1>5. CASE Finish
  BY <1>5 DEF Finish, Longest
<1>6. CASE EmitLiterals
  <2> DEFINE n == ChunkLen(LiteralEnd - covered, MAX_LITERAL_LEN)
  <2>1. /\ pc \in {"literals", "final"} /\ pc' = pc /\ src' = src
        /\ covered < LiteralEnd /\ covered' = covered + n
        /\ position' = position /\ match' = match
    BY <1>6 DEF EmitLiterals
  <2>2. position \in Nat /\ covered \in Nat /\ Len(src) \in Nat
    BY DEF IInv
  <2>3. CASE pc = "literals"
    <3>1. LiteralEnd \in Nat /\ LiteralEnd < position
      BY <2>1, <2>2, <2>3 DEF LiteralEnd, MAX_INLINE_LITERAL
    <3>2. covered' <= LiteralEnd
      BY <2>1, <2>2, <3>1 DEF ChunkLen, MAX_LITERAL_LEN
    <3>3. covered' # position'
      BY <2>1, <2>2, <3>1, <3>2 DEF ChunkLen, MAX_LITERAL_LEN
    <3>4. QED
      BY <2>1, <2>3, <3>3 DEF Longest, IsLongest, At
  <2>4. CASE pc = "final"
    BY <2>1, <2>4 DEF Longest
  <2>5. QED
    BY <2>1, <2>3, <2>4
<1>7. CASE EmitPreviousDistance
  BY <1>7, HeaderLongest DEF EmitPreviousDistance
<1>8. CASE EmitMediumDistance
  BY <1>8, HeaderLongest DEF EmitMediumDistance
<1>9. CASE EmitSmallDistance
  BY <1>9, HeaderLongest DEF EmitSmallDistance
<1>10. CASE EmitLargeDistance
  BY <1>10, HeaderLongest DEF EmitLargeDistance
<1>11. CASE EmitMatchChunk
  BY <1>11, ChunkLongest
<1>12. CASE EmitEos
  BY <1>12 DEF EmitEos, Longest
<1>13. QED
  BY <1>1, <1>2, <1>3, <1>4, <1>5, <1>6, <1>7, <1>8, <1>9, <1>10, <1>11, <1>12
  DEF RoundTripNext, Next

(* A match right behind another has another distance.                      *)
LEMMA LongestImplies == IInv /\ Longest => NewDistanceAfterMatch
<1> SUFFICES ASSUME IInv, Longest, pc = "literals", InlineLen = 0,
                    match.distance = previous_distance
             PROVE  FALSE
  BY DEF NewDistanceAfterMatch
<1>1. /\ position \in Nat /\ covered \in Nat /\ Len(src) \in Nat
      /\ match.distance \in 1..position /\ match.length \in Nat
      /\ 3 <= match.length /\ position + match.length <= Len(src)
      /\ Repeats(position, match)
  BY DEF IInv, IsMatch, MIN_MATCH_LEN
<1>2. position = covered /\ 0 < covered
  BY <1>1 DEF InlineLen
<1>3. Differs /\ covered # Len(src)
  BY <1>1, <1>2 DEF Longest
<1>4. src[covered + 1] # src[covered - previous_distance + 1]
  BY <1>3 DEF Differs, At
<1>5. src[position + 0 + 1] = src[position + 0 - match.distance + 1]
  <2>1. 0 \in 0..(match.length - 1)
    BY <1>1
  <2>2. QED
    BY <1>1, <2>1 DEF Repeats, At
<1>6. QED
  BY <1>1, <1>2, <1>4, <1>5

(* The encoder never emits a previous-distance header without literals,    *)
(* whose byte may be the end marker's: right behind a match the next one   *)
(* has another distance, whatever the source (encode.rs 172-174, 312).     *)
THEOREM EncoderNewDistance == RoundTripSpec => []NewDistanceAfterMatch
<1>1. RoundTripInit => IInv /\ Longest
  <2>1. RoundTripInit => Longest
    BY DEF RoundTripInit, Init, Longest
  <2>2. QED
    BY <2>1, InitInvariant
<1>2. IInv /\ Longest /\ [RoundTripNext]_RoundTripVars => IInv' /\ Longest'
  BY NextInvariant, NextLongest
<1>3. IInv /\ Longest => NewDistanceAfterMatch
  BY LongestImplies
<1>4. QED
  BY <1>1, <1>2, <1>3, PTL DEF RoundTripSpec
-----------------------------------------------------------------------------
(* The hash table and the types.                                           *)

(* The hashes. *)
Hashes == 0..(HASH_SIZE - 1)

(* The searched positions of a hash, *)
Of(hash) == {p \in Searched : HashAt(p) = hash}

(* and a bucket that holds the last four of a set of positions. *)
IsNewest(bucket, S) ==
  /\ bucket \in Seq(Nat)
  /\ Len(bucket) <= CANDIDATES_PER_BUCKET
  /\ \A i \in 1..Len(bucket) :
       /\ bucket[i] \in S
       /\ \A j \in 1..(i - 1) : bucket[j] > bucket[i]
  /\ \A p \in S :
       \/ \E i \in 1..Len(bucket) : bucket[i] = p
       \/ /\ Len(bucket) = CANDIDATES_PER_BUCKET
          /\ p < bucket[CANDIDATES_PER_BUCKET]

Tables ==
  /\ DOMAIN table \subseteq Hashes
  /\ \A p \in Searched : HashAt(p) \in DOMAIN table
  /\ \A hash \in DOMAIN table : IsNewest(table[hash], Of(hash))

(* The new position and what is left of the bucket. *)
LEMMA NewestBytes ==
  ASSUME NEW b \in Seq(Nat), Len(b) <= CANDIDATES_PER_BUCKET, NEW p \in Nat
  PROVE  LET new == Newest(<<p>> \o b)
         IN  /\ new \in Seq(Nat)
             /\ Len(new) = IF Len(b) = CANDIDATES_PER_BUCKET
                             THEN CANDIDATES_PER_BUCKET ELSE Len(b) + 1
             /\ new[1] = p
             /\ \A i \in 1..(Len(new) - 1) : new[i + 1] = b[i]
<1>1. Len(b) \in 0..4 /\ CANDIDATES_PER_BUCKET = 4
  <2>1. Len(b) \in Nat
    BY LenProperties
  <2>2. CANDIDATES_PER_BUCKET = 4
    BY DEF CANDIDATES_PER_BUCKET
  <2>3. Len(b) <= 4
    BY <2>2
  <2>4. \A k \in Nat : k <= 4 => k \in 0..4
    OBVIOUS
  <2>5. Len(b) \in 0..4
    BY <2>1, <2>3, <2>4, Zenon
  <2>6. QED
    BY <2>2, <2>5, Zenon
<1> DEFINE a   == <<p>> \o b
           new == Newest(a)
           Goal == /\ new \in Seq(Nat)
                   /\ Len(new) = IF Len(b) = CANDIDATES_PER_BUCKET
                                   THEN CANDIDATES_PER_BUCKET ELSE Len(b) + 1
                   /\ new[1] = p
                   /\ \A i \in 1..(Len(new) - 1) : new[i + 1] = b[i]
<1>2. /\ a \in Seq(Nat) /\ Len(a) = Len(b) + 1
      /\ a[1] = p /\ \A i \in 1..Len(b) : a[i + 1] = b[i]
  <2>1. <<p>> \in Seq(Nat) /\ Len(<<p>>) = 1 /\ <<p>>[1] = p
    OBVIOUS
  <2>2. /\ a \in Seq(Nat) /\ Len(a) = Len(<<p>>) + Len(b)
        /\ \A i \in 1..(Len(<<p>>) + Len(b)) :
             a[i] = IF i <= Len(<<p>>) THEN <<p>>[i] ELSE b[i - Len(<<p>>)]
    BY <2>1, ConcatProperties
  <2> HIDE DEF a
  <2>3. QED
    BY <1>1, <2>1, <2>2, SMTT(30)
<1> HIDE DEF a
<1>3. ASSUME Len(b) = 4 PROVE Goal
  <2>1. new = SubSeq(a, 1, 4)
    BY <1>1, <1>2, <1>3 DEF Newest
  <2>2. /\ SubSeq(a, 1, 4) \in Seq(Nat) /\ Len(SubSeq(a, 1, 4)) = 4
        /\ \A i \in 1..4 : SubSeq(a, 1, 4)[i] = a[i]
    <3>1. Len(a) = 5
      BY <1>2, <1>3
    <3>2. \A i \in 1..5 : a[i] \in Nat
      BY <1>2, <3>1, ElementOfSeq
    <3>3. \A i \in 1..4 : a[i] \in Nat
      BY <3>2
    <3>4. QED
      BY <3>3, SubSeqProperties
  <2> HIDE DEF new
  <2>3. new \in Seq(Nat) /\ Len(new) = 4 /\ \A i \in 1..4 : new[i] = a[i]
    BY <2>1, <2>2
  <2>4. new[1] = p /\ \A i \in 1..3 : new[i + 1] = b[i]
    BY <1>2, <1>3, <2>3
  <2>5. QED
    BY <1>1, <1>3, <2>3, <2>4
<1>4. ASSUME Len(b) # 4 PROVE Goal
  <2>1. new = a
    BY <1>1, <1>2, <1>4, SMTT(30) DEF Newest
  <2> HIDE DEF new
  <2>2. QED
    BY <1>1, <1>2, <1>4, <2>1, SMTT(30)
<1>5. QED
  BY <1>3, <1>4 DEF a, new

(* It holds the last four again, with the new one. *)
LEMMA NewestIsNewest ==
  ASSUME NEW S \in SUBSET Nat, NEW b, IsNewest(b, S),
         NEW p \in Nat, \A q \in S : q < p
  PROVE  IsNewest(Newest(<<p>> \o b), S \cup {p})
<1> DEFINE new == Newest(<<p>> \o b)
           n   == Len(b)
<1>1. /\ b \in Seq(Nat) /\ n \in Nat /\ n <= 4
      /\ CANDIDATES_PER_BUCKET = 4
      /\ \A i \in 1..n : b[i] \in S /\ b[i] \in Nat /\ b[i] < p
      /\ \A i \in 1..n : \A j \in 1..(i - 1) : b[j] > b[i]
      /\ \A q \in S : \/ \E i \in 1..n : b[i] = q
                      \/ n = 4 /\ q < b[4]
  BY DEF IsNewest, CANDIDATES_PER_BUCKET
<1>2. /\ new \in Seq(Nat)
      /\ Len(new) = IF n = 4 THEN 4 ELSE n + 1
      /\ new[1] = p
      /\ \A i \in 1..(Len(new) - 1) : new[i + 1] = b[i]
  BY <1>1, NewestBytes
<1> HIDE DEF new, n
<1>3. Len(new) \in 1..4 /\ Len(new) - 1 <= n
  BY <1>1, <1>2
<1>4. \A i \in 2..Len(new) : i - 1 \in 1..n /\ new[i] = b[i - 1]
  <2>1. ASSUME NEW i \in 2..Len(new)
        PROVE  i - 1 \in 1..n /\ new[i] = b[i - 1]
    <3>1. /\ i - 1 \in 1..(Len(new) - 1) /\ (i - 1) + 1 = i
          /\ i - 1 \in 1..n
      BY <1>1, <1>3
    <3>2. new[(i - 1) + 1] = b[i - 1]
      BY <1>2, <3>1
    <3>3. QED
      BY <3>1, <3>2
  <2>2. QED
    BY <2>1
<1>5. ASSUME NEW i \in 1..Len(new)
      PROVE  /\ new[i] \in S \cup {p}
             /\ \A j \in 1..(i - 1) : new[j] > new[i]
  <2>1. CASE i = 1
    BY <1>2, <2>1
  <2>2. CASE i # 1
    <3>1. i \in 2..Len(new)
      BY <1>3, <2>2
    <3>2. i - 1 \in 1..n /\ new[i] = b[i - 1]
      BY <1>4, <3>1
    <3>3. ASSUME NEW j \in 1..(i - 1)
          PROVE  new[j] > new[i]
      <4>1. CASE j = 1
        <5>1. b[i - 1] < p /\ b[i - 1] \in Nat
          BY <1>1, <3>2
        <5>2. QED
          BY <1>2, <3>2, <4>1, <5>1
      <4>2. CASE j # 1
        <5>1. j \in 2..Len(new) /\ j - 1 \in 1..((i - 1) - 1)
          BY <1>3, <3>1, <4>2
        <5>2. new[j] = b[j - 1]
          BY <1>4, <5>1
        <5>3. b[j - 1] > b[i - 1]
          BY <1>1, <3>2, <5>1
        <5>4. QED
          BY <3>2, <5>2, <5>3
      <4>3. QED
        BY <4>1, <4>2
    <3>4. QED
      BY <1>1, <3>2, <3>3
  <2>3. QED
    BY <2>1, <2>2
<1>6. ASSUME NEW q \in S \cup {p}
      PROVE  \/ \E i \in 1..Len(new) : new[i] = q
             \/ Len(new) = 4 /\ q < new[4]
  <2>1. CASE q = p
    BY <1>2, <1>3, <2>1
  <2>2. ASSUME NEW i \in 1..n, b[i] = q
        PROVE  \/ \E k \in 1..Len(new) : new[k] = q
               \/ Len(new) = 4 /\ q < new[4]
    <3>1. CASE i <= Len(new) - 1
      <4>1. i \in 1..(Len(new) - 1) /\ i + 1 \in 1..Len(new)
        BY <1>1, <1>3, <3>1
      <4>2. new[i + 1] = q
        BY <1>2, <2>2, <4>1
      <4>3. QED
        BY <4>1, <4>2
    <3>2. CASE ~(i <= Len(new) - 1)
      <4>1. n = 4 /\ i = 4 /\ Len(new) = 4
        BY <1>1, <1>2, <1>3, <3>2
      <4>2. new[4] = b[3]
        <5>1. 3 \in 1..(Len(new) - 1) /\ 3 + 1 = 4
          BY <4>1
        <5>2. new[3 + 1] = b[3]
          BY <1>2, <5>1
        <5>3. QED
          BY <5>1, <5>2
      <4>3. b[3] > b[4]
        <5>1. 4 \in 1..n /\ 3 \in 1..(4 - 1)
          BY <4>1
        <5>2. QED
          BY <1>1, <5>1
      <4>4. b[3] \in Nat /\ b[4] \in Nat
        BY <1>1, <4>1
      <4>5. QED
        BY <2>2, <4>1, <4>2, <4>3, <4>4
    <3>3. QED
      BY <3>1, <3>2
  <2>3. ASSUME n = 4, q < b[4], q \in S
        PROVE  Len(new) = 4 /\ q < new[4]
    <3>1. Len(new) = 4
      BY <1>2, <2>3
    <3>2. new[4] = b[3]
      <4>1. 3 \in 1..(Len(new) - 1) /\ 3 + 1 = 4
        BY <3>1
      <4>2. new[3 + 1] = b[3]
        BY <1>2, <4>1
      <4>3. QED
        BY <4>1, <4>2
    <3>3. b[3] > b[4]
      <4>1. 4 \in 1..n /\ 3 \in 1..(4 - 1)
        BY <2>3
      <4>2. QED
        BY <1>1, <4>1
    <3>4. b[3] \in Nat /\ b[4] \in Nat /\ q \in Nat
      BY <1>1, <2>3
    <3>5. QED
      BY <2>3, <3>1, <3>2, <3>3, <3>4
  <2>4. QED
    BY <1>1, <2>1, <2>2, <2>3
<1>7. IsNewest(new, S \cup {p})
  BY <1>1, <1>2, <1>3, <1>5, <1>6 DEF IsNewest
<1>8. QED
  BY <1>7 DEF new
(* A hash fits in its bits. *)
LEMMA HashType ==
  ASSUME src \in Seq(Byte), NEW p \in Nat, p + 2 < Len(src)
  PROVE  HashAt(p) \in Hashes
<1>1. At(p) \in Nat /\ At(p + 1) \in Nat /\ At(p + 2) \in Nat
  <2>1. Len(src) \in Nat
    OBVIOUS
  <2>2. p + 1 \in 1..Len(src) /\ p + 1 + 1 \in 1..Len(src)
        /\ p + 2 + 1 \in 1..Len(src)
    BY <2>1
  <2>3. \A k \in 1..Len(src) : src[k] \in Byte
    BY ElementOfSeq
  <2>4. src[p + 1] \in Byte /\ src[p + 1 + 1] \in Byte
        /\ src[p + 2 + 1] \in Byte
    BY <2>2, <2>3, Zenon
  <2>6. \A k \in Byte : k \in Nat
    BY DEF Byte
  <2>7. QED
    BY <2>4, <2>6, Zenon DEF At
<1> DEFINE value == At(p) + At(p + 1) * 256 + At(p + 2) * 65536
           x     == value + (value % 1048576) * 64 + (value % 16384) * 4096
<1>2. value \in Nat
  BY <1>1
<1>3. HashAt(p) = (x \div 4096) % HASH_SIZE
  BY DEF HashAt
<1> HIDE DEF value
<1>4. value % 1048576 \in Nat /\ value % 16384 \in Nat
  BY <1>2
<1>5. x \in Nat
  BY <1>2, <1>4
<1> HIDE DEF x
<1>6. x \div 4096 \in Nat
  BY <1>5
<1> DEFINE y == x \div 4096
<1> HIDE DEF y
<1>7. y % HASH_SIZE \in Hashes
  <2>1. y \in Nat
    BY <1>6 DEF y
  <2>2. HASH_SIZE \in Nat \ {0}
    BY DEF HASH_SIZE
  <2>3. QED
    BY <2>1, <2>2, DivMod DEF Hashes
<1>8. QED
  BY <1>3, <1>7 DEF y

(* Entering a position keeps the buckets. *)
LEMMA EnteredTables ==
  ASSUME src \in Seq(Byte), position \in Nat, position < Len(src), Tables,
         table' = Entered(position), position' = position + 1, src' = src
  PROVE  Tables'
<1> PICK h : h = HashAt(position)
  OBVIOUS
<1> DEFINE S == Of(h)
           b == Bucket(h)
<1>1. Len(src) \in Nat /\ MIN_MATCH_LEN = 3
  BY DEF MIN_MATCH_LEN
<1>2. \A p : HashAt(p)' = HashAt(p)
  BY DEF HashAt, At
<1>3. CASE Len(src) - position < MIN_MATCH_LEN
  <2>1. table' = table
    BY <1>3 DEF Entered
  <2>2. Searched' = Searched
    BY <1>1, <1>3 DEF Searched
  <2>3. \A hash : Of(hash)' = Of(hash)
    BY <1>2, <2>2 DEF Of
  <2>4. (DOMAIN table \subseteq Hashes)'
    BY <2>1 DEF Tables
  <2>5. (\A p \in Searched : HashAt(p) \in DOMAIN table)'
    BY <1>2, <2>1, <2>2 DEF Tables
  <2>6. (\A hash \in DOMAIN table : IsNewest(table[hash], Of(hash)))'
    BY <2>1, <2>3 DEF Tables
  <2>7. QED
    BY <2>4, <2>5, <2>6 DEF Tables
<1>4. CASE ~(Len(src) - position < MIN_MATCH_LEN)
  <2>1. table' = [hash \in DOMAIN table \cup {h} |->
                    IF hash = h THEN Newest(<<position>> \o b)
                                ELSE table[hash]]
    BY <1>4, Zenon DEF Entered
  <2>2. Searched' = Searched \cup {position}
    BY <1>1, <1>4 DEF Searched
  <2>3. h \in Hashes
    <3>1. position + 2 < Len(src)
      BY <1>1, <1>4
    <3>2. HashAt(position) \in Hashes
      BY <3>1, HashType
    <3>3. QED
      BY <3>2
  <2>4. IsNewest(b, S)
    <3>1. CASE h \in DOMAIN table
      BY <3>1 DEF Tables, Bucket
    <3>2. CASE h \notin DOMAIN table
      <4>1. b = << >> /\ << >> \in Seq(Nat) /\ Len(<< >>) = 0
        BY <3>2 DEF Bucket
      <4>2. S = {}
        BY <3>2 DEF Of, Tables
      <4>3. CANDIDATES_PER_BUCKET = 4
        BY DEF CANDIDATES_PER_BUCKET
      <4> HIDE DEF b, S
      <4>4. QED
        BY <4>1, <4>2, <4>3 DEF IsNewest
    <3>3. QED
      BY <3>1, <3>2
  <2>5. S \in SUBSET Nat /\ \A q \in S : q < position
    BY <1>1 DEF Of, Searched
  <2>6. IsNewest(Newest(<<position>> \o b), S \cup {position})
    <3> HIDE DEF b, S
    <3> QED
      BY <2>4, <2>5, NewestIsNewest
  <2>7. Of(h)' = S \cup {position}
    BY <1>2, <2>2 DEF Of
  <2>8. ASSUME NEW hash, hash # h
        PROVE  Of(hash)' = Of(hash)
    BY <1>2, <2>2, <2>8 DEF Of
  <2> HIDE DEF b, S
  <2>9. DOMAIN table' = DOMAIN table \cup {h}
    BY <2>1
  <2>10. \A p \in Searched' : HashAt(p) \in DOMAIN table'
    BY <2>2, <2>9 DEF Tables
  <2>11. ASSUME NEW hash \in DOMAIN table'
         PROVE  IsNewest(table'[hash], Of(hash)')
    <3>1. CASE hash = h
      <4>1. table'[hash] = Newest(<<position>> \o b)
        BY <2>1, <2>9, <3>1
      <4>2. QED
        BY <2>6, <2>7, <3>1, <4>1
    <3>2. CASE hash # h
      <4>1. hash \in DOMAIN table /\ table'[hash] = table[hash]
        BY <2>1, <2>9, <3>2
      <4>2. Of(hash)' = Of(hash)
        BY <2>8, <3>2
      <4>3. QED
        BY <4>1, <4>2 DEF Tables
    <3>3. QED
      BY <3>1, <3>2
  <2>12. (DOMAIN table \subseteq Hashes)'
    BY <2>3, <2>9 DEF Tables
  <2>13. (\A p \in Searched : HashAt(p) \in DOMAIN table)'
    BY <1>2, <2>10
  <2>14. (\A hash \in DOMAIN table : IsNewest(table[hash], Of(hash)))'
    BY <2>11
  <2>15. QED
    BY <2>12, <2>13, <2>14 DEF Tables
<1>5. QED
  BY <1>3, <1>4
(* What is known of the other variables. *)
Types ==
  /\ src \in Inputs
  /\ previous_distance \in 0..MAX_DISTANCE
  /\ match \in [distance : 0..MAX_DISTANCE, length : 0..Len(src)]

(* The hash table and the types at the first position, *)
LEMMA InitTables == RoundTripInit => Tables /\ Types
<1> SUFFICES ASSUME RoundTripInit PROVE Tables /\ Types
  OBVIOUS
<1>1. /\ src \in Inputs /\ src \in Seq(Byte) /\ table = << >>
      /\ position = 0 /\ previous_distance = 0
      /\ match = [distance |-> 0, length |-> 0]
  BY RawEncodeAssumption DEF RoundTripInit, Init, NoMatch
<1>2. DOMAIN table = {} /\ Searched = {}
  BY <1>1 DEF Searched
<1>3. Tables
  BY <1>2 DEF Tables
<1>4. MAX_DISTANCE \in Nat /\ Len(src) \in Nat
  BY <1>1 DEF MAX_DISTANCE
<1>5. 0 \in 0..MAX_DISTANCE /\ 0 \in 0..Len(src)
  BY <1>4
<1>6. Types
  BY <1>1, <1>5 DEF Types
<1>7. QED
  BY <1>3, <1>6

(* and after every step. *)
LEMMA NextTables ==
  ASSUME IInv, Tables, [RoundTripNext]_RoundTripVars
  PROVE  Tables'
<1> DEFINE Kept == table' = table /\ position' = position /\ src' = src
<1>1. src \in Seq(Byte) /\ position \in Nat /\ Len(src) \in Nat
  BY DEF IInv
<1>2. ASSUME Kept PROVE Tables'
  <2>1. \A p : HashAt(p)' = HashAt(p)
    BY <1>2 DEF HashAt, At
  <2>2. Searched' = Searched
    BY <1>2 DEF Searched
  <2>3. \A hash : Of(hash)' = Of(hash)
    BY <2>1, <2>2 DEF Of
  <2>4. (DOMAIN table \subseteq Hashes)'
    BY <1>2 DEF Tables
  <2>5. (\A p \in Searched : HashAt(p) \in DOMAIN table)'
    BY <1>2, <2>1, <2>2 DEF Tables
  <2>6. (\A hash \in DOMAIN table : IsNewest(table[hash], Of(hash)))'
    BY <1>2, <2>3 DEF Tables
  <2>7. QED
    BY <2>4, <2>5, <2>6 DEF Tables
<1>3. CASE UNCHANGED RoundTripVars
  BY <1>2, <1>3 DEF RoundTripVars, vars
<1>4. CASE Skip
  <2>1. /\ position < Len(src) /\ table' = Entered(position)
        /\ position' = position + 1 /\ src' = src
    BY <1>4 DEF Skip
  <2>2. QED
    BY <1>1, <2>1, EnteredTables
<1>5. CASE EnterMatched
  <2>1. /\ pc = "enter" /\ table' = Entered(position)
        /\ position' = position + 1 /\ src' = src
    BY <1>5 DEF EnterMatched
  <2>2. position < Len(src)
    <3>1. position < covered /\ covered \in 0..Len(src)
      BY <2>1 DEF IInv, Progress
    <3>2. QED
      BY <1>1, <3>1
  <2>3. QED
    BY <1>1, <2>1, <2>2, EnteredTables
<1>6. CASE \/ FindMatch \/ Finish \/ EmitLiterals \/ EmitPreviousDistance
           \/ EmitMediumDistance \/ EmitSmallDistance \/ EmitLargeDistance
           \/ EmitMatchChunk \/ EmitEos
  BY <1>2, <1>6 DEF FindMatch, Finish, EmitLiterals, EmitPreviousDistance,
     EmitMediumDistance, EmitSmallDistance, EmitLargeDistance,
     EmitMatchChunk, EmitEos, EmitHeader
<1>7. QED
  BY <1>3, <1>4, <1>5, <1>6 DEF RoundTripNext, Next

LEMMA NextTypes ==
  ASSUME IInv, Types, [RoundTripNext]_RoundTripVars
  PROVE  Types'
<1>1. /\ src \in Inputs /\ previous_distance \in 0..MAX_DISTANCE
      /\ match \in [distance : 0..MAX_DISTANCE, length : 0..Len(src)]
      /\ src \in Seq(Byte) /\ Len(src) \in Nat /\ position \in 0..Len(src)
      /\ MAX_DISTANCE \in Nat /\ MIN_MATCH_LEN = 3
  <2>1. MAX_DISTANCE \in Nat /\ MIN_MATCH_LEN = 3
    BY DEF MAX_DISTANCE, MIN_MATCH_LEN
  <2>2. QED
    BY <2>1 DEF Types, IInv
<1>2. ASSUME src' = src, match' = match,
             previous_distance' \in {previous_distance, match.distance}
      PROVE  Types'
  BY <1>1, <1>2 DEF Types
<1>3. CASE UNCHANGED RoundTripVars
  BY <1>2, <1>3 DEF RoundTripVars, vars
<1>4. CASE FindMatch
  <2>1. src' = src /\ previous_distance' = previous_distance
    BY <1>4 DEF FindMatch
  <2>2. match' \in [distance : Distances(position),
                    length : MIN_MATCH_LEN..(Len(src) - position)]
    BY <1>4, FoundMatch
  <2>3. \A d \in Distances(position) : d \in 0..MAX_DISTANCE
    BY <1>1 DEF Distances
  <2>4. \A l \in MIN_MATCH_LEN..(Len(src) - position) : l \in 0..Len(src)
    BY <1>1
  <2>5. match' \in [distance : 0..MAX_DISTANCE, length : 0..Len(src)]
    BY <2>2, <2>3, <2>4
  <2>6. QED
    BY <1>1, <2>1, <2>5 DEF Types
<1>5. CASE EnterMatched
  <2>1. /\ src' = src /\ previous_distance' = previous_distance
        /\ match' \in {match, [distance |-> 0, length |-> 0]}
    BY <1>5 DEF EnterMatched, NoMatch
  <2>2. 0 \in 0..MAX_DISTANCE /\ 0 \in 0..Len(src)
    BY <1>1
  <2>3. QED
    BY <1>1, <2>1, <2>2 DEF Types
<1>6. CASE \/ Skip \/ Finish \/ EmitLiterals \/ EmitPreviousDistance
           \/ EmitMediumDistance \/ EmitSmallDistance \/ EmitLargeDistance
           \/ EmitMatchChunk \/ EmitEos
  BY <1>2, <1>6 DEF Skip, Finish, EmitLiterals, EmitPreviousDistance,
     EmitMediumDistance, EmitSmallDistance, EmitLargeDistance,
     EmitMatchChunk, EmitEos, EmitHeader
<1>7. QED
  BY <1>3, <1>4, <1>5, <1>6 DEF RoundTripNext, Next

(* What the invariant says of the buckets and the types. *)
LEMMA TablesImply == IInv /\ Tables /\ Types => BucketsHoldNewest /\ TypeOK
<1> SUFFICES ASSUME IInv, Tables, Types PROVE BucketsHoldNewest /\ TypeOK
  OBVIOUS
<1>1. ASSUME NEW hash \in DOMAIN table
      PROVE  /\ Len(table[hash]) <= CANDIDATES_PER_BUCKET
             /\ \A i \in 1..Len(table[hash]) :
                  /\ table[hash][i] \in Searched
                  /\ HashAt(table[hash][i]) = hash
                  /\ \A j \in 1..(i - 1) : table[hash][j] > table[hash][i]
             /\ \A p \in Searched : HashAt(p) = hash =>
                  \/ \E i \in 1..Len(table[hash]) : table[hash][i] = p
                  \/ /\ Len(table[hash]) = CANDIDATES_PER_BUCKET
                     /\ p < table[hash][CANDIDATES_PER_BUCKET]
             /\ table[hash] \in Seq(Nat)
  <2>1. IsNewest(table[hash], Of(hash))
    BY DEF Tables
  <2>2. \A p : p \in Of(hash) <=> p \in Searched /\ HashAt(p) = hash
    BY DEF Of
  <2>3. QED
    BY <2>1, <2>2 DEF IsNewest
<1>2. \A p \in Searched : HashAt(p) \in DOMAIN table
  BY DEF Tables
<1>3. BucketsHoldNewest
  BY <1>1, <1>2, Zenon DEF BucketsHoldNewest
<1>4. DOMAIN table \subseteq 0..(HASH_SIZE - 1)
  BY DEF Tables, Hashes
<1>5. \A hash \in DOMAIN table : table[hash] \in Seq(Nat)
  BY <1>1
<1>6. /\ src \in Inputs
      /\ previous_distance \in 0..MAX_DISTANCE
      /\ match \in [distance : 0..MAX_DISTANCE, length : 0..Len(src)]
  BY Zenon DEF Types
<1>7. /\ output \in Seq(Byte)
      /\ position \in 0..Len(src)
      /\ covered \in 0..Len(src)
      /\ pc \in {"search", "literals", "chunks", "enter", "final", "done"}
  BY Zenon DEF IInv
<1>8. TypeOK
  BY <1>4, <1>5, <1>6, <1>7, Zenon DEF TypeOK
<1>9. QED
  BY <1>3, <1>8

(* Both hold of every behaviour. *)
LEMMA TablesInvariant == RoundTripSpec => [](BucketsHoldNewest /\ TypeOK)
<1>1. RoundTripInit => IInv /\ Tables /\ Types
  BY InitInvariant, InitTables
<1>2. /\ IInv /\ Tables /\ Types /\ [RoundTripNext]_RoundTripVars
      => IInv' /\ Tables' /\ Types'
  BY NextInvariant, NextTables, NextTypes
<1>3. IInv /\ Tables /\ Types => BucketsHoldNewest /\ TypeOK
  BY TablesImply
<1>4. QED
  BY <1>1, <1>2, <1>3, PTL DEF RoundTripSpec

(* Every variable of the encoder keeps its type, for every source: no      *)
(* position and no length leaves it, no header byte is out of range.       *)
THEOREM EncoderTypes == RoundTripSpec => []TypeOK
BY TablesInvariant, PTL

(* Every bucket holds the last four positions of its hash, for every       *)
(* source (encode.rs 72-74, 100 and 187-196).                              *)
THEOREM EncoderBuckets == RoundTripSpec => []BucketsHoldNewest
BY TablesInvariant, PTL
-----------------------------------------------------------------------------
(* What the instructions cost.                                             *)

(* Literals that wait for the header of a match, and those at the end of   *)
(* the source, may have cost a byte that nothing has made up for yet.      *)
Slack ==
  IF \/ pc = "literals" /\ 0 < InlineLen /\ InlineLen <= MAX_INLINE_LITERAL
     \/ pc = "final" /\ covered = Len(src)
     \/ pc = "done"
    THEN 1
    ELSE 0

Thrift ==
  /\ pc # "done" => Len(output) <= covered + covered \div 16 + Slack
  /\ pc = "done" => Len(output) <= covered + covered \div 16 + 1 + Len(EOS)
  /\ pc = "literals" => IsWorthwhile(match)

(* Sixteen more bytes allow for one more. *)
LEMMA Allowance ==
  ASSUME NEW c \in Nat, NEW n \in Nat
  PROVE  /\ c \div 16 \in Nat /\ (c + n) \div 16 \in Nat
         /\ c \div 16 <= (c + n) \div 16
         /\ n >= 16 => c \div 16 + 1 <= (c + n) \div 16
OBVIOUS

(* A chunk of literals costs one byte, or two for sixteen and more: the    *)
(* last chunk has the slack, the others have their sixteenth.              *)
LEMMA LiteralsThrift ==
  ASSUME IInv, Thrift, EmitLiterals
  PROVE  Thrift'
<1> DEFINE n   == ChunkLen(LiteralEnd - covered, MAX_LITERAL_LEN)
           h   == LiteralHeader(n)
           run == SubSeq(src, covered + 1, covered + n)
<1>1. /\ pc \in {"literals", "final"} /\ covered < LiteralEnd
      /\ output' = output \o h \o run /\ covered' = covered + n
      /\ src' = src /\ position' = position /\ pc' = pc /\ match' = match
      /\ previous_distance' = previous_distance
  BY DEF EmitLiterals
<1>2. /\ src \in Seq(Byte) /\ output \in Seq(Byte) /\ Len(output) \in Nat
      /\ Len(src) \in Nat /\ position \in Nat /\ covered \in Nat
      /\ position <= Len(src)
  BY DEF IInv
<1>3. /\ LiteralEnd \in Nat /\ LiteralEnd <= Len(src)
      /\ pc = "literals" => LiteralEnd = position - 3 /\ 3 < position - covered
      /\ pc = "final" => LiteralEnd = Len(src)
  BY <1>1, <1>2 DEF IInv, Progress, LiteralEnd, MAX_INLINE_LITERAL
<1>4. /\ n \in 1..271 /\ covered + n <= LiteralEnd
      /\ n = 271 \/ covered + n = LiteralEnd
  BY <1>1, <1>2, <1>3 DEF ChunkLen, MAX_LITERAL_LEN
<1> HIDE DEF n
<1>5. n \in Nat /\ covered + n <= Len(src)
  BY <1>2, <1>3, <1>4
<1>6. run \in Seq(Byte) /\ Len(run) = n
  BY <1>2, <1>5, NextRun
<1>7. h \in Seq(Byte) /\ Len(h) = IF n <= 15 THEN 1 ELSE 2
  <2>1. h[1] = LiteralHeader(n)[1] /\ h[1 + 1] = LiteralHeader(n)[2]
    OBVIOUS
  <2>2. n \in 1..MAX_LITERAL_LEN
    BY <1>4 DEF MAX_LITERAL_LEN
  <2>3. QED
    BY <2>1, <2>2, LiteralHeaderRead
<1> HIDE DEF h, run
<1>8. Len(output') = Len(output) + Len(h) + n
  BY <1>1, <1>2, <1>6, <1>7, AppendedLen
<1>9. Slack = 0
  BY <1>1, <1>2, <1>3 DEF Slack, InlineLen, MAX_INLINE_LITERAL
<1>10. Slack' = IF covered + n = LiteralEnd THEN 1 ELSE 0
  <2>1. CASE pc = "literals"
    BY <1>1, <1>2, <1>3, <1>4, <2>1 DEF Slack, InlineLen, MAX_INLINE_LITERAL
  <2>2. CASE pc = "final"
    BY <1>1, <1>2, <1>3, <1>4, <2>2 DEF Slack
  <2>3. QED
    BY <1>1, <2>1, <2>2
<1>11. Len(output) <= covered + covered \div 16
  BY <1>1, <1>2, <1>9, Allowance DEF Thrift
<1>12. Len(output') <= covered' + covered' \div 16 + Slack'
  <2>1. PICK a \in Nat, b \in Nat :
          /\ a = covered \div 16 /\ b = (covered + n) \div 16
          /\ a <= b /\ (n >= 16 => a + 1 <= b)
    BY <1>2, <1>5, Allowance
  <2>2. Len(output') <= covered + n + b + Slack'
    BY <1>2, <1>4, <1>7, <1>8, <1>10, <1>11, <2>1
  <2>3. QED
    BY <1>1, <2>1, <2>2
<1>13. (pc = "literals" => IsWorthwhile(match))'
  BY <1>1 DEF Thrift, IsWorthwhile
<1>14. pc' # "done"
  BY <1>1
<1>15. QED
  BY <1>12, <1>13, <1>14 DEF Thrift

(* A header costs less than the match it begins, or as much when no        *)
(* literals came before.                                                   *)
LEMMA HeaderThrift ==
  ASSUME IInv, Thrift, AtHeader, NEW header \in Seq(Byte),
         NEW length \in Nat, EmitHeader(header, length),
         Len(header) + (IF InlineLen = 0 THEN 0 ELSE 1) <= length
  PROVE  Thrift'
<1>1. /\ output \in Seq(Byte) /\ Len(output) \in Nat /\ Len(header) \in Nat
      /\ position \in Nat /\ covered \in Nat
      /\ covered + InlineLen = position
      /\ InlineLen \in 0..3 /\ InlineLen \in Nat
  BY HeaderState
<1>2. /\ output' = output \o header \o SubSeq(src, covered + 1, position)
      /\ covered' = position + length
      /\ pc' \in {"enter", "chunks"}
  BY DEF EmitHeader
<1>3. Len(output') = Len(output) + Len(header) + InlineLen
  BY <1>2, AppendedHeader
<1>4. Slack = IF InlineLen = 0 THEN 0 ELSE 1
  BY <1>1 DEF Slack, AtHeader, MAX_INLINE_LITERAL
<1>5. Len(output) <= covered + covered \div 16 + Slack
  BY DEF Thrift, AtHeader
<1>6. PICK a \in Nat, b \in Nat :
        /\ a = covered \div 16 /\ b = (covered + (InlineLen + length)) \div 16
        /\ a <= b
  <2>1. InlineLen + length \in Nat
    BY <1>1
  <2>2. QED
    BY <1>1, <2>1, Allowance
<1>7. covered' = covered + (InlineLen + length)
  BY <1>1, <1>2
<1>8. Len(output') <= covered' + b
  BY <1>1, <1>3, <1>4, <1>5, <1>6, <1>7
<1>9. Slack' = 0
  BY <1>2 DEF Slack
<1>10. Len(output') <= covered' + covered' \div 16 + Slack'
  <2>1. covered' \in Nat
    BY <1>1, <1>7
  <2>2. QED
    BY <1>6, <1>7, <1>8, <1>9, <2>1
<1>11. QED
  BY <1>2, <1>10 DEF Thrift

(* The header of a match is no longer than what it covers, less a byte     *)
(* that literals may have cost.                                            *)
EmitsThriftyHeader ==
  \E h \in Seq(Byte), length \in Nat :
    /\ EmitHeader(h, length)
    /\ Len(h) + (IF InlineLen = 0 THEN 0 ELSE 1) <= length

(* So it is in each of the forms: a far match is longer than three. *)
LEMMA HeaderIsThrifty ==
  ASSUME IInv, Thrift,
         \/ EmitPreviousDistance \/ EmitMediumDistance
         \/ EmitSmallDistance \/ EmitLargeDistance
  PROVE  AtHeader /\ EmitsThriftyHeader
<1> DEFINE d == match.distance
<1>1. AtHeader
  BY DEF EmitPreviousDistance, EmitMediumDistance, EmitSmallDistance,
         EmitLargeDistance
<1>2. /\ InlineLen \in 0..3
      /\ d \in Nat /\ 1 <= d /\ d <= MAX_DISTANCE
      /\ match.length \in Nat /\ 3 <= match.length
  BY <1>1, HeaderState
<1>3. /\ ShortLength \in 3..max_short_match(InlineLen)
      /\ ShortLength \in Nat /\ 3 <= ShortLength
  BY <1>1, ShortLengthType
<1>4. /\ max_short_match(InlineLen) \in Nat
      /\ 4 <= max_short_match(InlineLen)
  BY <1>2 DEF max_short_match
<1> HIDE DEF d
<1>5. CASE EmitSmallDistance
  <2> DEFINE h == SmallDistance(InlineLen, ShortLength, d)
  <2>1. EmitHeader(h, ShortLength) /\ d < MAX_SHORT_DISTANCE
    BY <1>5 DEF EmitSmallDistance, d
  <2>2. d \in 1..(MAX_SHORT_DISTANCE - 1)
    BY <1>2, <2>1, FieldTypes
  <2>3. h \in Seq(Byte) /\ Len(h) = 2
    BY <1>2, <1>3, <2>2, SmallDistanceBytes
  <2> HIDE DEF h
  <2>4. Len(h) + (IF InlineLen = 0 THEN 0 ELSE 1) <= ShortLength
    BY <1>3, <2>3
  <2>5. QED
    BY <1>1, <1>3, <2>1, <2>3, <2>4 DEF EmitsThriftyHeader
<1>6. CASE EmitLargeDistance
  <2> DEFINE h == LargeDistance(InlineLen, ShortLength, d)
  <2>1. /\ EmitHeader(h, ShortLength) /\ ~FitsMedium
        /\ d >= MAX_SHORT_DISTANCE /\ d # previous_distance
    BY <1>6 DEF EmitLargeDistance, d
  <2>2. d \in 1..MAX_DISTANCE
    BY <1>2, FieldTypes
  <2>3. h \in Seq(Byte) /\ Len(h) = 3
    BY <1>2, <1>3, <2>2, LargeDistanceBytes
  <2> HIDE DEF h
  <2>4. match.length > 3
    <3>1. IsWorthwhile(match)
      BY <1>1 DEF Thrift, AtHeader
    <3>2. ~(d < MAX_SHORT_DISTANCE)
      BY <1>2, <2>1 DEF MAX_SHORT_DISTANCE
    <3>3. QED
      BY <2>1, <3>1, <3>2 DEF IsWorthwhile, d, MIN_MATCH_LEN
  <2>5. ShortLength >= 4
    BY <1>2, <1>4, <2>4 DEF ShortLength, ChunkLen
  <2>6. Len(h) + (IF InlineLen = 0 THEN 0 ELSE 1) <= ShortLength
    BY <1>3, <2>3, <2>5
  <2>7. QED
    BY <1>1, <1>3, <2>1, <2>3, <2>6 DEF EmitsThriftyHeader
<1>7. CASE EmitMediumDistance
  <2> DEFINE length == ChunkLen(match.length, MAX_MEDIUM_MATCH)
             h      == MediumDistance(InlineLen, length, d)
  <2>1. EmitHeader(h, length) /\ FitsMedium
    BY <1>7 DEF EmitMediumDistance, d
  <2>2. /\ d \in 1..MAX_MEDIUM_DISTANCE
        /\ length \in 3..MAX_MEDIUM_MATCH /\ length \in Nat
    BY <1>2, <2>1, FieldTypes DEF FitsMedium, d
  <2>3. h \in Seq(Byte) /\ Len(h) = 3
    BY <1>2, <2>2, MediumDistanceBytes
  <2>4. length >= 4
    <3>1. match.length > 4
      BY <1>2, <1>4, <2>1 DEF FitsMedium
    <3>2. QED
      BY <1>2, <3>1 DEF ChunkLen, MAX_MEDIUM_MATCH
  <2> HIDE DEF h, length
  <2>5. Len(h) + (IF InlineLen = 0 THEN 0 ELSE 1) <= length
    BY <2>2, <2>3, <2>4
  <2>6. QED
    BY <1>1, <2>1, <2>2, <2>3, <2>5 DEF EmitsThriftyHeader
<1>8. CASE EmitPreviousDistance
  <2>1. CASE InlineLen = 0
    <3>1. EmitHeader(<< >>, 0)
      BY <1>8, <2>1 DEF EmitPreviousDistance
    <3>2. PICK h \in Seq(Byte) : h = << >> /\ Len(h) = 0
      <4>1. << >> \in Seq(Byte) /\ Len(<< >>) = 0
        BY EmptySeq
      <4>2. QED
        BY <4>1, Zenon
    <3>3. EmitHeader(h, 0) /\ 0 \in Nat
      BY <3>1, <3>2
    <3>4. Len(h) + (IF InlineLen = 0 THEN 0 ELSE 1) <= 0
      BY <2>1, <3>2
    <3>5. QED
      BY <1>1, <3>3, <3>4 DEF EmitsThriftyHeader
  <2>2. CASE InlineLen # 0
    <3> DEFINE h == PreviousDistance(InlineLen, ShortLength)
    <3>1. EmitHeader(h, ShortLength)
      BY <1>8, <2>2 DEF EmitPreviousDistance
    <3>2. h \in Seq(Byte) /\ Len(h) = 1
      <4>1. InlineLen \in 1..3
        BY <1>2, <2>2
      <4>2. QED
        BY <1>3, <4>1, PreviousDistanceBytes
    <3> HIDE DEF h
    <3>3. Len(h) + (IF InlineLen = 0 THEN 0 ELSE 1) <= ShortLength
      BY <1>3, <2>2, <3>2
    <3>4. QED
      BY <1>1, <1>3, <3>1, <3>2, <3>3 DEF EmitsThriftyHeader
  <2>3. QED
    BY <2>1, <2>2
<1>9. QED
  BY <1>1, <1>5, <1>6, <1>7, <1>8

(* More of a match costs no more than it covers. *)
LEMMA ChunkThrift ==
  ASSUME IInv, Thrift, EmitMatchChunk
  PROVE  Thrift'
<1> DEFINE left == position + match.length - covered
           n    == ChunkLen(left, MAX_MATCH_LEN)
           h    == MatchHeader(n)
<1>1. /\ pc = "chunks" /\ output' = output \o h /\ covered' = covered + n
      /\ pc' \in {"enter", "chunks"}
  BY DEF EmitMatchChunk
<1>2. /\ output \in Seq(Byte) /\ Len(output) \in Nat
      /\ position \in Nat /\ covered \in Nat
      /\ covered < position + match.length /\ match.length \in Nat
  BY <1>1 DEF IInv, Progress, IsMatch
<1>3. n \in 1..MAX_MATCH_LEN /\ n \in Nat /\ 1 <= n
  <2>1. left \in Nat /\ 1 <= left
    BY <1>2
  <2> HIDE DEF left
  <2>2. QED
    BY <2>1 DEF ChunkLen, MAX_MATCH_LEN
<1> HIDE DEF n
<1>4. h \in Seq(Byte) /\ Len(h) = IF n <= 15 THEN 1 ELSE 2
  <2>1. h[1] = MatchHeader(n)[1] /\ h[1 + 1] = MatchHeader(n)[2]
    OBVIOUS
  <2>2. QED
    BY <1>3, <2>1, MatchHeaderRead
<1> HIDE DEF h
<1>5. Len(output') = Len(output) + Len(h)
  BY <1>1, <1>2, <1>4, JoinedBytes
<1>6. Slack = 0 /\ Slack' = 0
  BY <1>1 DEF Slack
<1>7. Len(output) <= covered + covered \div 16 + 0
  BY <1>1, <1>6 DEF Thrift
<1>8. PICK a \in Nat, b \in Nat :
        a = covered \div 16 /\ b = (covered + n) \div 16 /\ a <= b
  BY <1>2, <1>3, Allowance
<1>9. Len(output') <= covered + n + b + 0
  BY <1>2, <1>3, <1>4, <1>5, <1>7, <1>8
<1>10. Len(output') <= covered' + covered' \div 16 + Slack'
  BY <1>1, <1>6, <1>8, <1>9
<1>11. QED
  BY <1>1, <1>10 DEF Thrift

(* The other steps emit nothing, or the end marker. *)
LEMMA NextThrift ==
  ASSUME IInv, Thrift, [RoundTripNext]_RoundTripVars
  PROVE  Thrift'
<1>1. /\ output \in Seq(Byte) /\ Len(output) \in Nat /\ covered \in Nat
      /\ covered \div 16 \in Nat
  BY Allowance DEF IInv
<1>2. Slack \in {0, 1} /\ Slack' \in {0, 1}
  BY DEF Slack
<1>3. ASSUME output' = output, covered' = covered, pc # "done", pc' # "done",
             Slack = 0, pc' = "literals" => IsWorthwhile(match)'
      PROVE  Thrift'
  <2>1. Len(output) <= covered + covered \div 16 + Slack'
    BY <1>1, <1>2, <1>3 DEF Thrift
  <2>2. QED
    BY <1>3, <2>1 DEF Thrift
<1>4. CASE UNCHANGED RoundTripVars
  BY <1>4 DEF RoundTripVars, vars, Thrift, Slack, InlineLen, IsWorthwhile
<1>5. CASE Skip
  BY <1>3, <1>5 DEF Skip, Slack
<1>6. CASE FindMatch
  <2>1. IsWorthwhile(match')
    BY <1>6, FoundMatch
  <2>2. previous_distance' = previous_distance
    BY <1>6 DEF FindMatch
  <2>3. IsWorthwhile(match)'
    BY <2>1, <2>2 DEF IsWorthwhile
  <2>4. QED
    BY <1>3, <1>6, <2>3 DEF FindMatch, Slack
<1>7. CASE EnterMatched
  BY <1>3, <1>7 DEF EnterMatched, Slack
<1>8. CASE Finish
  BY <1>3, <1>8 DEF Finish, Slack
<1>9. CASE EmitLiterals
  BY <1>9, LiteralsThrift
<1>10. CASE \/ EmitPreviousDistance \/ EmitMediumDistance
            \/ EmitSmallDistance \/ EmitLargeDistance
  <2>1. AtHeader /\ EmitsThriftyHeader
    BY <1>10, HeaderIsThrifty
  <2>2. QED
    BY <2>1, HeaderThrift DEF EmitsThriftyHeader
<1>11. CASE EmitMatchChunk
  BY <1>11, ChunkThrift
<1>12. CASE EmitEos
  <2>1. /\ pc = "final" /\ covered' = covered /\ pc' = "done"
        /\ output' = output \o EOS
    BY <1>12 DEF EmitEos
  <2>2. EOS \in Seq(Byte) /\ Len(EOS) \in Nat
    BY DEF EOS, Byte
  <2>3. Len(output') = Len(output) + Len(EOS)
    BY <1>1, <2>1, <2>2, JoinedBytes
  <2>4. Len(output) <= covered + covered \div 16 + Slack
    BY <2>1 DEF Thrift
  <2>5. Len(output') <= covered + covered \div 16 + 1 + Len(EOS)
    BY <1>1, <1>2, <2>2, <2>3, <2>4
  <2>6. QED
    BY <2>1, <2>5 DEF Thrift
<1>13. QED
  BY <1>4, <1>5, <1>6, <1>7, <1>8, <1>9, <1>10, <1>11, <1>12
     DEF RoundTripNext, Next

(* Nothing was emitted. *)
LEMMA InitThrift == RoundTripInit => Thrift
<1>1. 0 \div 16 = 0 /\ Len(<< >>) = 0
  OBVIOUS
<1>2. QED
  BY <1>1 DEF RoundTripInit, Init, Thrift, Slack

(* What it says of the output. *)
LEMMA ThriftImplies == IInv /\ Thrift => ExpansionBounded
<1> SUFFICES ASSUME IInv, Thrift PROVE ExpansionBounded
  OBVIOUS
<1>1. /\ Len(output) \in Nat /\ covered \in Nat /\ covered \div 16 \in Nat
      /\ Slack \in {0, 1} /\ Len(EOS) \in Nat
  BY Allowance DEF IInv, Slack, EOS
<1>2. CASE pc = "done"
  <2>1. Len(output) <= covered + covered \div 16 + 1 + Len(EOS)
    BY <1>2 DEF Thrift
  <2>2. Len(output) - Len(EOS) <= covered + covered \div 16 + 1
    BY <1>1, <2>1
  <2>3. QED
    BY <1>2, <2>2 DEF ExpansionBounded
<1>3. CASE pc # "done"
  <2>1. Len(output) <= covered + covered \div 16 + Slack
    BY <1>3 DEF Thrift
  <2>2. Len(output) - 0 <= covered + covered \div 16 + 1
    BY <1>1, <2>1
  <2>3. QED
    BY <1>3, <2>2 DEF ExpansionBounded
<1>4. QED
  BY <1>2, <1>3

(* The output is at no moment longer than what it covers by more than a    *)
(* sixteenth and one byte, for every source (encode.rs 50 and 198-334).    *)
THEOREM EncoderExpansion == RoundTripSpec => []ExpansionBounded
<1>1. RoundTripInit => IInv /\ Thrift
  BY InitInvariant, InitThrift
<1>2. IInv /\ Thrift /\ [RoundTripNext]_RoundTripVars => IInv' /\ Thrift'
  BY NextInvariant, NextThrift
<1>3. IInv /\ Thrift => ExpansionBounded
  BY ThriftImplies
<1>4. QED
  BY <1>1, <1>2, <1>3, PTL DEF RoundTripSpec
-----------------------------------------------------------------------------
(* What a decoder makes of the output.                                     *)

(* The reference, given the output, gets to where the reader is. *)
Traced ==
  /\ pc # "done" => Reaches(output, decoder)
  /\ pc = "done" => Reference(output) = decoder

(* Joined sequences begin with the first. *)
LEMMA JoinedExtends ==
  ASSUME NEW a \in Seq(Byte), NEW b \in Seq(Byte), NEW c \in Seq(Byte)
  PROVE  Extends(a, a \o b) /\ Extends(a, a \o b \o c)
<1>1. a \o b \in Seq(Byte) /\ a \o b \o c \in Seq(Byte)
  BY JoinedBytes
<1>2. Len(a) \in Nat /\ Len(b) \in Nat /\ Len(c) \in Nat
  OBVIOUS
<1>3. Extends(a, a \o b)
  BY <1>2, JoinedBytes DEF Extends
<1>4. Extends(a \o b, a \o b \o c)
  <2> DEFINE d == a \o b
  <2> HIDE DEF d
  <2>1. d \in Seq(Byte) /\ Len(d) \in Nat
    BY <1>1 DEF d
  <2>2. Extends(d, d \o c)
    BY <1>2, <2>1, JoinedBytes DEF Extends
  <2>3. QED
    BY <2>2 DEF d
<1>5. QED
  BY <1>1, <1>3, <1>4, ExtendsTransitive

(* Nothing that was emitted is changed later. *)
LEMMA OutputGrows ==
  ASSUME IInv, Thrift, Next
  PROVE  Extends(output, output') /\ pc # "done"
<1>1. src \in Seq(Byte) /\ output \in Seq(Byte) /\ Len(output) \in Nat
  BY DEF IInv
<1>2. ASSUME output' = output PROVE Extends(output, output')
  BY <1>1, <1>2 DEF Extends
<1>3. CASE Skip \/ FindMatch \/ EnterMatched \/ Finish
  BY <1>2, <1>3 DEF Skip, FindMatch, EnterMatched, Finish
<1>4. CASE EmitLiterals
  <2> DEFINE n   == ChunkLen(LiteralEnd - covered, MAX_LITERAL_LEN)
             h   == LiteralHeader(n)
             run == SubSeq(src, covered + 1, covered + n)
  <2>1. /\ pc \in {"literals", "final"} /\ covered < LiteralEnd
        /\ output' = output \o h \o run
    BY <1>4 DEF EmitLiterals
  <2>2. /\ covered \in Nat /\ LiteralEnd \in Nat /\ LiteralEnd <= Len(src)
    BY <1>1, <2>1 DEF IInv, Progress, LiteralEnd, MAX_INLINE_LITERAL
  <2>3. /\ n \in 1..MAX_LITERAL_LEN /\ n \in Nat /\ covered + n <= Len(src)
    BY <1>1, <2>1, <2>2 DEF ChunkLen, MAX_LITERAL_LEN
  <2> HIDE DEF n
  <2>4. run \in Seq(Byte)
    BY <1>1, <2>2, <2>3, NextRun
  <2>5. h \in Seq(Byte)
    <3>1. h[1] = LiteralHeader(n)[1] /\ h[1 + 1] = LiteralHeader(n)[2]
      OBVIOUS
    <3>2. QED
      BY <2>3, <3>1, LiteralHeaderRead
  <2> HIDE DEF h, run
  <2>6. QED
    BY <1>1, <2>1, <2>4, <2>5, JoinedExtends
<1>5. CASE \/ EmitPreviousDistance \/ EmitMediumDistance
           \/ EmitSmallDistance \/ EmitLargeDistance
  <2>1. PICK h \in Seq(Byte), length \in Nat : EmitHeader(h, length)
    BY <1>5, HeaderIsThrifty DEF EmitsThriftyHeader
  <2>2. AtHeader
    BY <1>5, HeaderIsThrifty
  <2>3. SubSeq(src, covered + 1, position) \in Seq(Byte)
    <3>1. /\ covered \in Nat /\ InlineLen \in Nat
          /\ covered + InlineLen = position /\ position <= Len(src)
      BY <2>2, HeaderState
    <3>2. QED
      BY <1>1, <3>1, NextRun
  <2>4. QED
    BY <1>1, <2>1, <2>2, <2>3, JoinedExtends DEF EmitHeader, AtHeader
<1>6. CASE EmitMatchChunk
  <2> DEFINE left == position + match.length - covered
             n    == ChunkLen(left, MAX_MATCH_LEN)
             h    == MatchHeader(n)
  <2>1. pc = "chunks" /\ output' = output \o h
    BY <1>6 DEF EmitMatchChunk
  <2>2. /\ position \in Nat /\ covered \in Nat
        /\ covered < position + match.length /\ match.length \in Nat
    BY <2>1 DEF IInv, Progress, IsMatch
  <2>3. n \in 1..MAX_MATCH_LEN
    <3>1. left \in Nat /\ 1 <= left
      BY <2>2
    <3> HIDE DEF left
    <3>2. QED
      BY <3>1 DEF ChunkLen, MAX_MATCH_LEN
  <2> HIDE DEF n
  <2>4. h \in Seq(Byte)
    <3>1. h[1] = MatchHeader(n)[1] /\ h[1 + 1] = MatchHeader(n)[2]
      OBVIOUS
    <3>2. QED
      BY <2>3, <3>1, MatchHeaderRead
  <2> HIDE DEF h
  <2>5. QED
    BY <1>1, <2>1, <2>4, JoinedExtends
<1>7. CASE EmitEos
  <2>1. EOS \in Seq(Byte)
    BY DEF EOS, Byte
  <2>2. QED
    BY <1>1, <1>7, <2>1, JoinedExtends DEF EmitEos
<1>8. QED
  BY <1>3, <1>4, <1>5, <1>6, <1>7 DEF Next

(* So every instruction is read in any longer output as it was emitted. *)
LEMMA NextTraced ==
  ASSUME IInv, Thrift, Traced, IInv', [RoundTripNext]_RoundTripVars
  PROVE  Traced'
<1>1. CASE UNCHANGED RoundTripVars
  BY <1>1 DEF RoundTripVars, vars, Traced
<1>2. CASE RoundTripNext
  <2>1. Next /\ Follow
    BY <1>2 DEF RoundTripNext, Follow
  <2>2. /\ Extends(output, output') /\ pc # "done"
        /\ output \in Seq(Byte) /\ output' \in Seq(Byte)
    BY <2>1, OutputGrows DEF IInv
  <2>3. decoder.verdict = "running"
    BY <2>2, InvariantImplies DEF EmittedDecodes
  <2>4. /\ pc' # "done" => decoder'.verdict = "running"
        /\ pc' = "done" => decoder'.verdict = "Finished"
    BY DEF IInv, InStep, Reader
  <2>5. Reaches(output', decoder)
    BY <2>2, <2>3, ReachesLonger DEF Traced
  <2>6. CASE output' = output
    BY <2>1, <2>3, <2>4, <2>5, <2>6 DEF Follow, Traced
  <2>7. CASE output' # output
    <3>1. decoder' = Execute(output', decoder)
      BY <2>1, <2>7 DEF Follow
    <3>2. /\ decoder'.verdict = "running" => Reaches(output', decoder')
          /\ decoder'.verdict # "running" => Reference(output') = decoder'
      BY <2>2, <2>3, <2>5, <3>1, ReachesNext
    <3>3. QED
      BY <2>4, <3>2 DEF Traced
  <2>8. QED
    BY <2>6, <2>7
<1>3. QED
  BY <1>1, <1>2

(* What bvxn::encode puts in front of a payload is read back. *)
LEMMA BlockRead ==
  ASSUME NEW n \in Nat, NEW payload \in Seq(Byte), ~TooLarge(n, payload)
  PROVE  /\ SplitBlock(Block(n, payload)) = "ok"
         /\ ParseHeader(Block(n, payload)).raw_bytes = n
         /\ Payload(Block(n, payload)) = payload
<1> DEFINE m      == Len(payload)
           raw    == U32Bytes(n)
           size   == U32Bytes(m)
           header == BvxnMagic \o raw \o size
           block  == Block(n, payload)
<1>1. m \in Nat /\ FitsU32(n) /\ FitsU32(m)
  BY DEF TooLarge
<1>2. raw \in Seq(Byte) /\ Len(raw) = 4 /\ U32(raw, 1) = n
  BY <1>1, U32BytesRead
<1>3. size \in Seq(Byte) /\ Len(size) = 4 /\ U32(size, 1) = m
  <2> HIDE DEF m
  <2> QED
    BY <1>1, U32BytesRead
<1>4. BvxnMagic \in Seq(Byte) /\ Len(BvxnMagic) = 4
  BY DEF BvxnMagic, Byte
<1>5. block = header \o payload
  BY DEF Block
<1> HIDE DEF m, raw, size
<1>6. /\ header \in Seq(Byte) /\ Len(header) = 12
      /\ \A k \in 1..4 : header[k] = BvxnMagic[k]
      /\ \A k \in 1..4 : header[4 + k] = raw[k]
      /\ \A k \in 1..4 : header[8 + k] = size[k]
  <2> DEFINE first == BvxnMagic \o raw
             both  == first \o size
  <2>1. /\ first \in Seq(Byte) /\ Len(first) = 4 + 4
        /\ \A k \in 1..4 : first[k] = BvxnMagic[k]
        /\ \A k \in 1..4 : first[4 + k] = raw[k]
    <3>1. JoinOf(BvxnMagic, raw, Len(BvxnMagic), Len(raw))
      BY <1>2, <1>4, JoinedAt
    <3>2. JoinOf(BvxnMagic, raw, 4, 4)
      BY <1>2, <1>4, <3>1
    <3>3. QED
      BY <3>2, Zenon DEF JoinOf
  <2>2. header = both
    OBVIOUS
  <2> HIDE DEF first, header
  <2>3. Len(first) = 8
    BY <2>1
  <2>4. /\ both \in Seq(Byte) /\ Len(both) = 8 + 4
        /\ \A k \in 1..8 : both[k] = first[k]
        /\ \A k \in 1..4 : both[8 + k] = size[k]
    <3>1. JoinOf(first, size, Len(first), Len(size))
      BY <1>3, <2>1, JoinedAt
    <3>2. JoinOf(first, size, 8, 4)
      BY <1>3, <2>3, <3>1
    <3>3. QED
      BY <3>2, Zenon DEF JoinOf
  <2> HIDE DEF both
  <2>5. \A k \in 1..4 : k \in 1..8 /\ 4 + k \in 1..8
    OBVIOUS
  <2>6. /\ \A k \in 1..4 : both[k] = BvxnMagic[k]
        /\ \A k \in 1..4 : both[4 + k] = raw[k]
    BY <2>1, <2>4, <2>5, Zenon
  <2>7. QED
    BY <2>2, <2>4, <2>6
<1> HIDE DEF header
<1>7. /\ header \o payload \in Seq(Byte)
      /\ Len(header \o payload) = 12 + m
      /\ \A k \in 1..12 : (header \o payload)[k] = header[k]
      /\ \A k \in 1..m : (header \o payload)[12 + k] = payload[k]
  <2>1. JoinOf(header, payload, Len(header), m)
    BY <1>6, JoinedAt DEF m
  <2>2. JoinOf(header, payload, 12, m)
    BY <1>6, <2>1
  <2>3. QED
    BY <2>2, Zenon DEF JoinOf
<1> HIDE DEF block
<1>8. /\ block \in Seq(Byte) /\ Len(block) = 12 + m
      /\ \A k \in 1..12 : block[k] = header[k]
      /\ \A k \in 1..m : block[12 + k] = payload[k]
  BY <1>5, <1>7, Zenon
<1>9. HasMagic(block)
  <2> DEFINE magic == SubSeq(block, 1, 4)
  <2>1. 1 \in 1..(Len(block) + 1) /\ 4 \in (1 - 1)..Len(block)
    BY <1>1, <1>8
  <2>2. /\ magic \in Seq(Byte) /\ Len(magic) = 4
        /\ \A k \in 1..4 : magic[k] = block[k]
    BY <1>8, <2>1, RunProperties
  <2> HIDE DEF magic
  <2>3. \A k \in 1..4 : magic[k] = BvxnMagic[k]
    BY <1>6, <1>8, <2>2, SMTT(30)
  <2>4. magic = BvxnMagic
    BY <1>4, <2>2, <2>3, SeqEqual
  <2>5. QED
    BY <2>4 DEF HasMagic, magic
<1>10. ParseHeader(block) = [raw_bytes |-> n, payload_bytes |-> m]
  <2>1. /\ block[5] = raw[1] /\ block[6] = raw[2]
        /\ block[7] = raw[3] /\ block[8] = raw[4]
    BY <1>6, <1>8
  <2>2. /\ block[9] = size[1] /\ block[10] = size[2]
        /\ block[11] = size[3] /\ block[12] = size[4]
    BY <1>6, <1>8
  <2>3. U32(block, 5) = U32(raw, 1) /\ U32(block, 9) = U32(size, 1)
    BY <2>1, <2>2, SMT DEF U32
  <2>4. QED
    BY <1>2, <1>3, <2>3 DEF ParseHeader
<1>11. SplitBlock(block) = "ok"
  BY <1>1, <1>8, <1>9, <1>10 DEF SplitBlock, BlockHeaderLen
<1>12. Payload(block) = payload
  <2> DEFINE rest == SubSeq(block, 13, 12 + m)
  <2>1. Payload(block) = rest
    BY <1>1, <1>8, <1>10 DEF Payload, BlockHeaderLen, SmallerOf
  <2>2. 12 + m \in 0..Len(block) /\ 12 \in 0..(12 + m)
    BY <1>1, <1>8
  <2>3. /\ rest \in Seq(Byte) /\ Len(rest) = m
        /\ \A k \in 1..m : rest[k] = block[12 + k]
    <3> DEFINE z == 12 + m
    <3> HIDE DEF z
    <3>1. /\ SubSeq(block, 12 + 1, z) \in Seq(Byte)
          /\ Len(SubSeq(block, 12 + 1, z)) = z - 12
          /\ \A k \in 1..(z - 12) : SubSeq(block, 12 + 1, z)[k] = block[12 + k]
      BY <1>8, <2>2, WindowProperties DEF z
    <3>2. z - 12 = m
      BY <1>1 DEF z
    <3>3. rest = SubSeq(block, 12 + 1, z)
      <4>1. 12 + 1 = 13
        OBVIOUS
      <4>2. QED
        BY <4>1, Zenon DEF z
    <3> HIDE DEF rest
    <3>4. QED
      BY <3>1, <3>2, <3>3, Zenon
  <2> HIDE DEF rest
  <2>4. \A k \in 1..m : rest[k] = payload[k]
    BY <1>8, <2>3
  <2>5. rest = payload
    BY <2>3, <2>4, SeqEqual DEF m
  <2>6. QED
    BY <2>1, <2>5
<1>13. QED
  BY <1>10, <1>11, <1>12 DEF block

(* The finished output decodes to the source, and so does its block. *)
LEMMA TracedImplies == IInv /\ Traced => BlockHoldsSource
<1> SUFFICES ASSUME IInv, Traced, pc = "done", ~TooLarge(Len(src), output)
             PROVE  LET block     == Block(Len(src), output)
                        reference == Reference(Payload(block))
                    IN  /\ SplitBlock(block) = "ok"
                        /\ ParseHeader(block).raw_bytes = Len(src)
                        /\ reference.verdict = "Finished"
                        /\ reference.out = src
  BY DEF BlockHoldsSource
<1>1. src \in Seq(Byte) /\ output \in Seq(Byte) /\ Len(src) \in Nat
  BY DEF IInv
<1>2. /\ SplitBlock(Block(Len(src), output)) = "ok"
      /\ ParseHeader(Block(Len(src), output)).raw_bytes = Len(src)
      /\ Payload(Block(Len(src), output)) = output
  BY <1>1, BlockRead
<1>3. /\ Reference(output).verdict = "Finished"
      /\ Reference(output).out = SubSeq(src, 1, Len(src))
  BY DEF IInv, Traced, InStep, Progress
<1>4. SubSeq(src, 1, Len(src)) = src
  BY <1>1, SubSeqFull
<1>5. QED
  BY <1>2, <1>3, <1>4

(* A block that bvxn::encode returns is whole, declares the size of the    *)
(* source and decodes to the source, for every source of any length that   *)
(* is not refused: nothing is lost between the encoder, the container and  *)
(* a decoder that follows the reference (bvxn.rs 94-118, encode.rs).       *)
THEOREM EncoderBlock == RoundTripSpec => []BlockHoldsSource
<1>1. RoundTripInit => IInv /\ Thrift /\ Traced
  <2>1. RoundTripInit => IInv /\ Thrift
    BY InitInvariant, InitThrift
  <2>2. ASSUME RoundTripInit PROVE Traced
    <3>1. output = << >> /\ decoder = Start /\ pc = "search"
      BY <2>2 DEF RoundTripInit, Init
    <3>2. output \in Seq(Byte)
      BY <3>1
    <3>3. QED
      BY <3>1, <3>2, ReachesStart DEF Traced
  <2>3. QED
    BY <2>1, <2>2
<1>2. /\ IInv /\ Thrift /\ Traced /\ [RoundTripNext]_RoundTripVars
      => IInv' /\ Thrift' /\ Traced'
  BY NextInvariant, NextThrift, NextTraced
<1>3. IInv /\ Traced => BlockHoldsSource
  BY TracedImplies
<1>4. QED
  BY <1>1, <1>2, <1>3, PTL DEF RoundTripSpec
=============================================================================




