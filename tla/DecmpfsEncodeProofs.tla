------------------------ MODULE DecmpfsEncodeProofs -------------------------
(***************************************************************************)
(* Encoding a decmpfs wrapper, for every source whose length 64 bits hold, *)
(* chunks and xattrs of any size: what is returned is a whole wrapper that *)
(* decodes to the source, and is hardly longer.                            *)
(*                                                                         *)
(* P is a copy of the theory of the raw encoder.  Its definitions are      *)
(* those of Raw, the instance that encodes the blocks, under other names;  *)
(* the first lemmas say so.                                                *)
(***************************************************************************)
EXTENDS DecmpfsRoundTrip, LzvnProofs

P == INSTANCE RawEncodeProofs WITH
       Inputs <- Seq(0..255),
       src <- raw_src, output <- raw_output, table <- raw_table,
       position <- raw_position,
       previous_distance <- raw_previous_distance,
       covered <- raw_covered, match <- raw_match, pc <- raw_pc,
       decoder <- decoder

(* Both copies find the same matches *)
LEMMA SameMatches ==
  /\ \A p : Raw!Found(p) = P!Found(p)
  /\ \A p : Raw!Entered(p) = P!Entered(p)
  /\ Raw!NoMatch = P!NoMatch
<1>1. \A p : Raw!HashAt(p) = P!HashAt(p)
  <2> TAKE p
  <2>1. \A k : Raw!At(k) = P!At(k)
    BY Zenon DEF Raw!At, P!At
  <2>2. Raw!HASH_SIZE = P!HASH_SIZE
    BY SMT DEF Raw!HASH_SIZE, P!HASH_SIZE
  <2>3. QED
    BY <2>1, <2>2, SMT DEF Raw!HashAt, P!HashAt
<1>2. \A hash : Raw!Bucket(hash) = P!Bucket(hash)
  BY Zenon DEF Raw!Bucket, P!Bucket
<1>3. \A s : Raw!Newest(s) = P!Newest(s)
  BY Zenon DEF Raw!Newest, P!Newest, Raw!CANDIDATES_PER_BUCKET,
     P!CANDIDATES_PER_BUCKET
<1>4. \A p : Raw!Entered(p) = P!Entered(p)
  BY <1>1, <1>2, <1>3, Zenon
  DEF Raw!Entered, P!Entered, Raw!MIN_MATCH_LEN, P!MIN_MATCH_LEN
<1>5. \A p : Raw!Distances(p) = P!Distances(p)
  <2>1. Raw!MAX_DISTANCE = P!MAX_DISTANCE
    BY SMT DEF Raw!MAX_DISTANCE, P!MAX_DISTANCE
  <2>2. QED
    BY <1>1, <1>2, <2>1, Zenon DEF Raw!Distances, P!Distances
<1>6. \A p, m : Raw!IsLongest(p, m) <=> P!IsLongest(p, m)
  BY Zenon DEF Raw!IsLongest, P!IsLongest, Raw!At, P!At
<1>7. \A p, m : Raw!Repeats(p, m) <=> P!Repeats(p, m)
  BY Zenon DEF Raw!Repeats, P!Repeats, Raw!At, P!At
<1>8. \A p : Raw!Matches(p) = P!Matches(p)
  <2> TAKE p
  <2>1. \A m : Raw!IsLongest(p, m) /\ Raw!Repeats(p, m)
               <=> P!IsLongest(p, m) /\ P!Repeats(p, m)
    BY <1>6, <1>7, Zenon
  <2>2. QED
    BY <1>5, <2>1, Zenon DEF Raw!Matches, P!Matches, Raw!MIN_MATCH_LEN,
       P!MIN_MATCH_LEN
<1>9. \A m, other : Raw!IsBetter(m, other) <=> P!IsBetter(m, other)
  BY Zenon DEF Raw!IsBetter, P!IsBetter
<1>10. \A m : Raw!IsWorthwhile(m) <=> P!IsWorthwhile(m)
  BY Zenon DEF Raw!IsWorthwhile, P!IsWorthwhile, Raw!MAX_SHORT_DISTANCE,
     P!MAX_SHORT_DISTANCE, Raw!MIN_MATCH_LEN, P!MIN_MATCH_LEN
<1>11. \A p : Raw!Found(p) = P!Found(p)
  BY <1>8, <1>9, <1>10, Zenon DEF Raw!Found, P!Found
<1>12. QED
  BY <1>4, <1>11, Zenon DEF Raw!NoMatch, P!NoMatch

(* build the same headers *)
LEMMA SameHeaders ==
  /\ \A n : Raw!LiteralHeader(n) = P!LiteralHeader(n)
  /\ \A n : Raw!MatchHeader(n) = P!MatchHeader(n)
  /\ \A n, m, d : Raw!SmallDistance(n, m, d) = P!SmallDistance(n, m, d)
  /\ \A n, m, d : Raw!MediumDistance(n, m, d) = P!MediumDistance(n, m, d)
  /\ \A n, m, d : Raw!LargeDistance(n, m, d) = P!LargeDistance(n, m, d)
  /\ \A n, m : Raw!PreviousDistance(n, m) = P!PreviousDistance(n, m)
  /\ \A n, m : Raw!ChunkLen(n, m) = P!ChunkLen(n, m)
  /\ \A n : Raw!max_short_match(n) = P!max_short_match(n)
BY Zenon
DEF Raw!LiteralHeader, P!LiteralHeader, Raw!MatchHeader, P!MatchHeader,
    Raw!SmallDistance, P!SmallDistance, Raw!MediumDistance,
    P!MediumDistance, Raw!LargeDistance, P!LargeDistance,
    Raw!PreviousDistance, P!PreviousDistance, Raw!ChunkLen, P!ChunkLen,
    Raw!max_short_match, P!max_short_match, Raw!LowByte, P!LowByte,
    Raw!HighByte, P!HighByte, Raw!MIN_MATCH_LEN, P!MIN_MATCH_LEN

(* and take the same steps. *)
LEMMA SameNext == Raw!Next => P!Next
<1> USE SameMatches, SameHeaders
    DEF Raw!LiteralEnd, P!LiteralEnd, Raw!InlineLen, P!InlineLen,
        Raw!ShortLength, P!ShortLength, Raw!EmitHeader, P!EmitHeader,
        Raw!AtHeader, P!AtHeader, Raw!FitsMedium, P!FitsMedium,
        Raw!MAX_INLINE_LITERAL, P!MAX_INLINE_LITERAL
<1>1. /\ Raw!MAX_MEDIUM_DISTANCE = P!MAX_MEDIUM_DISTANCE
      /\ Raw!MAX_SHORT_DISTANCE = P!MAX_SHORT_DISTANCE
      /\ Raw!MAX_MEDIUM_MATCH = P!MAX_MEDIUM_MATCH
      /\ Raw!MAX_LITERAL_LEN = P!MAX_LITERAL_LEN
      /\ Raw!MAX_MATCH_LEN = P!MAX_MATCH_LEN
  BY SMT DEF Raw!MAX_MEDIUM_DISTANCE, P!MAX_MEDIUM_DISTANCE,
     Raw!MAX_SHORT_DISTANCE, P!MAX_SHORT_DISTANCE, Raw!MAX_MEDIUM_MATCH,
     P!MAX_MEDIUM_MATCH, Raw!MAX_LITERAL_LEN, P!MAX_LITERAL_LEN,
     Raw!MAX_MATCH_LEN, P!MAX_MATCH_LEN
<1>2. Raw!Skip => P!Skip
  BY Zenon DEF Raw!Skip, P!Skip
<1>3. Raw!FindMatch => P!FindMatch
  BY Zenon DEF Raw!FindMatch, P!FindMatch
<1>4. Raw!EnterMatched => P!EnterMatched
  BY Zenon DEF Raw!EnterMatched, P!EnterMatched
<1>5. Raw!Finish => P!Finish
  BY Zenon DEF Raw!Finish, P!Finish
<1>6. Raw!EmitLiterals => P!EmitLiterals
  BY <1>1, Zenon DEF Raw!EmitLiterals, P!EmitLiterals
<1>7. Raw!EmitPreviousDistance => P!EmitPreviousDistance
  BY Zenon DEF Raw!EmitPreviousDistance, P!EmitPreviousDistance
<1>8. Raw!EmitMediumDistance => P!EmitMediumDistance
  BY <1>1, Zenon DEF Raw!EmitMediumDistance, P!EmitMediumDistance
<1>9. Raw!EmitSmallDistance => P!EmitSmallDistance
  BY <1>1, Zenon DEF Raw!EmitSmallDistance, P!EmitSmallDistance
<1>10. Raw!EmitLargeDistance => P!EmitLargeDistance
  BY <1>1, Zenon DEF Raw!EmitLargeDistance, P!EmitLargeDistance
<1>11. Raw!EmitMatchChunk => P!EmitMatchChunk
  BY <1>1, Zenon DEF Raw!EmitMatchChunk, P!EmitMatchChunk
<1>12. Raw!EmitEos => P!EmitEos
  BY Zenon DEF Raw!EmitEos, P!EmitEos, Raw!EOS, P!EOS
<1>13. QED
  BY <1>2, <1>3, <1>4, <1>5, <1>6, <1>7, <1>8, <1>9, <1>10, <1>11, <1>12,
     Zenon DEF Raw!Next, P!Next

(* The reference of P is the reference here: it executes instructions      *)
(* alike,                                                                  *)
LEMMA SameExecute ==
  ASSUME NEW s, NEW p
  PROVE  P!Execute(s, p) = Execute(s, p)
<1>1. /\ \A b : P!Classify(b) = Classify(b)
      /\ \A kind : P!HeaderLen(kind) = HeaderLen(kind)
      /\ P!LiteralKinds = LiteralKinds
  BY Zenon DEF P!Classify, Classify, P!HeaderLen, HeaderLen,
     P!LiteralKinds, LiteralKinds
<1>2. ASSUME NEW u, NEW i
      PROVE  P!LiteralLen(u, i) = LiteralLen(u, i)
  BY Zenon DEF P!LiteralLen, LiteralLen, P!Classify, Classify
<1>3. ASSUME NEW u, NEW i
      PROVE  P!MatchLen(u, i) = MatchLen(u, i)
  BY Zenon DEF P!MatchLen, MatchLen, P!Classify, Classify
<1>4. ASSUME NEW u, NEW i, NEW d
      PROVE  P!MatchDistance(u, i, d) = MatchDistance(u, i, d)
  BY Zenon DEF P!MatchDistance, MatchDistance, P!Classify, Classify
<1>5. \A u, i : P!IsComplete(u, i) <=> IsComplete(u, i)
  BY <1>1, <1>2, Zenon DEF P!IsComplete, IsComplete
<1>6. \A u : P!IsEosPadding(u) <=> IsEosPadding(u)
  BY Zenon DEF P!IsEosPadding, IsEosPadding, P!AllZero, AllZero,
     P!MaxEosPadding, MaxEosPadding
<1>7. \A o, d, m : P!Periodic(o, d, m) = Periodic(o, d, m)
  BY Zenon DEF P!Periodic, Periodic
<1>8. QED
  BY <1>1, <1>2, <1>3, <1>4, <1>5, <1>6, <1>7, Zenon
  DEF P!Execute, Execute

LEMMA RawAssumption == P!RawEncodeAssumption
BY DEF P!RawEncodeAssumption, P!Byte

(* and its states follow each other alike. *)
LEMMA SameReference ==
  ASSUME NEW s \in Seq(Byte)
  PROVE  P!Reference(s) = Reference(s)
<1> DEFINE f == P!Trace(s)
           g == Trace(s)
           b == Len(s) + 1
           T == {n \in 0..b : f[n] = g[n]}
<1>1. Len(s) \in Nat /\ b \in Nat /\ b \in 0..b
  OBVIOUS
<1>2. /\ f[0] = P!Start
      /\ \A n \in 0..Len(s) : f[n + 1] = P!Executed(s, f[n])
  BY <1>1, RawAssumption, P!TraceStates
<1>3. /\ g[0] = Start
      /\ \A n \in 0..Len(s) : g[n + 1] = Executed(s, g[n])
  BY <1>1, TraceStates
<1>4. /\ P!Start = Start
      /\ \A p : P!Executed(s, p) = Executed(s, p)
  BY SameExecute, Zenon DEF P!Start, Start, P!Executed, Executed
<1> HIDE DEF f, g
<1>5. 0 \in T
  BY <1>1, <1>2, <1>3, <1>4
<1>6. ASSUME NEW n \in 0..(b - 1), n \in T
      PROVE  n + 1 \in T
  <2>1. n \in 0..Len(s) /\ n + 1 \in 0..b
    BY <1>1
  <2>2. f[n] = g[n]
    BY <1>6
  <2>3. QED
    BY <1>2, <1>3, <1>4, <2>1, <2>2
<1>7. \A n \in 0..b : n \in T
  <2> HIDE DEF T, b
  <2> QED
    BY <1>1, <1>5, <1>6, UpTo
<1>8. f[b] = g[b]
  BY <1>1, <1>7
<1>9. QED
  BY <1>8 DEF f, g, P!Reference, Reference
-----------------------------------------------------------------------------
(* The raw encoder at work. *)

RawInv == P!IInv /\ P!Thrift /\ P!Traced

(* It starts, *)
LEMMA RawStart == P!RoundTripInit => RawInv
<1> SUFFICES ASSUME P!RoundTripInit PROVE RawInv
  OBVIOUS
<1>1. P!IInv /\ P!Thrift
  BY RawAssumption, P!InitInvariant, P!InitThrift
<1>2. raw_output = << >> /\ decoder = P!Start /\ raw_pc = "search"
  BY DEF P!RoundTripInit, P!Init
<1>3. P!Reaches(raw_output, decoder)
  <2>1. raw_output \in Seq(P!Byte)
    BY <1>2
  <2>2. QED
    BY <1>2, <2>1, RawAssumption, P!ReachesStart
<1>4. QED
  BY <1>1, <1>2, <1>3 DEF RawInv, P!Traced

(* again for every chunk, *)
LEMMA RawRestart == (P!RoundTripInit => RawInv)'
BY RawStart, PTL

LEMMA StartsRaw ==
  ASSUME NEW bytes \in Seq(Byte), StartEncoder(bytes), decoder' = Start
  PROVE  RawInv'
<1>1. Raw!NoMatch = P!NoMatch /\ P!Start = Start
  BY SameMatches DEF P!Start, Start
<1>2. bytes \in Seq(0..255)
  BY DEF Byte
<1>3. P!RoundTripInit'
  BY <1>1, <1>2 DEF StartEncoder, P!RoundTripInit, P!Init
<1>4. QED
  BY <1>3, RawRestart

(* and goes on. *)
LEMMA RawGoesOn ==
  ASSUME RawInv, Raw!Next,
         decoder' = IF raw_output' = raw_output THEN decoder
                    ELSE Execute(raw_output', decoder)
  PROVE  RawInv' /\ raw_src' = raw_src
<1>1. P!RoundTripNext
  <2>1. P!Next
    BY SameNext
  <2>2. QED
    BY <2>1, SameExecute, Zenon DEF P!RoundTripNext
<1>2. [P!RoundTripNext]_(P!RoundTripVars)
  BY <1>1
<1>3. P!IInv'
  BY <1>2, RawAssumption, P!NextInvariant DEF RawInv
<1>4. P!Thrift'
  BY <1>2, RawAssumption, P!NextThrift DEF RawInv
<1>5. P!Traced'
  BY <1>2, <1>3, RawAssumption, P!NextTraced DEF RawInv
<1>6. raw_src' = raw_src
  BY DEF Raw!Next, Raw!Skip, Raw!FindMatch, Raw!EnterMatched, Raw!Finish,
     Raw!EmitLiterals, Raw!EmitPreviousDistance, Raw!EmitMediumDistance,
     Raw!EmitSmallDistance, Raw!EmitLargeDistance, Raw!EmitHeader,
     Raw!EmitMatchChunk, Raw!EmitEos
<1>7. QED
  BY <1>3, <1>4, <1>5, <1>6 DEF RawInv

LEMMA RawTypes ==
  ASSUME RawInv
  PROVE  raw_src \in Seq(Byte) /\ raw_output \in Seq(Byte)
BY DEF RawInv, P!IInv, P!Byte, Byte

(* What it has finished decodes to what it was given. *)
LEMMA RawFinished ==
  ASSUME RawInv, raw_pc = "done"
  PROVE  /\ Reference(raw_output).verdict = "Finished"
         /\ Reference(raw_output).out = raw_src
<1>1. raw_src \in Seq(Byte) /\ raw_output \in Seq(Byte)
  BY RawTypes
<1>2. P!Reference(raw_output) = decoder
  BY DEF RawInv, P!Traced
<1>3. /\ decoder.verdict = "Finished"
      /\ decoder.out = SubSeq(raw_src, 1, Len(raw_src))
  BY DEF RawInv, P!IInv, P!InStep, P!Progress
<1>4. SubSeq(raw_src, 1, Len(raw_src)) = raw_src
  BY <1>1, SubSeqFull
<1>5. QED
  BY <1>1, <1>2, <1>3, <1>4, SameReference

(* The payload of a source, or the block of a chunk: it is one, decodes to *)
(* the bytes and has at most one byte more.                                *)
LEMMA BestBlock ==
  ASSUME RawInv, raw_pc = "done"
  PROVE  /\ Best \in Seq(Byte)
         /\ Len(Best) <= Len(raw_src) + 1
         /\ IsBlock(Best, Len(raw_src))
         /\ Content(Best, Len(raw_src)) = raw_src
<1>1. /\ raw_src \in Seq(Byte) /\ raw_output \in Seq(Byte)
      /\ Len(raw_src) \in Nat /\ Len(raw_output) \in Nat
  BY RawTypes
<1>2. CASE Len(raw_src) + 1 < Len(raw_output)
  <2> DEFINE one == << Sentinel >>
  <2>1. one \in Seq(Byte) /\ Len(one) = 1 /\ one[1] = Sentinel
    BY DEF Sentinel, Byte
  <2> HIDE DEF one
  <2>2. JoinOf(one, raw_src, 1, Len(raw_src))
    <3>1. JoinOf(one, raw_src, Len(one), Len(raw_src))
      BY <1>1, <2>1, JoinedAt
    <3>2. QED
      BY <2>1, <3>1
  <2>3. Best = one \o raw_src
    BY <1>2 DEF Best, one
  <2>4. /\ Best \in Seq(Byte) /\ Len(Best) = 1 + Len(raw_src)
        /\ Best[1] = Sentinel
        /\ \A k \in 1..Len(raw_src) : Best[1 + k] = raw_src[k]
    BY <2>1, <2>2, <2>3 DEF JoinOf
  <2> HIDE DEF Best
  <2>5. Len(Best) = Len(raw_src) + 1
    BY <1>1, <2>4
  <2>6. IsStored(Best, Len(raw_src))
    BY <2>4, <2>5 DEF IsStored
  <2>7. Tail(Best) = raw_src
    <3> DEFINE tail == Tail(Best)
    <3>1. /\ tail \in Seq(Byte) /\ Len(tail) = Len(raw_src)
          /\ \A k \in 1..Len(raw_src) : tail[k] = Best[1 + k]
      BY <1>1, <2>4, <2>5
    <3>2. \A k \in 1..Len(raw_src) : tail[k] = raw_src[k]
      BY <2>4, <3>1
    <3> HIDE DEF tail
    <3>3. tail = raw_src
      BY <1>1, <3>1, <3>2, SeqEqual
    <3>4. QED
      BY <3>3 DEF tail
  <2>8. QED
    BY <1>1, <2>4, <2>5, <2>6, <2>7 DEF IsBlock, Content
<1>3. CASE ~(Len(raw_src) + 1 < Len(raw_output))
  <2>1. Best = raw_output
    BY <1>3 DEF Best
  <2>2. /\ Reference(raw_output).verdict = "Finished"
        /\ Reference(raw_output).out = raw_src
    BY RawFinished
  <2>3. IsBlock(raw_output, Len(raw_src))
    BY <2>2 DEF IsBlock
  <2>4. IsStored(raw_output, Len(raw_src)) => Tail(raw_output) = raw_src
    BY <1>1, <2>2, StoredDecodes DEF IsStored, Sentinel
  <2>5. QED
    BY <1>1, <1>3, <2>1, <2>2, <2>3, <2>4 DEF Content
<1>4. QED
  BY <1>2, <1>3
-----------------------------------------------------------------------------
(* The header of a wrapper. *)

(* Joined sequences of known lengths. *)
LEMMA JoinedOf ==
  ASSUME NEW a \in Seq(Byte), NEW b \in Seq(Byte), NEW m, NEW n,
         Len(a) = m, Len(b) = n
  PROVE  JoinOf(a, b, m, n)
BY JoinedAt

(* What build_xattr puts in front of a payload is read back. *)
LEMMA XattrRead ==
  ASSUME NEW type \in {LzvnXattr, LzvnResourceFork},
         NEW n \in Nat, FitsU64(n), NEW payload \in Seq(Byte),
         NEW x, x = BuildXattr(type, n, payload)
  PROVE  /\ x \in Seq(Byte) /\ Len(x) = HeaderLength + Len(payload)
         /\ HasHeader(x)
         /\ XattrType(x) = type /\ XattrSize(x) = n
         /\ XattrPayload(x) = payload
<1> DEFINE m    == Len(payload)
           kind == U32Bytes(type)
           size == U64Bytes(n)
           a    == Magic \o kind
           h    == a \o size
<1>1. /\ Magic \in Seq(Byte) /\ Len(Magic) = 4
      /\ m \in Nat
  BY DEF Magic, Byte
<1>2. kind \in Seq(Byte) /\ Len(kind) = 4 /\ U32(kind, 1) = type
  <2>1. type \in Nat /\ FitsU32(type)
    BY SMT DEF LzvnXattr, LzvnResourceFork, FitsU32
  <2>2. QED
    BY <2>1, U32BytesRead
<1>3. size \in Seq(Byte) /\ Len(size) = 8 /\ U64(size, 1) = n
  BY U64BytesRead
<1>4. x = h \o payload
  BY DEF BuildXattr
<1> HIDE DEF m, kind, size
<1>5. JoinOf(Magic, kind, 4, 4)
  BY <1>1, <1>2, JoinedOf
<1>6. a \in Seq(Byte) /\ Len(a) = 8
  BY <1>5 DEF JoinOf
<1>7. \A k \in 1..4 : a[k] = Magic[k] /\ a[4 + k] = kind[k]
  BY <1>5, Zenon DEF JoinOf
<1> HIDE DEF a
<1>8. JoinOf(a, size, 8, 8)
  BY <1>3, <1>6, JoinedOf
<1>9. h \in Seq(Byte) /\ Len(h) = 16
  BY <1>8 DEF JoinOf
<1>10. \A k \in 1..8 : h[k] = a[k] /\ h[8 + k] = size[k]
  BY <1>8, Zenon DEF JoinOf
<1> HIDE DEF h
<1>11. JoinOf(h, payload, 16, m)
  BY <1>9, JoinedOf DEF m
<1>12. x \in Seq(Byte) /\ Len(x) = 16 + m
  BY <1>4, <1>11, Zenon DEF JoinOf
<1>13. /\ \A k \in 1..16 : x[k] = h[k]
       /\ \A k \in 1..m : x[16 + k] = payload[k]
  BY <1>4, <1>11, Zenon DEF JoinOf
<1>14. \A k \in 1..8 : x[k] = a[k]
  <2>1. \A k \in 1..8 : k \in 1..16
    OBVIOUS
  <2>2. QED
    BY <1>10, <1>13, <2>1, Zenon
<1>15. SubSeq(x, 1, 4) = Magic
  <2> DEFINE magic == SubSeq(x, 1, 4)
  <2>1. 1 \in 1..(Len(x) + 1) /\ 4 \in (1 - 1)..Len(x)
    BY <1>1, <1>12
  <2>2. /\ magic \in Seq(Byte) /\ Len(magic) = 4
        /\ \A k \in 1..4 : magic[k] = x[k]
    BY <1>12, <2>1, RunProperties
  <2>3. \A k \in 1..4 : k \in 1..8
    OBVIOUS
  <2> HIDE DEF magic
  <2>4. \A k \in 1..4 : magic[k] = Magic[k]
    BY <1>7, <1>14, <2>2, <2>3, Zenon
  <2>5. magic = Magic
    BY <1>1, <2>2, <2>4, SeqEqual
  <2>6. QED
    BY <2>5 DEF magic
<1>16. XattrType(x) = type
  <2>1. /\ x[5] = kind[1] /\ x[6] = kind[2]
        /\ x[7] = kind[3] /\ x[8] = kind[4]
    BY <1>7, <1>14
  <2>2. U32(x, 5) = U32(kind, 1)
    BY <2>1, SMT DEF U32
  <2>3. QED
    BY <1>2, <2>2 DEF XattrType
<1>17. XattrSize(x) = n
  <2>1. /\ x[9] = size[1] /\ x[10] = size[2]
        /\ x[11] = size[3] /\ x[12] = size[4]
        /\ x[13] = size[5] /\ x[14] = size[6]
        /\ x[15] = size[7] /\ x[16] = size[8]
    BY <1>10, <1>13
  <2>2. U64(x, 9) = U64(size, 1)
    BY <2>1, SMT DEF U64, U32
  <2>3. QED
    BY <1>3, <2>2 DEF XattrSize
<1>18. XattrPayload(x) = payload
  <2> DEFINE z    == 16 + m
             rest == SubSeq(x, 16 + 1, z)
  <2>1. z \in 0..Len(x) /\ 16 \in 0..z /\ z - 16 = m
    BY <1>1, <1>12
  <2>2. XattrPayload(x) = rest
    BY <1>12 DEF XattrPayload, HeaderLength
  <2> HIDE DEF z
  <2>3. /\ rest \in Seq(Byte) /\ Len(rest) = m
        /\ \A k \in 1..m : rest[k] = x[16 + k]
    BY <1>12, <2>1, WindowProperties
  <2> HIDE DEF rest
  <2>4. \A k \in 1..m : rest[k] = payload[k]
    BY <1>13, <2>3, Zenon
  <2>5. rest = payload
    BY <2>3, <2>4, SeqEqual DEF m
  <2>6. QED
    BY <2>2, <2>5
<1>19. HasHeader(x)
  BY <1>1, <1>12, <1>15, <1>16 DEF HasHeader, HeaderLength
<1>20. QED
  BY <1>12, <1>16, <1>17, <1>18, <1>19 DEF HeaderLength, m

(* A payload that is a block makes a whole wrapper. *)
LEMMA InlineHolds ==
  ASSUME NEW s \in Seq(Byte), FitsU64(Len(s)), NEW payload \in Seq(Byte),
         IsBlock(payload, Len(s)), Content(payload, Len(s)) = s,
         NEW x, x = BuildXattr(LzvnXattr, Len(s), payload)
  PROVE  /\ IsWrapper(x, NoFork) /\ XattrSize(x) = Len(s)
         /\ WrapperContent(x, NoFork) = s
         /\ x \in Seq(Byte) /\ Len(x) = HeaderLength + Len(payload)
<1>1. /\ x \in Seq(Byte) /\ Len(x) = HeaderLength + Len(payload)
      /\ HasHeader(x)
      /\ XattrType(x) = LzvnXattr /\ XattrSize(x) = Len(s)
      /\ XattrPayload(x) = payload
  BY XattrRead
<1>2. QED
  BY <1>1, Zenon DEF IsWrapper, WrapperContent
-----------------------------------------------------------------------------
(* The offset table. *)

(* The entries, each four bytes, *)
Entries(o) == [i \in 1..Len(o) |-> U32Bytes(o[i])]

(* and joined. *)
TableBytes(o) == FlattenSeq(Entries(o))

(* They are read back. *)
IsTable(o) ==
  /\ o \in Seq(Nat)
  /\ Entries(o) \in Seq(Seq(Byte))
  /\ TableBytes(o) \in Seq(Byte)
  /\ Len(TableBytes(o)) = 4 * Len(o)
  /\ \A k \in 0..(Len(o) - 1) : ReadOffset(TableBytes(o), k) = o[k + 1]

(* An entry stays where it is when bytes follow. *)
LEMMA EntryKept ==
  ASSUME NEW t \in Seq(Byte), NEW rest \in Seq(Byte), NEW k \in Nat,
         4 * k + 4 <= Len(t)
  PROVE  ReadOffset(t \o rest, k) = ReadOffset(t, k)
<1> DEFINE f == t \o rest
           i == 4 * k + 1
<1>1. /\ i \in 1..Len(t) /\ i + 1 \in 1..Len(t)
      /\ i + 2 \in 1..Len(t) /\ i + 3 \in 1..Len(t)
  OBVIOUS
<1>2. \A j \in 1..Len(t) : f[j] = t[j]
  BY JoinedBytes
<1> HIDE DEF f, i
<1>3. /\ f[i] = t[i] /\ f[i + 1] = t[i + 1]
      /\ f[i + 2] = t[i + 2] /\ f[i + 3] = t[i + 3]
  BY <1>1, <1>2
<1>4. U32(f, i) = U32(t, i)
  BY <1>3, SMT DEF U32
<1>5. QED
  BY <1>4 DEF ReadOffset, f, i

LEMMA EmptyTable == IsTable(<< >>)
<1>1. << >> \in Seq(Nat) /\ Len(<< >>) = 0 /\ << >> \in Seq(Byte)
      /\ << >> \in Seq(Seq(Byte))
  OBVIOUS
<1>2. Entries(<< >>) = << >>
  <2>1. Entries(<< >>) \in Seq(Byte) /\ Len(Entries(<< >>)) = 0
    BY DEF Entries
  <2>2. QED
    BY <2>1
<1>3. TableBytes(<< >>) = << >>
  <2>1. FlattenSeq(<< >>) = << >>
    BY <1>1, Zenon DEF FlattenSeq
  <2>2. QED
    BY <1>2, <2>1, Zenon DEF TableBytes
<1>4. /\ Len(TableBytes(<< >>)) = 4 * Len(<< >>)
      /\ TableBytes(<< >>) \in Seq(Byte)
      /\ Entries(<< >>) \in Seq(Seq(Byte))
  <2>1. 4 * Len(<< >>) = Len(<< >>)
    BY <1>1
  <2>2. QED
    BY <1>1, <1>2, <1>3, <2>1, Zenon
<1>5. \A k \in 0..(Len(<< >>) - 1) :
        ReadOffset(TableBytes(<< >>), k) = << >>[k + 1]
  <2>1. 0..(Len(<< >>) - 1) = {}
    BY <1>1
  <2>2. QED
    BY <2>1, Zenon
<1>6. QED
  BY <1>1, <1>4, <1>5, Zenon DEF IsTable

(* One more offset up to u32::MAX. *)
LEMMA LongerTable ==
  ASSUME NEW o, IsTable(o), NEW x \in Nat, FitsU32(x)
  PROVE  IsTable(Append(o, x))
<1> DEFINE m == Len(o)
           p == Append(o, x)
           t == TableBytes(o)
           e == U32Bytes(x)
           u == t \o e
<1>1. /\ o \in Seq(Nat) /\ m \in Nat
      /\ t \in Seq(Byte) /\ Len(t) = 4 * m
      /\ Entries(o) \in Seq(Seq(Byte))
      /\ \A k \in 0..(m - 1) : ReadOffset(t, k) = o[k + 1]
  BY DEF IsTable
<1>2. e \in Seq(Byte) /\ Len(e) = 4 /\ U32(e, 1) = x
  BY U32BytesRead
<1>3. /\ p \in Seq(Nat) /\ Len(p) = m + 1 /\ p[m + 1] = x
      /\ \A k \in 1..m : p[k] = o[k]
  BY <1>1
<1> HIDE DEF m, p, t, e
<1>4. Entries(p) = Append(Entries(o), e)
  <2>1. Len(Entries(o)) = m /\ \A k \in 1..m : Entries(o)[k] = U32Bytes(o[k])
    BY <1>1 DEF Entries, m
  <2> DEFINE a == Append(Entries(o), e)
  <2>2. a \in Seq(Seq(Byte)) /\ Len(a) = m + 1 /\ a[m + 1] = e
    BY <1>1, <1>2, <2>1
  <2>3. \A k \in 1..m : a[k] = U32Bytes(o[k])
    BY <1>1, <1>2, <2>1
  <2> HIDE DEF a
  <2>4. \A k \in 1..(m + 1) : a[k] = U32Bytes(p[k])
    <3> SUFFICES ASSUME NEW k \in 1..(m + 1) PROVE a[k] = U32Bytes(p[k])
      OBVIOUS
    <3>1. CASE k \in 1..m
      BY <1>3, <2>3, <3>1
    <3>2. CASE k = m + 1
      BY <1>3, <2>2, <3>2 DEF e
    <3>3. QED
      BY <1>1, <3>1, <3>2
  <2>5. a = [k \in 1..(m + 1) |-> a[k]]
    BY <2>2
  <2>6. a = [k \in 1..(m + 1) |-> U32Bytes(p[k])]
    BY <2>4, <2>5
  <2>7. QED
    BY <1>3, <2>6 DEF Entries, a
<1>5. TableBytes(p) = u
  BY <1>1, <1>2, <1>4, FlattenAppend DEF TableBytes, t
<1>6. Entries(p) \in Seq(Seq(Byte))
  <2>1. Append(Entries(o), e) \in Seq(Seq(Byte))
    BY <1>1, <1>2
  <2>2. QED
    BY <1>4, <2>1, Zenon
<1>7. JoinOf(t, e, 4 * m, 4)
  BY <1>1, <1>2, JoinedOf
<1>8. u \in Seq(Byte) /\ Len(u) = 4 * m + 4
  BY <1>7, Zenon DEF JoinOf
<1>9. ASSUME NEW k \in 0..m
      PROVE  ReadOffset(u, k) = p[k + 1]
  <2>1. CASE k < m
    <3>1. k \in 0..(m - 1) /\ k \in Nat /\ 4 * k + 4 <= Len(t)
          /\ k + 1 \in 1..m
      BY <1>1, <2>1
    <3>2. ReadOffset(u, k) = ReadOffset(t, k)
      BY <1>1, <1>2, <3>1, EntryKept
    <3>3. QED
      BY <1>1, <1>3, <3>1, <3>2
  <2>2. CASE k = m
    <3>1. \A j \in 1..4 : u[4 * m + j] = e[j]
      BY <1>7, Zenon DEF JoinOf
    <3> DEFINE i == 4 * m + 1
    <3>2. /\ i = 4 * m + 1 /\ i + 1 = 4 * m + 2
          /\ i + 2 = 4 * m + 3 /\ i + 3 = 4 * m + 4
      BY <1>1
    <3> HIDE DEF i, u
    <3>3. /\ u[i] = e[1] /\ u[i + 1] = e[2]
          /\ u[i + 2] = e[3] /\ u[i + 3] = e[4]
      BY <3>1, <3>2
    <3>4. U32(u, i) = U32(e, 1)
      BY <3>3, SMT DEF U32
    <3>5. ReadOffset(u, k) = U32(u, i)
      BY <2>2, Zenon DEF ReadOffset, i
    <3>6. QED
      BY <1>2, <1>3, <2>2, <3>4, <3>5
  <2>3. QED
    BY <1>1, <2>1, <2>2
<1> HIDE DEF u
<1>10. IsTable(p)
  <2>1. /\ Len(p) - 1 = m /\ 4 * Len(p) = 4 * m + 4
    BY <1>1, <1>3
  <2>2. QED
    BY <1>3, <1>5, <1>6, <1>8, <1>9, <2>1 DEF IsTable
<1>11. QED
  BY <1>10 DEF p
-----------------------------------------------------------------------------
(* The parts of a source. *)

(* src.chunks(ChunkSize): the k-th, from 0 on, *)
Part(s, k) ==
  SubSeq(s, k * ChunkSize + 1,
         k * ChunkSize + RemainingBlockSize(Len(s), k))

(* the first n of them, *)
Parts(s, n) == [k \in 1..n |-> Part(s, k - 1)]

(* and how many bytes they have. *)
PartsLen(s, n) == IF n < BlockCount(Len(s)) THEN n * ChunkSize ELSE Len(s)

(* A part is behind those before it, and never empty. *)
LEMMA PartType ==
  ASSUME NEW s \in Seq(Byte), NEW k \in Nat, k < BlockCount(Len(s))
  PROVE  /\ Part(s, k) \in Seq(Byte)
         /\ Len(Part(s, k)) = RemainingBlockSize(Len(s), k)
         /\ RemainingBlockSize(Len(s), k) \in Nat
         /\ PartsLen(s, k) \in Nat
         /\ PartsLen(s, k + 1) = PartsLen(s, k) + Len(Part(s, k))
         /\ PartsLen(s, k + 1) <= Len(s)
         /\ Part(s, k) = SubSeq(s, PartsLen(s, k) + 1, PartsLen(s, k + 1))
<1> DEFINE n == Len(s)
           c == ChunkSize
           q == BlockCount(n)
           b == k * c
           r == RemainingBlockSize(n, k)
<1>1. n \in Nat /\ c \in Nat /\ c > 0 /\ q = (n + c - 1) \div c
  BY DecmpfsFormatAssumption DEF BlockCount
<1>2. q \in Nat
  <2> HIDE DEF n, c, q
  <2> QED
    BY <1>1, RoundedUp
<1>3. /\ b \in Nat /\ b < n
      /\ (k + 1) * c = b + c
      /\ n - b <= c <=> k + 1 = q
  <2> HIDE DEF n, c
  <2>1. k < q
    BY DEF n
  <2> HIDE DEF q
  <2> QED
    BY <1>1, <2>1, CountedPart
<1>4. r = IF n - b <= c THEN n - b ELSE c
  BY DEF RemainingBlockSize
<1>5. PartsLen(s, k) = b
  BY DEF PartsLen
<1>6. PartsLen(s, k + 1) = IF k + 1 < q THEN (k + 1) * c ELSE n
  BY DEF PartsLen
<1>7. Part(s, k) = SubSeq(s, b + 1, b + r)
  BY DEF Part
<1>8. k < q
  OBVIOUS
<1> HIDE DEF n, c, q, b, r
<1>9. /\ r \in Nat /\ b + r <= n
      /\ PartsLen(s, k + 1) = b + r
  BY <1>1, <1>2, <1>3, <1>4, <1>6, <1>8
<1>10. /\ SubSeq(s, b + 1, b + r) \in Seq(Byte)
       /\ Len(SubSeq(s, b + 1, b + r)) = r
  <2> DEFINE z == b + r
  <2>1. z \in 0..Len(s) /\ b \in 0..z /\ z - b = r
    BY <1>1, <1>3, <1>9 DEF n
  <2> HIDE DEF z
  <2>2. SubSeq(s, b + 1, z) \in Seq(Byte) /\ Len(SubSeq(s, b + 1, z)) = r
    BY <2>1, WindowProperties
  <2>3. QED
    BY <2>2 DEF z
<1>11. QED
  BY <1>3, <1>5, <1>7, <1>9, <1>10 DEF n, r

(* The parts are the source in order. *)
ArePrefix(s, n) ==
  /\ Parts(s, n) \in Seq(Seq(Byte))
  /\ FlattenSeq(Parts(s, n)) = SubSeq(s, 1, PartsLen(s, n))

LEMMA MoreParts ==
  ASSUME NEW s \in Seq(Byte), NEW n \in Nat, n < BlockCount(Len(s)),
         ArePrefix(s, n)
  PROVE  ArePrefix(s, n + 1)
<1> DEFINE b == PartsLen(s, n)
           e == PartsLen(s, n + 1)
           p == Part(s, n)
<1>1. /\ p \in Seq(Byte) /\ b \in Nat /\ e = b + Len(p) /\ e <= Len(s)
      /\ p = SubSeq(s, b + 1, e) /\ Len(s) \in Nat /\ Len(p) \in Nat
  BY PartType
<1>2. Parts(s, n + 1) = Append(Parts(s, n), p)
  <2> DEFINE f == Parts(s, n)
             a == Append(f, p)
  <2>1. f \in Seq(Seq(Byte)) /\ Len(f) = n
    BY DEF ArePrefix, Parts
  <2>2. \A k \in 1..n : f[k] = Part(s, k - 1)
    BY DEF Parts
  <2> HIDE DEF f, p
  <2>3. /\ a \in Seq(Seq(Byte)) /\ Len(a) = n + 1 /\ a[n + 1] = p
        /\ \A k \in 1..n : a[k] = f[k]
    <3>1. p \in Seq(Byte)
      BY <1>1 DEF p
    <3>2. QED
      BY <2>1, <3>1
  <2> HIDE DEF a
  <2>4. \A k \in 1..(n + 1) : a[k] = Part(s, k - 1)
    <3> SUFFICES ASSUME NEW k \in 1..(n + 1) PROVE a[k] = Part(s, k - 1)
      OBVIOUS
    <3>1. CASE k \in 1..n
      BY <2>2, <2>3, <3>1
    <3>2. CASE k = n + 1
      <4>1. k - 1 = n
        BY <3>2
      <4>2. QED
        BY <2>3, <3>2, <4>1 DEF p
    <3>3. QED
      BY <3>1, <3>2
  <2>5. a = [k \in 1..(n + 1) |-> a[k]]
    BY <2>3
  <2>6. a = [k \in 1..(n + 1) |-> Part(s, k - 1)]
    BY <2>4, <2>5
  <2>7. QED
    BY <2>6 DEF Parts, a, f
<1> HIDE DEF p, b, e
<1>3. /\ Append(Parts(s, n), p) \in Seq(Seq(Byte))
      /\ FlattenSeq(Append(Parts(s, n), p))
           = FlattenSeq(Parts(s, n)) \o p
  <2> DEFINE f == Parts(s, n)
  <2>1. f \in Seq(Seq(Byte))
    BY DEF ArePrefix
  <2> HIDE DEF f
  <2>2. Append(f, p) \in Seq(Seq(Byte))
    BY <1>1, <2>1
  <2>3. FlattenSeq(Append(f, p)) = FlattenSeq(f) \o p
    BY <1>1, <2>1, FlattenAppend
  <2>4. QED
    BY <2>2, <2>3 DEF f
<1>4. SubSeq(s, 1, b) \o SubSeq(s, b + 1, e) = SubSeq(s, 1, e)
  <2>1. 1 \in 1..(Len(s) + 1) /\ b \in (1 - 1)..Len(s) /\ e \in b..Len(s)
    BY <1>1
  <2>2. QED
    BY <2>1, ConcatAdjacentSubSeq
<1>5. FlattenSeq(Parts(s, n + 1)) = SubSeq(s, 1, e)
  BY <1>1, <1>2, <1>3, <1>4, Zenon DEF ArePrefix, b
<1>6. QED
  BY <1>2, <1>3, <1>5 DEF ArePrefix, e

LEMMA NoParts ==
  ASSUME NEW s \in Seq(Byte), 0 < BlockCount(Len(s))
  PROVE  ArePrefix(s, 0) /\ PartsLen(s, 0) = 0
<1>1. PartsLen(s, 0) = 0
  BY DecmpfsFormatAssumption DEF PartsLen
<1>2. Parts(s, 0) \in Seq(Seq(Byte)) /\ Len(Parts(s, 0)) = 0
  BY DEF Parts
<1>3. Parts(s, 0) = << >>
  BY <1>2
<1>4. SubSeq(s, 1, 0) = << >>
  BY SubSeqEmpty
<1>5. FlattenSeq(Parts(s, 0)) = << >>
  BY <1>3, Zenon DEF FlattenSeq
<1>6. QED
  BY <1>1, <1>2, <1>4, <1>5 DEF ArePrefix
-----------------------------------------------------------------------------
(* The fork, block after block. *)

(* Where the first block begins. *)
First(s) == OffsetTableLen(BlockCount(Len(s)))

(* What follows a table of length first has block from offset low up to    *)
(* offset high.                                                            *)
IsCut(body, first, low, high, block) ==
  /\ low \in Nat /\ high \in Nat
  /\ first <= low /\ low <= high /\ high <= first + Len(body)
  /\ Len(block) = high - low
  /\ \A j \in 1..(high - low) : body[low - first + j] = block[j]

(* A block holds the k-th part. *)
HoldsPart(s, k, block) ==
  /\ IsBlock(block, RemainingBlockSize(Len(s), k))
  /\ Content(block, RemainingBlockSize(Len(s), k)) = Part(s, k)

(* The offsets o and the blocks b are those of the first parts of s. *)
Laid(s, o, b) ==
  LET body == FlattenSeq(b)
  IN  /\ b \in Seq(Seq(Byte)) /\ body \in Seq(Byte)
      /\ IsTable(o) /\ Len(o) = Len(b) + 1
      /\ Len(b) <= BlockCount(Len(s))
      /\ o[1] = First(s) /\ o[Len(b) + 1] = First(s) + Len(body)
      /\ \A i \in 1..Len(b) : IsCut(body, First(s), o[i], o[i + 1], b[i])
      /\ \A i \in 1..Len(b) : HoldsPart(s, i - 1, b[i])
      /\ ArePrefix(s, Len(b))
      /\ Len(body) <= PartsLen(s, Len(b)) + Len(b)

LEMMA FirstType ==
  ASSUME NEW s \in Seq(Byte)
  PROVE  /\ BlockCount(Len(s)) \in Nat
         /\ First(s) \in Nat
         /\ First(s) = 4 * (BlockCount(Len(s)) + 1)
         /\ Len(s) > 0 => BlockCount(Len(s)) > 0
<1> DEFINE n == Len(s)
           q == BlockCount(n)
<1>1. n \in Nat /\ ChunkSize \in Nat /\ ChunkSize > 0
      /\ q = (n + ChunkSize - 1) \div ChunkSize
  BY DecmpfsFormatAssumption DEF BlockCount
<1>2. q \in Nat /\ n <= q * ChunkSize
  <2> HIDE DEF n, q
  <2> QED
    BY <1>1, RoundedUp
<1>3. First(s) = (q + 1) * 4
  BY DEF First, OffsetTableLen
<1> HIDE DEF n, q
<1>4. n > 0 => q > 0
  BY <1>1, <1>2
<1>5. QED
  BY <1>2, <1>3, <1>4 DEF n, q

(* What fits in the limit fits in four bytes. *)
LEMMA FitsBelow ==
  ASSUME NEW x \in Nat, x <= OffsetLimit
  PROVE  FitsU32(x)
<1>1. OffsetLimit \in Nat /\ OffsetLimit \div 16777216 < 256
  BY DecmpfsEncodeAssumption, SMT DEF FitsU32
<1>2. x \div 16777216 < 256
  BY <1>1, SMT
<1>3. QED
  BY <1>2, SMT DEF FitsU32

LEMMA FlattenNone == FlattenSeq(<< >>) = << >>
<1>1. Len(<< >>) = 0
  OBVIOUS
<1>2. QED
  BY <1>1, Zenon DEF FlattenSeq

(* Before the first block, *)
LEMMA LaidFirst ==
  ASSUME NEW s \in Seq(Byte), BlockCount(Len(s)) > 0, First(s) <= OffsetLimit
  PROVE  Laid(s, << First(s) >>, << >>)
<1> DEFINE o == << First(s) >>
<1>1. First(s) \in Nat /\ BlockCount(Len(s)) \in Nat
  BY FirstType
<1>2. IsTable(o)
  <2>1. IsTable(Append(<< >>, First(s)))
    BY <1>1, EmptyTable, FitsBelow, LongerTable
  <2>2. Append(<< >>, First(s)) = o
    BY <1>1
  <2>3. QED
    BY <2>1, <2>2, Zenon
<1>3. Len(o) = 0 + 1 /\ o[0 + 1] = First(s) /\ o[1] = First(s)
  BY <1>1
<1>4. ArePrefix(s, 0) /\ PartsLen(s, 0) = 0
  BY NoParts
<1> HIDE DEF o
<1>5. PICK b \in Seq(Seq(Byte)) : b = << >> /\ Len(b) = 0
  <2>1. << >> \in Seq(Seq(Byte)) /\ Len(<< >>) = 0
    OBVIOUS
  <2>2. QED
    BY <2>1, Zenon
<1>6. FlattenSeq(b) = << >>
  BY <1>5, FlattenNone, Zenon
<1>7. PICK body \in Seq(Byte) : body = << >> /\ Len(body) = 0
  <2>1. << >> \in Seq(Byte) /\ Len(<< >>) = 0
    OBVIOUS
  <2>2. QED
    BY <2>1, Zenon
<1>8. FlattenSeq(b) = body
  BY <1>6, <1>7, Zenon
<1>9. Laid(s, o, b)
  <2>1. /\ Len(o) = Len(b) + 1 /\ Len(b) <= BlockCount(Len(s))
        /\ o[Len(b) + 1] = First(s) + Len(body)
        /\ Len(body) <= PartsLen(s, Len(b)) + Len(b)
        /\ 1..Len(b) = {}
    BY <1>1, <1>3, <1>4, <1>5, <1>7
  <2>2. /\ \A i \in 1..Len(b) :
             IsCut(body, First(s), o[i], o[i + 1], b[i])
        /\ \A i \in 1..Len(b) : HoldsPart(s, i - 1, b[i])
    BY <2>1, Zenon
  <2>3. ArePrefix(s, Len(b))
    BY <1>4, <1>5, Zenon
  <2>4. QED
    BY <1>2, <1>3, <1>8, <2>1, <2>2, <2>3, Zenon DEF Laid
<1>10. QED
  BY <1>5, <1>9, Zenon DEF o

(* What lies before an appended block stays there. *)
LEMMA CutKept ==
  ASSUME NEW body \in Seq(Byte), NEW e \in Seq(Byte), NEW first \in Nat,
         NEW low, NEW high, NEW block, IsCut(body, first, low, high, block)
  PROVE  IsCut(body \o e, first, low, high, block)
<1> DEFINE u == body \o e
<1>1. /\ Len(u) = Len(body) + Len(e) /\ Len(body) \in Nat /\ Len(e) \in Nat
      /\ \A k \in 1..Len(body) : u[k] = body[k]
  BY JoinedBytes
<1>2. /\ low \in Nat /\ high \in Nat
      /\ first <= low /\ low <= high /\ high <= first + Len(body)
      /\ Len(block) = high - low
      /\ \A j \in 1..(high - low) : body[low - first + j] = block[j]
  BY Zenon DEF IsCut
<1> HIDE DEF u
<1>3. ASSUME NEW j \in 1..(high - low)
      PROVE  u[low - first + j] = block[j]
  <2>1. low - first + j \in 1..Len(body)
    BY <1>1, <1>2
  <2>2. QED
    BY <1>1, <1>2, <2>1, Zenon
<1>4. high <= first + Len(u)
  BY <1>1, <1>2
<1>5. QED
  BY <1>2, <1>3, <1>4, Zenon DEF IsCut, u

(* and with one block more. *)
LEMMA LaidNext ==
  ASSUME NEW s \in Seq(Byte), NEW o, NEW b, Laid(s, o, b),
         Len(b) < BlockCount(Len(s)),
         NEW e \in Seq(Byte), HoldsPart(s, Len(b), e),
         Len(e) <= Len(Part(s, Len(b))) + 1,
         NEW x, x = o[Len(b) + 1] + Len(e), x <= OffsetLimit
  PROVE  Laid(s, Append(o, x), Append(b, e))
<1> DEFINE n    == Len(b)
           body == FlattenSeq(b)
           u    == body \o e
           p    == Append(o, x)
           c    == Append(b, e)
           f    == First(s)
<1>1. /\ b \in Seq(Seq(Byte)) /\ body \in Seq(Byte)
      /\ IsTable(o) /\ Len(o) = n + 1
      /\ o[1] = f /\ o[n + 1] = f + Len(body)
      /\ \A i \in 1..n : IsCut(body, f, o[i], o[i + 1], b[i])
      /\ \A i \in 1..n : HoldsPart(s, i - 1, b[i])
      /\ ArePrefix(s, n)
      /\ Len(body) <= PartsLen(s, n) + n
  BY Zenon DEF Laid
<1>2. /\ n \in Nat /\ Len(body) \in Nat /\ Len(e) \in Nat
      /\ f \in Nat /\ BlockCount(Len(s)) \in Nat /\ o \in Seq(Nat)
  <2>1. n \in Nat /\ Len(body) \in Nat /\ Len(e) \in Nat
    <3> HIDE DEF body
    <3> QED
      BY <1>1
  <2>2. f \in Nat /\ BlockCount(Len(s)) \in Nat
    BY FirstType
  <2>3. o \in Seq(Nat)
    BY <1>1, Zenon DEF IsTable
  <2>4. QED
    BY <2>1, <2>2, <2>3
<1>3. x \in Nat /\ x = f + Len(body) + Len(e)
  BY <1>1, <1>2
<1>4. FlattenSeq(c) = u
  BY <1>1, FlattenAppend
<1>5. /\ u \in Seq(Byte) /\ Len(u) = Len(body) + Len(e)
      /\ \A k \in 1..Len(e) : u[Len(body) + k] = e[k]
  BY <1>1, JoinedBytes
<1>6. /\ c \in Seq(Seq(Byte)) /\ Len(c) = n + 1 /\ c[n + 1] = e
      /\ \A i \in 1..n : c[i] = b[i]
  BY <1>1
<1>7. /\ Len(p) = n + 2 /\ p[n + 2] = x
      /\ \A i \in 1..(n + 1) : p[i] = o[i]
  BY <1>1, <1>2, <1>3
<1>8. IsTable(p)
  BY <1>1, <1>3, FitsBelow, LongerTable
<1>9. ArePrefix(s, n + 1)
  BY <1>1, <1>2, MoreParts
<1>10. /\ PartsLen(s, n) \in Nat /\ Len(Part(s, n)) \in Nat
       /\ PartsLen(s, n + 1) = PartsLen(s, n) + Len(Part(s, n))
       /\ Len(e) <= Len(Part(s, n)) + 1
  BY <1>2, PartType
<1> HIDE DEF n, u, p, c, f, body
<1>11. IsCut(u, f, o[n + 1], x, e)
  <2>1. PICK y \in Nat : y = f + Len(body)
    BY <1>2
  <2>2. x \in Nat /\ x = y + Len(e)
    BY <1>3, <2>1
  <2>3. o[n + 1] = y
    BY <1>1, <2>1, Zenon
  <2>4. x - y = Len(e) /\ y - f = Len(body)
    <3>1. f \in Nat /\ Len(body) \in Nat /\ Len(e) \in Nat
      BY <1>2, Zenon
    <3>2. PICK k \in Nat, m \in Nat : k = Len(body) /\ m = Len(e)
      BY <3>1, Zenon
    <3>3. y = f + k /\ x = y + m
      BY <2>1, <2>2, <3>2, Zenon
    <3>4. x - y = m /\ y - f = k
      BY <3>1, <3>3
    <3>5. QED
      BY <3>2, <3>4, Zenon
  <2>5. \A j \in 1..(x - y) : u[y - f + j] = e[j]
    BY <1>5, <2>4, Zenon
  <2>6. f <= y /\ y <= x /\ x <= f + Len(u)
    <3>1. Len(u) = Len(body) + Len(e)
      BY <1>5, Zenon
    <3>2. f <= y
      BY <1>2, <2>1
    <3>3. y <= x
      BY <1>2, <2>2
    <3>4. x = f + Len(u)
      BY <1>2, <2>1, <2>2, <3>1
    <3>5. QED
      BY <1>2, <2>2, <3>2, <3>3, <3>4
  <2>7. IsCut(u, f, y, x, e)
    BY <2>2, <2>4, <2>5, <2>6, Zenon DEF IsCut
  <2>8. QED
    BY <2>3, <2>7, Zenon
<1>12. ASSUME NEW i \in 1..(n + 1)
       PROVE  /\ IsCut(u, f, p[i], p[i + 1], c[i])
              /\ HoldsPart(s, i - 1, c[i])
  <2>1. CASE i \in 1..n
    <3>1. i \in 1..(n + 1) /\ i + 1 \in 1..(n + 1)
      BY <1>2, <2>1
    <3>2. p[i] = o[i] /\ p[i + 1] = o[i + 1] /\ c[i] = b[i]
      BY <1>6, <1>7, <2>1, <3>1, Zenon
    <3>3. IsCut(u, f, o[i], o[i + 1], b[i])
      BY <1>1, <1>2, <2>1, CutKept DEF u
    <3>4. QED
      BY <1>1, <2>1, <3>2, <3>3, Zenon
  <2>2. CASE i = n + 1
    <3>1. i + 1 = n + 2 /\ i - 1 = n /\ n + 1 \in 1..(n + 1)
      BY <1>2, <2>2
    <3>2. p[i] = o[n + 1] /\ p[i + 1] = x /\ c[i] = e
      BY <1>6, <1>7, <2>2, <3>1, Zenon
    <3>3. HoldsPart(s, n, e)
      BY DEF n
    <3>4. QED
      BY <1>11, <3>1, <3>2, <3>3, Zenon
  <2>3. QED
    BY <1>2, <2>1, <2>2
<1>13. p[1] = f
  <2>1. 1 \in 1..(n + 1)
    BY <1>2
  <2>2. QED
    BY <1>1, <1>7, <2>1, Zenon
<1>14. /\ n + 1 <= BlockCount(Len(s))
       /\ Len(u) <= PartsLen(s, n + 1) + (n + 1)
       /\ (n + 1) + 1 = n + 2
       /\ x = f + Len(u)
  <2>1. n < BlockCount(Len(s))
    BY DEF n
  <2>2. Len(body) <= PartsLen(s, n) + n
    BY <1>1, Zenon
  <2>3. Len(u) = Len(body) + Len(e)
    BY <1>5, Zenon
  <2>4. x = f + Len(u)
    BY <1>2, <1>3, <2>3
  <2>5. n + 1 <= BlockCount(Len(s)) /\ (n + 1) + 1 = n + 2
    BY <1>2, <2>1
  <2>6. Len(u) <= PartsLen(s, n + 1) + (n + 1)
    <3>1. Len(body) + Len(e) <= PartsLen(s, n) + Len(Part(s, n)) + (n + 1)
      BY <1>2, <1>10, <2>2
    <3>2. QED
      BY <1>10, <2>3, <3>1
  <2>7. QED
    BY <2>4, <2>5, <2>6
<1>15. Laid(s, p, c)
  BY <1>4, <1>5, <1>6, <1>7, <1>8, <1>9, <1>12, <1>13, <1>14, Zenon
  DEF Laid, f
<1>16. QED
  BY <1>15 DEF p, c

(* What the extended attribute and the fork are to the source they wrap. *)
Wraps(s, x, f) ==
  /\ IsWrapper(x, f) /\ XattrSize(x) = Len(s)
  /\ WrapperContent(x, f) = s
  /\ x \in Seq(Byte) /\ Len(x) = HeaderLength
  /\ f \in Seq(Byte)
  /\ Len(f) <= Len(s) + 5 * BlockCount(Len(s)) + 4

(* With the last block the fork is whole. *)
LEMMA LaidWhole ==
  ASSUME NEW s \in Seq(Byte), FitsU64(Len(s)), NEW o, NEW b, Laid(s, o, b),
         Len(b) = BlockCount(Len(s)),
         NEW x, x = BuildXattr(LzvnResourceFork, Len(s), << >>),
         NEW f, f = TableBytes(o) \o FlattenSeq(b)
  PROVE  Wraps(s, x, f) /\ Len(f) = o[Len(o)]
<1> DEFINE n     == Len(s)
           q     == BlockCount(n)
           body  == FlattenSeq(b)
           t     == TableBytes(o)
           first == First(s)
<1>1. /\ body \in Seq(Byte) /\ IsTable(o) /\ Len(o) = q + 1
      /\ o[1] = first /\ o[q + 1] = first + Len(body)
      /\ \A i \in 1..q : IsCut(body, first, o[i], o[i + 1], b[i])
      /\ \A i \in 1..q : HoldsPart(s, i - 1, b[i])
      /\ ArePrefix(s, q)
      /\ Len(body) <= PartsLen(s, q) + q
  BY Zenon DEF Laid
<1>2. n \in Nat /\ q \in Nat /\ first \in Nat /\ first = 4 * (q + 1)
  BY FirstType
<1>3. /\ t \in Seq(Byte) /\ Len(t) = 4 * Len(o)
      /\ \A k \in 0..(Len(o) - 1) : ReadOffset(t, k) = o[k + 1]
  BY <1>1, Zenon DEF IsTable
<1>4. PartsLen(s, q) = n
  <2>1. ~(q < q)
    BY <1>2
  <2>2. QED
    BY <2>1, Zenon DEF PartsLen
<1>5. OffsetTableLen(q) = first
  BY DEF First
<1>6. /\ f = t \o body
      /\ FitsU64(n) /\ x = BuildXattr(LzvnResourceFork, n, << >>)
  OBVIOUS
<1> HIDE DEF n, q, body, t, first
<1>7. PICK z \in Nat : z = Len(body)
  BY <1>1
<1>8. Len(t) = first
  BY <1>1, <1>2, <1>3
<1>9. JoinOf(t, body, first, z)
  BY <1>1, <1>3, <1>7, <1>8, JoinedOf
<1>10. /\ f \in Seq(Byte) /\ Len(f) = first + z
       /\ \A k \in 1..z : f[first + k] = body[k]
  BY <1>6, <1>9, Zenon DEF JoinOf
<1>11. Len(f) <= n + 5 * q + 4
  <2>1. z <= n + q
    BY <1>1, <1>4, <1>7, Zenon
  <2>2. QED
    BY <1>2, <1>10, <2>1
<1>12. ASSUME NEW k \in 0..q
       PROVE  Offset(f, k) = o[k + 1]
  <2>1. /\ k \in Nat /\ 4 * k + 4 <= Len(t)
        /\ k \in 0..(Len(o) - 1)
    BY <1>1, <1>2, <1>8
  <2>2. ReadOffset(t \o body, k) = ReadOffset(t, k)
    BY <1>1, <1>3, <2>1, EntryKept
  <2>3. QED
    BY <1>3, <1>6, <2>1, <2>2, Zenon DEF Offset
<1>13. ASSUME NEW i \in 1..q
       PROVE  /\ o[i] \in Nat /\ o[i + 1] \in o[i]..Len(f)
              /\ SubSeq(f, o[i] + 1, o[i + 1]) = b[i]
  <2>1. PICK low, high : low = o[i] /\ high = o[i + 1]
    BY Zenon
  <2>2. IsCut(body, first, low, high, b[i])
    BY <1>1, <2>1, Zenon
  <2>3. /\ low \in Nat /\ high \in Nat
        /\ first <= low /\ low <= high /\ high <= first + Len(body)
        /\ Len(b[i]) = high - low
        /\ \A j \in 1..(high - low) : body[low - first + j] = b[i][j]
    BY <2>2, Zenon DEF IsCut
  <2>4. high \in 0..Len(f) /\ low \in 0..high /\ high \in low..Len(f)
    BY <1>2, <1>7, <1>10, <2>3
  <2> DEFINE cut == SubSeq(f, low + 1, high)
  <2>5. /\ cut \in Seq(Byte) /\ Len(cut) = high - low
        /\ \A j \in 1..(high - low) : cut[j] = f[low + j]
    BY <1>10, <2>4, WindowProperties
  <2> HIDE DEF cut
  <2>6. ASSUME NEW j \in 1..(high - low)
        PROVE  cut[j] = b[i][j]
    <3>1. low - first + j \in 1..z /\ first + (low - first + j) = low + j
      BY <1>2, <1>7, <2>3
    <3>2. f[low + j] = body[low - first + j]
      BY <1>10, <3>1
    <3>3. QED
      BY <2>3, <2>5, <3>2, Zenon
  <2>7. b[i] \in Seq(Byte)
    <3>1. b \in Seq(Seq(Byte)) /\ Len(b) = q
      BY Zenon DEF Laid, q, n
    <3>2. QED
      BY <3>1
  <2>8. cut = b[i]
    BY <2>3, <2>5, <2>6, <2>7, SeqEqual
  <2>9. QED
    BY <2>1, <2>3, <2>4, <2>8 DEF cut
<1>14. HasBlocks(f, n)
  <2>1. Offset(f, 0) = first
    <3>1. 0 \in 0..q /\ 0 + 1 = 1
      BY <1>2
    <3>2. QED
      BY <1>1, <1>12, <3>1, Zenon
  <2>2. Offset(f, q) = Len(f)
    <3>1. q \in 0..q
      BY <1>2
    <3>2. QED
      BY <1>1, <1>7, <1>10, <1>12, <3>1, Zenon
  <2>3. ASSUME NEW k \in 1..q
        PROVE  Offset(f, k) \in Offset(f, k - 1)..Len(f)
    <3>1. k \in 0..q /\ k - 1 \in 0..q /\ (k - 1) + 1 = k
      BY <1>2
    <3>2. Offset(f, k) = o[k + 1] /\ Offset(f, k - 1) = o[k]
      <4>1. Offset(f, k - 1) = o[(k - 1) + 1]
        BY <1>12, <3>1, Zenon
      <4>2. QED
        BY <1>12, <3>1, <4>1, Zenon
    <3>3. QED
      BY <1>13, <3>2, Zenon
  <2>4. first <= Len(f)
    BY <1>2, <1>10
  <2>5. QED
    BY <1>5, <2>1, <2>2, <2>3, <2>4, Zenon DEF HasBlocks, q
<1>15. ASSUME NEW k \in 0..(q - 1)
       PROVE  HoldsPart(s, k, BlockAt(f, k))
  <2>1. k + 1 \in 1..q /\ (k + 1) - 1 = k /\ k \in 0..q /\ k + 1 \in 0..q
    BY <1>2
  <2>2. Offset(f, k) = o[k + 1] /\ Offset(f, k + 1) = o[(k + 1) + 1]
    BY <1>12, <2>1, Zenon
  <2>3. BlockAt(f, k) = b[k + 1]
    BY <1>13, <2>1, <2>2, Zenon DEF BlockAt
  <2>4. HoldsPart(s, (k + 1) - 1, b[k + 1])
    BY <1>1, <2>1, Zenon
  <2>5. QED
    BY <2>1, <2>3, <2>4, Zenon
<1>16. BlocksContent(f, n, q) = s
  <2>1. \A k \in 1..q :
          Content(BlockAt(f, k - 1), RemainingBlockSize(n, k - 1))
            = Part(s, k - 1)
    <3> SUFFICES ASSUME NEW k \in 1..q
                 PROVE  Content(BlockAt(f, k - 1),
                                RemainingBlockSize(n, k - 1))
                          = Part(s, k - 1)
      OBVIOUS
    <3>1. k - 1 \in 0..(q - 1)
      BY <1>2
    <3>2. QED
      BY <1>15, <3>1, Zenon DEF HoldsPart, n
  <2>2. [k \in 1..q |-> Content(BlockAt(f, k - 1),
                                RemainingBlockSize(n, k - 1))]
          = Parts(s, q)
    BY <2>1, Zenon DEF Parts
  <2>3. BlocksContent(f, n, q) = FlattenSeq(Parts(s, q))
    BY <2>2, Zenon DEF BlocksContent
  <2>4. FlattenSeq(Parts(s, q)) = SubSeq(s, 1, n)
    BY <1>1, <1>4, Zenon DEF ArePrefix
  <2>5. SubSeq(s, 1, n) = s
    BY SubSeqFull DEF n
  <2>6. QED
    BY <2>3, <2>4, <2>5, Zenon
<1>17. /\ x \in Seq(Byte) /\ Len(x) = HeaderLength
       /\ HasHeader(x)
       /\ XattrType(x) = LzvnResourceFork /\ XattrSize(x) = n
       /\ XattrPayload(x) = << >>
  <2>1. PICK none \in Seq(Byte) : none = << >> /\ Len(none) = 0
    <3>1. << >> \in Seq(Byte) /\ Len(<< >>) = 0
      OBVIOUS
    <3>2. QED
      BY <3>1, Zenon
  <2>2. /\ x \in Seq(Byte) /\ Len(x) = HeaderLength + Len(none)
        /\ HasHeader(x)
        /\ XattrType(x) = LzvnResourceFork /\ XattrSize(x) = n
        /\ XattrPayload(x) = none
    <3>1. /\ LzvnResourceFork \in {LzvnXattr, LzvnResourceFork}
          /\ x = BuildXattr(LzvnResourceFork, n, none)
      BY <1>6, <2>1, Zenon
    <3>2. QED
      BY <1>2, <1>6, <3>1, XattrRead
  <2>3. HeaderLength + 0 = HeaderLength
    BY DEF HeaderLength
  <2>4. QED
    BY <2>1, <2>2, <2>3, Zenon
<1>18. LzvnResourceFork # LzvnXattr
  BY DEF LzvnResourceFork, LzvnXattr
<1>19. f # NoFork
  BY <1>10, DecmpfsFormatAssumption DEF Byte
<1>20. IsWrapper(x, f)
  <2>1. \A k \in 0..(q - 1) :
          IsBlock(BlockAt(f, k), RemainingBlockSize(n, k))
    BY <1>15, Zenon DEF HoldsPart, n
  <2>2. QED
    BY <1>14, <1>17, <1>18, <1>19, <2>1, Zenon DEF IsWrapper, q
<1>21. WrapperContent(x, f) = s
  BY <1>16, <1>17, <1>18, Zenon DEF WrapperContent, q
<1>22. /\ XattrSize(x) = Len(s)
       /\ Len(f) <= Len(s) + 5 * BlockCount(Len(s)) + 4
  BY <1>11, <1>17 DEF n, q
<1>23. Len(f) = o[Len(o)]
  BY <1>1, <1>7, <1>10, Zenon
<1>24. QED
  BY <1>10, <1>17, <1>20, <1>21, <1>22, <1>23, Zenon DEF Wraps
-----------------------------------------------------------------------------
(* The inductive invariant. *)

(* The payload of the whole source is on its way, *)
Inline ==
  /\ raw_src = src
  /\ offsets = << >> /\ blocks = << >>
  /\ xattr = << >> /\ fork = NoFork

(* or the block of the next part, since the source did not fit, *)
Forking ==
  /\ Laid(src, offsets, blocks)
  /\ Len(blocks) < BlockCount(Len(src))
  /\ raw_src = Part(src, Len(blocks))
  /\ Len(src) + 1 > MaxXattrData
  /\ xattr = << >> /\ fork = NoFork

(* or everything is returned. *)
Returned ==
  /\ offsets \in Seq(Nat)
  /\ blocks \in Seq(Seq(Byte))
  /\ xattr \in Seq(Byte)
  /\ fork \in Seq(Byte) \cup {NoFork}
  /\ HoldsSource
  /\ BoundedOverhead

IInv ==
  /\ src \in Inputs
  /\ phase \in {"inline", "fork", "done"}
  /\ raw_src \in Seq(Byte) /\ raw_output \in Seq(Byte)
  /\ phase # "done" => RawInv /\ result = "running"
  /\ phase = "inline" => Inline
  /\ phase = "fork" => Forking
  /\ phase = "done" => result \in {"Ok", "SizeOverflow"} /\ Returned

(* A source may be encoded. *)
LEMMA SourceType ==
  ASSUME NEW s \in Inputs
  PROVE  s \in Seq(Byte) /\ Len(s) \in Nat /\ FitsU64(Len(s))
<1>1. s \in Seq(Byte) /\ FitsU64(Len(s))
  BY DecmpfsEncodeAssumption, Zenon DEF Byte
<1>2. QED
  BY <1>1

(* It holds before the first step. *)
LEMMA InitIInv == RoundTripInit => IInv
<1> SUFFICES ASSUME RoundTripInit PROVE IInv
  OBVIOUS
<1>1. /\ src \in Inputs /\ raw_src = src /\ raw_output = << >>
      /\ phase = "inline" /\ result = "running"
  BY DEF RoundTripInit, Init
<1>2. src \in Seq(Byte)
  BY <1>1, SourceType
<1>3. P!RoundTripInit
  <2>1. Raw!NoMatch = P!NoMatch /\ P!Start = Start
    BY SameMatches DEF P!Start, Start
  <2>2. raw_src \in Seq(0..255)
    BY <1>1, <1>2 DEF Byte
  <2>3. QED
    BY <2>1, <2>2 DEF RoundTripInit, Init, P!RoundTripInit, P!Init
<1>4. RawInv
  BY <1>3, RawStart
<1>5. Inline
  BY DEF RoundTripInit, Init, Inline
<1>6. raw_output \in Seq(Byte)
  BY <1>1
<1>7. QED
  BY <1>1, <1>2, <1>4, <1>5, <1>6 DEF IInv

LEMMA RawTypesNext == (RawInv => raw_src \in Seq(Byte) /\ raw_output \in Seq(Byte))'
<1>1. RawInv => raw_src \in Seq(Byte) /\ raw_output \in Seq(Byte)
  BY RawTypes
<1>2. QED
  BY <1>1, PTL

(* A step of the raw encoder. *)
LEMMA EncodeRawStep ==
  ASSUME IInv, EncodeRaw,
         decoder' = IF Encoded THEN Start
                    ELSE IF raw_output' = raw_output THEN decoder
                    ELSE Execute(raw_output', decoder)
  PROVE  IInv'
<1>1. /\ phase # "done" /\ Raw!Next
      /\ src' = src /\ offsets' = offsets /\ blocks' = blocks
      /\ xattr' = xattr /\ fork' = fork /\ phase' = phase
      /\ result' = result
  BY DEF EncodeRaw
<1>2. RawInv /\ result = "running"
  BY <1>1 DEF IInv
<1>3. raw_pc # "done"
  <2>1. P!Next
    BY <1>1, SameNext
  <2>2. QED
    BY <1>2, <2>1, RawAssumption, P!OutputGrows DEF RawInv
<1>4. decoder' = IF raw_output' = raw_output THEN decoder
                 ELSE Execute(raw_output', decoder)
  BY <1>3 DEF Encoded
<1>5. RawInv' /\ raw_src' = raw_src
  BY <1>1, <1>2, <1>4, RawGoesOn
<1>6. raw_src' \in Seq(Byte) /\ raw_output' \in Seq(Byte)
  BY <1>5, RawTypesNext
<1>7. phase = "inline" => Inline'
  BY <1>1, <1>5 DEF IInv, Inline
<1>8. phase = "fork" => Forking'
  BY <1>1, <1>5, Zenon DEF IInv, Forking
<1>9. QED
  BY <1>1, <1>2, <1>5, <1>6, <1>7, <1>8 DEF IInv

(* What is known when the raw encoder has returned. *)
LEMMA EncodedState ==
  ASSUME IInv, Encoded
  PROVE  /\ src \in Seq(Byte) /\ Len(src) \in Nat /\ FitsU64(Len(src))
         /\ Best \in Seq(Byte) /\ Len(Best) \in Nat
         /\ Len(Best) <= Len(raw_src) + 1
         /\ IsBlock(Best, Len(raw_src))
         /\ Content(Best, Len(raw_src)) = raw_src
         /\ phase = "inline" => Inline
         /\ phase = "fork" => Forking
<1>1. RawInv /\ raw_pc = "done" /\ src \in Inputs
  BY DEF Encoded, IInv
<1>2. /\ Best \in Seq(Byte)
      /\ Len(Best) <= Len(raw_src) + 1
      /\ IsBlock(Best, Len(raw_src))
      /\ Content(Best, Len(raw_src)) = raw_src
  BY <1>1, BestBlock
<1>3. Len(Best) \in Nat
  BY <1>2
<1>4. QED
  BY <1>1, <1>2, <1>3, SourceType DEF IInv

(* The payload fits in the xattr. *)
LEMMA FitsInlineStep ==
  ASSUME IInv, FitsInline
  PROVE  IInv'
<1>1. /\ Encoded /\ phase = "inline" /\ Inline
      /\ xattr' = BuildXattr(LzvnXattr, Len(src), Best)
      /\ fork' = NoFork /\ phase' = "done" /\ result' = "Ok"
      /\ src' = src /\ offsets' = offsets /\ blocks' = blocks
      /\ raw_src' = raw_src /\ raw_output' = raw_output
  BY DEF FitsInline, Finish, raw_vars, IInv
<1>2. /\ src \in Seq(Byte) /\ Len(src) \in Nat /\ FitsU64(Len(src))
      /\ Best \in Seq(Byte) /\ Len(Best) \in Nat
      /\ Len(Best) <= Len(src) + 1
      /\ IsBlock(Best, Len(src)) /\ Content(Best, Len(src)) = src
  BY <1>1, EncodedState DEF Inline
<1>3. /\ IsWrapper(xattr', NoFork) /\ XattrSize(xattr') = Len(src)
      /\ WrapperContent(xattr', NoFork) = src
      /\ xattr' \in Seq(Byte) /\ Len(xattr') = HeaderLength + Len(Best)
  BY <1>1, <1>2, InlineHolds
<1>4. HoldsSource'
  BY <1>1, <1>3, Zenon DEF HoldsSource
<1>5. Len(xattr') <= HeaderLength + Len(src) + 1
  BY <1>2, <1>3 DEF HeaderLength
<1>6. BoundedOverhead'
  BY <1>1, <1>5, Zenon DEF BoundedOverhead
<1>7. offsets \in Seq(Nat) /\ blocks \in Seq(Seq(Byte))
  <2>1. << >> \in Seq(Nat) /\ << >> \in Seq(Seq(Byte))
    OBVIOUS
  <2>2. QED
    BY <1>1, <2>1, Zenon DEF Inline
<1>8. Returned'
  BY <1>1, <1>3, <1>4, <1>6, <1>7 DEF Returned
<1>9. QED
  BY <1>1, <1>8 DEF IInv

(* Too long for the xattr: the source is not empty. *)
LEMMA TooLong ==
  ASSUME IInv, Encoded, phase = "inline", Len(Best) > MaxXattrData
  PROVE  /\ Len(src) + 1 > MaxXattrData
         /\ BlockCount(Len(src)) > 0
<1>1. /\ src \in Seq(Byte) /\ Len(src) \in Nat
      /\ Len(Best) \in Nat /\ Len(Best) <= Len(src) + 1
  BY EncodedState DEF Inline
<1>2. MaxXattrData \in Nat /\ MaxXattrData > 0
  BY DecmpfsFormatAssumption
<1>3. Len(src) + 1 > MaxXattrData /\ Len(src) > 0
  BY <1>1, <1>2
<1>4. QED
  BY <1>1, <1>3, FirstType

LEMMA BeginForkStep ==
  ASSUME IInv, BeginFork, decoder' = Start
  PROVE  IInv'
<1>1. /\ Encoded /\ phase = "inline" /\ Inline /\ src \in Inputs
      /\ Len(Best) > MaxXattrData /\ TableLen <= OffsetLimit
      /\ phase' = "fork" /\ offsets' = << TableLen >>
      /\ StartEncoder(Chunk(0))
      /\ src' = src /\ blocks' = blocks /\ xattr' = xattr /\ fork' = fork
      /\ result' = result /\ result = "running"
  BY DEF BeginFork, IInv
<1>2. src \in Seq(Byte) /\ Len(src) \in Nat
  BY <1>1, EncodedState
<1>3. Len(src) + 1 > MaxXattrData /\ BlockCount(Len(src)) > 0
  BY <1>1, TooLong
<1>4. TableLen = First(src) /\ Chunk(0) = Part(src, 0)
  BY Zenon DEF TableLen, First, Chunk, Part
<1>5. Part(src, 0) \in Seq(Byte)
  BY <1>2, <1>3, PartType
<1>6. RawInv'
  BY <1>1, <1>4, <1>5, StartsRaw
<1>7. raw_src' = Part(src, 0)
  BY <1>1, <1>4 DEF StartEncoder
<1>8. Laid(src, << First(src) >>, << >>)
  BY <1>1, <1>2, <1>3, <1>4, LaidFirst
<1>9. Len(<< >>) = 0
  OBVIOUS
<1>10. Forking'
  <2>1. src' = src /\ blocks' = << >> /\ offsets' = << First(src) >>
        /\ xattr' = << >> /\ fork' = NoFork
    BY <1>1, <1>4, Zenon DEF Inline
  <2>2. 0 < BlockCount(Len(src))
    BY <1>3
  <2>3. QED
    BY <1>3, <1>7, <1>8, <1>9, <2>1, <2>2, Zenon DEF Forking
<1>11. raw_src' \in Seq(Byte) /\ raw_output' \in Seq(Byte)
  BY <1>6, RawTypesNext
<1>12. QED
  BY <1>1, <1>6, <1>10, <1>11 DEF IInv

(* The block just encoded is laid behind the others. *)
LEMMA BlockLaid ==
  ASSUME IInv, AddBlock
  PROVE  /\ Encoded /\ phase = "fork" /\ Forking
         /\ src \in Seq(Byte) /\ Len(src) \in Nat /\ FitsU64(Len(src))
         /\ Len(blocks) \in Nat /\ Len(blocks') = Len(blocks) + 1
         /\ Laid(src, offsets', blocks')
         /\ offsets'[Len(offsets')] <= OffsetLimit
         /\ src' = src
<1>1. /\ Encoded /\ phase = "fork" /\ NewOffset <= OffsetLimit
      /\ offsets' = Append(offsets, NewOffset)
      /\ blocks' = Append(blocks, Best)
      /\ src' = src
  BY DEF AddBlock
<1>2. /\ src \in Seq(Byte) /\ Len(src) \in Nat /\ FitsU64(Len(src))
      /\ Best \in Seq(Byte) /\ Len(Best) <= Len(raw_src) + 1
      /\ IsBlock(Best, Len(raw_src)) /\ Content(Best, Len(raw_src)) = raw_src
      /\ Forking
  BY <1>1, EncodedState
<1>3. /\ Laid(src, offsets, blocks) /\ Len(blocks) < BlockCount(Len(src))
      /\ raw_src = Part(src, Len(blocks))
  BY <1>2 DEF Forking
<1>4. /\ blocks \in Seq(Seq(Byte)) /\ Len(offsets) = Len(blocks) + 1
  BY <1>3, Zenon DEF Laid
<1>5. Len(blocks) \in Nat
  BY <1>4
<1>6. Len(raw_src) = RemainingBlockSize(Len(src), Len(blocks))
  BY <1>2, <1>3, <1>5, PartType
<1>7. HoldsPart(src, Len(blocks), Best)
  BY <1>2, <1>3, <1>6, Zenon DEF HoldsPart
<1>8. NewOffset = offsets[Len(blocks) + 1] + Len(Best)
  BY <1>4, Zenon DEF NewOffset
<1>9. Laid(src, Append(offsets, NewOffset), Append(blocks, Best))
  BY <1>1, <1>2, <1>3, <1>7, <1>8, LaidNext
<1>10. Len(Append(blocks, Best)) = Len(blocks) + 1
  BY <1>2, <1>4
<1>11. offsets'[Len(offsets')] <= OffsetLimit
  <2>1. offsets \in Seq(Nat)
    BY <1>3, Zenon DEF Laid, IsTable
  <2>2. PICK last : last = NewOffset
    OBVIOUS
  <2>3. offsets' = Append(offsets, last) /\ last <= OffsetLimit
    BY <1>1, <2>2
  <2>4. Len(Append(offsets, last)) = Len(offsets) + 1
        /\ Append(offsets, last)[Len(offsets) + 1] = last
    BY <2>1
  <2>5. QED
    BY <2>3, <2>4
<1>12. QED
  BY <1>1, <1>2, <1>5, <1>9, <1>10, <1>11

(* The next chunk is encoded, or the fork is returned. *)
LEMMA AddBlockStep ==
  ASSUME IInv, AddBlock, decoder' = Start
  PROVE  IInv'
<1>1. /\ Encoded /\ phase = "fork" /\ Forking
      /\ src \in Seq(Byte) /\ Len(src) \in Nat /\ FitsU64(Len(src))
      /\ Len(blocks) \in Nat /\ Len(blocks') = Len(blocks) + 1
      /\ Laid(src, offsets', blocks')
      /\ offsets'[Len(offsets')] <= OffsetLimit
      /\ src' = src
  BY BlockLaid
<1>2. src' \in Inputs
  BY <1>1 DEF IInv
<1>3. CASE Len(blocks') < BlockCount(Len(src))
  <2>1. /\ StartEncoder(Chunk(Len(blocks')))
        /\ xattr' = xattr /\ fork' = fork /\ phase' = phase
        /\ result' = result
    BY <1>3 DEF AddBlock
  <2>2. result = "running"
    BY <1>1 DEF IInv
  <2>3. Chunk(Len(blocks')) = Part(src, Len(blocks'))
    BY Zenon DEF Chunk, Part
  <2>4. Part(src, Len(blocks')) \in Seq(Byte)
    BY <1>1, <1>3, PartType
  <2>5. RawInv'
    BY <2>1, <2>3, <2>4, StartsRaw
  <2>6. raw_src' = Part(src, Len(blocks'))
    BY <2>1, <2>3 DEF StartEncoder
  <2>7. Forking'
    <3>1. /\ Len(src) + 1 > MaxXattrData
          /\ xattr' = << >> /\ fork' = NoFork
      BY <1>1, <2>1 DEF Forking
    <3>2. QED
      BY <1>1, <1>3, <2>6, <3>1, Zenon DEF Forking
  <2>8. raw_src' \in Seq(Byte) /\ raw_output' \in Seq(Byte)
    BY <2>5, RawTypesNext
  <2>9. QED
    BY <1>1, <1>2, <2>1, <2>2, <2>5, <2>7, <2>8 DEF IInv
<1>4. CASE ~(Len(blocks') < BlockCount(Len(src)))
  <2>1. /\ xattr' = BuildXattr(LzvnResourceFork, Len(src), << >>)
        /\ fork' = FlattenSeq([i \in 1..Len(offsets') |->
                                 U32Bytes(offsets'[i])])
                     \o FlattenSeq(blocks')
        /\ phase' = "done" /\ result' = "Ok"
        /\ raw_src' = raw_src /\ raw_output' = raw_output
    BY <1>4 DEF AddBlock, Finish, raw_vars
  <2>2. fork' = TableBytes(offsets') \o FlattenSeq(blocks')
    BY <2>1, Zenon DEF TableBytes, Entries
  <2>3. Len(blocks') = BlockCount(Len(src))
    <3>1. Len(blocks) < BlockCount(Len(src)) /\ BlockCount(Len(src)) \in Nat
      BY <1>1, FirstType DEF Forking
    <3>2. QED
      BY <1>1, <1>4, <3>1
  <2>4. /\ IsWrapper(xattr', fork') /\ XattrSize(xattr') = Len(src)
        /\ WrapperContent(xattr', fork') = src
        /\ xattr' \in Seq(Byte) /\ Len(xattr') = HeaderLength
        /\ fork' \in Seq(Byte)
        /\ Len(fork') <= Len(src) + 5 * BlockCount(Len(src)) + 4
        /\ Len(fork') = offsets'[Len(offsets')]
    <3>1. PICK o, b, x, f :
            o = offsets' /\ b = blocks' /\ x = xattr' /\ f = fork'
      BY Zenon
    <3>2. /\ Laid(src, o, b) /\ Len(b) = BlockCount(Len(src))
          /\ x = BuildXattr(LzvnResourceFork, Len(src), << >>)
          /\ f = TableBytes(o) \o FlattenSeq(b)
      BY <1>1, <2>1, <2>2, <2>3, <3>1, Zenon
    <3>3. /\ IsWrapper(x, f) /\ XattrSize(x) = Len(src)
          /\ WrapperContent(x, f) = src
          /\ x \in Seq(Byte) /\ Len(x) = HeaderLength
          /\ f \in Seq(Byte)
          /\ Len(f) <= Len(src) + 5 * BlockCount(Len(src)) + 4
          /\ Len(f) = o[Len(o)]
      <4>1. src \in Seq(Byte) /\ FitsU64(Len(src))
        BY <1>1, Zenon
      <4>2. Wraps(src, x, f) /\ Len(f) = o[Len(o)]
        BY <3>2, <4>1, LaidWhole, Zenon
      <4>3. QED
        BY <4>2, Zenon DEF Wraps
    <3>4. QED
      BY <3>1, <3>3, Zenon
  <2>5. HoldsSource'
    BY <1>1, <2>4, Zenon DEF HoldsSource
  <2>6. fork' # NoFork
    BY <2>4, DecmpfsFormatAssumption DEF Byte
  <2>7. Len(src) + 1 > MaxXattrData
    BY <1>1 DEF Forking
  <2>8. BoundedOverhead'
    BY <1>1, <2>4, <2>6, <2>7, Zenon DEF BoundedOverhead
  <2>9. offsets' \in Seq(Nat) /\ blocks' \in Seq(Seq(Byte))
    BY <1>1, Zenon DEF Laid, IsTable
  <2>10. Returned'
    BY <2>4, <2>5, <2>8, <2>9 DEF Returned
  <2>11. QED
    BY <1>2, <2>1, <2>10 DEF IInv
<1>5. QED
  BY <1>3, <1>4

(* Nothing is returned. *)
LEMMA SizeOverflowStep ==
  ASSUME IInv, SizeOverflow
  PROVE  IInv'
<1>1. /\ Encoded /\ phase \in {"inline", "fork"}
      /\ phase' = "done" /\ result' = "SizeOverflow"
      /\ src' = src /\ offsets' = offsets /\ blocks' = blocks
      /\ xattr' = xattr /\ fork' = fork
      /\ raw_src' = raw_src /\ raw_output' = raw_output
  BY DEF SizeOverflow, raw_vars
<1>2. phase = "inline" => Inline
  BY DEF IInv
<1>3. phase = "fork" => Forking
  BY DEF IInv
<1>4. /\ offsets \in Seq(Nat) /\ blocks \in Seq(Seq(Byte))
      /\ xattr \in Seq(Byte) /\ fork = NoFork
  <2>1. << >> \in Seq(Nat) /\ << >> \in Seq(Seq(Byte)) /\ << >> \in Seq(Byte)
    OBVIOUS
  <2>2. CASE phase = "inline"
    BY <1>2, <2>1, <2>2, Zenon DEF Inline
  <2>3. CASE phase = "fork"
    <3>1. Laid(src, offsets, blocks) /\ xattr = << >> /\ fork = NoFork
      BY <1>3, <2>3 DEF Forking
    <3>2. QED
      BY <2>1, <3>1, Zenon DEF Laid, IsTable
  <2>4. QED
    BY <1>1, <2>2, <2>3
<1>5. HoldsSource' /\ BoundedOverhead'
  BY <1>1, Zenon DEF HoldsSource, BoundedOverhead
<1>6. Returned'
  BY <1>1, <1>4, <1>5 DEF Returned
<1>7. QED
  BY <1>1, <1>6 DEF IInv

LEMMA NextIInv == IInv /\ [RoundTripNext]_RoundTripVars => IInv'
<1> SUFFICES ASSUME IInv, [RoundTripNext]_RoundTripVars PROVE IInv'
  OBVIOUS
<1>1. CASE UNCHANGED RoundTripVars
  <2>1. /\ src' = src /\ offsets' = offsets /\ blocks' = blocks
        /\ xattr' = xattr /\ fork' = fork /\ phase' = phase
        /\ result' = result /\ raw_src' = raw_src
        /\ raw_output' = raw_output
        /\ UNCHANGED P!RoundTripVars
    BY <1>1 DEF RoundTripVars, vars, raw_vars, P!RoundTripVars, P!vars
  <2>2. RawInv => RawInv'
    <3> SUFFICES ASSUME RawInv PROVE RawInv'
      OBVIOUS
    <3>1. [P!RoundTripNext]_(P!RoundTripVars)
      BY <2>1
    <3>2. P!IInv' /\ P!Thrift'
      BY <3>1, RawAssumption, P!NextInvariant, P!NextThrift DEF RawInv
    <3>3. P!Traced'
      BY <3>1, <3>2, RawAssumption, P!NextTraced DEF RawInv
    <3>4. QED
      BY <3>2, <3>3 DEF RawInv
  <2>3. (Inline => Inline') /\ (Forking => Forking')
    BY <2>1, Zenon DEF Inline, Forking
  <2>4. Returned => Returned'
    BY <2>1, Zenon DEF Returned, HoldsSource, BoundedOverhead
  <2>5. QED
    BY <2>1, <2>2, <2>3, <2>4 DEF IInv
<1>2. CASE RoundTripNext
  <2>1. /\ Next
        /\ decoder' = IF Encoded THEN Start
                      ELSE IF raw_output' = raw_output THEN decoder
                      ELSE Execute(raw_output', decoder)
    BY <1>2 DEF RoundTripNext
  <2>2. CASE EncodeRaw
    BY <2>1, <2>2, EncodeRawStep
  <2>3. CASE FitsInline
    BY <2>3, FitsInlineStep
  <2>4. CASE BeginFork
    <3>1. decoder' = Start
      BY <2>1, <2>4 DEF BeginFork
    <3>2. QED
      BY <2>4, <3>1, BeginForkStep
  <2>5. CASE AddBlock
    <3>1. decoder' = Start
      BY <2>1, <2>5 DEF AddBlock
    <3>2. QED
      BY <2>5, <3>1, AddBlockStep
  <2>6. CASE SizeOverflow
    BY <2>6, SizeOverflowStep
  <2>7. QED
    BY <2>1, <2>2, <2>3, <2>4, <2>5, <2>6 DEF Next
<1>3. QED
  BY <1>1, <1>2

LEMMA EncodeInvariant == RoundTripSpec => []IInv
<1>1. RoundTripInit => IInv
  BY InitIInv
<1>2. IInv /\ [RoundTripNext]_RoundTripVars => IInv'
  BY NextIInv
<1>3. QED
  BY <1>1, <1>2, PTL DEF RoundTripSpec
-----------------------------------------------------------------------------
(* Every variable keeps its type, for every source.                        *)
THEOREM DecmpfsEncodeTypes == RoundTripSpec => []TypeOK
<1>1. IInv => TypeOK
  <2> SUFFICES ASSUME IInv PROVE TypeOK
    OBVIOUS
  <2>1. /\ src \in Inputs /\ raw_src \in Seq(0..255)
        /\ raw_output \in Seq(0..255)
        /\ phase \in {"inline", "fork", "done"}
        /\ result \in {"running", "Ok", "SizeOverflow"}
    BY DEF IInv, Byte
  <2>2. << >> \in Seq(Nat) /\ << >> \in Seq(Seq(Byte)) /\ << >> \in Seq(Byte)
    OBVIOUS
  <2>3. CASE phase = "inline"
    <3>1. Inline
      BY <2>3 DEF IInv
    <3>2. QED
      BY <2>1, <2>2, <3>1, Zenon DEF Inline, TypeOK, Byte
  <2>4. CASE phase = "fork"
    <3>1. Laid(src, offsets, blocks) /\ xattr = << >> /\ fork = NoFork
      BY <2>4 DEF IInv, Forking
    <3>2. offsets \in Seq(Nat) /\ blocks \in Seq(Seq(Byte))
      BY <3>1, Zenon DEF Laid, IsTable
    <3>3. QED
      BY <2>1, <2>2, <3>1, <3>2, Zenon DEF TypeOK, Byte
  <2>5. CASE phase = "done"
    <3>1. Returned
      BY <2>5 DEF IInv
    <3>2. QED
      BY <2>1, <3>1, Zenon DEF Returned, TypeOK, Byte
  <2>6. QED
    BY <2>1, <2>3, <2>4, <2>5
<1>2. QED
  BY <1>1, EncodeInvariant, PTL

(* A wrapper that is returned is whole and decodes to the source, for      *)
(* every source whose length 64 bits hold, chunks of any size and whatever *)
(* fits in an xattr: header, offset table and blocks, stored and           *)
(* compressed, agree, and no offset of the fork is cut off (decmpfs.rs     *)
(* 168-186 and 337-402).                                                   *)
THEOREM DecmpfsHoldsSource == RoundTripSpec => []HoldsSource
<1>1. IInv => HoldsSource
  BY DEF IInv, Returned, HoldsSource
<1>2. QED
  BY <1>1, EncodeInvariant, PTL

(* And it is never much longer than the source (decmpfs.rs 168-185).       *)
THEOREM DecmpfsOverhead == RoundTripSpec => []BoundedOverhead
<1>1. IInv => BoundedOverhead
  BY DEF IInv, Returned, BoundedOverhead
<1>2. QED
  BY <1>1, EncodeInvariant, PTL
=============================================================================
