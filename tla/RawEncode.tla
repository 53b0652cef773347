----------------------------- MODULE RawEncode ------------------------------
(***************************************************************************)
(* The raw LZVN encoder, raw::encode: a greedy match finder over a hash    *)
(* table of recent positions, and the emit functions that turn the bytes   *)
(* before a match and the match itself into instructions.                  *)
(*                                                                         *)
(* One step is one turn of a loop of the encoder or one emitted            *)
(* instruction.  Positions are counts of bytes, as in the source, so that  *)
(* the source's src[k] is At(k).  The limits are the real ones: they come  *)
(* from the fields of the instructions.                                    *)
(***************************************************************************)
EXTENDS LzvnOpcode

CONSTANT Inputs  (* the byte strings a caller may encode *)

ASSUME RawEncodeAssumption == Inputs \subseteq Seq(Byte)

HASH_SIZE == 16384
CANDIDATES_PER_BUCKET == 4

(* Bugs to plant in the limits, *)
BuggyMaxLiteralLen == 15
BuggyMaxMatchLen == 272

MAX_DISTANCE == \hFFFF
MAX_INLINE_LITERAL == 3
MAX_LITERAL_LEN == 271
MAX_MATCH_LEN == 271
MAX_MEDIUM_DISTANCE == \h3FFF
MAX_MEDIUM_MATCH == 34
MAX_SHORT_DISTANCE == \h600
MIN_MATCH_LEN == 3

(* in the end marker, *)
BuggyEOS == << \h06, 0, 0, 0, 0, 0, 0, 0, 0 >>

EOS == << \h06, 0, 0, 0, 0, 0, 0, 0 >>

(* and in what fits beside literals. *)
BuggyMaxShortMatch(inline_literals) == 10 - inline_literals

(* The longest match a short header can hold beside its literals. *)
max_short_match(inline_literals) == 10 - inline_literals * 2

VARIABLES
  src,                (* the bytes to encode, fixed for the call           *)
  output,             (* the instructions emitted                          *)
  table,              (* used hash buckets: recent positions, newest first *)
  position,           (* bytes searched and entered in the table           *)
  previous_distance,  (* the distance of the last match emitted            *)
  covered,            (* bytes of src that the emitted instructions give   *)
  match,              (* the match being emitted and entered               *)
  pc                  (* what the encoder is doing                         *)

vars == <<src, output, table, position, previous_distance, covered, match,
          pc>>

NoMatch == [distance |-> 0, length |-> 0]

Init ==
  /\ src \in Inputs
  /\ output = << >>
  /\ table = << >>
  /\ position = 0
  /\ previous_distance = 0
  /\ covered = 0
  /\ match = NoMatch
  /\ pc = "search"
-----------------------------------------------------------------------------
(* The hash table. *)

At(k) == src[k + 1]

(* Bits 12 to 25 of the product of the three bytes and 4161, which is      *)
(* 1 + 2^6 + 2^12: higher bits are dropped before they leave TLC's range.  *)
HashAt(p) ==
  LET value == At(p) + At(p + 1) * 256 + At(p + 2) * 65536
  IN  ((value + (value % 1048576) * 64 + (value % 16384) * 4096) \div 4096)
        % HASH_SIZE

Bucket(hash) == IF hash \in DOMAIN table THEN table[hash] ELSE << >>

(* A bug to plant: a full bucket drops the newest position. *)
BuggyNewest(positions) ==
  IF Len(positions) <= CANDIDATES_PER_BUCKET
    THEN positions
    ELSE Tail(positions)

(* rotate_right and the first slot: the oldest position is dropped. *)
Newest(positions) ==
  IF Len(positions) <= CANDIDATES_PER_BUCKET
    THEN positions
    ELSE SubSeq(positions, 1, CANDIDATES_PER_BUCKET)

(* insert_position: too close to the end there is nothing to hash. *)
Entered(p) ==
  IF Len(src) - p < MIN_MATCH_LEN
    THEN table
    ELSE [hash \in DOMAIN table \cup {HashAt(p)} |->
            IF hash = HashAt(p)
              THEN Newest(<<p>> \o Bucket(hash))
              ELSE table[hash]]
-----------------------------------------------------------------------------
(* The match finder. *)

Repeats(p, m) ==
  \A k \in 0..(m.length - 1) : At(p + k) = At(p + k - m.distance)

(* A bug to plant: lengths are capped. *)
BuggyIsLongest(p, m) ==
  \/ m.length = 4
  \/ /\ m.length < 4
     /\ \/ p + m.length = Len(src)
        \/ At(p + m.length) # At(p + m.length - m.distance)

(* match_length stops at the end of the source or at a difference. *)
IsLongest(p, m) ==
  \/ p + m.length = Len(src)
  \/ At(p + m.length) # At(p + m.length - m.distance)

(* The distances of the candidates: the previous one and the bucket's. *)
Distances(p) ==
  LET bucket == Bucket(HashAt(p))
  IN  {d \in 1..p :
         /\ d <= MAX_DISTANCE
         /\ \/ d = previous_distance
            \/ \E i \in 1..Len(bucket) : bucket[i] = p - d}

(* consider_candidate: what is long enough. *)
Matches(p) ==
  IF Len(src) - p < MIN_MATCH_LEN
    THEN {}
    ELSE {m \in [distance : Distances(p),
                 length : MIN_MATCH_LEN..(Len(src) - p)] :
            IsLongest(p, m) /\ Repeats(p, m)}

(* is_better_match: a longer match, else the previous distance, which      *)
(* needs no distance bytes, else the nearer.                               *)
IsBetter(m, other) ==
  IF m.length # other.length
    THEN m.length > other.length
  ELSE IF (m.distance = previous_distance)
            # (other.distance = previous_distance)
    THEN m.distance = previous_distance
    ELSE m.distance < other.distance

(* match_is_worthwhile: a far match of three bytes takes three. *)
IsWorthwhile(m) ==
  IF m.distance = previous_distance \/ m.distance < MAX_SHORT_DISTANCE
    THEN m.length >= MIN_MATCH_LEN
    ELSE m.length > MIN_MATCH_LEN

(* find_match: the best match, if it is worthwhile. *)
Found(p) ==
  LET matches == Matches(p)
  IN  {m \in matches :
         /\ \A other \in matches \ {m} : IsBetter(m, other)
         /\ IsWorthwhile(m)}
-----------------------------------------------------------------------------
(* The instructions. *)

(* The bytes of a word, in the order of to_le_bytes. *)
LowByte(word) == word % 256

HighByte(word) == word \div 256

(* The header of n literals, at most MAX_LITERAL_LEN, *)
LiteralHeader(n) ==
  IF n <= 15 THEN << \hE0 + n >> ELSE << \hE0, n - 16 >>

(* and of n more bytes of the last match. *)
MatchHeader(n) ==
  IF n <= 15 THEN << \hF0 + n >> ELSE << \hF0, n - 16 >>

(* emit_small_distance and its companions: what precedes the literals. *)
SmallDistance(literals, length, distance) ==
  << literals * 64 + (length - MIN_MATCH_LEN) * 8 + distance \div 256,
     distance % 256 >>

MediumDistance(literals, length, distance) ==
  LET match_code == length - MIN_MATCH_LEN
      packed     == distance * 4 + (match_code % 4)
  IN  << \hA0 + literals * 8 + match_code \div 4,
         LowByte(packed), HighByte(packed) >>

LargeDistance(literals, length, distance) ==
  << literals * 64 + (length - MIN_MATCH_LEN) * 8 + 7,
     LowByte(distance), HighByte(distance) >>

PreviousDistance(literals, length) ==
  << literals * 64 + (length - MIN_MATCH_LEN) * 8 + 6 >>

ChunkLen(len, max) == IF len <= max THEN len ELSE max
-----------------------------------------------------------------------------
(* The main loop. *)

(* A bug to plant: the position is not advanced. *)
StuckSkip ==
  /\ pc = "search"
  /\ position < Len(src)
  /\ Found(position) = {}
  /\ UNCHANGED vars

(* No match at this position. *)
Skip ==
  /\ pc = "search"
  /\ position < Len(src)
  /\ Found(position) = {}
  /\ table' = Entered(position)
  /\ position' = position + 1
  /\ UNCHANGED <<src, output, previous_distance, covered, match, pc>>

FindMatch ==
  /\ pc = "search"
  /\ position < Len(src)
  /\ match' \in Found(position)
  /\ pc' = "literals"
  /\ UNCHANGED <<src, output, table, position, previous_distance, covered>>

(* The positions of an emitted match are entered one by one. *)
EnterMatched ==
  /\ pc = "enter"
  /\ table' = Entered(position)
  /\ position' = position + 1
  /\ IF position + 1 = covered
       THEN match' = NoMatch /\ pc' = "search"
       ELSE UNCHANGED <<match, pc>>
  /\ UNCHANGED <<src, output, previous_distance, covered>>

Finish ==
  /\ pc = "search"
  /\ position >= Len(src)
  /\ pc' = "final"
  /\ UNCHANGED <<src, output, table, position, previous_distance, covered,
                 match>>
-----------------------------------------------------------------------------
(* The instructions of a match, and those of the bytes behind the last.    *)

(* Up to three literals go into the header of the match. *)
LiteralEnd ==
  IF pc = "final" THEN Len(src)
  ELSE IF position - covered <= MAX_INLINE_LITERAL THEN covered
  ELSE position - MAX_INLINE_LITERAL

(* One turn of the loop of emit_literals. *)
EmitLiterals ==
  /\ pc \in {"literals", "final"}
  /\ covered < LiteralEnd
  /\ LET n == ChunkLen(LiteralEnd - covered, MAX_LITERAL_LEN)
     IN  /\ output' = output \o LiteralHeader(n)
                             \o SubSeq(src, covered + 1, covered + n)
         /\ covered' = covered + n
  /\ UNCHANGED <<src, table, position, previous_distance, match, pc>>

InlineLen == position - covered

ShortLength == ChunkLen(match.length, max_short_match(InlineLen))

(* The first instruction of the match, with the literals that are left. *)
EmitHeader(header, length) ==
  /\ output' = output \o header \o SubSeq(src, covered + 1, position)
  /\ covered' = position + length
  /\ previous_distance' = match.distance
  /\ pc' = IF length = match.length THEN "enter" ELSE "chunks"
  /\ UNCHANGED <<src, table, position, match>>

AtHeader == pc = "literals" /\ covered >= LiteralEnd

(* Without literals the previous distance needs no header: more match      *)
(* bytes can follow at once.                                               *)
EmitPreviousDistance ==
  /\ AtHeader
  /\ match.distance = previous_distance
  /\ IF InlineLen = 0
       THEN EmitHeader(<< >>, 0)
       ELSE EmitHeader(PreviousDistance(InlineLen, ShortLength), ShortLength)

FitsMedium ==
  /\ match.distance <= MAX_MEDIUM_DISTANCE
  /\ match.length > max_short_match(InlineLen)

EmitMediumDistance ==
  /\ AtHeader
  /\ match.distance # previous_distance
  /\ FitsMedium
  /\ LET length == ChunkLen(match.length, MAX_MEDIUM_MATCH)
     IN  EmitHeader(MediumDistance(InlineLen, length, match.distance), length)

EmitSmallDistance ==
  /\ AtHeader
  /\ match.distance # previous_distance
  /\ ~FitsMedium
  /\ match.distance < MAX_SHORT_DISTANCE
  /\ EmitHeader(SmallDistance(InlineLen, ShortLength, match.distance),
                ShortLength)

EmitLargeDistance ==
  /\ AtHeader
  /\ match.distance # previous_distance
  /\ ~FitsMedium
  /\ match.distance >= MAX_SHORT_DISTANCE
  /\ EmitHeader(LargeDistance(InlineLen, ShortLength, match.distance),
                ShortLength)

(* One turn of the loop of emit_match_chunks. *)
EmitMatchChunk ==
  /\ pc = "chunks"
  /\ LET left == position + match.length - covered
         n    == ChunkLen(left, MAX_MATCH_LEN)
     IN  /\ output' = output \o MatchHeader(n)
         /\ covered' = covered + n
         /\ pc' = IF n = left THEN "enter" ELSE "chunks"
  /\ UNCHANGED <<src, table, position, previous_distance, match>>

EmitEos ==
  /\ pc = "final"
  /\ covered = Len(src)
  /\ output' = output \o EOS
  /\ pc' = "done"
  /\ UNCHANGED <<src, table, position, previous_distance, covered, match>>

Next ==
  \/ Skip
  \/ FindMatch
  \/ EnterMatched
  \/ Finish
  \/ EmitLiterals
  \/ EmitPreviousDistance
  \/ EmitMediumDistance
  \/ EmitSmallDistance
  \/ EmitLargeDistance
  \/ EmitMatchChunk
  \/ EmitEos

Spec == Init /\ [][Next]_vars

(* The call is a loop without waits: it runs until it returns. *)
FairSpec == Spec /\ WF_vars(Next)
-----------------------------------------------------------------------------
(* Every variable has its type. *)
TypeOK ==
  /\ src \in Inputs
  /\ output \in Seq(Byte)
  /\ DOMAIN table \subseteq 0..(HASH_SIZE - 1)
  /\ \A hash \in DOMAIN table : table[hash] \in Seq(Nat)
  /\ position \in 0..Len(src)
  /\ previous_distance \in 0..MAX_DISTANCE
  /\ covered \in 0..Len(src)
  /\ match \in [distance : 0..MAX_DISTANCE, length : 0..Len(src)]
  /\ pc \in {"search", "literals", "chunks", "enter", "final", "done"}

(* The positions that can be hashed, of those the encoder is through with. *)
Searched == {p \in 0..(position - 1) : p + MIN_MATCH_LEN <= Len(src)}

(* A bucket holds the last four positions of its hash, the newest first:   *)
(* none is missing, whether it was searched or covered by a match, and     *)
(* none stale, so that every candidate lies behind the position it is      *)
(* compared with (encode.rs 72-74, 100 and 187-196).                       *)
BucketsHoldNewest ==
  /\ \A p \in Searched : HashAt(p) \in DOMAIN table
  /\ \A hash \in DOMAIN table :
       LET bucket == table[hash]
       IN  /\ Len(bucket) <= CANDIDATES_PER_BUCKET
           /\ \A i \in 1..Len(bucket) :
                /\ bucket[i] \in Searched /\ HashAt(bucket[i]) = hash
                /\ \A j \in 1..(i - 1) : bucket[j] > bucket[i]
           /\ \A p \in Searched : HashAt(p) = hash =>
                \/ \E i \in 1..Len(bucket) : bucket[i] = p
                \/ /\ Len(bucket) = CANDIDATES_PER_BUCKET
                   /\ p < bucket[CANDIDATES_PER_BUCKET]

(* Right behind a match, the next one never has the same distance: the     *)
(* first would have been longer.  So a header with the previous distance   *)
(* always has literals; without them its byte would be 0x06, the end       *)
(* marker, for a match of three (encode.rs 172-174, 216-219 and 312).      *)
NewDistanceAfterMatch ==
  pc = "literals" /\ InlineLen = 0 => match.distance # previous_distance

(* Incompressible parts cost one byte in sixteen and one more, so the      *)
(* reservation of the constructor falls short by one byte at most          *)
(* (encode.rs 50).                                                         *)
ExpansionBounded ==
  LET instructions == Len(output) - IF pc = "done" THEN Len(EOS) ELSE 0
  IN  instructions <= covered + covered \div 16 + 1

(* The call returns. *)
Returns == <>(pc = "done")
=============================================================================
