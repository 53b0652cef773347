-------------------------- MODULE MCDecmpfsDecode ---------------------------
(***************************************************************************)
(* Bounded instances of DecmpfsDecode.                                     *)
(***************************************************************************)
EXTENDS DecmpfsDecodeReference

(* Chunks of four bytes.  Blocks of four: stored, compressed with two      *)
(* kinds of end marker, an end marker that looks stored; too short, too    *)
(* long, cut, followed by more, invalid, empty; and one of two bytes.      *)
Blocks == {
  << \h06, 1, 2, 3, 4 >>,
  << \h40, 1, 7, \h06 >>,
  << \hE4, 1, 2, 3, 4, \h06, 0 >>,
  << \h06, 0, 0, 0, 0 >>,
  << \h06, 0 >>,
  << \h06, 1, 2 >>,
  << \hE2, 1, \h0E, \h0E, \h06 >>,
  << \h40, 1, 7, \hE1, 8, \h06 >>,
  << \hE4, 1, 2 >>,
  << \h40, 1, 7, \h0E >>,
  << \hE4, 1, 2, 3, 4, \h06, 5 >>,
  << \hE1, 7, \h1E >>,
  << >> }

Table(offsets) == FlattenSeq([i \in 1..Len(offsets) |-> U32Bytes(offsets[i])])

Fork(blocks) ==
  LET end[i \in 0..Len(blocks)] ==
        IF i = 0 THEN OffsetTableLen(Len(blocks))
                 ELSE end[i - 1] + Len(blocks[i])
  IN  Table([i \in 1..(Len(blocks) + 1) |-> end[i - 1]]) \o FlattenSeq(blocks)

Inline(size, payload) == <<BuildXattr(LzvnXattr, size, payload), NoFork>>

Forked(size, fork_bytes) ==
  <<BuildXattr(LzvnResourceFork, size, << >>), fork_bytes>>

Stored == << \h06, 1, 2, 3, 4 >>

Rest == << \h06, 5, 6 >>

(* Payloads in the xattr, and forks of one to three blocks with sizes      *)
(* around those that the blocks call for.                                  *)
Regular ==
  { Inline(size, b) : size \in {0, 1, 2, 4}, b \in Blocks } \cup
  { Forked(size, Fork(<<b>>)) : size \in {0, 2, 3, 4, 5}, b \in Blocks } \cup
  { Forked(size, Fork(<<b, c>>)) :
      size \in {6, 8}, b \in Blocks, c \in Blocks } \cup
  { Forked(size, Fork(<<Stored, b, Rest>>)) :
      size \in {9, 10}, b \in Blocks }

(* A fork of two stored blocks with any offsets near the right ones, empty *)
(* forks, and bytes behind the last block.                                 *)
Irregular ==
  { Forked(6, Table(<<a, b, c>>) \o Stored \o Rest) :
      a \in {8, 12, 13}, b \in {0, 12, 16, 17, 18, 21},
      c \in {0, 16, 17, 19, 20, 21} } \cup
  { Forked(size, f) : size \in {0, 1},
      f \in { << >>, Table(<<4>>), Table(<<5>>), Table(<<4>>) \o <<0>>,
              Table(<<8, 8>>), NoFork } } \cup
  { Forked(6, Fork(<<Stored, Rest>>) \o <<0>>),
    <<BuildXattr(LzvnResourceFork, 6, <<0>>), Fork(<<Stored, Rest>>)>>,
    <<BuildXattr(3, 4, Stored), NoFork>>,
    <<SubSeq(BuildXattr(LzvnXattr, 4, Stored), 1, 15), NoFork>>,
    << <<0>> \o Tail(BuildXattr(LzvnXattr, 4, Stored)), NoFork>> }

(* With a usize of seven bits, sizes at both sides of isize::MAX, 63, and  *)
(* of usize::MAX, 127, in a whole wrapper (4 bytes and a match of 16 + n)  *)
(* and in a fork; and small sizes whose upper half is not zero.            *)
Repeated(n) == << \h40, 1, 7, \hF0, n, \h06 >>

UpperHalf(wrapper) == << [wrapper[1] EXCEPT ![13] = 1], wrapper[2] >>

Huge ==
  { Inline(20 + n, Repeated(n)) : n \in {0, 42, 43, 44, 107, 108} } \cup
  { Forked(size, Fork(<<Stored, Rest>>)) : size \in {63, 64, 127, 128} } \cup
  { UpperHalf(Inline(4, Stored)), UpperHalf(Inline(0, << \h06 >>)),
    UpperHalf(Forked(6, Fork(<<Stored, Rest>>))) }

MCWrappers == Regular \cup Irregular \cup Huge

MCCapacities == {0, 5, 10, 12, 62, 63, Exact}
=============================================================================
