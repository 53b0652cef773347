# TLA+ models of the lzvn crate

The crate encodes and decodes LZVN, the byte-oriented LZ77 format of Apple's
`bvxn` blocks and `decmpfs` files.  This directory holds TLA+ modules that
model its encoders, its decoders and its containers, configurations that check
them with TLC, and proofs that TLAPS checks.  Line numbers below refer to the sources under `src/src/`.

## The system

| part | state it keeps | operations | hard behaviour | what makes it correct |
|---|---|---|---|---|
| opcode table, `raw/opcode.rs` | none | `classify` | every byte has one meaning | fields are in range, a header is one to three bytes |
| one-shot raw decoder, `raw/decode.rs` | position, output, previous distance | `decode_into`, `decode` | overlapping matches, buffer just too small, order of the error checks | writes the reference output, in bounds, returns |
| incremental raw decoder, `raw/stream.rs` | unread input, history, pending instruction, end-of-stream counters | `feed`, `finish_input`, `decode_into` | chunks and output buffers cut anywhere, compaction, padding split between calls, calls after an error | same output, offsets and errors as the one-shot decoder |
| incremental raw encoder, `raw/stream.rs` | source, encoded bytes, drain offset | `feed`, `finish_input`, `encode_into` | input fed after the encoding was prepared | hands out one encoding, that of what was fed by the first call after `finish_input` |
| raw encoder, `raw/encode.rs` | hash table, position, literal start, previous distance | `encode` | match and literal lengths at the limits of an opcode, candidates near the end | whole instructions that decode to the source at every moment |
| `bvxn` container, `apple/bvxn.rs` | none | `parse_header`, `encode`, `decode`, `decode_into` | declared sizes against actual ones | accepts exactly well-sized blocks |
| incremental `bvxn` decoder, `apple/bvxn.rs` | unread input, header, payload still to come, a `RawDecoder` | `feed`, `finish_input`, `decode_into` | header and payload cut anywhere, end marker before the payload's end, bytes behind the payload | pumps the payload once, agrees with the one-shot decoder |
| incremental `bvxn` encoder, `apple/bvxn.rs` | as the raw one | as the raw one | as the raw one | as the raw one |
| `decmpfs`, `apple/fs/decmpfs.rs` | none | `parse_header`, `encode`, `decode`, `decode_into` | stored or compressed blocks, offset table, last block, a failure after some blocks were written | accepts exactly the whole wrappers, writes each block to its own part, stops at the first fault, encodes what holds the source |
| errors, status, re-exports: `error.rs`, `stream.rs`, `lib.rs` | none | none | none | the caller can tell errors and statuses apart |

Nothing in the crate runs concurrently.  What makes it hard is *resumption*:
the incremental decoders are state machines whose steps a caller interleaves
with its own (feed, declare complete, ask for output), with chunks and buffers
of any size.  A `BvxnDecoder` owns a `RawDecoder` and plays its caller.  The
one-shot decoders are the specification of the incremental ones: the tests
`raw_stream_matches_one_shot` and `bvxn_stream_matches_one_shot`
(`src/tests/proptest.rs`) say so for valid streams, the models say it for all
of them, errors and offsets included.  The other hard part is *round trips*: the
encoder cuts literals and matches at a dozen limits that differ per
instruction, and one wrong header byte turns an instruction into another; the
containers declare sizes and offsets that the payload may contradict.

## The modules

- `LzvnOpcode`: the instruction set.  `Classify` is `classify`; `HeaderLen`,
  `LiteralLen`, `MatchLen` and `MatchDistance` are the formulas that
  `decode.rs` (86-142) and `stream.rs` (143-231) both contain; `IsEosPadding` is
  the rule for what may follow the end marker.
- `RawDecode`: `raw::decode_into`.  One action per arm of the loop, one per
  error.  `src`, `input`, `dst` and `previous_distance` are the fields of
  `Decoder`; `literal_len` and `match_len` are the locals of an instruction
  while it is copied, `result` is the value returned.  `capacity` is the length
  of the caller's buffer (`Unbounded`: any output fits).
- `RawReference`: a definition of what a stream decodes to that does not look
  like the decoders: whole instructions, a match as a periodic continuation.
  `RawDecodeReference` compares the decoder with it.
- `RawStream`: `RawDecoder` and its caller.  The variables are the fields of
  the struct under their own names, the call in progress (`pc`, `dst_len`,
  `written`, `result`), the caller (`src`, `fed`), and two history variables
  (`reported`: bytes the caller was told of; `marker_end`: where the end marker
  ended).  `Feed`, `FinishInput` and the early returns of `decode_into`
  (`CallAfterFinish`) are one step; each turn of the loop of `decode_into` is a
  step, and a match is copied byte by byte.  `compact_input_if_necessary` is the
  operator `Advance`, part of the actions that call it.
- `RawEncode`: `raw::encode`.  One action per turn of the main loop (`Skip`,
  `FindMatch`, `EnterMatched`, `Finish`) and one per emitted instruction
  (`EmitLiterals`, `EmitPreviousDistance`, ..., `EmitEos`).  `table` holds the
  used hash buckets, newest position first; `covered` is the number of source
  bytes that the instructions emitted so far give (`literal_start`, moved on by
  every instruction); `match` is the match being emitted.  `Found` is the match
  that `find_match` and `is_better_match` choose.  All limits are the real ones.
- `RawRoundTrip`: `RawEncode` composed with a reader that executes every
  instruction at the moment it is emitted, with the operators of `RawReference`,
  and with the block that `bvxn::encode` makes of the output.
- `DrainEncoder`: `RawEncoder` and `BvxnEncoder` with their caller.  Both are one
  machine; the one-shot encoder is the parameter `EncodeOf`, `SizeOverflow` what
  `bvxn::encode` answers to a source that is too long.  The caller may feed after
  `finish_input` (`feeds_late`), which the code does not forbid.
- `LittleEndian`, `BvxnBlock`: `to_le_bytes` of `u32` and `u64`, and back; the 12-byte header,
  `encode` (`Block`) and the checks of `split_block`.
- `BvxnOneShot`: `bvxn::decode` and `decode_into` around an instance of
  `RawDecode` that runs on the payload.  `outcome` is what the call returns.
- `BvxnReference`: which blocks hold what they declare, by `RawReference` on their
  payload.  `BvxnOneShotReference` and `BvxnStreamReference` compare both decoders
  with it.
- `BvxnStream`: `BvxnDecoder` and its caller.  The `raw_` variables are those
  of an instance of `RawStream` whose stream is the declared payload; the
  actions that call the `RawDecoder` (`FeedPayload`, `FinishPayload`, `CallRaw`,
  `RunRaw`) are conjunctions with actions of that instance.
- `DecmpfsFormat`: the layout of a `decmpfs` wrapper: xattr header, offset table,
  the size of a block, the test for a stored block.
- `DecmpfsDecode`: `decode` and `decode_into`.  `dst` is what the blocks that are
  done decoded to; a block that is not stored runs an instance of `RawDecode`
  whose buffer is the block's part of the caller's.  `Opened` is the verdict of all
  that is checked before a byte is written; `MaxUsize` and `MaxLen` are `usize::MAX`
  and `isize::MAX`, which decide what becomes of a declared size of 64 bits.
- `DecmpfsEncode`: `encode`, first for all of the source, then chunk by chunk if
  that does not fit in the xattr, around an instance of `RawEncode`.
  `DecmpfsRoundTrip` adds a reader of the raw stream at hand, as `RawRoundTrip` does.
- `DecmpfsReference`: what a wrapper holds, by its layout and by `RawReference`,
  for both directions.  `DecmpfsDecodeReference` compares the decoder with it.
- `MCStreams` and the modules named `MC...`: the streams, sources, blocks and
  wrappers of the bounded runs, and some properties that compare with a reference.
- `LzvnProofs`: lemmas about bytes, instructions and the reference.
  `RawDecodeProofs`, `RawStreamProofs`, `RawEncodeProofs`, `BvxnStreamProofs`,
  `DecmpfsDecodeProofs`, `DecmpfsEncodeProofs`: the theorems of each component.
  `BvxnCodecProofs`: those of the incremental encoders and of the one-shot `bvxn`
  decoders, and of the two together; the names in `BvxnOneShot` (`DecodeInit`,
  `DecodeSpec`, `outcome`) differ from those in `DrainEncoder` for its sake.

Sequences are 1-based in TLA+: `input[input_offset]` of the source is
`input[input_offset + 1]` here, while all offsets are counts as in the source.
Operators whose name starts with `Buggy`, `Stale`, `Stuck` or `Hopeful`, and
`ShortHasOutput`, are planted bugs; no specification uses them.  They stand beside the definition they
replace when it is checked that a property notices them.

Abstractions: the payload an error carries is left out, except that offsets
are compared through the refinement mapping; `total_output` and `is_finished`
are reads of `Len(history)` and `finished`.  Integers are unbounded: a `usize`
of 64 bits cannot overflow with buffers that fit in memory, and the fields of a
`bvxn` header are 32 bits wide (`HEADER_LEN + payload_bytes` would need a 32-bit
target to wrap).  The declared size of a `decmpfs` wrapper has 64 bits, so there the
width of a `usize` is a parameter: a size that no `usize` holds is `SizeOverflow`, and
one that no vector holds the panic of `vec!` (`CapacityOverflow`) in `decode`.  An
allocation below that limit is assumed to succeed.  The caller follows the contract of the docs: it does not feed after
`finish_input`, and declares the stream complete only when it has fed all of
it.  A broken stream is another `src`, not another caller.

## The runs

`tlc -config X.cfg M` for each line; the longest takes about half a minute.

| run | module, cfg | what it shows |
|---|---|---|
| `raw_decode` | `MCRawDecode`, `RawDecode.cfg` | `CopiesInBounds`, agreement with `RawReference` (`AgreesWithReference`), termination (`Returns`) |
| `raw_stream` | `MCRawStream`, `RawStream.cfg` | any caller, empty buffers and calls after an error included: `CopiesInBounds`, `BufferIsTheUnreadStream`, `PaddingVerdict`; no deadlock, so every state accepts a call |
| `raw_stream_one_shot` | `MCRawStream`, `RawStreamOneShot.cfg` | a caller that stops at the first error: the decoder implements `RawDecode` (`ImplementsOneShot`), all bytes but those of the failing call are reported (`ReportsUntilError`), the driver terminates, empty buffers in between |
| `raw_stream_retry` | `MCRawStream`, `RawStreamRetry.cfg` | violated: `NothingAfterMarker`, finding 1 |
| `raw_encode` | `MCRawEncode`, `RawEncode.cfg` | after every instruction the output decodes to what it covers (`EmittedDecodes`); a bucket holds the last four positions of its hash (`BucketsHoldNewest`); no previous-distance header without literals, which could be an end marker (`NewDistanceAfterMatch`); one byte in sixteen of expansion (`ExpansionBounded`); the `bvxn` block around the output is whole (`BlockHoldsSource`); `Returns` |
| `drain_encoder` | `MCDrainEncoder`, `DrainEncoder.cfg` | `DeliversOneEncoding` to any caller, `EncodesAllOfIt` to one that does not feed late, `Terminates` for both; no deadlock |
| `bvxn_one_shot` | `MCBvxnOneShot`, `BvxnOneShot.cfg` | accepted are exactly the whole blocks, in any buffer with room for the declared size (`AcceptsWholeBlocks`) |
| `bvxn_stream` | `MCBvxnStream`, `BvxnStream.cfg` | any caller: the payload is pumped once and in order (`PayloadPumpedOnce`), the owned decoder is used as `RawStream` allows (`UsesRawStream`), `DeclaredSize`, `FinishedAgrees`; a valid block is refused for late padding only (`RefusesOnlyLatePadding`); the driver terminates, retries and empty buffers in between; no deadlock |
| `bvxn_early`, `bvxn_late` | `MCBvxnStream`, `BvxnStreamEarly.cfg`, `BvxnStreamLate.cfg` | violated: `FinishedHasWholePayload`, `AcceptsWhatOneShotAccepts`, findings 2 and 3 |
| `decmpfs_decode` | `MCDecmpfsDecode`, `DecmpfsDecode.cfg` | accepted are exactly the whole wrappers whose declared size there is room for (`AcceptsWholeWrappers`); a block goes to its own part (`WritesItsOwnPart`), and what was written before a failure is right (`WritesContent`); the error is that of the first thing that is wrong (`FailsAtFirstFault`); `Returns` |
| `decmpfs_encode` | `MCDecmpfsEncode`, `DecmpfsEncode.cfg` | what is returned holds the source, with offsets that the table can hold (`HoldsSource`), and is hardly longer (`BoundedOverhead`) |

Every run of a module but the second ones of `RawStream` and `BvxnStream` also
checks its type invariant, `TypeOK` (`DecodeTypeOK` in `BvxnOneShot`).

Bounds:

- *Streams.*  Every stream of up to four (`RawDecode`) or three (`RawStream`)
  bytes over eight byte values that are, depending on where they stand,
  opcodes (end marker, nop, literal, small-distance, previous-distance and
  small-match instructions), lengths, distances (0 and 1) or literals; and some twenty
  crafted streams, most from `src/tests/raw_decode.rs`, that use every kind of
  instruction and end in every verdict, with seven and eight padding bytes.
  What the decoders keep between instructions is only the offset, the history
  and the previous distance, so short streams reach the interesting pairs of
  instructions.
- *Chunks* are every run of the rest of the stream, so every way of cutting it.
- *Buffers* of 0, 1 and 3 bytes: empty, always full in the middle of an
  instruction, and large enough for the end of one and the beginning of the
  next.  `CompactThreshold` is 3 instead of 4096 so that all three disjuncts of
  the compaction rule decide something; the theorems are for every value.
- *Blocks* for `bvxn`: nine payloads (padded, unpadded, over-padded, cut short,
  invalid, empty), with right and wrong declared sizes, followed by a byte, cut
  inside the header or the payload, or with another magic.  `bvxn_one_shot`
  takes every payload with every declared size from 0 to 5 and buffers of 0 to 6.
- *Sources* for the encoder: all of up to seven bytes over two letters, where
  matches overlap, repeat and end at the source's end in every way; and
  crafted ones at both sides of every limit of an instruction: literals (15/16,
  271/272), match chunks, `max_short_match` beside zero to three literals with a
  new and with the same distance, the medium match length, and the short
  distance 0x600.  Distances above 0x3FFF are too far for TLC; the theorems
  cover them.  The hash formula drops high bits early, which changes no bit that
  is used, to stay in TLC's 32-bit integers.
- *DrainEncoder*: sources of zero to six distinct bytes, buffers of 0, 1, 3 and
  20 bytes; six bytes stand for the 2^32 that `bvxn::encode` refuses.
- *decmpfs*: chunks of 4 (decoding) or 13 bytes (encoding; long enough for a
  run to be compressed) instead of 64 KiB, at most 8 or 13 bytes in the xattr
  instead of 3786, offsets up to 64 instead of 2^32 - 1 (encoding), so that every
  comparison with them goes both ways.  Forks of zero to three blocks: every
  pair of thirteen blocks (stored, compressed, too short, too long, cut,
  invalid), and two blocks under any mixture of right, wrong and swapped
  offsets.  `MaxUsize` is 127 (a `usize` of seven bits, so that `MaxLen` is 63), with
  declared sizes of 63, 64, 127 and 128, and some whose upper half alone is too large;
  TLC cannot compute these, so `SizeFits` compares by halves.

Fairness: a call is a loop without waits, so it runs on (weak fairness of the
loop's steps).  The driver of the tests (`src/tests/proptest.rs:92` and
`src/tests/stream.rs`) calls again and again with a non-empty buffer
(`CallWithRoom`, buffers 1 and 3) and, when asked for input, comes back to
feed the next run or to declare the end (`Supply`).  Both are disabled while a call
runs (`&mut self`), so they have strong fairness; calls with an empty buffer may come
in between, as often as the caller likes.  That driver stops at the first
error or at Finished, so the liveness runs turn the deadlock check off, as
do the runs of one-shot functions, where a call ends.  Those functions
(`raw_decode`, `raw_encode`, `decmpfs_decode`) are loops without waits: weak
fairness of `Next`.  The driver of `bvxn_stream` may offer empty buffers and retry
after errors between its useful steps, so only calls with room and supplying
have (strong) fairness there.  In `drain_encoder` each call is one step; a caller
that supplies what it has, and keeps offering a buffer that is not empty, is
weakly fair in both.

`RetryAfterError` says whether the caller calls again after an error.  The
safety runs of `RawStream` and all runs of `BvxnStream` say yes.  The refinement needs no: after an error the one-shot
decoder is gone, while the incremental one can be called again (finding 1).

## Findings

1. `raw_stream_retry`.  `consume_eos` moves past the end marker before it
   refuses what follows (`raw/stream.rs:372`), and `finished` stays false: the next
   `decode_into` decodes the trailing bytes as instructions, though a raw stream
   is "terminated by an end marker" (`raw/mod.rs:3`), and may finish at a later
   marker, after bytes that no one-shot decoder gives.  This is the exception that
   `FinishedAgrees` makes (payload `06 E1 07 06`, called again after the error).
2. `bvxn_early`.  `BvxnDecoder` is finished as soon as its `RawDecoder` is, even if
   declared payload bytes behind the end marker have not arrived (`bvxn.rs:253`); if
   they never do, `decode` refuses the same bytes as truncated.
3. `bvxn_late`.  If that padding does arrive, in a later chunk, it is counted as
   trailing data (`bvxn.rs:187`), and a valid block that was reported Finished is
   refused.  `RefusesOnlyLatePadding` shows it is the only way a valid block is refused.

## What is proved

Every theorem is about the specification with its constants left open: any set of
streams, sources, blocks or wrappers, of any length, any set of buffer sizes, any
threshold or chunk size.  The assumptions (`RawStreamAssumption` and so on) only
give the constants their types, and TLC evaluates them in the runs.  Three say more:
the value that stands for "no fork" is not a byte string; a resource fork and a
caller's buffer are slices, no longer than `isize::MAX` (`MaxLen`); and the length of
a source of `DecmpfsEncode` fits in 64 bits, the largest offset of its table in 32.

### The reference and the one-shot decoder

`LzvnProofs` holds what all proofs share: which fields an instruction can have,
runs of a byte sequence cut and joined, integers written and read back as four
or eight bytes, and the reference.  `Reference` is a
recursive function over the turns of a decoder; that it exists and that each
state is the successor of the one before (`TraceExists`, `TraceStates`) is shown by
a least counterexample (`NatMinimum`), because the library's induction theorems
cannot be used here.  From it:

- `ReferenceDecides`: the reference gives each stream a verdict, and what it has
  output on the way is a prefix of what it outputs in the end.  An instruction
  consumes at least a byte, so one turn more than there are bytes is enough.

`RawDecodeProofs` proves of `raw::decode_into`

- `DecodeTypes`: `Spec => []TypeOK`
- `DecodeInBounds`: `Spec => []CopiesInBounds`
- `DecodeAgrees`: `Spec => []AgreesWithReference`

The conjunction of the first two is inductive: `Instruction` establishes the bounds
from the guards that model `require_input`, `require_output` and
`validate_distance`, and the copies keep them.  For the third the decoder is mapped
to the state it will be in when the instruction at hand is copied (`Ahead`: the
pending literals and match bytes appended, the latter as a periodic continuation);
the invariant `RInv` says that the reference reaches that state (`Reaches`).
Copying a byte does not change `Ahead` (`PeriodicStep`), taking an instruction is one
turn of the reference, and an error is its verdict, but for a buffer too small,
where the reference goes on and has more output than the buffer holds.

### The incremental decoder

`RawStreamProofs` proves, for both kinds of callers,

- `StreamTypes`: `Spec => []TypeOK`
- `StreamInBounds`: `Spec => []CopiesInBounds`
- `StreamBuffer`: `Spec => []BufferIsTheUnreadStream`
- `StreamPadding`: `Spec => []PaddingVerdict`

from `StreamInvariant`: `Spec => []IInv`.  `IInv` strengthens the four so that
it is inductive: the buffer's length is what was fed less what was dropped; a
call that runs has not finished; and (`PaddingCounted`) while nothing was
refused after the end marker, `eos_padding` is the number of bytes fed since,
all of them zero.  Without the last part `PaddingVerdict` is not inductive: a state
could have counted too few padding bytes and accept an eighth.  The proof has
one lemma per action, one step per conjunct it can disturb (`FeedStep`,
`CopyPendingLiteralStep`, ..., `EosStep`).

For a caller that stops at the first error (`RetryAfterError = FALSE`) it proves

- `StreamImplementsOneShot`: `Spec => ImplementsOneShot`
- `StreamReports`: `Spec => []ReportsUntilError`

The first is the claim that the test `raw_stream_matches_one_shot` samples, for
all streams, invalid ones included.  It needs `RInv` besides `IInv`: the pending
match has the previous distance, a stream declared complete was all fed, and
after an error or the end marker no call runs.  Each action is shown to be one
of `RawDecode`'s or to leave its variables alone; the argument is that the
buffer is a window of the stream (`BufferedBytes`), that a buffered header is
the one the one-shot decoder reads (`SameHeaderBytes`) and decides every field
(`HeaderDecidesLiteralLen` and its companions), and that compaction leaves
`input_base + input_offset` alone (`AdvanceKeepsPosition`).  When the end
marker is met the mapping lets the one-shot decoder judge the rest of the
stream at once; that the incremental decoder's own verdict on it agrees, now or
in later calls, is `PaddingVerdict`.  The mapping gives the one-shot decoder no
verdict while a call runs.  Without the assumption on the caller the theorem is
false: finding 1.

For every caller, also one that calls again after an error, it proves

- `StreamAgrees`: `Spec => []AgreesWithReference`

which says what the decoded bytes are: a prefix of the reference's output until an
end marker is met, all of it when the decoder finishes there, and the reference's
verdict when it returns an error.  Past a refused marker the reference's verdict is
`TrailingData`, and a caller that goes on there is excepted.  It rests on `SInv`: a stream declared complete was all fed and a pending
match has the distance that was kept (`Ready`), and the decoder is on its way to a state the reference reaches
(`Onward`, with the `Ahead` and `Reaches` of `RawDecodeProofs`), at the marker the
reference stops at (`Ended`), or past a marker whose tail was refused (`Refused`).
Each action before the marker is a step of `RawDecode` or none, so `NextRInv` of
`RawDecodeProofs` does the work; where the marker is met, `EosExecutes` compares
the verdict on what is buffered and fed later with that on the whole tail.

### The encoder

`RawEncodeProofs` proves, over all byte values and with the real limits,

- `EncoderRoundTrip`: `RoundTripSpec => []EmittedDecodes`
- `EncoderBlock`: `RoundTripSpec => []BlockHoldsSource`
- `EncoderExpansion`: `RoundTripSpec => []ExpansionBounded`
- `EncoderNewDistance`: `RoundTripSpec => []NewDistanceAfterMatch`
- `EncoderBuckets`: `RoundTripSpec => []BucketsHoldNewest`
- `EncoderTypes`: `RoundTripSpec => []TypeOK`

The invariant of the first adds what the emit functions take for granted: the
match being emitted is a repetition of the source at a distance inside the
searched part (`IsMatch`), `covered` lies where `pc` says (`Progress`), and the
reader stands at the end of the output with the encoder's distance and the
covered bytes (`InStep`).  Each header is read back by the opcode table as what
it was built from, for every number of literals, length and distance it is used
with (`SmallDistanceRead` to `MatchHeaderRead`): this is where `10 - 2n` and the
limits are needed.  The reader executes a match as a periodic continuation; that
it gives the source's bytes (`RepeatIsPeriodic`) is again a least-counterexample
argument, over a match's length.

`EncoderBlock` goes from the reader, which executes instructions while the output
grows, to `Reference`, which reads the finished output (`Traced`): more bytes behind
a stream change nothing before its end (`ReachesLonger`).  The rest is that the four
bytes of a size are read back as that size (`U32BytesRead`).

`NewDistanceAfterMatch` needs two facts more: a match being emitted is as long as
it can be, and behind it the source differs from what its distance would give
(`Longest`, `Differs`), so the next position cannot match at the same distance.

`ExpansionBounded` is not inductive: it cannot tell a byte that is paid for from one
that is not.  The invariant `Thrift` allows the extra byte (`Slack`) only while
literals wait for the header of a match or stand at the end of the source; a run of
sixteen literals pays for its longer header (`Allowance`), and a match is worth its
own, because the match finder takes none that is not (`IsWorthwhile`).

`BucketsHoldNewest` is proved from `Tables`: every searched position is in the bucket
of its hash, and each bucket is the newest of the positions of its hash; entering
one more position, the next one, keeps both (`NewestIsNewest`, `EnteredTables`).

`BvxnCodecProofs` proves `EncoderDeliversOne` (`Spec => []DeliversOneEncoding`),
`EncoderEncodesAll` (`Spec => []EncodesAllOfIt`) and `EncoderTypes`
(`Spec => []TypeOK`) for any one-shot encoder, any source, caller and buffers.  The
inductive part: once prepared, `encoded` is the encoding of the first `taken` bytes
and `delivered` its first `output_offset` bytes, while `input` keeps growing with
what comes late.

### The containers

`BvxnStreamProofs` proves, for every set of blocks, chunking, buffers, retries and
every compaction threshold,

- `BvxnTypes`: `Spec => []TypeOK`
- `BvxnPumpsOnce`: `Spec => []PayloadPumpedOnce`
- `BvxnDeclaredSize`: `Spec => []DeclaredSize`
- `BvxnUsesRawStream`: `Spec => UsesRawStream`

The last is a refinement: every step of the `BvxnDecoder` is a step of `RawStream`
on the declared payload, or none (`RawUse`).  Pumping is feeding because the
buffer is a window of the block that stands 12 bytes behind the payload's
(`PayloadRun`, `FeedPayloadIsFeed`), and the end is declared exactly when all of
the payload was handed over (`FinishPayloadIsFinishInput`).  From it the
invariant of `RawStreamProofs` holds of the owned decoder (`RawKept`).  What has
to be added to the four is `InStep`: the buffer's length, which phase of a call
presupposes the header, and that the owned decoder runs only while this one
waits for it.  An instance of a proof module is a copy of its theory, with its
own names for the same definitions; the lemmas called `Same...` equate that copy
with the instance the model owns.

With the whole theory of `RawStreamProofs` it compares this decoder with the
one-shot decoder's notion of a good block (`OneShotAccepts`), for every caller:

- `BvxnFinishedAgrees`: `Spec => []FinishedAgrees`
- `BvxnRefusesOnlyLatePadding`: `Spec => []RefusesOnlyLatePadding`

`EndInv` is what this adds to `IInv` and to the `SInv` of the owned decoder: the
decoder takes up its `RawDecoder` only with an empty buffer, it finishes only
when that one did and nothing behind its marker was refused, every byte fed after
that counts as trailing, and an error of a block that the one-shot decoder accepts
is about such bytes.  The last part is the hard one: each way a call can
end with an error is shown to be one of a block that is refused anyway - it is cut
(`Unparsed`), followed by more, its payload is broken (`RawErrorRefused`) or of
another size than declared (`WrongSizeRefused`).

`BvxnCodecProofs` proves of `bvxn::decode` and `decode_into`, for every block, every
buffer and none,

- `BlockDecoderTypes`: `DecodeSpec => []DecodeTypeOK`
- `BlockDecoderAccepts`: `DecodeSpec => []AcceptsWholeBlocks`

by `DecodeInv`: only what `split_block` lets through is decoded, the raw decoder
has the payload and the room that the caller or the header gives, and agrees with the
reference (`P!RInv`).  The interesting return is a lack of room: `decode` makes room
for the declared size only, so it means that the payload is longer than declared or
broken (`ReturnedAgrees`).  Both ends together give

- `ContainerRoundTrip`: `Spec /\ DecodeSpec => []Restores`

for every one-shot encoder that makes blocks of its sources (`EncodesBlocks`, which is
what `EncoderBlock` proves of the one in `RawEncode`): what was drained from a
`BvxnEncoder`, decoded with room for it, is the source.

`DecmpfsDecodeProofs` proves, for every wrapper, buffer, chunk size and limit,

- `DecmpfsTypes`: `Spec => []TypeOK`
- `DecmpfsWritesItsOwnPart`: `Spec => []WritesItsOwnPart`
- `DecmpfsAccepts`: `Spec => []AcceptsWholeWrappers`
- `DecmpfsWrites`: `Spec => []WritesContent`
- `DecmpfsFailsAtFirstFault`: `Spec => []FailsAtFirstFault`

with the theory of `RawDecodeProofs` used in the same way.  The first two say that a
raw decoder never writes more than the capacity it is given, and that this
capacity is what the declared size leaves for the block.  The other three
have an invariant of their own, `WInv`: the blocks in front of
`block_index` are whole, `dst` is what they decode to, `previous_offset` is where
the last one ended, and while a block is decoded its raw decoder is one that agrees
with the reference of that block (`P!RInv`).  Every return is then compared with the
definition of a whole wrapper: an error means that the header, the table, an offset
or the block at hand breaks it (`NoWrapper`, `BadBlock`), Ok that nothing does
(`InlineWrapper`, `ForkWrapper`).  The fifth compares every error with the block, the
offset or the rest of the fork it is about, and the error of a block with its
reference verdict (`RawError`).

`DecmpfsEncodeProofs` proves the other direction, for every source whose length
64 bits hold, every chunk size, xattr limit and offset limit,

- `DecmpfsEncodeTypes`: `RoundTripSpec => []TypeOK`
- `DecmpfsHoldsSource`: `RoundTripSpec => []HoldsSource`
- `DecmpfsOverhead`: `RoundTripSpec => []BoundedOverhead`

with the theory of `RawEncodeProofs`: while a raw encoder runs, on the source or on a
chunk, its invariant holds, and in the end what it emitted is whole, decodes to what
it was given (`EncodedState`), and the better of it and the stored form does too
and is at most one byte longer.  Between two blocks the invariant is `Laid`: the
blocks so far, joined, are what the fork will be behind its table; the entries of the
table are where each begins and ends in it (`IsCut`); and the k-th holds the k-th
part of the source, where the parts joined are a prefix of the source (`ArePrefix`).
`LaidNext` adds a block to it, `LaidWhole` concludes, when there is a block for every
chunk, that the fork with its table in front is one that the decoder's definition of
a whole wrapper accepts: the entries are read back from the bytes of the table, and
the blocks are cut out of the fork.

### Only model-checked

Liveness (`Returns`, `DriverTerminates`, `Terminates`), which TLAPS does not do.
Every invariant and every refinement that a passing run checks is a theorem.

## Not modelled, and what is left

Every part of the crate that keeps state or computes something is modelled.
What could be added is one composition of `RawEncode`, `DrainEncoder` and
`RawStream`, as `ContainerRoundTrip` composes the two ends of the container.  Its
pieces are proved: what is emitted decodes to the source (`EncoderRoundTrip`), the
encoding is handed out unchanged (`EncoderDeliversOne`), and the incremental decoder
gives the reference's output (`StreamAgrees`).

Left out for good: error wording and `Display`, re-exports, benchmarks and fuzz
targets (no behaviour of their own), an allocator that runs out.
