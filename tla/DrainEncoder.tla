---------------------------- MODULE DrainEncoder ----------------------------
(***************************************************************************)
(* The incremental encoders, RawEncoder and BvxnEncoder, and their caller. *)
(* They are the same machine around two one-shot encoders: it collects the *)
(* source, encodes all of it in the first call of encode_into that follows *)
(* finish_input, and then hands out the encoding in buffers of any size.   *)
(* raw::encode never fails; bvxn::encode refuses what is too long.         *)
(***************************************************************************)
EXTENDS Integers, Sequences

CONSTANTS
  Sources,      (* what a caller may have to encode                        *)
  BufferSizes,  (* the sizes of the buffers it may offer                   *)
  EncodeOf(_),  (* the one-shot encoder                                    *)
  SizeOverflow  (* what it gives for a source that is too long             *)

ASSUME DrainEncoderAssumption ==
  /\ Sources \subseteq Seq(0..255)
  /\ \A s \in Sources : \A n \in 0..Len(s) :
       EncodeOf(SubSeq(s, 1, n)) \in Seq(0..255) \cup {SizeOverflow}
  /\ SizeOverflow \notin Seq(0..255)
  /\ BufferSizes \subseteq Nat

VARIABLES
  src,             (* what the caller has to encode                        *)
  feeds_late,      (* whether it may feed after finish_input               *)
  fed,             (* bytes of it fed                                      *)
  input,           (* the bytes collected                                  *)
  encoded,         (* the encoding, once prepared                          *)
  output_offset,   (* bytes of it handed out                               *)
  finished_input,  (* the caller declared the source complete              *)
  prepared,        (* encoded is valid                                     *)
  result,          (* what the last call of encode_into returned           *)
  delivered,       (* history: the bytes the caller was handed             *)
  taken            (* history: bytes fed when the encoding was prepared    *)

vars == <<src, feeds_late, fed, input, encoded, output_offset,
          finished_input, prepared, result, delivered, taken>>

Init ==
  /\ src \in Sources
  /\ feeds_late \in BOOLEAN
  /\ fed = 0
  /\ input = << >>
  /\ encoded = << >>
  /\ output_offset = 0
  /\ finished_input = FALSE
  /\ prepared = FALSE
  /\ result = "none"
  /\ delivered = << >>
  /\ taken = 0
-----------------------------------------------------------------------------
(* Nothing stops a caller from feeding at any time. *)
Feed(n) ==
  /\ finished_input => feeds_late
  /\ input' = input \o SubSeq(src, fed + 1, fed + n)
  /\ fed' = fed + n
  /\ UNCHANGED <<src, feeds_late, encoded, output_offset, finished_input,
                 prepared, result, delivered, taken>>

FinishInput ==
  /\ fed = Len(src) \/ feeds_late
  /\ finished_input' = TRUE
  /\ UNCHANGED <<src, feeds_late, fed, input, encoded, output_offset,
                 prepared, result, delivered, taken>>

NeedInput ==
  /\ ~prepared
  /\ ~finished_input
  /\ result' = "NeedInput"
  /\ UNCHANGED <<src, feeds_late, fed, input, encoded, output_offset,
                 finished_input, prepared, delivered, taken>>

Refuse ==
  /\ ~prepared
  /\ finished_input
  /\ EncodeOf(input) = SizeOverflow
  /\ result' = "SizeOverflow"
  /\ UNCHANGED <<src, feeds_late, fed, input, encoded, output_offset,
                 finished_input, prepared, delivered, taken>>

(* A bug to plant: the offset moves by the size of the buffer. *)
BuggyDrain(bytes, dst_len) ==
  LET remaining == Len(bytes) - output_offset
      written   == IF remaining <= dst_len THEN remaining ELSE dst_len
  IN  /\ delivered' = delivered
                        \o SubSeq(bytes, output_offset + 1,
                                  output_offset + written)
      /\ output_offset' = output_offset + dst_len
      /\ result' = IF output_offset' = Len(bytes)
                     THEN "Finished" ELSE "NeedOutput"
      /\ UNCHANGED <<src, feeds_late, fed, input, finished_input>>

(* Hand out the next bytes of an encoding, as many as fit. *)
Drain(bytes, dst_len) ==
  LET remaining == Len(bytes) - output_offset
      written   == IF remaining <= dst_len THEN remaining ELSE dst_len
  IN  /\ delivered' = delivered
                        \o SubSeq(bytes, output_offset + 1,
                                  output_offset + written)
      /\ output_offset' = output_offset + written
      /\ result' = IF output_offset' = Len(bytes)
                     THEN "Finished" ELSE "NeedOutput"
      /\ UNCHANGED <<src, feeds_late, fed, input, finished_input>>

(* A bug to plant: what there is so far is encoded. *)
BuggyPrepareAndDrain(dst_len) ==
  /\ ~prepared
  /\ EncodeOf(input) # SizeOverflow
  /\ encoded' = EncodeOf(input)
  /\ prepared' = TRUE
  /\ taken' = fed
  /\ Drain(EncodeOf(input), dst_len)

PrepareAndDrain(dst_len) ==
  /\ ~prepared
  /\ finished_input
  /\ EncodeOf(input) # SizeOverflow
  /\ encoded' = EncodeOf(input)
  /\ prepared' = TRUE
  /\ taken' = fed
  /\ Drain(EncodeOf(input), dst_len)

(* A bug to plant: what was fed meanwhile is encoded after all. *)
BuggyDrainPrepared(dst_len) ==
  /\ prepared
  /\ encoded' = EncodeOf(input)
  /\ Drain(EncodeOf(input), dst_len)
  /\ UNCHANGED <<prepared, taken>>

(* A bug to plant: a full buffer hides that this was the end. *)
StuckDrainPrepared(dst_len) ==
  /\ prepared
  /\ output_offset + dst_len < Len(encoded)
  /\ Drain(encoded, dst_len)
  /\ UNCHANGED <<encoded, prepared, taken>>

DrainPrepared(dst_len) ==
  /\ prepared
  /\ Drain(encoded, dst_len)
  /\ UNCHANGED <<encoded, prepared, taken>>

EncodeInto(dst_len) ==
  \/ NeedInput
  \/ Refuse
  \/ PrepareAndDrain(dst_len)
  \/ DrainPrepared(dst_len)

Supply ==
  \/ \E n \in 1..(Len(src) - fed) : Feed(n)
  \/ FinishInput

Next ==
  \/ \E n \in 1..(Len(src) - fed) : Feed(n)
  \/ FinishInput
  \/ NeedInput
  \/ Refuse
  \/ \E dst_len \in BufferSizes : PrepareAndDrain(dst_len)
  \/ \E dst_len \in BufferSizes : DrainPrepared(dst_len)

Spec == Init /\ [][Next]_vars

(* The driver of tests/stream.rs: it supplies all of the source, declares  *)
(* it complete, and calls again and again, not always with empty buffers.  *)
FairSpec ==
  /\ Spec
  /\ WF_vars(Supply)
  /\ WF_vars(\E dst_len \in BufferSizes \ {0} : EncodeInto(dst_len))
-----------------------------------------------------------------------------
(* Every variable has its type. *)
TypeOK ==
  /\ src \in Sources
  /\ feeds_late \in BOOLEAN
  /\ fed \in 0..Len(src)
  /\ input \in Seq(0..255)
  /\ encoded \in Seq(0..255)
  /\ output_offset \in 0..Len(encoded)
  /\ finished_input \in BOOLEAN
  /\ prepared \in BOOLEAN
  /\ result \in {"none", "NeedInput", "SizeOverflow", "NeedOutput",
                 "Finished"}
  /\ delivered \in Seq(0..255)
  /\ taken \in 0..fed

(* All a caller is ever handed are the first bytes of one encoding: that   *)
(* of what it had fed by the first call after finish_input.  Bytes that    *)
(* come later are collected and never encoded, and never disturb what is   *)
(* being handed out (raw/stream.rs 400-439, bvxn.rs 127-166).              *)
DeliversOneEncoding ==
  /\ prepared =>
       delivered = SubSeq(EncodeOf(SubSeq(src, 1, taken)), 1, Len(delivered))
  /\ ~prepared => delivered = << >>
  /\ result = "Finished" =>
       delivered = EncodeOf(SubSeq(src, 1, taken))

(* A caller that keeps to the contract, feeding nothing after              *)
(* finish_input, gets the encoding of all of its source.                   *)
EncodesAllOfIt ==
  ~feeds_late /\ result = "Finished" => delivered = EncodeOf(src)

(* A caller comes to the end, or learns that its source is too long: what  *)
(* it feeds late does not hold it up.                                      *)
Terminates == <>(result \in {"Finished", "SizeOverflow"})
=============================================================================
