------------------------------- MODULE Channel -------------------------------
(***************************************************************************)
(* One derivation channel of the batcher's encoder                         *)
(* (crates/batcher/encoder/src/channel.rs) and the encoder configuration   *)
(* (config.rs).  A channel is a record; each method is an operator from a  *)
(* channel to the channel it leaves behind.                                *)
(*                                                                         *)
(* A block is its own hash.  Bytes are counted in abstract units, and the  *)
(* compressor is the part of the accepted input not yet emitted: append    *)
(* emits any amount of it, finish emits the rest.                          *)
(***************************************************************************)
EXTENDS SequenceOps, FiniteSets

CONSTANTS
    Block,           \* L2 blocks, the anchors of safe heads included
    Number,          \* Number[b]: height of block b
    Parent,          \* Parent[b]: the block whose hash is b's parent hash
    Size,            \* Size[b]: units the batch of b adds to a channel
    Uncomposable,    \* blocks that block_to_single_batch rejects
    None,            \* an absent hash or L1 block
    ChannelDuration, \* max_channel_duration - sub_safety_margin
    ChannelTimeout,  \* confirmation_channel_timeout of the rollup config
    MaxChannelInput, \* input units the hard channel limits allow
    SizeTarget,      \* compressed_size_target, or None
    MaxFrameData,    \* data units of a full frame
    Overhead,        \* units of frame metadata, Frame::ENCODED_OVERHEAD
    BlobCapacity,    \* frame units of one blob, DaEgress::BLOB_CAPACITY
    MaxBlobsPerTx,   \* max_blobs_per_tx, at most MAX_BLOBS_PER_TX
    ConfiguredDaType \* "Blob" or "Calldata"

(***************************************************************************)
(* What EncoderConfig::validate and the block type guarantee.              *)
(***************************************************************************)
ASSUME BlockAssumption ==
    /\ Number \in [Block -> Nat]
    /\ Parent \in [Block -> Block \cup {None}]
    /\ Size \in [Block -> Nat \ {0}]
    /\ Uncomposable \subseteq Block
    /\ None \notin Block
    /\ None \notin Int

ASSUME ConfigAssumption ==
    /\ ChannelDuration \in Nat \ {0}
    /\ ChannelTimeout \in Nat
    /\ MaxChannelInput \in Nat
    /\ SizeTarget \in (Nat \ {0}) \cup {None}
    /\ MaxFrameData \in Nat \ {0}
    /\ Overhead \in Nat
    /\ BlobCapacity \in Nat
    /\ MaxFrameData + Overhead <= BlobCapacity
    /\ MaxBlobsPerTx \in 1..6
    /\ ConfiguredDaType \in {"Blob", "Calldata"}

-----------------------------------------------------------------------------
(***************************************************************************)
(* The batches are what the compressor was fed.  The range of buffered     *)
(* blocks, block_start and blocks_added, shrinks when blocks become safe;  *)
(* the batches do not.                                                     *)
(*                                                                         *)
(* A definition marked `Mutant' is a bug the code could have had in the    *)
(* definition after it: the properties must tell the two apart.            *)
(***************************************************************************)
Units(bs) == FoldLeft(LAMBDA sum, b : sum + Size[b], 0, bs)

NewChannel(id, start, l1) ==
    [id |-> id, block_start |-> start, blocks_added |-> 0, batches |-> <<>>,
     open |-> TRUE, compressed_bytes |-> 0, available_output |-> 0,
     deadline_l1_block |-> l1 + ChannelDuration,
     next_frame_number |-> 0, terminal_pending |-> FALSE,
     first_confirmed_l1_block |-> None, last_confirmed_l1_block |-> None]

InputBytes(c) == Units(c.batches)

RangeEnd(c) == c.block_start + c.blocks_added

DeadlineDue(c, l1_head) == l1_head >= c.deadline_l1_block

FramingComplete(c) == ~c.open /\ ~c.terminal_pending

(* The three hard limits grow with the input alone: one threshold. *)
Rejects(c, b) == InputBytes(c) + Size[b] > MaxChannelInput

(* add_batch past the limits: the compressor emits `emitted' units. *)
AddBatch(c, b, emitted) ==
    [c EXCEPT !.batches = Append(@, b),
              !.blocks_added = @ + 1,
              !.compressed_bytes = @ + emitted,
              !.available_output = @ + emitted]

TargetReached(c) == SizeTarget # None /\ c.compressed_bytes >= SizeTarget

(* close: a failed finish loses what the compressor held. *)
Close(c, finished) ==
    LET rest == IF finished THEN InputBytes(c) - c.compressed_bytes ELSE 0
    IN  [c EXCEPT !.open = FALSE,
                  !.terminal_pending = TRUE,
                  !.compressed_bytes = @ + rest,
                  !.available_output = @ + rest]

(* Mutant: the terminal frame does not end framing. *)
TakeFramesKeepsTerminal(c, plan) ==
    LET mine == SelectSeq(plan, LAMBDA f : f.channel = c.id)
    IN  [c EXCEPT !.available_output = FoldLeft(LAMBDA n, f : n - f.len, @, mine),
                  !.next_frame_number = @ + Len(mine)]

(* take_frame for every frame of a plan that belongs to c. *)
TakeFrames(c, plan) ==
    LET mine == SelectSeq(plan, LAMBDA f : f.channel = c.id)
    IN  [c EXCEPT !.available_output = FoldLeft(LAMBDA n, f : n - f.len, @, mine),
                  !.next_frame_number = @ + Len(mine),
                  !.terminal_pending = @ /\ \A k \in DOMAIN mine : ~mine[k].is_last]

(* Mutant: the last receipt, not the highest block, ends the window. *)
RecordLatestReceipt(c, l1) ==
    [c EXCEPT !.first_confirmed_l1_block = IF @ = None \/ l1 < @ THEN l1 ELSE @,
              !.last_confirmed_l1_block = l1]

RecordConfirmation(c, l1) ==
    [c EXCEPT !.first_confirmed_l1_block = IF @ = None \/ l1 < @ THEN l1 ELSE @,
              !.last_confirmed_l1_block = IF @ = None \/ l1 > @ THEN l1 ELSE @]

ReleaseAt(c, l1_head) ==
    [c EXCEPT !.deadline_l1_block = IF l1_head < @ THEN l1_head ELSE @]

Monus(a, b) == IF a < b THEN 0 ELSE a - b

(* Mutant: a partly safe channel keeps the length of its range. *)
RebaseStartOnly(c, count) == [c EXCEPT !.block_start = Monus(@, count)]

RebaseAfterPrune(c, count) ==
    [c EXCEPT !.block_start = Monus(@, count),
              !.blocks_added = Monus(Monus(RangeEnd(c), count),
                                     Monus(c.block_start, count))]
=============================================================================
