------------------------- MODULE EncoderInvariants -------------------------
(***************************************************************************)
(* What is true of an encoder between two calls of its methods, whatever   *)
(* the calls: predicates of an encoder record e, used by the               *)
(* specifications that hold one and by the proofs.                         *)
(***************************************************************************)
EXTENDS BatchEncoder

OptionalL1 == Nat \cup {None}

ChannelType ==
    [id : Nat, block_start : Nat, blocks_added : Nat, batches : Seq(Block), open : BOOLEAN,
     compressed_bytes : Nat, available_output : Nat, deadline_l1_block : Nat,
     next_frame_number : Nat, terminal_pending : BOOLEAN,
     first_confirmed_l1_block : OptionalL1, last_confirmed_l1_block : OptionalL1]

FrameType == [channel : Nat, number : Nat, len : Nat, is_last : BOOLEAN]

ArtifactType ==
    [blob : BOOLEAN, frames : Seq(FrameType), channel_ids : SUBSET Nat,
     state : {"Ready", "Pending", "Confirmed"}]

EgressTypeOK(g) ==
    /\ DOMAIN g.artifacts \subseteq 0..(g.next_artifact - 1)
    /\ \A a \in DOMAIN g.artifacts : g.artifacts[a] \in ArtifactType
    /\ g.next_artifact \in Nat
    /\ \A id \in DOMAIN g.pending : g.pending[id] \subseteq 0..(g.next_artifact - 1)

EncoderTypeOK(e) ==
    /\ e.l1_head \in Nat
    /\ e.blocks \in Seq(Block)
    /\ e.block_cursor \in 0..Len(e.blocks)
    /\ e.tip \in Block \cup {None}
    /\ e.channels \in Seq(ChannelType)
    /\ \A i \in DOMAIN e.channels : e.channels[i].id \in 0..(e.next_channel - 1)
    /\ EgressTypeOK(e.egress)
    /\ DOMAIN e.egress.pending \subseteq 0..(e.next_id - 1)
    /\ e.blob_override \in BOOLEAN
    /\ e.deferred_step_error \in BOOLEAN

(***************************************************************************)
(* The buffered blocks are one chain that ends at the tip.                 *)
(***************************************************************************)
ChainLinked(e) ==
    /\ \A i \in 1..(Len(e.blocks) - 1) : Parent[e.blocks[i + 1]] = e.blocks[i]
    /\ e.blocks # <<>> => e.tip = Last(e.blocks)

(***************************************************************************)
(* The channels tile the encoded prefix of the buffer: the first starts at *)
(* its start, each starts where the one before ends, the last ends at the  *)
(* cursor.  No buffered block is encoded twice or skipped.                 *)
(***************************************************************************)
Tiling(e) ==
    LET n == Len(e.channels)
    IN  /\ e.block_cursor <= Len(e.blocks)
        /\ n = 0 => e.block_cursor = 0
        /\ n > 0 => e.channels[1].block_start = 0
        /\ \A i \in 1..(n - 1) : RangeEnd(e.channels[i]) = e.channels[i + 1].block_start
        /\ n > 0 => RangeEnd(e.channels[n]) = e.block_cursor

(* Only the tail of the channel FIFO accepts batches. *)
OnlyTailOpen(e) == \A i \in 1..(Len(e.channels) - 1) : ~e.channels[i].open

(***************************************************************************)
(* A channel still carries, as the end of its stream, exactly the buffered *)
(* blocks its range names.                                                 *)
(***************************************************************************)
StreamMatchesRange(e) ==
    \A i \in DOMAIN e.channels :
        LET c == e.channels[i]
        IN  IsSuffix(SubSeq(e.blocks, c.block_start + 1, RangeEnd(c)), c.batches)

(***************************************************************************)
(* An artifact is Pending exactly while one in-flight submission leases it *)
(* and no submission leases nothing: no lease is lost, none is shared.     *)
(***************************************************************************)
LeasesExact(g) ==
    /\ \A id \in DOMAIN g.pending : g.pending[id] # {} /\ AllPending(g, g.pending[id])
    /\ \A id1, id2 \in DOMAIN g.pending : id1 # id2 => g.pending[id1] \cap g.pending[id2] = {}
    /\ \A a \in InState(g, "Pending") : \E id \in DOMAIN g.pending : a \in g.pending[id]

(* An artifact lists exactly the retained channels its frames belong to, and there is one. *)
ChannelIdsLive(e) ==
    LET live == {e.channels[i].id : i \in DOMAIN e.channels}
    IN  \A a \in DOMAIN e.egress.artifacts :
            LET art == e.egress.artifacts[a]
            IN  /\ art.channel_ids # {}
                /\ art.channel_ids = {art.frames[k].channel : k \in DOMAIN art.frames} \cap live

(* The frames of channel id that retained artifacts carry, with their places. *)
FramePlaces(g, id) ==
    {p \in UNION {{a} \X DOMAIN g.artifacts[a].frames : a \in DOMAIN g.artifacts} :
        g.artifacts[p[1]].frames[p[2]].channel = id}

(***************************************************************************)
(* Every frame cut from a retained channel is in exactly one retained      *)
(* artifact, the frames are numbered without a gap, they carry all the     *)
(* output taken from the channel, and the last one and only it is terminal *)
(* once framing is complete.                                               *)
(***************************************************************************)
FramesExact(e) ==
    \A i \in DOMAIN e.channels :
        LET c == e.channels[i]
            places == FramePlaces(e.egress, c.id)
            frame(p) == e.egress.artifacts[p[1]].frames[p[2]]
        IN  /\ {frame(p).number : p \in places} = 0..(c.next_frame_number - 1)
            /\ Cardinality(places) = c.next_frame_number
            /\ MapThenSumSet(LAMBDA p : frame(p).len, places)
                  = c.compressed_bytes - c.available_output
            /\ FramingComplete(c) => c.available_output = 0
            /\ \A p \in places : frame(p).is_last
                  <=> FramingComplete(c) /\ frame(p).number = c.next_frame_number - 1

(* Older artifacts carry older frames: creation order is stream order. *)
StreamOrder(g) ==
    \A a, b \in DOMAIN g.artifacts : a < b =>
        \A j \in DOMAIN g.artifacts[a].frames, k \in DOMAIN g.artifacts[b].frames :
            LET f == g.artifacts[a].frames[j]
                h == g.artifacts[b].frames[k]
            IN  f.channel < h.channel \/ (f.channel = h.channel /\ f.number < h.number)

(* A blob stays within its capacity; calldata carries one frame. *)
ArtifactsFit(g) ==
    \A a \in DOMAIN g.artifacts :
        LET frames == g.artifacts[a].frames
        IN  IF g.artifacts[a].blob
            THEN FoldLeft(LAMBDA n, f : n + Overhead + f.len, 0, frames) <= BlobCapacity
            ELSE Len(frames) = 1 /\ frames[1].len <= MaxFrameData
=============================================================================
