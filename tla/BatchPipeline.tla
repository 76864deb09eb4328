---------------------------- MODULE BatchPipeline ----------------------------
(***************************************************************************)
(* The encoder behind the BatchPipeline trait                              *)
(* (crates/batcher/encoder/src/pipeline.rs), called by a client that obeys *)
(* the trait and no more: methods in any order, each submission settled at *)
(* most once, nothing after a fatal error.                                 *)
(*                                                                         *)
(* in_flight holds the submissions the client has not settled, each with   *)
(* the artifacts it carries; confirmed_at remembers the L1 block at which  *)
(* each retained artifact was confirmed.  The encoder reads neither.       *)
(***************************************************************************)
EXTENDS EncoderInvariants

CONSTANTS
    MaxL1,          \* highest L1 block
    MaxSubmissions, \* submissions issued
    MaxChannels,    \* channels opened
    MaxBuffered,    \* blocks buffered at once
    Faults          \* compressor faults that may happen, "none" included

ASSUME BoundAssumption ==
    /\ {MaxL1, MaxSubmissions, MaxChannels, MaxBuffered} \subseteq Nat
    /\ "none" \in Faults
    /\ Faults \subseteq {"none", "append", "finish"}

VARIABLES encoder, in_flight, confirmed_at, halted

vars == <<encoder, in_flight, confirmed_at, halted>>

Init ==
    /\ encoder = NewEncoder
    /\ in_flight = {}
    /\ confirmed_at = <<>>
    /\ halted = FALSE

(* The encoder moves to e, and confirmed_at forgets what e no longer retains. *)
Becomes(e) ==
    /\ encoder' = e
    /\ confirmed_at' = Restrict(confirmed_at, DOMAIN confirmed_at \cap DOMAIN e.egress.artifacts)

(* Genesis is never delivered: a source starts above a safe head. *)
DoAddBlock ==
    \E b \in {b \in Block : Parent[b] # None} :
        /\ Len(encoder.blocks) < MaxBuffered
        /\ ~ParentMismatch(encoder, b)
        /\ Becomes(AddBlock(encoder, b))
        /\ UNCHANGED <<in_flight, halted>>

DoStep ==
    \E emitted \in Emissions(encoder), fault \in Faults :
        LET outcome == Step(encoder, emitted, fault)
        IN  /\ encoder.next_channel < MaxChannels \/ TailOpen(encoder)
            /\ Becomes(outcome.encoder)
            /\ halted' = (outcome.result = "Err")
            /\ UNCHANGED in_flight

DoNextSubmission ==
    /\ encoder.next_id < MaxSubmissions
    /\ Becomes(NextSubmission(encoder))
    /\ in_flight' = in_flight \cup
           {[id |-> id, artifacts |-> encoder'.egress.pending[id]] :
               id \in encoder.next_id..(encoder'.next_id - 1)}
    /\ UNCHANGED halted

DoConfirm ==
    \E tx \in in_flight, l1 \in 0..MaxL1 :
        LET newly == InState(encoder'.egress, "Confirmed") \ InState(encoder.egress, "Confirmed")
        IN  /\ encoder' = Confirm(encoder, tx.id, l1)
            /\ confirmed_at' = [a \in DOMAIN confirmed_at \cup newly |->
                                    IF a \in newly THEN l1 ELSE confirmed_at[a]]
            /\ in_flight' = in_flight \ {tx}
            /\ UNCHANGED halted

DoRequeue ==
    \E tx \in in_flight :
        /\ Becomes(Requeue(encoder, tx.id))
        /\ in_flight' = in_flight \ {tx}
        /\ UNCHANGED halted

DoAdvanceL1Head ==
    \E l1 \in 0..MaxL1, fault \in Faults :
        /\ Becomes(AdvanceL1Head(encoder, l1, fault # "finish"))
        /\ UNCHANGED <<in_flight, halted>>

DoFlush ==
    \E fault \in Faults :
        /\ Becomes(Flush(encoder, fault # "finish"))
        /\ halted' = FlushFails(encoder, fault # "finish")
        /\ UNCHANGED in_flight

DoReset ==
    /\ Becomes(Reset(encoder))
    /\ UNCHANGED <<in_flight, halted>>

DoReconcileDerivation ==
    \E safe \in Block :
        /\ Becomes(ReconcileDerivation(encoder, safe))
        /\ UNCHANGED <<in_flight, halted>>

DoSetBlobOverride ==
    \E active \in BOOLEAN :
        /\ Becomes(SetBlobOverride(encoder, active))
        /\ UNCHANGED <<in_flight, halted>>

Next ==
    /\ ~halted
    /\ \/ DoAddBlock
       \/ DoStep
       \/ DoNextSubmission
       \/ DoConfirm
       \/ DoRequeue
       \/ DoAdvanceL1Head
       \/ DoFlush
       \/ DoReset
       \/ DoReconcileDerivation
       \/ DoSetBlobOverride

Spec == Init /\ [][Next]_vars

-----------------------------------------------------------------------------
(* The types of the encoder's fields (struct BatchEncoder) and of the client's. *)
TypeOK ==
    /\ EncoderTypeOK(encoder)
    /\ \A tx \in in_flight : tx.id \in Nat /\ tx.artifacts \subseteq Nat
    /\ DOMAIN confirmed_at = InState(encoder.egress, "Confirmed")
    /\ halted \in BOOLEAN

(* block_cursor and the block ranges survive closes, replays and prunes: no block twice or never. *)
BlocksTiled == Tiling(encoder) /\ OnlyTailOpen(encoder)

(* Between calls no channel is empty, so a step that finds the tail timed out does close it. *)
NoEmptyChannel == ~halted => \A i \in DOMAIN encoder.channels : encoder.channels[i].blocks_added > 0

(* add_block's parent check, reset's and prune_safe's tip keep the buffer one chain. *)
BlocksLinked == ChainLinked(encoder)

(* What a channel compressed is what its block range says, also after prune_safe cut the range. *)
StreamsMatch == StreamMatchesRange(encoder)

(* The ledger's Pending states and the egress's leases tell the same story. *)
LeasesMatch == LeasesExact(encoder.egress)

(* prune_channels and invalidate leave no artifact of a channel the encoder dropped. *)
ArtifactsLive == ChannelIdsLive(encoder)

(* Planning and committing frames neither loses, repeats nor misnumbers a frame. *)
FramesCovered == FramesExact(encoder)

(* Frames reach the ledger in the order derivation needs them. *)
FramesOrdered == StreamOrder(encoder.egress)

(* plan_blob and plan_calldata respect the payload limits. *)
BlobsFit == ArtifactsFit(encoder.egress)

(***************************************************************************)
(* A channel that lost the end of its stream to a failed compressor is not *)
(* passed over in silence: the client was told, or the next step tells it  *)
(* (defer_step_error).                                                     *)
(***************************************************************************)
LostTailReported ==
    \A i \in DOMAIN encoder.channels :
        LET c == encoder.channels[i]
        IN  ~c.open /\ c.compressed_bytes < InputBytes(c)
               => halted \/ encoder.deferred_step_error

(***************************************************************************)
(* The inclusion window of a channel is exactly the span of L1 blocks at   *)
(* which its retained artifacts were confirmed, whatever the order of the  *)
(* receipts (record_confirmation).                                         *)
(***************************************************************************)
WindowsExact ==
    \A i \in DOMAIN encoder.channels :
        LET c == encoder.channels[i]
            blocks == {confirmed_at[a] : a \in {b \in InState(encoder.egress, "Confirmed") :
                           c.id \in encoder.egress.artifacts[b].channel_ids}}
        IN  /\ c.first_confirmed_l1_block = IF blocks = {} THEN None ELSE Min(blocks)
            /\ c.last_confirmed_l1_block = IF blocks = {} THEN None ELSE Max(blocks)

(***************************************************************************)
(* The encoder's bookkeeping agrees with itself after any mix of encode,   *)
(* close, submit, settle, prune, replay and reset: the block ranges tile   *)
(* the encoded prefix, no channel is empty, and an artifact is pending     *)
(* exactly while one submission leases it.                                 *)
(***************************************************************************)
BooksExact == BlocksTiled /\ NoEmptyChannel /\ LeasesMatch

(***************************************************************************)
(* What a channel says of itself is what happened: its stream holds the    *)
(* blocks of one chain that its range names (add_batch, prune_safe), and   *)
(* its window is the span of its receipts (record_confirmation).           *)
(***************************************************************************)
ChannelsExact == TypeOK /\ BlocksLinked /\ StreamsMatch /\ WindowsExact

(***************************************************************************)
(* A reader of the artifacts in their order gets every frame of a retained *)
(* channel once, in sequence, within the payload limits and with one       *)
(* terminal frame at the end, and no artifact of a dropped channel is kept *)
(* (plan, commit, prune_channels, invalidate).                             *)
(***************************************************************************)
FramesDelivered == FramesCovered /\ FramesOrdered /\ BlobsFit /\ ArtifactsLive

Retained == DOMAIN encoder.egress.artifacts \cap DOMAIN encoder'.egress.artifacts

(***************************************************************************)
(* An artifact never changes its payload, a confirmed one stays confirmed, *)
(* and settling a transaction moves only artifacts that transaction        *)
(* carries, also for a receipt that arrives after a reset or a replay.     *)
(***************************************************************************)
SettledOnlyByCarrier ==
    [][\A a \in Retained :
        LET old == encoder.egress.artifacts[a]
            new == encoder'.egress.artifacts[a]
        IN  /\ new.frames = old.frames /\ new.blob = old.blob
            /\ old.state = "Confirmed" => new.state = "Confirmed"
            /\ old.state = "Pending" /\ new.state # "Pending" =>
                  \E tx \in in_flight \ in_flight' : a \in tx.artifacts]_vars

(***************************************************************************)
(* Artifacts are sent in stream order: what next_submission leases is      *)
(* older than everything it leaves ready, so a requeued frame goes first.  *)
(***************************************************************************)
OldestFirst ==
    [][\A tx \in in_flight' \ in_flight :
        \A a \in tx.artifacts, b \in InState(encoder'.egress, "Ready") : a < b]_vars

-----------------------------------------------------------------------------
(* The ledger the encoder keeps, as its clients see it. *)
Ledger == INSTANCE DaLedger WITH
    state <- [a \in DOMAIN encoder.egress.artifacts |-> encoder.egress.artifacts[a].state],
    lease <- encoder.egress.pending,
    fresh <- encoder.egress.next_artifact,
    issued <- encoder.next_id

(***************************************************************************)
(* The encoder implements DaLedger: whatever is encoded, framed, replayed, *)
(* pruned or reset, artifacts only ever move as the ledger allows.         *)
(***************************************************************************)
ImplementsLedger == Ledger!Spec
=============================================================================
