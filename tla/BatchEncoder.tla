---------------------------- MODULE BatchEncoder ----------------------------
(***************************************************************************)
(* The batcher's encoder (crates/batcher/encoder/src/encoder.rs): L2       *)
(* blocks in, L1 submissions out.  The encoder is synchronous, so every    *)
(* method of the BatchPipeline trait is an operator from an encoder record *)
(* to the record the method leaves behind.  BatchPipeline and BatchDriver  *)
(* hold one such record in a variable and call these operators.            *)
(*                                                                         *)
(* Random channel identifiers are drawn from a counter: they are fresh.    *)
(***************************************************************************)
EXTENDS DaEgress

NewEncoder ==
    [l1_head |-> 0, blocks |-> <<>>, block_cursor |-> 0, tip |-> None,
     channels |-> <<>>, next_channel |-> 0, egress |-> NewEgress, next_id |-> 0,
     blob_override |-> FALSE, deferred_step_error |-> FALSE]

-----------------------------------------------------------------------------
(* Closing channels.  `finished' says whether the compressor's finish succeeds. *)

TailOpen(e) == e.channels # <<>> /\ Last(e.channels).open

(* close_current_channel has something to close. *)
Closable(e) == TailOpen(e) /\ Last(e.channels).blocks_added > 0

CloseCurrentChannel(e, finished) ==
    IF Closable(e)
    THEN [e EXCEPT !.channels[Len(e.channels)] = Close(@, finished)]
    ELSE e

CloseFails(e, finished) == Closable(e) /\ ~finished

TimeoutDue(e) == TailOpen(e) /\ DeadlineDue(Last(e.channels), e.l1_head)

OpenNewChannel(e) ==
    [e EXCEPT !.channels = Append(@, NewChannel(e.next_channel, e.block_cursor, e.l1_head)),
              !.next_channel = @ + 1]

-----------------------------------------------------------------------------
(* Replay of channels whose confirmation window expired. *)

(* Mutant: the artifacts of one transaction are replayed apart. *)
ReplayClosedByBlob(e, r) ==
    LET replayed == {e.channels[i].id : i \in r..Len(e.channels)}
    IN  \A a \in DOMAIN e.egress.artifacts :
            e.egress.artifacts[a].channel_ids \cap replayed # {} =>
                e.egress.artifacts[a].channel_ids \subseteq replayed

(***************************************************************************)
(* Replaying every channel from position r on is closed when no artifact   *)
(* of these channels, and no artifact leased together with one, carries a  *)
(* channel before r.                                                       *)
(***************************************************************************)
ReplayClosed(e, r) ==
    LET replayed == {e.channels[i].id : i \in r..Len(e.channels)}
        touched == {a \in DOMAIN e.egress.artifacts :
                        e.egress.artifacts[a].channel_ids \cap replayed # {}}
        joined == touched \cup UNION {e.egress.pending[id] : id \in
                      {i \in DOMAIN e.egress.pending : e.egress.pending[i] \cap touched # {}}}
    IN  \A a \in joined : e.egress.artifacts[a].channel_ids \subseteq replayed

(* The artifacts invalidate_channel drops when it replays from position r. *)
ReplayedArtifacts(e, r) ==
    {a \in DOMAIN e.egress.artifacts :
        \E i \in r..Len(e.channels) : e.channels[i].id \in e.egress.artifacts[a].channel_ids}

InvalidateChannel(e, idx) ==
    LET r == Max({i \in 1..idx : ReplayClosed(e, i)})
    IN  [e EXCEPT !.egress = InvalidateArtifacts(@, ReplayedArtifacts(e, r)),
                  !.channels = SubSeq(@, 1, r - 1),
                  !.block_cursor = Min({@, e.channels[r].block_start})]

Expired(e, c) ==
    /\ c.first_confirmed_l1_block # None
    /\ \/ c.last_confirmed_l1_block - c.first_confirmed_l1_block > ChannelTimeout
       \/ /\ ~ChannelFullyConfirmed(e.egress, c)
          /\ e.l1_head > c.first_confirmed_l1_block + ChannelTimeout

InvalidateExpiredChannels(e) ==
    LET expired == {i \in DOMAIN e.channels : Expired(e, e.channels[i])}
    IN  IF expired = {} THEN e ELSE InvalidateChannel(e, Min(expired))

-----------------------------------------------------------------------------
(* Pruning and derivation. *)

(* How many buffered blocks are at or below the safe head, possibly not a valid count. *)
PruneCount(e, safe) == Number[safe] + 1 - Number[Head(e.blocks)]

SafeHeadMatches(e, safe) ==
    \/ e.blocks = <<>>
    \/ PruneCount(e, safe) = 0 /\ Parent[Head(e.blocks)] = safe
    \/ PruneCount(e, safe) \in DOMAIN e.blocks /\ e.blocks[PruneCount(e, safe)] = safe

(* Mutant: a channel that ends with the safe head is kept. *)
CoveredStrictly(e, count) ==
    Max({k \in 0..Len(e.channels) : \A j \in 1..k : RangeEnd(e.channels[j]) < count})

(* How many channels, from the front, have all their blocks among the first `count'. *)
Covered(e, count) ==
    Max({k \in 0..Len(e.channels) : \A j \in 1..k : RangeEnd(e.channels[j]) <= count})

PruneBlocks(e, safe, count) ==
    LET covered == Covered(e, count)
        kept == SubSeq(e.channels, covered + 1, Len(e.channels))
        blocks == SubSeq(e.blocks, count + 1, Len(e.blocks))
    IN  [e EXCEPT !.channels = [i \in DOMAIN kept |-> RebaseAfterPrune(kept[i], count)],
                  !.egress = PruneChannels(@, {e.channels[i].id : i \in 1..covered}),
                  !.blocks = blocks,
                  !.block_cursor = Monus(@, count),
                  !.tip = IF blocks = <<>> THEN safe ELSE @]

(* prune_safe for a safe head that matches the buffered chain. *)
PruneSafe(e, safe) ==
    IF e.blocks = <<>> THEN [e EXCEPT !.tip = safe]
    ELSE IF PruneCount(e, safe) = 0 THEN e
    ELSE PruneBlocks(e, safe, PruneCount(e, safe))

IsDerivationStalled(e, current_l1, safe) ==
    \E i \in DOMAIN e.channels :
        LET c == e.channels[i]
        IN  /\ ChannelFullyConfirmed(e.egress, c)
            /\ c.last_confirmed_l1_block # None
            /\ current_l1 > c.last_confirmed_l1_block
            /\ RangeEnd(c) \in DOMAIN e.blocks
            /\ Number[safe] < Number[e.blocks[RangeEnd(c)]]

-----------------------------------------------------------------------------
(* The BatchPipeline trait. *)

(* Mutant: the parent hash is not compared. *)
ParentUnchecked(e, b) == FALSE

(* add_block fails, and leaves the encoder alone, when the parent is not the tip. *)
ParentMismatch(e, b) == e.tip # None /\ Parent[b] # e.tip

AddBlock(e, b) == [e EXCEPT !.tip = b, !.blocks = Append(@, b)]

(***************************************************************************)
(* step: its outcome and the encoder it leaves.  `emitted' is what the     *)
(* compressor emits for the block, `fault' the compressor call that fails. *)
(***************************************************************************)
StepOutcome(e, result) == [encoder |-> e, result |-> result]

CloseStep(e, fault) ==
    StepOutcome(CloseCurrentChannel(e, fault # "finish"),
                IF CloseFails(e, fault # "finish") THEN "Err" ELSE "ChannelClosed")

(* Mutant: the cursor points at the last encoded block. *)
LastBlock(e) == e.blocks[Max({e.block_cursor, 1})]

NextBlock(e) == e.blocks[e.block_cursor + 1]

Writable(e) == IF TailOpen(e) THEN e ELSE OpenNewChannel(e)

RejectStep(e, fault) ==
    IF Last(e.channels).blocks_added = 0
    THEN StepOutcome([e EXCEPT !.channels = Front(@)], "Err")
    ELSE CloseStep(e, fault)

Accept(e, emitted) ==
    [e EXCEPT !.channels[Len(e.channels)] = AddBatch(@, NextBlock(e), emitted),
              !.block_cursor = @ + 1]

AcceptStep(e, emitted, fault) ==
    LET accepted == Accept(e, emitted)
    IN  IF TargetReached(Last(accepted.channels))
        THEN CloseStep(accepted, fault)
        ELSE StepOutcome(accepted, "BlockEncoded")

EncodeStep(e, emitted, fault) ==
    IF Rejects(Last(e.channels), NextBlock(e)) THEN RejectStep(e, fault)
    ELSE IF fault = "append" THEN StepOutcome(e, "Err")
    ELSE AcceptStep(e, emitted, fault)

Step(e, emitted, fault) ==
    IF e.deferred_step_error
    THEN StepOutcome([e EXCEPT !.deferred_step_error = FALSE], "Err")
    ELSE IF TimeoutDue(e) THEN CloseStep(e, fault)
    ELSE IF e.block_cursor >= Len(e.blocks) THEN StepOutcome(e, "Idle")
    ELSE IF NextBlock(e) \in Uncomposable THEN StepOutcome(e, "Err")
    ELSE EncodeStep(Writable(e), emitted, fault)

(* What the compressor may emit when step appends the next block. *)
Emissions(e) ==
    LET held == IF TailOpen(e)
                THEN InputBytes(Last(e.channels)) - Last(e.channels).compressed_bytes ELSE 0
    IN  IF e.block_cursor >= Len(e.blocks) THEN {0} ELSE 0..(held + Size[NextBlock(e)])

EffectiveDaType(e) == IF e.blob_override THEN "Blob" ELSE ConfiguredDaType

(* The id is used up exactly when something is leased. *)
LeaseReady(built, id) ==
    IF NextLease(built.egress) = {} THEN built
    ELSE [built EXCEPT !.egress = Lease(@, id), !.next_id = @ + 1]

NextSubmission(e) == LeaseReady(BuildReadyArtifacts(e, EffectiveDaType(e)), e.next_id)

(* confirm: ignored for an untracked submission. *)
Confirm(e, id, l1) ==
    IF id \notin DOMAIN e.egress.pending THEN e
    ELSE LET ids == e.egress.pending[id]
             confirmed == IF AllPending(e.egress, ids)
                          THEN UNION {e.egress.artifacts[a].channel_ids : a \in ids} ELSE {}
         IN  [e EXCEPT !.egress = EndLease(@, id, "Confirmed"),
                       !.channels = [i \in DOMAIN @ |-> IF @[i].id \in confirmed
                                                        THEN RecordConfirmation(@[i], l1)
                                                        ELSE @[i]]]

Requeue(e, id) ==
    IF id \notin DOMAIN e.egress.pending THEN e
    ELSE [e EXCEPT !.egress = EndLease(@, id, "Ready")]

(* Mutant: a failed close is not remembered. *)
AdvanceForgetsError(e, l1, finished) ==
    LET moved == [e EXCEPT !.l1_head = Max({@, l1})]
        closes == l1 > e.l1_head /\ TimeoutDue(moved)
    IN  InvalidateExpiredChannels(IF closes THEN CloseCurrentChannel(moved, finished) ELSE moved)

(* advance_l1_head: a failed close is deferred to the next step. *)
AdvanceL1Head(e, l1, finished) ==
    LET moved == [e EXCEPT !.l1_head = Max({@, l1})]
        closes == l1 > e.l1_head /\ TimeoutDue(moved)
        closed == IF closes
                  THEN [CloseCurrentChannel(moved, finished)
                            EXCEPT !.deferred_step_error = CloseFails(moved, finished)]
                  ELSE moved
    IN  IF e.deferred_step_error THEN moved ELSE InvalidateExpiredChannels(closed)

(* flush: fails before releasing anything when the close fails. *)
FlushFails(e, finished) == CloseFails(e, finished)

Flush(e, finished) ==
    LET closed == CloseCurrentChannel(e, finished)
    IN  IF FlushFails(e, finished) THEN closed
        ELSE [closed EXCEPT !.channels = [i \in DOMAIN @ |-> ReleaseAt(@[i], e.l1_head)]]

(* Mutant: submission identifiers start again. *)
ResetReusesIds(e) ==
    [e EXCEPT !.blocks = <<>>, !.block_cursor = 0, !.tip = None, !.channels = <<>>,
              !.egress = ResetEgress(@), !.deferred_step_error = FALSE, !.next_id = 0]

(* Mutant: the cursor outlives the blocks. *)
ResetKeepsCursor(e) ==
    [e EXCEPT !.blocks = <<>>, !.tip = None, !.channels = <<>>,
              !.egress = ResetEgress(@), !.deferred_step_error = FALSE]

(* reset: identifiers stay monotonic, the L1 head and the override stay. *)
Reset(e) ==
    [e EXCEPT !.blocks = <<>>, !.block_cursor = 0, !.tip = None, !.channels = <<>>,
              !.egress = ResetEgress(@), !.deferred_step_error = FALSE]

DerivationReconciliation(e, safe, current_l1) ==
    IF ~SafeHeadMatches(e, safe) THEN "SafeHeadMismatch"
    ELSE IF IsDerivationStalled(PruneSafe(e, safe), current_l1, safe) THEN "StalledChannel"
    ELSE "Consistent"

(* reconcile_derivation: the encoder it leaves. *)
ReconcileDerivation(e, safe) == IF SafeHeadMatches(e, safe) THEN PruneSafe(e, safe) ELSE e

DaBacklogBytes(e) ==
    LET unencoded == Units(SubSeq(e.blocks, e.block_cursor + 1, Len(e.blocks)))
        unconfirmed == SelectSeq(e.channels, LAMBDA c : ~ChannelFullyConfirmed(e.egress, c))
    IN  FoldLeft(LAMBDA sum, c : sum + InputBytes(c), unencoded, unconfirmed)

SetBlobOverride(e, active) == [e EXCEPT !.blob_override = active]
=============================================================================
