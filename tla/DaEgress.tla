------------------------------ MODULE DaEgress ------------------------------
(***************************************************************************)
(* DA egress of the batcher's encoder: framing channel output into         *)
(* immutable artifacts (crates/batcher/encoder/src/egress.rs) and the      *)
(* ledger of their submission states (artifact.rs).                        *)
(*                                                                         *)
(* An egress g is a record: g.artifacts maps the identifiers of retained   *)
(* artifacts to artifacts (creation order is the order of identifiers),    *)
(* g.next_artifact is the next identifier, and g.pending maps every        *)
(* in-flight submission to the artifacts leased to it.                     *)
(***************************************************************************)
EXTENDS Channel

NewEgress == [artifacts |-> <<>>, next_artifact |-> 0, pending |-> <<>>]

Frame(c, k, len, is_last) ==
    [channel |-> c.id, number |-> c.next_frame_number + k, len |-> len, is_last |-> is_last]

-----------------------------------------------------------------------------
(* Planning. *)

(* Mutant: the metadata of a frame takes no room. *)
FrameLengthsUnframed(c, remaining) ==
    IF c.available_output = 0
    THEN IF c.terminal_pending THEN <<0>> ELSE <<>>
    ELSE IF remaining = 0 THEN <<>> ELSE <<Min({c.available_output, remaining, MaxFrameData})>>

(* Data lengths of the frames c contributes to a blob with `remaining' units. *)
FrameLengths(c, remaining) ==
    LET cut[a \in 0..c.available_output, r \in 0..remaining] ==
            IF a = 0 \/ r <= Overhead
            THEN <<>>
            ELSE LET n == Min({a, r - Overhead, MaxFrameData})
                 IN  <<n>> \o cut[a - n, r - Overhead - n]
        empty_terminal == c.available_output = 0 /\ c.terminal_pending /\ remaining >= Overhead
    IN  IF empty_terminal THEN <<0>> ELSE cut[c.available_output, remaining]

SumSeq(s) == FoldLeft(+, 0, s)

(* One channel of the walk of plan_blob.  plan.stop is the walk's break. *)
PlanChannelFrames(plan, c, l1_head) ==
    LET lens     == FrameLengths(c, plan.remaining)
        drained  == lens # <<>> /\ SumSeq(lens) = c.available_output
        frame(k) == Frame(c, k - 1, lens[k], k = Len(lens) /\ drained /\ c.terminal_pending)
    IN  [frames |-> plan.frames \o [k \in DOMAIN lens |-> frame(k)],
         remaining |-> plan.remaining - SumSeq(lens) - Overhead * Len(lens),
         release_due |-> plan.release_due
                           \/ (lens # <<>> /\ ~c.open /\ DeadlineDue(c, l1_head)),
         stop |-> c.open \/ ~drained]

(* The walk over the channels for one blob. *)
WalkChannels(channels, l1_head) ==
    LET visit(plan, c) == IF plan.stop \/ FramingComplete(c)
                          THEN plan
                          ELSE PlanChannelFrames(plan, c, l1_head)
    IN  FoldLeft(visit, [frames |-> <<>>, remaining |-> BlobCapacity,
                         release_due |-> FALSE, stop |-> FALSE], channels)

(* Mutant: the newest channel is framed first. *)
PlanNewestFirst(channels, l1_head) ==
    LET plan == WalkChannels(Reverse(channels), l1_head)
    IN  IF plan.remaining < Overhead + 1 \/ plan.release_due THEN plan.frames ELSE <<>>

(* The frames of one full or deadline-released blob; <<>> when there is none. *)
PlanBlob(channels, l1_head) ==
    LET plan == WalkChannels(channels, l1_head)
        saturated == plan.remaining < Overhead + 1
    IN  IF saturated \/ plan.release_due THEN plan.frames ELSE <<>>

(* Mutant: the rest of a closed channel goes out in one frame. *)
CalldataWholeRest(channels) ==
    LET unfinished == {i \in DOMAIN channels : ~FramingComplete(channels[i])}
        c == channels[Min(unfinished)]
    IN  IF unfinished = {} \/ ~c.terminal_pending
        THEN <<>>
        ELSE <<Frame(c, 0, c.available_output, TRUE)>>

(* Mutant: every frame of a closed channel is terminal. *)
CalldataEarlyTerminal(channels) ==
    LET unfinished == {i \in DOMAIN channels : ~FramingComplete(channels[i])}
        c == channels[Min(unfinished)]
    IN  IF unfinished = {} \/ ~(c.available_output >= MaxFrameData \/ c.terminal_pending)
        THEN <<>>
        ELSE <<Frame(c, 0, Min({c.available_output, MaxFrameData}), c.terminal_pending)>>

(* Mutant: the newest channel with output goes first. *)
CalldataNewestFirst(channels) ==
    LET unfinished == {i \in DOMAIN channels : ~FramingComplete(channels[i])}
        c == channels[Max(unfinished)]
        full == c.available_output >= MaxFrameData
    IN  IF unfinished = {} \/ ~(full \/ c.terminal_pending)
        THEN <<>>
        ELSE <<Frame(c, 0, Min({c.available_output, MaxFrameData}),
                     c.available_output <= MaxFrameData /\ c.terminal_pending)>>

(* One calldata frame of the first unfinished channel; <<>> when there is none. *)
PlanCalldata(channels) ==
    LET unfinished == {i \in DOMAIN channels : ~FramingComplete(channels[i])}
        c == channels[Min(unfinished)]
        full == c.available_output >= MaxFrameData
    IN  IF unfinished = {} \/ ~(full \/ c.terminal_pending)
        THEN <<>>
        ELSE IF full
        THEN <<Frame(c, 0, MaxFrameData, c.available_output = MaxFrameData /\ c.terminal_pending)>>
        ELSE <<Frame(c, 0, c.available_output, TRUE)>>

-----------------------------------------------------------------------------
(* The artifact ledger. *)

(* f with k mapped to v. *)
Put(f, k, v) == [x \in DOMAIN f \cup {k} |-> IF x = k THEN v ELSE f[x]]

InState(g, state) == {a \in DOMAIN g.artifacts : g.artifacts[a].state = state}

ReadyBlobs(g) == {a \in InState(g, "Ready") : g.artifacts[a].blob}

Push(g, frames, blob, channel_ids) ==
    LET artifact == [blob |-> blob, frames |-> frames, state |-> "Ready",
                     channel_ids |-> channel_ids]
    IN  [g EXCEPT !.artifacts = Put(@, g.next_artifact, artifact),
                  !.next_artifact = @ + 1]

SetState(g, ids, state) ==
    [g EXCEPT !.artifacts = [a \in DOMAIN @ |->
        IF a \in ids THEN [@[a] EXCEPT !.state = state] ELSE @[a]]]

(* Mutant: the newest ready artifact is sent first. *)
NewestLease(g) ==
    LET ready == InState(g, "Ready")
    IN  IF ready = {} THEN {} ELSE {Max(ready)}

(* The next transaction: the first ready calldata frame alone, or the run of ready blobs. *)
NextLease(g) ==
    LET ready == InState(g, "Ready")
        run == {a \in ready : \A b \in ready : b <= a => g.artifacts[b].blob}
    IN  IF ready = {} THEN {}
        ELSE IF run = {} THEN {Min(ready)}
        ELSE {a \in run : Cardinality({b \in run : b < a}) < MaxBlobsPerTx}

AllPending(g, ids) == ids \subseteq InState(g, "Pending")

AllConfirmedFor(g, id) ==
    LET carriers == {a \in DOMAIN g.artifacts : id \in g.artifacts[a].channel_ids}
    IN  carriers # {} /\ carriers \subseteq InState(g, "Confirmed")

ChannelFullyConfirmed(g, c) == FramingComplete(c) /\ AllConfirmedFor(g, c.id)

RemovePending(g, id) == [g EXCEPT !.pending = Restrict(@, DOMAIN @ \ {id})]

(* confirm and requeue of DaEgress: the lease ends, its artifacts move if all are leased. *)
EndLease(g, id, state) ==
    LET ids == g.pending[id]
        released == RemovePending(g, id)
    IN  IF AllPending(g, ids) THEN SetState(released, ids, state) ELSE released

(* Mutant: leases keep the artifacts that are gone. *)
PruneKeepsLeases(g, safe_ids) ==
    LET kept == {a \in DOMAIN g.artifacts : ~(g.artifacts[a].channel_ids \subseteq safe_ids)}
    IN  [g EXCEPT
            !.artifacts = [a \in kept |-> [g.artifacts[a] EXCEPT !.channel_ids = @ \ safe_ids]]]

(* Mutant: an artifact shared with an unsafe channel keeps naming the safe one. *)
PruneKeepsIds(g, safe_ids) ==
    LET kept == {a \in DOMAIN g.artifacts : ~(g.artifacts[a].channel_ids \subseteq safe_ids)}
        lease(id) == g.pending[id] \cap kept
    IN  [g EXCEPT
            !.artifacts = Restrict(@, kept),
            !.pending = [id \in {i \in DOMAIN @ : lease(i) # {}} |-> lease(id)]]

(* Safe channels are forgotten, then artifacts without a channel, then empty leases. *)
PruneChannels(g, safe_ids) ==
    LET kept == {a \in DOMAIN g.artifacts : ~(g.artifacts[a].channel_ids \subseteq safe_ids)}
        lease(id) == g.pending[id] \cap kept
    IN  [g EXCEPT
            !.artifacts = [a \in kept |-> [g.artifacts[a] EXCEPT !.channel_ids = @ \ safe_ids]],
            !.pending = [id \in {i \in DOMAIN @ : lease(i) # {}} |-> lease(id)]]

InvalidateArtifacts(g, ids) ==
    [g EXCEPT !.artifacts = Restrict(@, DOMAIN @ \ ids),
              !.pending = Restrict(@, {i \in DOMAIN @ : @[i] \cap ids = {}})]

(* Mutant: artifact identifiers start again. *)
ResetReusesArtifacts(g) == NewEgress

ResetEgress(g) == [g EXCEPT !.artifacts = <<>>, !.pending = <<>>]

-----------------------------------------------------------------------------
(* Building and leasing, on an encoder e with e.channels, e.egress and e.l1_head. *)

(* The channels a plan takes frames from: an empty plan has none. *)
Planned(channels, plan) ==
    {c \in Range(channels) : \E k \in DOMAIN plan : plan[k].channel = c.id}

Commit(e, plan, blob) ==
    [e EXCEPT !.channels = [i \in DOMAIN @ |-> TakeFrames(@[i], plan)],
              !.egress = Push(@, plan, blob, {c.id : c \in Planned(e.channels, plan)})]

CommitBlob(e, plan) ==
    IF Cardinality(ReadyBlobs(e.egress)) < MaxBlobsPerTx /\ Planned(e.channels, plan) # {}
    THEN Commit(e, plan, TRUE)
    ELSE e

(* One round of the loop of build_ready_artifacts. *)
FillBlob(e) == CommitBlob(e, PlanBlob(e.channels, e.l1_head))

(* MAX_BLOBS_PER_TX = 6 rounds reach the loop's exit: a round that builds nothing is its break. *)
BuildBlobs(e) == FillBlob(FillBlob(FillBlob(FillBlob(FillBlob(FillBlob(e))))))

BuildCalldata(e) ==
    LET plan == PlanCalldata(e.channels)
    IN  IF Planned(e.channels, plan) # {} THEN Commit(e, plan, FALSE) ELSE e

BuildReadyArtifacts(e, da_type) ==
    IF InState(e.egress, "Ready") # {} THEN e
    ELSE IF da_type = "Blob" THEN BuildBlobs(e)
    ELSE BuildCalldata(e)

Lease(g, id) ==
    [SetState(g, NextLease(g), "Pending") EXCEPT !.pending = Put(@, id, NextLease(g))]
=============================================================================
