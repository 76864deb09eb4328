----------------------------- MODULE BatchDriver -----------------------------
(***************************************************************************)
(* The batch driver (crates/batcher/core/src/driver.rs), its submission    *)
(* queue (submissions.rs) and the block source it polls                    *)
(* (crates/batcher/source/src/polling.rs) around one encoder.              *)
(*                                                                         *)
(* The driver is one task.  A CPU phase (phases "encode" and "submit") is  *)
(* followed by an I/O phase ("wait") in which one event is handled as a    *)
(* whole.  Which arms of the select are ready is up to the environment,    *)
(* so any event may come next; the L2 and L1 sources only when no encoding *)
(* is left.  "drain" is the end of shutdown, "done" and "failed" are the   *)
(* two ways run returns.                                                   *)
(***************************************************************************)
EXTENDS EncoderInvariants, DaThrottle

CONSTANTS
    Anchor,          \* safe head at startup
    MaxPending,      \* max_pending_transactions
    StepBudget,      \* STEP_BUDGET
    ForceBlobs,      \* force_blobs_when_throttling
    Controllers,     \* throttle controllers an operator may install
    StartStopped,    \* the --stopped flag
    MaxL1, MaxSubmissions, MaxChannels, MaxBuffered, \* bounds
    Faults           \* compressor ("append", "finish") and transaction ("build") faults

ASSUME DriverAssumption ==
    /\ Anchor \in Block
    /\ MaxPending \in Nat \ {0}
    /\ StepBudget \in Nat \ {0}
    /\ ForceBlobs \in BOOLEAN
    /\ StartStopped \in BOOLEAN
    /\ Controllers # {}
    /\ \A ctl \in Controllers : Valid(ctl) /\ ctl.strategy \in Strategies
    /\ {MaxL1, MaxSubmissions, MaxChannels, MaxBuffered} \subseteq Nat
    /\ "none" \in Faults
    /\ Faults \subseteq {"none", "append", "finish", "build"}

(* What may go wrong in the compressor: append or finish. *)
CompressorFaults == Faults \ {"build"}

VARIABLES
    encoder,       \* the pipeline
    in_flight,     \* transactions sent and not settled: [id, artifacts]
    derivation,    \* the last derivation status acted on: [safe_l2, current_l1]
    source_tip,    \* the last block the source delivered, or its anchor
    stopped,
    controller,    \* the installed throttle controller
    limits,        \* the published DA limits
    phase,
    steps,         \* encoding steps made in this CPU phase
    encoding_left, \* what work() returned
    shutting_down

vars == <<encoder, in_flight, derivation, source_tip, stopped, controller, limits, phase, steps,
          encoding_left, shutting_down>>

Init ==
    /\ encoder \in {AdvanceL1Head(NewEncoder, l1, TRUE) : l1 \in 0..MaxL1}
    /\ in_flight = {}
    /\ derivation \in [safe_l2 : {Anchor}, current_l1 : 0..MaxL1]
    /\ source_tip = Anchor
    /\ stopped = StartStopped
    /\ controller \in Controllers
    /\ limits = Limits(controller, 0)
    /\ phase = "encode"
    /\ steps = 0
    /\ encoding_left = FALSE
    /\ shutting_down = FALSE

-----------------------------------------------------------------------------
(* The CPU phase: work. *)

(* Mutant: blobs once forced stay forced. *)
ApplyThrottleSticky(e) ==
    LET backlog == DaBacklogBytes(e)
    IN  /\ limits' = Limits(controller, backlog)
        /\ encoder' = IF ForceBlobs /\ IsThrottling(controller, backlog)
                      THEN SetBlobOverride(e, TRUE) ELSE e
        /\ phase' = "submit"

(* publish_limits and the blob override, between encoding and submitting. *)
ApplyThrottle(e) ==
    LET backlog == DaBacklogBytes(e)
    IN  /\ limits' = Limits(controller, backlog)
        /\ encoder' = IF ForceBlobs THEN SetBlobOverride(e, IsThrottling(controller, backlog)) ELSE e
        /\ phase' = "submit"

(* One iteration of drain_encoding. *)
Encode ==
    \E emitted \in Emissions(encoder), fault \in CompressorFaults :
        LET outcome == Step(encoder, emitted, fault)
        IN  /\ phase = "encode"
            /\ encoder.next_channel < MaxChannels \/ TailOpen(encoder)
                  \/ encoder.block_cursor = Len(encoder.blocks)
            /\ steps' = steps + 1
            /\ encoding_left' = (outcome.result \in {"BlockEncoded", "ChannelClosed"})
            /\ \/ /\ outcome.result = "Err"
                  /\ encoder' = outcome.encoder
                  /\ phase' = IF shutting_down THEN "drain" ELSE "failed"
                  /\ UNCHANGED limits
               \/ /\ outcome.result = "Idle" \/ (encoding_left' /\ steps' = StepBudget)
                  /\ ApplyThrottle(outcome.encoder)
               \/ /\ encoding_left' /\ steps' < StepBudget
                  /\ encoder' = outcome.encoder
                  /\ UNCHANGED <<phase, limits>>
            /\ UNCHANGED <<in_flight, derivation, source_tip, stopped, controller, shutting_down>>

(* Mutant: one submission per CPU phase. *)
SubmitOnce ==
    \E e \in {NextSubmission(encoder)}, id \in {encoder.next_id} :
        /\ phase = "submit"
        /\ phase' = IF shutting_down THEN "drain" ELSE "wait"
        /\ IF Cardinality(in_flight) < MaxPending /\ e.next_id > id
           THEN /\ id < MaxSubmissions
                /\ encoder' = e
                /\ in_flight' = in_flight \cup {[id |-> id, artifacts |-> e.egress.pending[id]]}
           ELSE UNCHANGED <<encoder, in_flight>>
        /\ UNCHANGED <<derivation, source_tip, stopped, controller, limits, steps, encoding_left,
                       shutting_down>>

(* One iteration of submit_pending, or its return. *)
Submit ==
    \E e \in {NextSubmission(encoder)}, id \in {encoder.next_id} :
        /\ phase = "submit"
        /\ IF Cardinality(in_flight) < MaxPending /\ e.next_id > id
           THEN /\ id < MaxSubmissions
                /\ encoder' = e
                /\ in_flight' = in_flight \cup {[id |-> id, artifacts |-> e.egress.pending[id]]}
                /\ UNCHANGED phase
           ELSE /\ phase' = IF shutting_down THEN "drain" ELSE "wait"
                /\ UNCHANGED <<encoder, in_flight>>
        /\ UNCHANGED <<derivation, source_tip, stopped, controller, limits, steps, encoding_left,
                       shutting_down>>

(* submit_pending gives up on a blob submission that makes no transaction: it stays leased. *)
SubmitFails ==
    \E e \in {NextSubmission(encoder)}, id \in {encoder.next_id} :
        /\ phase = "submit" /\ "build" \in Faults
        /\ Cardinality(in_flight) < MaxPending /\ e.next_id > id /\ id < MaxSubmissions
        /\ \E a \in e.egress.pending[id] : e.egress.artifacts[a].blob
        /\ encoder' = e
        /\ phase' = IF shutting_down THEN "drain" ELSE "failed"
        /\ UNCHANGED <<in_flight, derivation, source_tip, stopped, controller, limits, steps,
                       encoding_left, shutting_down>>

-----------------------------------------------------------------------------
(* The I/O phase.  Every handler is followed by a CPU phase. *)

ToWork ==
    /\ phase = "wait"
    /\ phase' = "encode"
    /\ steps' = 0
    /\ UNCHANGED <<limits, encoding_left>>

(* reset_to_safe_head: the anchor is the safe head of status. *)
ResetToSafeHead(e, status) ==
    /\ encoder' = Reset(e)
    /\ source_tip' = status.safe_l2

(* on_derivation_status.  A status that went back without passing the last L1 block is ignored. *)
OnDerivationStatus(status) ==
    LET went_back == Number[status.safe_l2] < Number[derivation.safe_l2]
        behind == went_back /\ status.current_l1 <= derivation.current_l1
        outcome == DerivationReconciliation(encoder, status.safe_l2, status.current_l1)
    IN  /\ ToWork
        /\ IF behind
           THEN UNCHANGED <<encoder, derivation, source_tip>>
           ELSE /\ derivation' = status
                /\ IF went_back \/ outcome # "Consistent"
                   THEN ResetToSafeHead(encoder, status)
                   ELSE /\ encoder' = ReconcileDerivation(encoder, status.safe_l2)
                        /\ UNCHANGED source_tip
        /\ UNCHANGED <<in_flight, stopped, controller, shutting_down>>

(* derivation_status_rx is closed. *)
StatusSourceClosed ==
    /\ phase = "wait"
    /\ phase' = "failed"
    /\ UNCHANGED <<encoder, in_flight, derivation, source_tip, stopped, controller, limits, steps,
                   encoding_left, shutting_down>>

(* Mutant: a failed transaction is not requeued. *)
OutcomeForgetsRequeue(tx, l1, fault) ==
    /\ in_flight' = in_flight \ {tx}
    /\ encoder' = IF l1 = None THEN encoder
                  ELSE AdvanceL1Head(Confirm(encoder, tx.id, l1), l1, fault # "finish")

(* Mutant: a receipt does not move the L1 head. *)
OutcomeOnlyConfirms(tx, l1, fault) ==
    /\ in_flight' = in_flight \ {tx}
    /\ encoder' = IF l1 = None THEN Requeue(encoder, tx.id) ELSE Confirm(encoder, tx.id, l1)

(* handle_outcome: the transaction failed (None) or has a receipt.  A receipt
   without a block number counts as block 0. *)
HandleOutcome(tx, l1, fault) ==
    /\ in_flight' = in_flight \ {tx}
    /\ encoder' = IF l1 = None THEN Requeue(encoder, tx.id)
                  ELSE AdvanceL1Head(Confirm(encoder, tx.id, l1), l1, fault # "finish")

Outcomes == (0..MaxL1) \cup {None}

OnSettled(tx, l1, fault) ==
    /\ ToWork
    /\ HandleOutcome(tx, l1, fault)
    /\ UNCHANGED <<derivation, source_tip, stopped, controller, shutting_down>>

(***************************************************************************)
(* The source fetches the block after its tip, from whatever chain the     *)
(* node is on: a block with another parent is a Reorg event, a block at or *)
(* below the safe head is dropped by on_block.                             *)
(***************************************************************************)
OnSourceEvent(b) ==
    /\ ToWork
    /\ ~stopped /\ ~encoding_left
    /\ Len(encoder.blocks) < MaxBuffered
    /\ Number[b] = Number[source_tip] + 1
    /\ IF Parent[b] # source_tip
       THEN ResetToSafeHead(encoder, derivation)
       ELSE IF Number[b] <= Number[derivation.safe_l2]
       THEN source_tip' = b /\ UNCHANGED encoder
       ELSE IF ParentMismatch(encoder, b)
       THEN ResetToSafeHead(encoder, derivation)
       ELSE source_tip' = b /\ encoder' = AddBlock(encoder, b)
    /\ UNCHANGED <<in_flight, derivation, stopped, controller, shutting_down>>

OnL1Head(l1, fault) ==
    /\ ToWork
    /\ ~encoding_left
    /\ encoder' = AdvanceL1Head(encoder, l1, fault # "finish")
    /\ UNCHANGED <<in_flight, derivation, source_tip, stopped, controller, shutting_down>>

(* The yield arm: back to encoding. *)
Yield ==
    /\ ToWork
    /\ encoding_left
    /\ UNCHANGED <<encoder, in_flight, derivation, source_tip, stopped, controller, shutting_down>>

(* A failed flush ends run before the CPU phase. *)
OnAdminFlush ==
    \E fault \in CompressorFaults :
        /\ phase = "wait"
        /\ ~stopped
        /\ encoder' = Flush(encoder, fault # "finish")
        /\ phase' = IF FlushFails(encoder, fault # "finish") THEN "failed" ELSE "encode"
        /\ steps' = 0
        /\ UNCHANGED <<in_flight, derivation, source_tip, stopped, controller, limits,
                       encoding_left, shutting_down>>

OnAdminStop ==
    /\ ToWork
    /\ ~stopped
    /\ stopped' = TRUE
    /\ encoder' = Reset(encoder)
    /\ UNCHANGED <<in_flight, derivation, source_tip, controller, shutting_down>>

(* Mutant: the source goes on from where it was. *)
StartKeepsTip ==
    /\ ToWork
    /\ stopped
    /\ stopped' = FALSE
    /\ UNCHANGED <<encoder, in_flight, derivation, source_tip, controller, shutting_down>>

OnAdminStart ==
    /\ ToWork
    /\ stopped
    /\ stopped' = FALSE
    /\ source_tip' = derivation.safe_l2
    /\ UNCHANGED <<encoder, in_flight, derivation, controller, shutting_down>>

OnSetThrottle ==
    /\ ToWork
    /\ controller' \in Controllers
    /\ UNCHANGED <<encoder, in_flight, derivation, source_tip, stopped, shutting_down>>

(* Commands that change nothing: queries, a refused flush, a repeated stop or start. *)
OnAdminQuery ==
    /\ ToWork
    /\ UNCHANGED <<encoder, in_flight, derivation, source_tip, stopped, controller, shutting_down>>

-----------------------------------------------------------------------------
(* Shutdown: flush, one CPU phase, then a bounded drain. *)

Cancel ==
    \E fault \in CompressorFaults :
        /\ phase = "wait"
        /\ encoder' = Flush(encoder, fault # "finish")
        /\ shutting_down' = TRUE
        /\ phase' = "encode"
        /\ steps' = 0
        /\ UNCHANGED <<in_flight, derivation, source_tip, stopped, controller, limits, encoding_left>>

DrainSettled ==
    /\ phase = "drain"
    /\ \E tx \in in_flight, l1 \in Outcomes, fault \in CompressorFaults : HandleOutcome(tx, l1, fault)
    /\ UNCHANGED <<derivation, source_tip, stopped, controller, limits, phase, steps, encoding_left,
                   shutting_down>>

(* Nothing is in flight, or the timeout abandons what is. *)
DrainEnds ==
    /\ phase = "drain"
    /\ phase' = "done"
    /\ UNCHANGED <<encoder, in_flight, derivation, source_tip, stopped, controller, limits, steps,
                   encoding_left, shutting_down>>

Next ==
    \/ Encode \/ Submit \/ SubmitFails
    \/ \E status \in [safe_l2 : Block, current_l1 : 0..MaxL1] : OnDerivationStatus(status)
    \/ StatusSourceClosed
    \/ \E tx \in in_flight, l1 \in Outcomes, fault \in CompressorFaults : OnSettled(tx, l1, fault)
    \/ \E b \in Block : OnSourceEvent(b)
    \/ \E l1 \in 0..MaxL1, fault \in CompressorFaults : OnL1Head(l1, fault)
    \/ Yield
    \/ OnAdminFlush \/ OnAdminStop \/ OnAdminStart \/ OnSetThrottle \/ OnAdminQuery
    \/ Cancel \/ DrainSettled \/ DrainEnds

Spec == Init /\ [][Next]_vars

-----------------------------------------------------------------------------
(* The types of the driver's fields (struct BatchDriver). *)
TypeOK ==
    /\ \A tx \in in_flight : tx.id \in 0..(encoder.next_id - 1)
    /\ derivation \in [safe_l2 : Block, current_l1 : 0..MaxL1]
    /\ source_tip \in Block
    /\ {stopped, encoding_left, shutting_down} \subseteq BOOLEAN
    /\ controller \in Controllers
    /\ phase \in {"encode", "submit", "wait", "drain", "done", "failed"}
    /\ steps \in 0..StepBudget

(***************************************************************************)
(* The buffer hangs on the safe head and ends where the source is, through *)
(* reorgs on either side, resets, restarts by an operator and late         *)
(* statuses: no block above the safe head is skipped and none at or below  *)
(* it is buffered.  A stopped batcher holds nothing.                       *)
(***************************************************************************)
BufferAnchored ==
    encoder.blocks # <<>> =>
        /\ ~stopped
        /\ Parent[Head(encoder.blocks)] = derivation.safe_l2
        /\ Last(encoder.blocks) = source_tip
        /\ ChainLinked(encoder)

(***************************************************************************)
(* While the driver runs, every lease of the encoder belongs to exactly    *)
(* one transaction whose outcome it still waits for: no frame is leased    *)
(* for good, through resets, replays and late receipts.                    *)
(***************************************************************************)
LeasesInFlight ==
    phase \in {"encode", "submit", "wait"} =>
    /\ \A id \in DOMAIN encoder.egress.pending :
          \E tx \in in_flight : tx.id = id /\ encoder.egress.pending[id] \subseteq tx.artifacts
    /\ \A t, u \in in_flight : t.id = u.id => t = u

(***************************************************************************)
(* The driver and its encoder are in step: the encoder's buffer starts     *)
(* where the driver's safe head ends, and its leases are the driver's      *)
(* transactions in flight.  The driver's fields have their types.          *)
(***************************************************************************)
DriverInStep == TypeOK /\ BufferAnchored /\ LeasesInFlight

(***************************************************************************)
(* No channel outlives its confirmation window: every receipt and every L1 *)
(* head is followed by the expiry check, also a receipt at an old block    *)
(* (handle_outcome, invalidate_expired_channels).  The encoder's fields    *)
(* stay well-formed through stops, resets and replays of its blocks.       *)
(***************************************************************************)
NoExpiredChannel ==
    /\ EncoderTypeOK(encoder)
    /\ \/ encoder.deferred_step_error
       \/ \A i \in DOMAIN encoder.channels : ~Expired(encoder, encoder.channels[i])

(***************************************************************************)
(* When the driver waits for the next event, everything it could do is     *)
(* done: all blocks are encoded or the next slice is due, and frames are   *)
(* ready only if the in-flight limit is reached.                           *)
(***************************************************************************)
NothingStranded ==
    phase = "wait" =>
        /\ encoding_left \/ (encoder.block_cursor = Len(encoder.blocks) /\ ~TimeoutDue(encoder))
        /\ Cardinality(in_flight) >= MaxPending \/ NextSubmission(encoder) = encoder

(***************************************************************************)
(* When the driver waits, the block builders are told the limits of the    *)
(* installed controller for the present backlog, and blobs are forced      *)
(* exactly while it throttles (publish_limits, set_blob_override).         *)
(***************************************************************************)
LimitsCurrent ==
    phase = "wait" =>
        LET backlog == DaBacklogBytes(encoder)
        IN  /\ limits = Limits(controller, backlog)
            /\ ForceBlobs => encoder.blob_override = IsThrottling(controller, backlog)

(***************************************************************************)
(* A running driver never hands out the last frame of a channel that lost  *)
(* the end of its stream: the error of the failed compressor stops it      *)
(* before the next submission.  Only shutdown still sends what is left.    *)
(***************************************************************************)
NoTruncatedChannelSent ==
    shutting_down \/
    \A i \in DOMAIN encoder.channels :
        LET c == encoder.channels[i]
        IN  ~c.open /\ c.compressed_bytes < InputBytes(c) => c.terminal_pending
=============================================================================
