--------------------------- MODULE MCBatcherEdges ---------------------------
(***************************************************************************)
(* What surrounds the driver, in one run.  What the batcher learns from    *)
(* the chains: the scan of its own recent transactions before it starts,   *)
(* the L1 heads and the L2 blocks after that.  What it tells the block     *)
(* builders: the DA throttle over all its strategies and a long range of   *)
(* backlogs, and the pushers that carry its limits.  part says which of    *)
(* the models runs; the others rest in an initial state.                   *)
(***************************************************************************)
EXTENDS RecentTxScan, DaThrottle, Sequences

CONSTANTS
    MaxHead, MaxMoves, MaxHeadDrops, MaxHeadFaults,
    MaxLen, MaxL1, MaxL2Reorgs, MaxL2Drops,
    MaxBacklog, Builder, MaxEvents,
    PushControllers, PushBacklogs \* what the limits the pushers carry are computed from

\* Controllers of every strategy, with odd ranges so that rounding matters.
MCControllers ==
    [strategy : Strategies, start_threshold : {0, 2}, full_threshold : {6},
     max_intensity : {75, 100}, block_lower : {4}, block_upper : {9},
     tx_lower : {1}, tx_upper : {4}]

\* The limits a run of the pushers publishes, and the ones it starts from (DaThrottle::new).
PushedLimits == {Limits(ctl, backlog) : ctl \in PushControllers, backlog \in PushBacklogs}
InitialLimits == {Limits(ctl, 0) : ctl \in PushControllers}

ASSUME PartAssumption ==
    /\ MaxHead \in Nat \ {0} /\ MaxLen \in Nat \ {0} /\ MaxL1 \in Nat \ {0}
    /\ {MaxMoves, MaxHeadDrops, MaxHeadFaults, MaxL2Reorgs, MaxL2Drops} \subseteq Nat

ASSUME ThrottleAssumption ==
    /\ MaxBacklog \in Nat /\ \A ctl \in MCControllers : Valid(ctl)
    /\ Builder # {} /\ MaxEvents \in Nat
    /\ PushControllers \subseteq MCControllers /\ PushControllers # {}
    /\ PushBacklogs \subseteq Nat /\ 0 \in PushBacklogs

MCBlock == 0 .. 4
MCNonce == 0 .. 2
MCPushControllers ==
    {ctl \in MCControllers : ctl.strategy = "Linear" /\ ctl.start_threshold = 0 /\ ctl.max_intensity = 100}

VARIABLES
    part,
    l1_node, top, stream, sub, next, answer, last_head, l1_head, reports, moves,
    l1_drops, l1_faults,
    chain, node, status, last, derivation, source_tip, blocks, tip, fetch, l2_reorgs,
    l2_drops,
    controller, limits, basis,
    published, task, pushing, applied, late, cancelled, events, history

Heads == INSTANCE L1Heads
      WITH MaxDrops <- MaxHeadDrops, MaxFaults <- MaxHeadFaults, head <- l1_node,
           drops <- l1_drops, faults <- l1_faults

Ingest == INSTANCE L2Ingest
       WITH MaxReorgs <- MaxL2Reorgs, MaxDrops <- MaxL2Drops, reorgs <- l2_reorgs,
            drops <- l2_drops

Control == INSTANCE ThrottleControl WITH Controllers <- MCControllers

Pusher == INSTANCE ThrottlePush

heads == <<l1_node, top, stream, sub, next, answer, last_head, l1_head, reports, moves,
           l1_drops, l1_faults>>
ingest == <<chain, node, status, last, derivation, source_tip, blocks, tip, fetch,
            l2_reorgs, l2_drops>>
control == <<controller, limits, basis>>
push == <<published, task, pushing, applied, late, cancelled, events, history>>
mcvars == <<part, vars, heads, ingest, control, push>>

ScanStarts == Init /\ nonce = [b \in Block |-> 0] /\ head = 0
HeadsStart == Heads!Init /\ l1_node = 1 /\ l1_head = 1 /\ sub = "live"
ControlStarts == Control!Init /\ controller = CHOOSE ctl \in MCControllers : TRUE
PushStarts == Pusher!Init /\ published = CHOOSE l \in InitialLimits : TRUE

MCInit ==
    \/ part = "scan" /\ Init /\ HeadsStart /\ Ingest!Init /\ ControlStarts /\ PushStarts
    \/ part = "heads" /\ ScanStarts /\ Heads!Init /\ Ingest!Init /\ ControlStarts /\ PushStarts
    \/ part = "ingest" /\ ScanStarts /\ HeadsStart /\ Ingest!Init /\ ControlStarts /\ PushStarts
    \/ part = "control" /\ ScanStarts /\ HeadsStart /\ Ingest!Init /\ Control!Init /\ PushStarts
    \/ part = "push" /\ ScanStarts /\ HeadsStart /\ Ingest!Init /\ ControlStarts /\ Pusher!Init

ScanStep(action) == part = "scan" /\ action /\ UNCHANGED <<part, heads, ingest, control, push>>
HeadsStep(action) == part = "heads" /\ action /\ UNCHANGED <<part, vars, ingest, control, push>>
IngestStep(action) == part = "ingest" /\ action /\ UNCHANGED <<part, vars, heads, control, push>>
ControlStep(action) == part = "control" /\ action /\ UNCHANGED <<part, vars, heads, ingest, push>>
PushStep(action) == part = "push" /\ action /\ UNCHANGED <<part, vars, heads, ingest, control>>

MCNext ==
    \/ ScanStep(Next) \/ HeadsStep(Heads!Next) \/ IngestStep(Ingest!Next)
    \/ ControlStep(Control!Next) \/ PushStep(Pusher!Next)

\* The fairness of the models. A pusher's timer fires and its push gets an answer;
\* requests on their way arrive or are lost within the network timeout. The scan, the
\* source of heads and the late pushes share their conjunct with another process.
MCFairness ==
    /\ WF_mcvars(ScanStep(Scan) \/ HeadsStep(Heads!Source) \/ IngestStep(Ingest!L2Grows)
                 \/ PushStep(Pusher!LateLands))
    /\ WF_mcvars(IngestStep(Ingest!NodeDerives))
    /\ WF_mcvars(IngestStep(Ingest!StatusSent))
    /\ WF_mcvars(IngestStep(Ingest!OnDerivationStatus))
    /\ WF_mcvars(IngestStep(Ingest!Answered))
    /\ WF_mcvars(IngestStep(Ingest!OnSourceEvent))
    /\ \A b \in Builder :
         WF_mcvars(PushStep(Pusher!Pushes(b)))

MCSpec == MCInit /\ [][MCNext]_mcvars /\ MCFairness

-----------------------------------------------------------------------------
(* Properties. *)

\* What the sources hand on is in order. The heads reported rise strictly, whatever order
\* the stream and late answers of the poller bring them in and however often next() is
\* dropped, and the encoder's head is the highest it was told. The buffered blocks are
\* one chain, which starts right above the safe head the driver acts on and ends at the
\* encoder's tip and, between two answers, where the source goes on.
DeliveredInOrder == Heads!TypeOK /\ Heads!HeadsRise /\ Ingest!BufferLinked

\* What the builders are told is right: the limits stay in the range of the controller
\* they come from whatever the backlog, never 0, which a builder takes for no limit
\* (ThrottleConfig::validate). A pusher sends nothing else, and each limit a builder
\* applies was published, however late a push is handled and whichever pushes interleave
\* in the builder's handler (run, set_max_da_size).
PublishedInRange ==
    /\ Control!LimitsInRange
    /\ Pusher!TypeOK /\ Pusher!OnlyPublished
    /\ \A l \in history : \E ctl \in MCControllers : Control!InRange(ctl, l)

\* Under one controller more backlog never means looser limits, and less never tighter
\* ones, rounding included (compute_limits).
LimitsMonotone == [][Control!NeverLooser]_mcvars

\* Once everything is quiet everybody has caught up. A scan ends although the chain
\* changed under it; the encoder's L1 head reaches L1's through a subscription that
\* missed it, that ended or that never was, and polls that failed or were dropped; the
\* encoder holds exactly the blocks of the sequencer's chain above the node's safe head,
\* through reorganisations of either chain and statuses the driver ignored; every pusher
\* of a cancelled batcher has returned, and otherwise every builder applies the published
\* limits for good, also one that restarted, missed a push, or received an old push late
\* (REFRESH_INTERVAL).
EdgesCatchUp ==
    /\ part = "scan" => ScanEnds
    /\ part = "heads" => Heads!HeadReached
    /\ part = "ingest" => Ingest!BlocksCatchUp
    /\ part = "push" => Pusher!BuildersConverge
=============================================================================
