-------------------------- MODULE MCBatcherService --------------------------
(***************************************************************************)
(* The batcher process in one run: the supervision of its tasks, and the   *)
(* two of them that feed the driver its derivation status.  part says      *)
(* which of the two models runs; the other one rests in an initial state.  *)
(***************************************************************************)
EXTENDS BatcherService

CONSTANTS N, MaxStatus, SafeL2, CurrentL1, MaxEvents

ASSUME FeedAssumption ==
    /\ N \in Nat \ {0} /\ MaxStatus \in Nat \ {0} /\ MaxEvents \in Nat
    /\ SafeL2 \in [1 .. MaxStatus -> Nat] /\ CurrentL1 \in [1 .. MaxStatus -> Nat]

\* A status, a later one, and one of a node that derived less from more of L1.
MCSafeL2 == <<1, 2, 1>>
MCCurrentL1 == <<1, 2, 3>>

VARIABLES
    part,
    node, active, leader, answers, tracker, poller, asked, status, last, channel,
    f_driver, current, f_cancelled, seen, delivered, events

Feed == INSTANCE StatusFeed
     WITH driver <- f_driver, cancelled <- f_cancelled

feed == <<node, active, leader, answers, tracker, poller, asked, status, last, channel,
          f_driver, current, f_cancelled, seen, delivered, events>>
mcvars == <<part, vars, feed>>

MCInit ==
    \/ /\ part = "service" /\ Init
       /\ Feed!Init /\ node = [s \in 1 .. N |-> 1] /\ active = {1} /\ leader = 1
    \/ /\ part = "feed" /\ Feed!Init
       /\ node[leader] = 2 /\ \A s \in 1 .. N \ {leader} : node[s] # 0 /\ node[s] # 2
       /\ Init /\ configured = {"poller"}

ServiceStep(step) == part = "service" /\ step /\ UNCHANGED <<part, feed>>
FeedStep(step) == part = "feed" /\ step /\ UNCHANGED <<part, vars>>

MCNext == ServiceStep(Next) \/ FeedStep(Feed!Next)

\* Cancelled tasks are scheduled, the join polls both of its branches, and requests
\* are answered. A process of the one part shares a conjunct with one of the other.
MCFairness ==
    /\ SF_mcvars(ServiceStep(Driver)) /\ SF_mcvars(ServiceStep(Watch))
    /\ WF_mcvars(ServiceStep(Returns) \/ FeedStep(Feed!Receive))
    /\ WF_mcvars(ServiceStep(TaskStops("leader")) \/ FeedStep(Feed!Tracker))
    /\ WF_mcvars(ServiceStep(TaskStops("poller")) \/ FeedStep(Feed!Poller))
    /\ \A t \in Tasks \ {"leader", "poller"} : WF_mcvars(ServiceStep(TaskStops(t)))

MCSpec == MCInit /\ [][MCNext]_mcvars /\ MCFairness

-----------------------------------------------------------------------------
(* Properties. *)

\* What run and its watch report is true: an alarm names a task that failed, or the
\* operator's stop came between the watch's two looks, and run returns "ok" only when
\* everything it started has ended, drained and without an error. The variables of both
\* parts have their types.
ReportsTrue == TypeOK /\ Feed!TypeOK /\ AlarmJustified /\ CleanReturn

\* Every change the poller saw reaches the driver, in the order it was seen and
\* without repetition, although the poller stops looking while the channel is full
\* and its requests cross changes of the leader.
ChangesDelivered == Feed!ChangesDelivered

\* Once the sequencers are quiet the last status the driver was given is that of the
\* active one, unless that one has no usable status (track_leader and the poller
\* together), and the driver acts on it. It acts on an earlier one only while the leader's
\* safe head is lower and the leader has not read L1 past the block of that one
\* (on_derivation_status): a leader that has is followed even backwards.
FollowsLeader == part = "feed" => Feed!FollowsLeader

\* Everything ends: a setup that fails leaves no task behind, run returns once anything
\* it started has ended or the operator stops it, and cancelling ends the tracker and
\* the poller, also one that waits for a driver that is gone.
ProcessEnds == NoOrphans /\ RunReturns /\ Feed!TasksEnd
=============================================================================
