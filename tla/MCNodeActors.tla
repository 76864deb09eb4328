----------------------------- MODULE MCNodeActors -----------------------------
(* Plans for NodeActors. *)
EXTENDS NodeActors

CONSTANT g1

\* Nothing goes wrong.
Calm ==
  [l1 |-> 2, batches |-> {g1}, reorgs |-> 0, gossip |-> 2, elFaults |-> 0, deferrals |-> 0,
   restarts |-> 0, failedResets |-> 0, yields |-> 0, stepErrors |-> 0, failedSignals |-> 0,
   dbFaults |-> 0, capacity |-> 4, interrupts |-> TRUE, endless |-> FALSE]

\* The node restarts.
Restarting == [Calm EXCEPT !.restarts = 1, !.capacity = 2]

\* Batches hold attributes that are invalid or refused.
Invalid == [Calm EXCEPT !.batches = {g1, Bad, Rejected}, !.gossip = 1]

\* The execution layer loses blocks, syncs, and fails a reset.
Faulty == [Calm EXCEPT !.gossip = 1, !.elFaults = 1, !.deferrals = 1, !.failedResets = 1]

\* The L1 reorgs.
Reorging == [Calm EXCEPT !.l1 = 3, !.reorgs = 1, !.gossip = 1, !.capacity = 2]

\* Steps of the pipeline fail, and a write of the database.
Failing == [Calm EXCEPT !.gossip = 1, !.yields = 1, !.stepErrors = 1, !.dbFaults = 1]

\* Blocks are lost and pipeline steps fail, and the watcher is quiet while the engine
\* sends its messages.
InOrder ==
  [Calm EXCEPT !.gossip = 1, !.elFaults = 1, !.stepErrors = 1, !.interrupts = FALSE]

\* Blocks are lost, and the pipeline fails the signal of the reset that follows.
Unsignalled == [Calm EXCEPT !.batches = Good, !.gossip = 1, !.elFaults = 1, !.failedSignals = 1]

\* One unsafe block, and an L1 that only grows.
Quiet == [Calm EXCEPT !.gossip = 1]

\* The L1 reorgs, a reset fails, and the L1 goes on.
Resuming ==
  [Calm EXCEPT !.gossip = 1, !.reorgs = 1, !.failedResets = 1, !.capacity = 8, !.endless = TRUE]

\* Pipeline steps and a signal fail, and the L1 goes on.
Retrying ==
  [Calm EXCEPT !.gossip = 1, !.yields = 1, !.stepErrors = 1, !.failedSignals = 1,
               !.capacity = 8, !.endless = TRUE]

MCPlans == {Restarting, Invalid, Faulty, Reorging, Failing, InOrder, Unsignalled}
MCLivePlans == {Quiet, Resuming, Retrying}
=============================================================================
