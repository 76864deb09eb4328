# TLA+ models and proofs for the Base repository

The Base repository holds the software of an L2 chain. This directory models the
parts of it whose correctness rests on interleavings, retries, reorganisations and
restarts: the **batcher** (`crates/batcher`), the **transaction manager**
(`crates/utilities/tx-manager`), the **derivation and engine actors** of the consensus
node (`crates/consensus`) and the **life of a proof request** in the prover service
(`crates/proof`). Every definition is translated from the Rust source; `PROJECT.json`
maps each one to its lines.

The mapped lines are under two percent of the repository without its tests. Most of the
rest is execution, encodings, I/O, configuration and tools. `PROJECT.json` lists every
part of the repository, modelled or not, with the reason.

## The system and its modules

Blocks flow from the L2 source into the encoder's buffer, from there into the open
channel, from channels into artifacts (blobs or calldata), from artifacts into L1
transactions that the transaction manager sends. Receipts flow back and open or widen a
channel's confirmation window. The rollup node reads L1, derives L2 blocks from it and
has the engine insert and finalize them; its derivation status makes the batcher prune
what became safe, or reset and start again above the safe head. The encoder's backlog
drives the throttle, whose limits are pushed to the block builders. The prover service
queues proof requests in a database, from which workers claim them.

### Batcher

| Module | Source | State | Actions or operators |
|---|---|---|---|
| `SequenceOps` | none | none | operators on sequences, as in the community modules |
| `Channel` | `encoder/src/channel.rs` | a record: block range, compressed output not yet framed, deadline, confirmation window | one operator per method |
| `DaEgress` | `encoder/src/egress.rs`, `artifact.rs` | artifact ledger, leases of submissions | plan, commit, lease, confirm, requeue, prune, invalidate, reset |
| `BatchEncoder`, `EncoderInvariants` | `encoder/src/encoder.rs` | buffer, cursor, tip, channels, egress | one operator per method of the `BatchPipeline` trait; predicates of an encoder |
| `BatchPipeline` | the same | an encoder and what its client has in flight | the trait called in any order by a client that settles each submission at most once and stops at a fatal error |
| `DaLedger` | the same | states of artifacts | the abstract specification: what the encoder promises about submissions |
| `ReplayLoop` | `invalidate_channel` | none | the loop pass by pass, a reference for the closure `BatchEncoder` uses |
| `BatchDriver` | `core/src/driver.rs`, `submissions.rs` | encoder, transactions in flight, last derivation status, phase of the loop | one action per handler, per encoding step and per submission |
| `DaThrottle`, `ThrottleControl` | `core/src/throttle.rs` | controller, published limits | `compute_limits`, publish, `set_controller` |
| `ThrottlePush` | `service/src/throttle.rs`, the builder's `miner.rs` and `config.rs` | published limits, limits read last and applied per builder | push, wake, return; builders restart, refuse, time out, handle a push late; the two stores of the builder's handler |
| `RecentTxScan` | `service/src/recent_txs.rs` | bounds of the search, answers of L1 | one action per query of `RecentTxSyncTarget::find` |
| `L1Heads` | `source/src/l1_hybrid.rs` | last head, subscription, poll under way | the race of stream and poller, and the driver's arm that drops it |
| `L2Ingest` | `source/src/polling.rs`, driver | tip of the source, buffer, status | request, answer, reset; the node's chain changes between request and answer |
| `StatusFeed` | `derivation_status_poller.rs`, `sequencers.rs`, `rollup_node.rs`, the driver's `on_derivation_status` | leader, poller, bounded channel, status acted on | tracker, poller, the driver's accepting or ignoring |
| `BatcherService` | `service/src/service.rs` | stages of setup, tasks, what `run` awaits | setup step, task end, the watch, the join |

The encoder is synchronous and has no I/O, so its methods are operators and the
specifications that hold an encoder share them: the pipeline calls them in any order, the
driver in the order of its loop. A handler of the driver is one action, from the event to
the last call it makes. The CPU phase is one action per encoding step and one per
submission, because a fatal error can end it between any two.

### Transaction manager

| Module | Source | State | Actions |
|---|---|---|---|
| `NonceManager` | `nonce.rs`, `manager.rs` | cache, generation, returned nonces, lock, mempool, one program counter per call | `next_nonce` with its mutex and its unlocked fetch, and every end of `send` and `send_async` that touches a nonce |
| `SendLoop` | `manager.rs`, `send_state.rs` | versions in the mempool, pollers, receipt channel, send state, an L1 that reorganises | publish, bump, the queries of a poller, the loop's arms |
| `TxQueue` | `queue.rs` | permits, completion tasks, bounded result channel | dispatch, settle, deliver |

`BatchDriver` uses the manager by its promise: one outcome per transaction, in any order.

### Consensus node

| Module | Source | State | Actions or operators |
|---|---|---|---|
| `DerivationState` | `actors/derivation` (`state_machine.rs`, `finalizer.rs`) | states of the derivation actor, finalizer's map | transitions as operators |
| `EngineTasks` | `consensus/engine` (`task_queue`, `sync`) | engine heads, labels of the execution layer | insert, consolidate, finalize, reset with their severities |
| `SafeHeadDb` | `consensus/safedb` | table of safe heads | update, reset, query |
| `NodeActors` | `actors/derivation/actor.rs`, `actors/engine` | both actors, their channels, L1, execution layer | one action per message and per step |

The derivation pipeline is what its actor sees of it: it reads L1 blocks in order, yields
the attributes of the batch that follows the cursor, drops any other, needs data, reports a
reorganisation, fails a step (a temporary, a reset or a critical error) or fails a signal.
Of its stages only the traversal of L1 and the batch validator's choice are there.

### Prover service

| Module | Source | State | Actions or operators |
|---|---|---|---|
| `ProofRow` | `prover-service/db/src/repo.rs` | the row of one request | one operator per statement |
| `ProofQueue` | worker, worker API, status poller, `zk/backend`, `tee/nitro-host` | the row, workers, submissions, sessions, the cluster's requests | claim, heartbeat, generation step by step, submission with lost answers and retries, requeue, cancel, delete |

### Instances and proofs

`MC...` modules are small instances. Four of them hold several small models in one run:
the variable `part` says which one moves, the others rest in their initial state.
`MCPipelineTimeouts` takes one of two configurations, `MCSendLoop`, `MCNodeActors` and
`MCProofQueue` one of several plans (records of bounds), chosen in the initial state.

`EncoderProofs` (facts about sequences and sets, and one lemma per method of the
encoder), `PipelineProofs`, `DriverProofs`, `ServiceProofs`, `EdgesProofs`,
`NonceProofs`, `SendProofs` and `ProofQueueProofs` hold the theorems.

A definition with a fault in its name that stands right before the definition it resembles
(they are marked `Mutant`) is a bug the code could have had. Some property tells the two
apart.

## What is abstracted

*Batcher.* A block is its own hash. Bytes are counted in abstract units; the size of a
batch in a channel and its estimate in the backlog are the same number. The compressor is
the accepted input it has not emitted yet: an append emits any amount of it, a finish the
rest. Both return a `Result`; the faults "append" and "finish" are the error branches (the
present Brotli stream has no failing finish, so the fault runs are about the callers'
handling). The three protocol limits of `add_batch` grow with the input and are one
threshold. Random channel identifiers are fresh numbers. Throttle intensities are exact
fractions; the code uses doubles. A receipt without a block number counts as L1 block 0, as
in the code. The limit of 65,535 frames per channel is out of the bounds. Metrics, logs and
delays are left out: a poll may succeed at any time.

*Transaction manager.* Fees are levels; an error class is an input. Eviction from the
mempool is not modelled.

*Consensus node.* One batch per L1 block; the sequencing window is longer than the chain;
finality is slower than the node's noticing of a reorganisation: a number that is finalized
again before the node has noticed is assumed away (`FinalizeL1`). The sequencer's variant of
the engine actor is not modelled.

*Prover service.* One request. `status` follows `job_status`; a lease is none, live or
over; a cluster request that is not found counts as failed. Legacy rows, the legacy status
PENDING that the sweep of stuck rows also accepts (no statement of the present code writes
it), purges of the
cluster, the network backend and a change of the backend's kind are not modelled.

## Runs

| Run | Question | Bounds | States |
|---|---|---|---|
| `pipeline` | are queue, frames, ledger and windows right under every order of calls, and is `DaLedger` implemented | chain `g`-`a1`-`a2` and a fork `b1`, L1 blocks 0..2, 3 channels, 3 submissions, blobs of four units, two blobs a transaction; also a timeout of 0 with L1 blocks 0..1 and 4 submissions | 246,332 |
| `pipeline_calldata` | is no frame lost in silence with calldata, a size target, the blob override, a block that cannot be composed, failing appends and finishes | as above with 2 channels and frames of one unit | 257,036 |
| `driver` | does the loop keep step with its encoder through reorgs, resets, operators, late receipts, shutdown | two places in flight, slices of two steps, blobs of one unit, L1 blocks 0..2 | 753,939 |
| `driver_throttle` | a driver that starts stopped, throttles, forces blobs and meets faults: are the published limits those of its backlog | one place in flight, two controllers | 93,218 |
| `batcher_service` | does everything end, are alarms true, does the driver hear every status and act on the leader's | one fault; two sequencers, three statuses that differ in safe head and L1 block, two events; the leader starts at the middle one | 103,036 |
| `batcher_edges` | are scan, L1 heads and L2 blocks right while the chain moves; are the limits of every strategy in range, and do they reach the builders | blocks 0..4, nonces 0..2, depth 3; heads up to 3; L2 of length 4, L1 up to 2; one reorganisation, drop and fault each; 16 controllers with odd ranges and backlog 0..8; one builder, the limits of three backlogs and three events | 287,911 |
| `tx_nonces` | is a nonce neither shared nor lost, are permits counted, is every sender served | two calls, two attempts, one retry, nonces up to 3, three faults (one for `send`), leftovers 0 and 1; five transactions, two permits, a channel of one | 245,410 |
| `tx_send` | is a receipt canonical, is every version watched, does the send end | three versions, two confirmations, threshold 2; plans for growth, reorganisation, faults, bumps | 369,236 |
| `node` | are the heads the ones L1 determines, is finality kept | seven plans: restarts, invalid batches, faults of the execution layer, an L1 reorg, failing steps and database writes, a quiet watcher, a failing signal | 2,384,354 |
| `node_live` | does derivation go on | three plans: a quiet node, one that resumes after a reorg or a failed reset, one whose steps and signals fail | 415,917 |
| `proof_queue` | are budgets and claims kept, does the stored proof fit, does every request end | two workers; a TEE, a compressed and a SNARK request; two attempts, one retry, two cluster requests a stage | 411,025 |
| `nonce_shared` | violated: see Findings | two `send` callers, two faults | |

Why the bounds are enough for the questions asked. In `pipeline` these states are reached
(each was checked by refuting its negation): a blob shared by two channels, a lease of two
blobs, a lease of which one artifact is pruned, a transaction whose lease is gone, an
expiry whose replay pulls in an earlier channel through a shared blob, a channel cut by a
safe head in the middle of its range, a channel with frames in two artifacts, a stalled
channel. A replay that pulls in a channel through a shared transaction alone takes four
submissions, which the second configuration has. `driver` reaches a slice that ends with
the in-flight limit reached, output that waits for a place, a stop with transactions in
flight, a lease that is gone when its receipt comes. `tx_nonces` has a reset that overtakes
a fetch and a returned nonce beside a pending one; `tx_send` a reorganisation between any
two queries of a poller; `node` a reset, a restart or a flush between any two messages, and
an error of each kind at any step of the pipeline; `batcher_edges` a builder that applies the
one limit of one publication and the other of the next (one builder is enough: it shares
nothing with another but the published limits); `batcher_service` a status the driver
ignores and one that takes it back;
`proof_queue` a worker that goes on beside the one that took its claim over.

Every property has a mutant of the code that its run's bounds expose. Deadlock is not
checked: each of these systems may stop (a fatal error, a driver or a send that returned, a
request that ended), or stands still at the bound of a counter.

### Properties

*Pipeline.* `BooksExact`: channel ranges tile the encoded prefix, no channel is empty, an
artifact is pending exactly while one submission leases it. `ChannelsExact`: a channel's
stream holds the linked blocks its range names, and its window is the span of its receipts.
`FramesDelivered`: a reader of the artifacts gets every frame of a retained channel once, in
order, within the limits, with one terminal frame at the end. `ReplayMatchesLoop`: the
closure of a replay is what the loop computes. `SettledOnlyByCarrier`, `OldestFirst`: what
a step may do. `ImplementsLedger`: the refinement. `LostTailReported`: a channel that lost
its end is reported.

*Driver.* `DriverInStep`: the buffer starts at the driver's safe head and ends at the
source's tip, and every lease has a transaction that will settle it. `NoExpiredChannel`: no
channel outlives its window. `NothingStranded`: a waiting driver has done what it could.
`NoTruncatedChannelSent`: a running driver does not send the last frame of a channel that
lost its end. `LimitsCurrent`: a waiting driver has published the limits of its backlog.

*Service and edges.* `ReportsTrue`, `ChangesDelivered`, `ProcessEnds`, `FollowsLeader`;
`ScanCorrect`, `DeliveredInOrder`, `PublishedInRange` (limits are in the range of a
configured controller, never 0; a builder applies only limits that were published, each of
the two in its own place), `LimitsMonotone` (a growing backlog never loosens a limit),
`EdgesCatchUp` (sources and builders catch up).

`FollowsLeader`: when the sequencers are quiet the driver acts on the leader's status, or
ignores it because the leader has the lower safe head and has not read L1 further; a leader
that has is followed backwards. A builder's handler stores the two limits one after the
other, so between two pushes it may apply one limit of each; `EdgesCatchUp` says that the
next refresh repairs it.

*Transaction manager.* `NoncesDistinct`, `NothingLost`, `SyncFreshAfterReset`,
`SendersServed`; `ReceiptCanonical`, `VersionsWatched`, `SendEnds`.

*Node.* `ActorsInStep`, `HeadsDerived`, `ForkchoiceSound`, `FinalityKept`,
`DerivationGoesOn`. They hold through faults, with these exceptions, each a place where the
code does otherwise:

* a pipeline that fails a signal is past batches it should read again, since the actor only
  logs the failure: after that the safe head is made of batches on the L1, not of the first
  ones (`SafeDerived`), and need not catch up (`CatchesUp`); the pipeline still reads all of
  the L1 (`ReadsL1`);
* a database write that fails is only logged: the database then answers an ancestor of the
  right block, never another (`DatabaseRight`);
* an L1 notice between a reset signal and the safe head after it resumes derivation on the
  old head: `DerivesFromSafeHead` exempts it, and `HeadsOrdered` exempts it together with a
  late import; `SafeDerived` does not;
* a provider's temporary error yields with L1 data unread, and only a further L1 head
  resumes it: `DerivationGoesOn` asks for one;
* that neither actor ends, that one attributes awaits and that the finalized head comes from
  finalized L1 blocks (`ActorsAlive`, `OneAwaiting`, `FinalizedDerived`) are stated for a
  node no reset or flush has disturbed; after a reorganisation the order of the heads and
  `FinalityKept` remain.

*Prover service.* `WorkBounded`, `StoredRight`, `ClaimsRespected`, `EveryRequestEnds`.

The comment above each definition states it in full.

### Fairness

* Throttle pushers: the timer of a waiting pusher fires and a cancelled one returns (`run`
  is a loop over a `select!`), a push is answered once failures cease (the client has a
  timeout), a request on its way lands or is lost.
* Service: tasks stop once cancelled, and `run` returns once all have ended. Strong
  fairness for the driver and the watch, because one join polls both branches each time it
  is woken, so neither is passed over for ever. Tracker, poller and driver of the status
  feed run on.
* Sources: each is a loop around a request that is answered; the sequencer's chain grows,
  the node derives, statuses are sent.
* Nonces: L1 mines what is next; a call that can go on goes on; a caller of the queue and
  each completion task run on. Nothing makes a fault stop except its bound.
* Send: the loop and the pollers run on; L1 includes one of the versions in its pool and
  builds on it.
* Node: both actors and the watcher run on, and L1 grows; errors of steps and signals end
  only by their bounds. The watcher is slower than the actors (see the hazard about the full
  channel).
* Proof queue: workers, submissions and the poller run on; a lease nobody renews runs out;
  a request on the cluster ends.

All but the two of the service are weak.

## Proofs

TLAPS proves these theorems for every value of the constants that the named assumptions
allow: any chain and any sizes of blocks, any number of calls, versions, workers,
sequencers, channels and permits, any bounds on faults.

| Theorem | States | Module |
|---|---|---|
| `PipelineInvariant` | the inductive invariant of the encoder behind its trait | `PipelineProofs` |
| `BooksAreExact` | `BooksExact` | |
| `CarriersSettle`, `OldestGoFirst` | the action properties `SettledOnlyByCarrier`, `OldestFirst` | |
| `EncoderImplementsLedger` | the refinement `ImplementsLedger` | |
| `DriverIsInStep`, `NothingIsStranded` | `DriverInStep`, `NothingStranded` | `DriverProofs` |
| `ReportsAreTrue`, `ChangesAreDelivered` | `ReportsTrue`, `ChangesDelivered` | `ServiceProofs` |
| `ScanRight`, `SourcesInOrder` | `ScanCorrect`, `DeliveredInOrder` | `EdgesProofs` |
| `LimitsOfEveryController` | what `compute_limits` returns for any valid controller and backlog | |
| `PublicationsInRange`, `LimitsAreMonotone` | `PublishedInRange` (any number of builders), and the action property `LimitsMonotone` | |
| `AsyncNonces` | `NoncesDistinct` for callers of `send_async` | `NonceProofs` |
| `NothingIsLost`, `SyncIsFresh` | `NothingLost`, `SyncFreshAfterReset` | |
| `VersionsAreWatched`, `ReceiptsAreCanonical` | `VersionsWatched`, and the action property `ReceiptCanonical` | `SendProofs` |
| `WorkIsBounded`, `StoredIsRight` | `WorkBounded`, `StoredRight` | `ProofQueueProofs` |
| `ClaimsAreRespected` | the action property `ClaimsRespected` | |

**Encoder.** From `BlockAssumption` and `ConfigAssumption` (a chain of blocks of positive
size, a configuration the validation accepts) and `BoundAssumption`. `PipelineInv` has two
halves. `QueueInv` says that the encoder has its shape, channel ranges tile the encoded
prefix, they are in order and only the tail is open. The tiling alone is not inductive: a
prune needs the order of the ranges to know that it drops a prefix, and an encode needs the
open tail to end at the cursor. `LedgerInv` says that pending artifacts and leases agree,
leases are disjoint, every artifact lists at least one channel and only retained ones, and
identifiers are below the counters. The lists are needed because a prune forgets an
artifact exactly when its list runs empty. `PipelineInv` adds that channels are filled
unless the client met a fatal error, and `Carried`: a lease the encoder still tracks is part
of what the client's transaction carries. `Carried` connects the ledger to the receipts the
client may still deliver, and makes `SettledOnlyByCarrier` provable after resets and
replays. The argument is one lemma per trait method: it keeps `EncoderInv`, and it moves
the ledger not at all, by forgetting, by building and leasing, or by settling.

**Driver.** From `DriverAssumption` and the encoder's. `DriverInv` reuses the lemmas about
the encoder's methods: `Books` (the encoder's invariant, and leases are numbered below the
counter) holds in every phase, `Works` (channels filled, every lease backed by a transaction)
while the driver runs, because a failed driver leaves an encoder that no one reads. The
buffer's anchor needs the safe head and the source's tip together: a reset moves both. What
`NothingStranded` says of a waiting driver is carried through the phases: leaving the CPU
phase means all is encoded or a slice is due, leaving the submission phase means the limit
is reached or nothing is ready.

**Service.** From `ServiceAssumption` and `FeedAssumption`. `ServiceInv` says where the
joined task is (driver and watch are never both between two looks), what the watch has
concluded, and that a task ends by itself only after a cancellation or the end of the
driver. The last is what makes an alarm's justification inductive. `FeedInv` adds that the
poller compares with what it sent last.

**Edges.** From `ScanAssumption`, `PartAssumption` and `ThrottleAssumption`. `ScanInv` relates the bounds of the
search to the answers read: the account had the nonce at the upper bound and a lower one
just below the lower bound; with no reorganisation the answers are the chain's. `HeadsInv`:
whatever is under way to the source, L1 has had, and the last head is the last one reported.
`IngestInv`: the buffer is numbered from the safe head, and an empty buffer or a missing tip
says where the source stands. For the throttle, the intensity is a quotient: the lemmas bound
it by the controller's maximum and show that it grows with the backlog, from which the
range and the monotony of the limits follow by linear arithmetic on the interpolated limits.
`PublicationsInRange` adds `PusherInv`: everything in the history of publications is in the
range of a controller; what a pusher has read, what a late push carries, and each of the two
limits a builder applies is in that history. The history never shrinks, so a late push stays
harmless, and because it is stated for each limit by itself it survives two handlers that
interleave between their stores.

**Nonces.** From `NonceAssumption` and `PartAssumption`. `AsyncInv`: who holds a nonce, the
cache is the high-water mark or nothing was issued yet, no nonce is in two hands, every
nonce issued and not mined is accounted for. `SyncInv` is the weaker invariant of callers of
`send`, whose resets empty the cache. `NothingIsLost` assumes `Async = Slot`, as in the run:
the callers of `send` have a copy of the state of their own. `QueueInv` counts permits over
the transactions that wait.

**Send.** From `SendAssumption`. `SendInv`: a block a poller has read about had the version
in it, or was built on a fork that has been replaced; only an accepted version has a poller;
a poller that ended has handed on its receipt or the loop has it.

**Proof queue.** From `BudgetAssumption` and `QueueAssumption`. `QueueInv` is the
conjunction of seven invariants: the row, the cluster's requests (made one after the other,
each when those before it have failed), the workers, `HandsInv` (a claim is in one hand, of
one worker or one submission), `AnswersInv` (a submission that was refused or missed has
lost its claim for good), `HeadsInv` (a TEE proof is for the request's head as long as its
claim holds the job), `SessionsInv`. `HandsInv` is what makes the rest inductive: without it
a second submission of one claim could overwrite the first.

### What is only model-checked

* Liveness, which TLAPS cannot do: `ProcessEnds`, `FollowsLeader`, `EdgesCatchUp`, `SendersServed`, `SendEnds`, `DerivationGoesOn`, `EveryRequestEnds`.
* What needs induction over folds or over the recursive function that cuts frames:
  `ChannelsExact`, `FramesDelivered`, `ReplayMatchesLoop` (a RECURSIVE operator),
  `LostTailReported`, `NoTruncatedChannelSent`, and `NoExpiredChannel`, which is about a loop
  that replays until nothing is expired.
* `LimitsCurrent`: the backlog is a fold over the channels.
* The node (`ActorsInStep`, `HeadsDerived`, `ForkchoiceSound`, `FinalityKept`): what L1
  determines is a fold over the chain, and the invariant has to speak of every message
  between the actors that a reset has made stale.

## Findings

`nonce_shared`: a `send` that fails before it signs resets the cache while another send's
transaction is in flight, and the next send signs with that nonce (`manager.rs:1064`),
although the comment at `manager.rs:1028` says that "the cache cannot rewind past a nonce
another task is using". The run violates `NoSharedNonce`. Callers of `send_async` are not
affected: `NoncesDistinct` holds and is proved.

Other places where code and comment disagree, met while modelling. They are not runs; the
properties above are stated so that they hold of the code.

| Code | Says | Does |
|---|---|---|
| `manager.rs:1083` | :1033, nonces that never reached the mempool are returned | a publication whose answer is lost counts as one that never happened |
| `manager.rs:1285` | :1284, a poller for the bumped transaction | after a lost answer and `AlreadyKnown` the poller is for the older version |
| `manager.rs:1701` | :1511, receipt at `num_confirmations` depth; :1626, order of calls does not matter | the depth may come from a block number read before a reorganisation |
| `driver.rs:174` | `service.rs:70`, the driver always drains | a stop between two looks of one poll is answered with the closed channel's error |
| `actor.rs:280` (derivation) | `state_machine.rs:152`, at most one attributes awaiting | an L1 notice between signal and safe head starts derivation from the old head |
| `actor.rs:142` | `safedb/db.rs:150`, numbers rise | a reset goes to the head confirmed before it and keeps entries above the new one |
| `finalizer.rs:88` | :85, highest safe block in the finalized chain | entries are selected by number alone, whether safe, canonical or not |
| `engine/src/sync/mod.rs:188` | :31, window complete within the canonical chain | the walk stops at the safe label and checks origins only |
| `actor.rs:142` | :322, earlier entries are preserved | the initial reset deletes them |
| `cluster.rs:585` | `types.rs:206`, `repo.rs:156`, the head of a retry may be replaced | request ids do not depend on the head, so the old head's proof may be reused |
| `rollup.rs:191` | one sync status | heads are read one after the other |

## Known limits

* With the default `tx_send_timeout` of 0 a send goes on for ever when a foreign transaction
  or a version whose answer was lost takes its nonce after the fee limit has stopped the
  bumps. `SendEnds` excludes the runs in which this happens.
* That every unsafe block is posted and becomes safe needs the driver, L1 inclusion and the
  derivation pipeline's channel bank in one model. `NothingStranded` and `EdgesCatchUp`
  are the batcher's side of it.
* Derivation and engine can wait on each other when a channel of 1,024 notices is full. It
  takes hours of L1 heads within one attempt to derive; `DerivationGoesOn` is checked with a
  watcher slower than the actors.
* Not modelled: admin server, fee arithmetic, the derivation pipeline's stages but its
  L1 traversal and batch choice, the sequencer, networking, the block builder, execution and its precompiles, the transaction
  pool, flashblocks, proof history storage, proposer, challenger and registrar, the fault
  proof program, tools. They are mostly data, I/O or other people's frameworks;
  `PROJECT.json` says why for each.
