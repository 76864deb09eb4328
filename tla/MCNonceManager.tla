--------------------------- MODULE MCNonceManager ---------------------------
(***************************************************************************)
(* The account's nonces in one run: the ones that send_async reserves, the *)
(* queue above send_async that bounds the sends in flight, and Sync, the   *)
(* nonces of a process whose callers all use send.  part says which of     *)
(* them runs; the others rest in their initial state.                      *)
(***************************************************************************)
EXTENDS NonceManager

CONSTANTS Transactions, MaxPending, Capacity, MaxSyncFaults

ASSUME PartAssumption ==
    /\ Transactions \in Nat /\ MaxPending \in Nat \ {0} /\ Capacity \in Nat \ {0}
    /\ MaxSyncFaults \in Nat

VARIABLES
  s_nonce, s_generation, s_high, s_returned, s_holder, s_pc, s_held,
  s_recycled, s_snapshot, s_fetched, s_tries, s_closed, s_faults,
  s_mined, s_pool, s_floor

Sync == INSTANCE NonceManager
     WITH Async <- {}, PublishRetries <- 0, MaxFaults <- MaxSyncFaults,
          nonce <- s_nonce, generation <- s_generation, high <- s_high,
          returned <- s_returned, holder <- s_holder, pc <- s_pc,
          held <- s_held, recycled <- s_recycled, snapshot <- s_snapshot,
          fetched <- s_fetched, tries <- s_tries, closed <- s_closed,
          faults <- s_faults, mined <- s_mined, pool <- s_pool, floor <- s_floor

VARIABLES part, permits, caller, sent, task, results, received

Queue == INSTANCE TxQueue

queue == <<permits, caller, sent, task, results, received>>
sync == <<s_nonce, s_generation, s_high, s_returned, s_holder, s_pc, s_held,
          s_recycled, s_snapshot, s_fetched, s_tries, s_closed, s_faults,
          s_mined, s_pool, s_floor>>
mcvars == <<part, vars, queue, sync>>

MCInit ==
    /\ Init /\ Queue!Init /\ Sync!Init
    /\ \/ part = "async" /\ s_pool = {}
       \/ part = "sync" /\ pool = {}
       \/ part = "queue" /\ pool = {} /\ s_pool = {}

NonceStep(step) == part = "async" /\ step /\ UNCHANGED <<part, queue, sync>>
QueueStep(step) == part = "queue" /\ step /\ UNCHANGED <<part, vars, sync>>
SyncStep(step) == part = "sync" /\ step /\ UNCHANGED <<part, vars, queue>>

MCNext == NonceStep(Next) \/ QueueStep(Queue!Next) \/ SyncStep(Sync!Next)

\* The runtime polls every task, L1 includes what its mempool holds, and
\* transactions settle.
MCFairness ==
    /\ WF_mcvars(NonceStep(Mine))
    /\ \A s \in Slot : WF_mcvars(NonceStep(Progress(s)))
    /\ WF_mcvars(QueueStep(Queue!Caller))
    /\ \A i \in Queue!Tx : WF_mcvars(QueueStep(Queue!Completion(i)))

MCSpec == MCInit /\ [][MCNext]_mcvars /\ MCFairness

-----------------------------------------------------------------------------
(* Properties. *)

\* Nothing that was handed out is lost. A nonce that was issued and is not mined belongs
\* to a call, waits to be issued again or is in the mempool, for the callers of
\* send_async and for those of send, whose errors also reset the cache; as many permits
\* of the queue are out as transactions wait to settle, plus the one the caller is about
\* to use (dispatch of queue.rs). The variables of all parts have their types.
NothingLost ==
    /\ TypeOK /\ Sync!TypeOK /\ Queue!TypeOK
    /\ NoNonceLost /\ Sync!NoNonceLost /\ Queue!PermitsAccounted

\* What a reset of the cache forgot does not come back: the cache is never filled
\* with a nonce the chain had passed when the cache was reset, also by a fetch the
\* reset overtook (the generation next_nonce compares).
SyncFreshAfterReset == Sync!FreshAfterReset

\* Every sender is served. The account never gets stuck on a nonce that a failed send
\* left behind; and every result of the queue reaches its caller, once, although the
\* caller may send all its transactions before it drains the first result.
SendersServed ==
    /\ part = "async" => AllNoncesMined
    /\ part = "queue" => Queue!AllReceived
=============================================================================
