---------------------------- MODULE NonceManager ----------------------------
(***************************************************************************)
(* The nonces of one signing account: NonceManager (nonce.rs) and what     *)
(* send_async, send and send_tx do to it (manager.rs), all of them in      *)
(* crates/utilities/tx-manager/src.  Slots of Async call send_async, as    *)
(* the batcher does; the other slots call send, as the proof services do.  *)
(* A slot sends one transaction after the other.  The account on L1 is the *)
(* number of its mined transactions and the nonces waiting in the mempool; *)
(* a publication may be accepted while its answer is lost.                 *)
(***************************************************************************)
EXTENDS Integers

CONSTANTS
    Slot,           \* concurrent callers of the transaction manager
    Async,          \* the callers that use send_async
    None,           \* the absent nonce
    MaxAttempts,    \* MAX_RETRY_ATTEMPTS of next_nonce
    PublishRetries, \* publish_max_retries, for NonceTooHigh
    Leftover,       \* nonces an earlier process may have left in the mempool
    MaxNonce,       \* nonces of a run
    MaxFaults       \* failures of the endpoint, the signer or the clock in a run

ASSUME NonceAssumption ==
    /\ Async \subseteq Slot
    /\ None \notin Int /\ None \notin Slot
    /\ MaxAttempts \in Nat \ {0}
    /\ PublishRetries \in Nat
    /\ Leftover \subseteq Nat
    /\ MaxNonce \in Nat
    /\ MaxFaults \in Nat

VARIABLES
    nonce,      \* the cached nonce, or None
    generation, \* resets of the cache
    high,       \* reserved_high_water
    returned,   \* returned_nonces
    holder,     \* the slot whose NonceGuard holds the mutex, or None
    pc,         \* pc[s]: where the call of slot s is
    held,       \* held[s]: the nonce the call of slot s has
    recycled,   \* recycled[s]: its guard took the nonce from returned
    snapshot,   \* snapshot[s]: the generation its fetch started in
    fetched,    \* fetched[s]: the nonce its fetch read
    tries,      \* tries[s]: attempts of next_nonce, then of publish_tx
    closed,     \* the manager is closed
    faults,     \* faults so far
    mined,      \* the account's nonce at the latest L1 block
    pool,       \* nonces of the account's transactions in the mempool
    floor       \* mined at the last reset

cache == <<nonce, generation, high, returned, holder>>
calls == <<pc, held, recycled, snapshot, fetched, tries>>
l1 == <<mined, pool>>
vars == <<cache, calls, closed, faults, l1, floor>>

MaxOf(a, b) == IF a > b THEN a ELSE b

\* A process starts with an empty cache. Transactions of an earlier process
\* may still be in the mempool.
Init ==
    /\ nonce = None /\ generation = 0 /\ high = 0 /\ returned = {}
    /\ holder = None
    /\ pc = [s \in Slot |-> "idle"]
    /\ held = [s \in Slot |-> None]
    /\ recycled = [s \in Slot |-> FALSE]
    /\ snapshot = [s \in Slot |-> 0]
    /\ fetched = [s \in Slot |-> 0]
    /\ tries = [s \in Slot |-> 0]
    /\ closed = FALSE
    /\ faults = 0
    /\ mined = 0
    /\ pool \in SUBSET Leftover
    /\ floor = 0

-----------------------------------------------------------------------------
(* How a call ends. *)

Fault ==
    /\ faults < MaxFaults
    /\ faults' = faults + 1

(* Mutant: a send that has no nonce to show never resets the cache. *)
ShouldResetSigned(s, n, error) ==
    s \notin Async /\ error = "timeout" /\ n # None

\* should_reset_nonce_on_send_error; n is the signed or reserved nonce.
ShouldReset(s, n, error) ==
    s \notin Async /\ (error = "timeout" \/ n = None)

\* should_return_reserved_nonce
ShouldReturn(n, error, published) ==
    n # None /\ error # "nonceTooLow" /\ ~published

\* The call of s fails with error, holding nonce n: what send_tx does next.
Fails(s, n, error, published) ==
    /\ pc' = [pc EXCEPT ![s] =
                CASE ShouldReset(s, n, error) /\ ShouldReturn(n, error, published)
                       -> "resetThenReturn"
                  [] ShouldReset(s, n, error) /\ ~ShouldReturn(n, error, published)
                       -> "reset"
                  [] ~ShouldReset(s, n, error) /\ ShouldReturn(n, error, published)
                       -> "return"
                  [] OTHER -> "idle"]
    /\ held' = [held EXCEPT ![s] =
                  IF ShouldReturn(n, error, published) THEN n ELSE None]
    /\ tries' = [tries EXCEPT ![s] = 0]
    /\ UNCHANGED <<recycled, snapshot, fetched>>

\* reset: the cache is cleared, the returned nonces stay.
Reset(s) ==
    /\ pc[s] \in {"reset", "resetThenReturn"}
    /\ holder = None
    /\ nonce' = None
    /\ generation' = generation + 1
    /\ floor' = mined
    /\ pc' = [pc EXCEPT ![s] = IF pc[s] = "reset" THEN "idle" ELSE "return"]
    /\ UNCHANGED <<high, returned, holder, held, recycled, snapshot, fetched,
                   tries, closed, faults, l1>>

(* Mutant: the failed call forgets its nonce. *)
ReturnNothing(s) ==
    /\ pc[s] = "return"
    /\ holder = None
    /\ pc' = [pc EXCEPT ![s] = "idle"]
    /\ held' = [held EXCEPT ![s] = None]
    /\ UNCHANGED <<cache, recycled, snapshot, fetched, tries, closed, faults, l1, floor>>

\* return_reserved_nonce
ReturnReservedNonce(s) ==
    /\ pc[s] = "return"
    /\ holder = None
    /\ returned' = returned \cup {held[s]}
    /\ pc' = [pc EXCEPT ![s] = "idle"]
    /\ held' = [held EXCEPT ![s] = None]
    /\ UNCHANGED <<nonce, generation, high, holder, recycled, snapshot, fetched,
                   tries, closed, faults, l1, floor>>

-----------------------------------------------------------------------------
(* next_nonce. *)

\* send_async reserves a nonce first; send prepares the transaction first and
\* returns at once when the manager is closed.
Start(s) ==
    /\ pc[s] = "idle"
    /\ s \in Async \/ ~closed
    /\ pc' = [pc EXCEPT ![s] = IF s \in Async THEN "lock" ELSE "preparing"]
    /\ UNCHANGED <<cache, held, recycled, snapshot, fetched, tries, closed, faults, l1, floor>>

(* Mutant: the high-water mark is the last reserved nonce, not the one after. *)
EffectiveOffByOne(n) == MaxOf(n, high) - 1

\* The fresh nonce advance_nonce allocates when n is cached.
Effective(n) == MaxOf(n, high)

Smallest(r) == {x \in r : \A y \in r : x <= y}

(* Mutant: the reissued nonce stays in the pool. *)
AdvanceKeeping(s, n, r) ==
    \E got \in IF r # {} THEN Smallest(r) ELSE {Effective(n)} :
      /\ got < MaxNonce
      /\ nonce' = IF r # {} THEN n ELSE got + 1
      /\ returned' = r
      /\ held' = [held EXCEPT ![s] = got]
      /\ recycled' = [recycled EXCEPT ![s] = r # {} /\ s \notin Async]
      /\ high' = IF s \in Async THEN MaxOf(high, got + 1) ELSE high
      /\ holder' = IF s \in Async THEN None ELSE s
      /\ pc' = [pc EXCEPT ![s] = IF s \in Async THEN "starting" ELSE "signing"]
      /\ tries' = [tries EXCEPT ![s] = 0]

(* Mutant: the returned nonces are only kept, never issued again. *)
AdvanceFresh(s, n, r) ==
    \E got \in {Effective(n)} :
      /\ got < MaxNonce
      /\ nonce' = got + 1
      /\ returned' = r
      /\ held' = [held EXCEPT ![s] = got]
      /\ recycled' = [recycled EXCEPT ![s] = FALSE]
      /\ high' = IF s \in Async THEN MaxOf(high, got + 1) ELSE high
      /\ holder' = IF s \in Async THEN None ELSE s
      /\ pc' = [pc EXCEPT ![s] = IF s \in Async THEN "starting" ELSE "signing"]
      /\ tries' = [tries EXCEPT ![s] = 0]

\* advance_nonce with n cached and r the returned nonces: the smallest returned
\* nonce is issued before a fresh one. reserve_nonce consumes it at once
\* (consume_reserved); send keeps the guard, and the mutex, until it has signed.
AdvanceNonce(s, n, r) ==
    \E got \in IF r # {} THEN Smallest(r) ELSE {Effective(n)} :
      /\ got < MaxNonce
      /\ nonce' = IF r # {} THEN n ELSE got + 1
      /\ returned' = r \ {got}
      /\ held' = [held EXCEPT ![s] = got]
      /\ recycled' = [recycled EXCEPT ![s] = r # {} /\ s \notin Async]
      /\ high' = IF s \in Async THEN MaxOf(high, got + 1) ELSE high
      /\ holder' = IF s \in Async THEN None ELSE s
      /\ pc' = [pc EXCEPT ![s] = IF s \in Async THEN "starting" ELSE "signing"]
      /\ tries' = [tries EXCEPT ![s] = 0]

\* next_nonce takes the mutex and finds a cached nonce.
CacheHit(s) ==
    /\ pc[s] = "lock" /\ holder = None /\ nonce # None
    /\ AdvanceNonce(s, nonce, returned)
    /\ UNCHANGED <<generation, snapshot, fetched, closed, faults, l1, floor>>

\* next_nonce finds no cached nonce: it notes the generation and lets go of
\* the mutex before it asks the chain.
CacheMiss(s) ==
    /\ pc[s] = "lock" /\ holder = None /\ nonce = None
    /\ snapshot' = [snapshot EXCEPT ![s] = generation]
    /\ pc' = [pc EXCEPT ![s] = "fetching"]
    /\ UNCHANGED <<cache, held, recycled, fetched, tries, closed, faults, l1, floor>>

\* get_transaction_count at the latest block.
Fetch(s) ==
    /\ pc[s] = "fetching"
    /\ fetched' = [fetched EXCEPT ![s] = mined]
    /\ pc' = [pc EXCEPT ![s] = "relock"]
    /\ UNCHANGED <<cache, held, recycled, snapshot, tries, closed, faults, l1, floor>>

\* The fetch fails or times out. send_async reports it; in send the error is
\* retryable and prepare starts over, until it gives up.
FetchFails(s) ==
    /\ pc[s] = "fetching"
    /\ Fault
    /\ \/ /\ s \in Async
          /\ pc' = [pc EXCEPT ![s] = "idle"]
          /\ tries' = [tries EXCEPT ![s] = 0]
          /\ UNCHANGED <<held, recycled, snapshot, fetched>>
       \/ /\ s \notin Async
          /\ pc' = [pc EXCEPT ![s] = "preparing"]
          /\ tries' = [tries EXCEPT ![s] = 0]
          /\ UNCHANGED <<held, recycled, snapshot, fetched>>
       \/ /\ s \notin Async
          /\ Fails(s, None, "rpc", FALSE)
    /\ UNCHANGED <<cache, closed, l1, floor>>

(* Mutant: a fetch that a reset overtook is used. *)
StaleNever(s) == FALSE

\* The cache was reset while s was fetching.
Stale(s) == generation # snapshot[s]

\* next_nonce takes the mutex again: only the first fetch fills the cache.
\* Returned nonces below the fetched one were mined and are pruned.
FillCache(s) ==
    /\ pc[s] = "relock" /\ holder = None /\ ~Stale(s)
    /\ AdvanceNonce(s, IF nonce = None THEN fetched[s] ELSE nonce,
                    {r \in returned : r >= fetched[s]})
    /\ UNCHANGED <<generation, snapshot, fetched, closed, faults, l1, floor>>

\* A reset overtook the fetch: next_nonce tries again, and gives up after
\* MAX_RETRY_ATTEMPTS.
RetryFetch(s) ==
    /\ pc[s] = "relock" /\ holder = None /\ Stale(s)
    /\ \/ /\ tries[s] + 1 < MaxAttempts
          /\ pc' = [pc EXCEPT ![s] = "lock"]
          /\ tries' = [tries EXCEPT ![s] = @ + 1]
          /\ UNCHANGED <<held, recycled, snapshot, fetched>>
       \/ /\ tries[s] + 1 >= MaxAttempts
          /\ Fails(s, None, "nonceAcquisition", FALSE)
    /\ UNCHANGED <<cache, closed, faults, l1, floor>>

-----------------------------------------------------------------------------
(* send_tx. *)

\* The task of send_async starts. When the manager is closed it ends here and
\* its nonce is not returned.
StartTask(s) ==
    /\ pc[s] = "starting"
    /\ \/ /\ ~closed
          /\ pc' = [pc EXCEPT ![s] = "preparing"]
          /\ UNCHANGED held
       \/ /\ closed
          /\ pc' = [pc EXCEPT ![s] = "idle"]
          /\ held' = [held EXCEPT ![s] = None]
    /\ UNCHANGED <<cache, recycled, snapshot, fetched, tries, closed, faults, l1, floor>>

\* Fees and gas are known. A reserved nonce is signed at once.
Prepare(s) ==
    /\ pc[s] = "preparing"
    /\ pc' = [pc EXCEPT ![s] = IF s \in Async THEN "publishing" ELSE "lock"]
    /\ UNCHANGED <<cache, held, recycled, snapshot, fetched, tries, closed, faults, l1, floor>>

\* Preparing fails for good: a critical error, exhausted retries, a closed
\* manager, the send timeout, and the signer's error for a reserved nonce.
PrepareFails(s) ==
    /\ pc[s] = "preparing"
    /\ Fault
    /\ \E error \in {"other", "timeout"} : Fails(s, held[s], error, FALSE)
    /\ UNCHANGED <<cache, closed, l1, floor>>

\* The send timeout cancels next_nonce while it waits.
CancelAcquisition(s) ==
    /\ pc[s] \in {"lock", "fetching", "relock"} /\ s \notin Async
    /\ Fault
    /\ Fails(s, None, "timeout", FALSE)
    /\ UNCHANGED <<cache, closed, l1, floor>>

\* Signed: the guard is dropped and the nonce recorded (record_assigned_nonce).
Sign(s) ==
    /\ pc[s] = "signing"
    /\ holder' = None
    /\ recycled' = [recycled EXCEPT ![s] = FALSE]
    /\ pc' = [pc EXCEPT ![s] = "publishing"]
    /\ UNCHANGED <<nonce, generation, high, returned, held, snapshot, fetched, tries,
                   closed, faults, l1, floor>>

\* NonceGuard::rollback
Rollback(s) ==
    IF recycled[s]
    THEN returned' = returned \cup {held[s]} /\ UNCHANGED nonce
    ELSE nonce' = held[s] /\ UNCHANGED returned

\* The signer fails: the guard is rolled back, and no nonce was assigned.
SignFails(s) ==
    /\ pc[s] = "signing"
    /\ Fault
    /\ Rollback(s)
    /\ holder' = None
    /\ pc' = [pc EXCEPT ![s] = IF ShouldReset(s, None, "sign") THEN "reset" ELSE "idle"]
    /\ held' = [held EXCEPT ![s] = None]
    /\ recycled' = [recycled EXCEPT ![s] = FALSE]
    /\ UNCHANGED <<generation, high, snapshot, fetched, tries, closed, l1, floor>>

\* The send timeout drops the guard while the signer works: the nonce counts as
\* consumed.
CancelSigning(s) ==
    /\ pc[s] = "signing"
    /\ Fault
    /\ holder' = None
    /\ pc' = [pc EXCEPT ![s] = IF ShouldReset(s, None, "timeout") THEN "reset" ELSE "idle"]
    /\ held' = [held EXCEPT ![s] = None]
    /\ recycled' = [recycled EXCEPT ![s] = FALSE]
    /\ UNCHANGED <<nonce, generation, high, returned, snapshot, fetched, tries, closed,
                   l1, floor>>

\* L1 takes a transaction whose nonce is not used and not in the mempool.
Acceptable(n) == n >= mined /\ n \notin pool

\* publish_tx succeeds.
Publish(s) ==
    /\ pc[s] = "publishing" /\ Acceptable(held[s])
    /\ pool' = pool \cup {held[s]}
    /\ pc' = [pc EXCEPT ![s] = "pending"]
    /\ tries' = [tries EXCEPT ![s] = 0]
    /\ UNCHANGED <<cache, held, recycled, snapshot, fetched, closed, faults, mined, floor>>

\* The transaction is accepted, but the answer is lost or the send timeout
\* fires before it arrives.
PublishUnheard(s) ==
    /\ pc[s] = "publishing" /\ Acceptable(held[s])
    /\ Fault
    /\ pool' = pool \cup {held[s]}
    /\ \E error \in {"rpc", "timeout"} : Fails(s, held[s], error, FALSE)
    /\ UNCHANGED <<cache, closed, mined, floor>>

\* The transaction is refused because its nonce is used.
PublishTooLow(s) ==
    /\ pc[s] = "publishing" /\ held[s] < mined
    /\ Fails(s, held[s], "nonceTooLow", FALSE)
    /\ UNCHANGED <<cache, closed, faults, l1, floor>>

\* The transaction is refused because the mempool has one with its nonce
\* (ReplacementUnderpriced, or AlreadyKnown before any success).
PublishRefused(s) ==
    /\ pc[s] = "publishing" /\ held[s] \in pool
    /\ Fails(s, held[s], "other", FALSE)
    /\ UNCHANGED <<cache, closed, faults, l1, floor>>

\* Publishing fails for another reason, or the send timeout fires.
PublishFails(s) ==
    /\ pc[s] = "publishing"
    /\ Fault
    /\ \E error \in {"other", "timeout"} : Fails(s, held[s], error, FALSE)
    /\ UNCHANGED <<cache, closed, l1, floor>>

\* publish_tx_with_nonce_retry: an endpoint that has not seen the lower nonces
\* answers NonceTooHigh, and the same transaction is sent again.
PublishTooHigh(s) ==
    /\ pc[s] = "publishing" /\ held[s] > mined
    /\ Fault
    /\ \/ /\ tries[s] < PublishRetries
          /\ tries' = [tries EXCEPT ![s] = @ + 1]
          /\ UNCHANGED <<pc, held, recycled, snapshot, fetched>>
       \/ /\ tries[s] >= PublishRetries
          /\ Fails(s, held[s], "nonceTooHigh", FALSE)
    /\ UNCHANGED <<cache, closed, l1, floor>>

\* A receipt is confirmed.
Confirm(s) ==
    /\ pc[s] = "pending" /\ held[s] < mined
    /\ pc' = [pc EXCEPT ![s] = "idle"]
    /\ held' = [held EXCEPT ![s] = None]
    /\ UNCHANGED <<cache, recycled, snapshot, fetched, tries, closed, faults, l1, floor>>

\* The event loop gives a published transaction up: other transactions took its
\* nonce, the send timeout fired, or the manager was closed.
PendingFails(s) ==
    /\ pc[s] = "pending"
    /\ \E error \in {"nonceTooLow", "timeout", "closed"} :
         /\ error = "nonceTooLow" => held[s] < mined
         /\ error = "closed" => closed
         /\ IF error = "timeout" THEN Fault ELSE UNCHANGED faults
         /\ Fails(s, held[s], error, TRUE)
    /\ UNCHANGED <<cache, closed, l1, floor>>

\* close
Close ==
    /\ ~closed
    /\ closed' = TRUE
    /\ UNCHANGED <<cache, calls, faults, l1, floor>>

\* L1 includes the account's next transaction.
Mine ==
    /\ mined \in pool
    /\ mined' = mined + 1
    /\ pool' = pool \ {mined}
    /\ UNCHANGED <<cache, calls, closed, faults, floor>>

SlotStep(s) ==
    \/ Start(s) \/ CacheHit(s) \/ CacheMiss(s) \/ Fetch(s) \/ FetchFails(s)
    \/ FillCache(s) \/ RetryFetch(s) \/ StartTask(s) \/ Prepare(s)
    \/ PrepareFails(s) \/ CancelAcquisition(s) \/ Sign(s) \/ SignFails(s)
    \/ CancelSigning(s) \/ Publish(s) \/ PublishUnheard(s) \/ PublishTooLow(s)
    \/ PublishRefused(s) \/ PublishFails(s) \/ PublishTooHigh(s) \/ Confirm(s) \/ PendingFails(s)
    \/ Reset(s) \/ ReturnReservedNonce(s)

Next == Close \/ Mine \/ \E s \in Slot : SlotStep(s)

\* The steps of a call that no fault causes.
Progress(s) ==
    \/ Start(s) \/ CacheHit(s) \/ CacheMiss(s) \/ Fetch(s) \/ FillCache(s)
    \/ RetryFetch(s) \/ StartTask(s) \/ Prepare(s) \/ Sign(s) \/ Publish(s)
    \/ PublishTooLow(s) \/ PublishRefused(s) \/ Confirm(s)
    \/ Reset(s) \/ ReturnReservedNonce(s)

\* The runtime polls every task, and L1 includes what its mempool holds.
Fairness == WF_vars(Mine) /\ \A s \in Slot : WF_vars(Progress(s))

Spec == Init /\ [][Next]_vars

FairSpec == Spec /\ Fairness

-----------------------------------------------------------------------------
(* Properties. *)

\* The types of the variables.
TypeOK ==
    /\ nonce \in Nat \cup {None} /\ generation \in Nat /\ high \in Nat
    /\ returned \subseteq Nat /\ holder \in Slot \cup {None}
    /\ pc \in [Slot -> {"idle", "lock", "fetching", "relock", "starting", "preparing",
                        "signing", "publishing", "pending", "reset",
                        "resetThenReturn", "return"}]
    /\ held \in [Slot -> Nat \cup {None}]
    /\ recycled \in [Slot -> BOOLEAN]
    /\ snapshot \in [Slot -> Nat] /\ fetched \in [Slot -> Nat]
    /\ tries \in [Slot -> Nat]
    /\ closed \in BOOLEAN /\ faults \in Nat /\ mined \in Nat /\ pool \subseteq Nat /\ floor \in Nat

\* No nonce belongs to two calls, nor to a call and to the pool of returned
\* nonces: a transaction of one caller never replaces another's.
NoncesDistinct ==
    /\ \A s, t \in Slot : s # t /\ held[s] # None => held[s] # held[t]
    /\ \A s \in Slot : held[s] \notin returned

\* Two calls never use one nonce at a time.
NoSharedNonce ==
    \A s, t \in Slot :
      /\ s # t
      /\ pc[s] \in {"signing", "publishing", "pending"}
      /\ pc[t] \in {"signing", "publishing", "pending"}
      => held[s] # held[t]

\* The first nonce that was never issued since the cache was last filled.
Frontier == IF nonce = None THEN high ELSE MaxOf(nonce, high)

\* No nonce gap is left behind: a nonce that was issued and is not mined belongs
\* to a call, waits to be issued again, is in the mempool, or a reset is about to
\* rewind the cache. Otherwise every later transaction of the account would wait for it for ever.
NoNonceLost ==
    closed \/ \A n \in mined .. Frontier - 1 :
                \/ n \in returned \/ n \in pool
                \/ \E s \in Slot : held[s] = n \/ pc[s] \in {"reset", "resetThenReturn"}

\* What a reset forgot does not come back: the cache is never filled with a
\* nonce the chain had passed when the cache was reset.
FreshAfterReset == nonce # None => nonce >= floor

\* The account never gets stuck: whatever fails, all the nonces of the run are
\* mined in the end.
AllNoncesMined == <>(mined = MaxNonce \/ closed)
=============================================================================
