----------------------------- MODULE NonceProofs -----------------------------
(***************************************************************************)
(* Theorems about the account's nonces and the queue above send_async, for *)
(* any number of concurrent callers, faults, leftovers in the mempool,     *)
(* permits and interleavings: the calls of send_async, the only way the    *)
(* batcher sends transactions, the calls of send, whose errors also reset  *)
(* the cache, and the permits of the queue.                                *)
(***************************************************************************)
EXTENDS MCNonceManager, Sequences, FiniteSetTheorems, TLAPS

(* A call of send_async has a nonce from its reservation until it ends. *)
Holding == {"starting", "preparing", "publishing", "pending", "return"}

(* The calls: which of them have a nonce, and what is known of it. *)
CallsInv ==
    /\ holder = None
    /\ \A s \in Slot :
         /\ pc[s] \in {"idle", "lock", "fetching", "relock"} \cup Holding
         /\ held[s] # None <=> pc[s] \in Holding
         /\ held[s] # None => held[s] < high
         /\ pc[s] = "pending" => held[s] \in pool \/ held[s] < mined
         /\ fetched[s] <= mined

(* The cache is either empty and nothing was ever issued, or it is the high-water mark. *)
CacheInv ==
    /\ nonce = None => high = 0
    /\ nonce # None => nonce = high
    /\ \A r \in returned : r < high

(* Every issued nonce is accounted for. *)
NonceAccounted ==
    closed \/ \A n \in Nat : mined <= n /\ n < high =>
                n \in returned \/ n \in pool \/ \E s \in Slot : held[s] = n

(* The inductive invariant. *)
AsyncInv == TypeOK /\ CallsInv /\ CacheInv /\ NoncesDistinct /\ NonceAccounted

(* The initial state: nothing is issued. *)
LEMMA AsyncInit ==
    ASSUME Init
    PROVE  AsyncInv
  <1>1. TypeOK
    BY NonceAssumption, Zenon DEF Init, TypeOK
  <1>2. CallsInv /\ CacheInv /\ NoncesDistinct /\ NonceAccounted
    BY NonceAssumption DEF Init, CallsInv, CacheInv, NoncesDistinct, NonceAccounted, Holding
  <1> QED
    BY <1>1, <1>2 DEF AsyncInv

(* How a failed call with a nonce ends: it returns the nonce, or forgets one that the
   chain consumed or that was published. *)
LEMMA FailedCall ==
    ASSUME Async = Slot, AsyncInv, NEW s \in Slot, held[s] # None, NEW error,
           NEW published \in BOOLEAN, Fails(s, held[s], error, published)
    PROVE  /\ UNCHANGED <<recycled, snapshot, fetched>>
           /\ tries' = [tries EXCEPT ![s] = 0]
           /\ \/ pc' = [pc EXCEPT ![s] = "return"] /\ held' = held
              \/ /\ pc' = [pc EXCEPT ![s] = "idle"]
                 /\ held' = [held EXCEPT ![s] = None]
                 /\ error = "nonceTooLow" \/ published
  BY Zenon DEF Fails, ShouldReset, ShouldReturn, AsyncInv, TypeOK

(* Steps that change neither the cache nor the chain, and move a call without changing
   its nonce. *)
LEMMA MovedCall ==
    ASSUME AsyncInv, NEW s \in Slot, NEW p,
           pc' = [pc EXCEPT ![s] = p],
           \/ pc[s] \in Holding \ {"pending"} /\ p \in Holding \ {"pending"}
           \/ pc[s] = "pending" /\ p \in Holding \ {"pending"}
           \/ pc[s] \notin Holding /\ p \in {"idle", "lock", "fetching", "relock"},
           held' = held, UNCHANGED <<nonce, generation, high, returned, holder, mined>>,
           pool \subseteq pool', pool' \subseteq Nat,
           recycled' = recycled, closed' = closed, floor' = floor,
           snapshot' \in [Slot -> Nat], tries' \in [Slot -> Nat], faults' \in Nat,
           fetched' \in [Slot -> Nat], \A t \in Slot : fetched'[t] <= mined
    PROVE  AsyncInv'
  <1>1. TypeOK'
    BY Zenon DEF AsyncInv, TypeOK, Holding
  <1>2. CallsInv'
    BY DEF AsyncInv, TypeOK, CallsInv, Holding
  <1>3. CacheInv' /\ NoncesDistinct' /\ NonceAccounted'
    BY DEF AsyncInv, TypeOK, CallsInv, CacheInv, NoncesDistinct, NonceAccounted
  <1> QED
    BY <1>1, <1>2, <1>3 DEF AsyncInv

(* Steps that end a call whose nonce needs no further care. *)
LEMMA EndedCall ==
    ASSUME AsyncInv, NEW s \in Slot, held[s] # None,
           pc' = [pc EXCEPT ![s] = "idle"], held' = [held EXCEPT ![s] = None],
           UNCHANGED <<nonce, generation, high, returned, holder, mined>>,
           pool \subseteq pool', pool' \subseteq Nat,
           recycled' = recycled, closed' = closed, floor' = floor,
           snapshot' = snapshot, fetched' = fetched,
           tries' \in [Slot -> Nat], faults' \in Nat,
           closed \/ held[s] < mined \/ held[s] \in pool'
    PROVE  AsyncInv'
  <1>1. TypeOK'
    BY Zenon DEF AsyncInv, TypeOK
  <1>2. CallsInv'
    BY DEF AsyncInv, TypeOK, CallsInv, Holding
  <1>3. CacheInv'
    BY DEF AsyncInv, CacheInv
  <1>4. NoncesDistinct'
    <2>1. held \in [Slot -> Nat \cup {None}] /\ returned \subseteq Nat /\ None \notin Nat
      BY NonceAssumption DEF AsyncInv, TypeOK
    <2>2. \A t \in Slot : held'[t] = None \/ (held'[t] = held[t] /\ t # s)
      BY <2>1
    <2> QED
      BY <2>1, <2>2, Zenon DEF AsyncInv, NoncesDistinct
  <1>5. NonceAccounted'
    <2>1. CASE closed
      BY <2>1 DEF NonceAccounted
    <2>2. CASE ~closed
      <3> SUFFICES ASSUME NEW n \in Nat, mined <= n, n < high
                   PROVE  n \in returned \/ n \in pool' \/ \E t \in Slot : held'[t] = n
        BY DEF NonceAccounted
      <3>1. n \in returned \/ n \in pool \/ \E t \in Slot : held[t] = n
        BY <2>2 DEF AsyncInv, NonceAccounted
      <3>2. CASE held[s] = n
        BY <2>2, <3>2 DEF AsyncInv, TypeOK
      <3>3. CASE held[s] # n
        BY <3>1, <3>3 DEF AsyncInv, TypeOK
      <3> QED
        BY <3>2, <3>3
    <2> QED
      BY <2>1, <2>2
  <1> QED
    BY <1>1, <1>2, <1>3, <1>4, <1>5 DEF AsyncInv

(* A reservation: the nonce is a returned one, or a fresh one at the high-water mark. *)
LEMMA ReservedNonce ==
    ASSUME Async = Slot, AsyncInv, NEW s \in Slot, held[s] = None,
           NEW n \in Nat, nonce = n \/ (nonce = None /\ n <= mined),
           NEW r \in SUBSET returned, \A x \in returned : x \in r \/ x < mined,
           AdvanceNonce(s, n, r),
           UNCHANGED <<generation, snapshot, fetched, closed, faults, l1, floor>>
    PROVE  AsyncInv'
  <1>1. PICK got \in IF r # {} THEN Smallest(r) ELSE {Effective(n)} :
          /\ nonce' = IF r # {} THEN n ELSE got + 1
          /\ returned' = r \ {got}
          /\ held' = [held EXCEPT ![s] = got]
          /\ recycled' = [recycled EXCEPT ![s] = FALSE]
          /\ high' = MaxOf(high, got + 1)
          /\ holder' = None
          /\ pc' = [pc EXCEPT ![s] = "starting"]
          /\ tries' = [tries EXCEPT ![s] = 0]
    BY Zenon DEF AdvanceNonce
  <1>2. /\ got \in Nat
        /\ \/ got \in r /\ nonce' = n /\ nonce = n /\ high' = high
           \/ /\ r = {} /\ nonce' = got + 1 /\ high' = got + 1
              /\ got = high \/ (high = 0 /\ got <= mined)
    <2>1. CASE r # {}
      BY <1>1, <2>1, NonceAssumption DEF AsyncInv, TypeOK, CacheInv, Smallest, MaxOf
    <2>2. CASE r = {}
      BY <1>1, <2>2, NonceAssumption DEF AsyncInv, TypeOK, CacheInv, Effective, MaxOf
    <2> QED
      BY <2>1, <2>2
  <1>3. TypeOK'
    BY <1>1, <1>2 DEF AsyncInv, TypeOK, l1
  <1>4. CallsInv'
    <2> SUFFICES ASSUME NEW t \in Slot
                 PROVE  /\ pc'[t] \in {"idle", "lock", "fetching", "relock"} \cup Holding
                        /\ held'[t] # None <=> pc'[t] \in Holding
                        /\ held'[t] # None => held'[t] < high'
                        /\ pc'[t] = "pending" => held'[t] \in pool \/ held'[t] < mined
                        /\ fetched[t] <= mined
      BY <1>1 DEF CallsInv, l1
    <2>1. got < high' /\ high <= high' /\ got # None /\ high' \in Nat
      BY <1>2, NonceAssumption DEF AsyncInv, TypeOK, CacheInv
    <2>2. CASE t = s
      BY <1>1, <2>1, <2>2 DEF AsyncInv, TypeOK, CallsInv, Holding
    <2>3. CASE t # s
      <3>1. pc'[t] = pc[t] /\ held'[t] = held[t]
        BY <1>1, <2>3 DEF AsyncInv, TypeOK
      <3>2. held[t] # None => held[t] < high'
        BY <2>1, NonceAssumption DEF AsyncInv, TypeOK, CallsInv
      <3> QED
        BY <3>1, <3>2 DEF AsyncInv, CallsInv
    <2> QED
      BY <2>2, <2>3
  <1>5. CacheInv'
    BY <1>1, <1>2, NonceAssumption DEF AsyncInv, TypeOK, CacheInv
  <1>6. NoncesDistinct'
    <2>1. \A t \in Slot : t # s => held'[t] = held[t] /\ held[t] # got
      BY <1>1, <1>2, NonceAssumption DEF AsyncInv, TypeOK, CallsInv, NoncesDistinct
    <2>2. held'[s] = got /\ got \notin returned'
      BY <1>1 DEF AsyncInv, TypeOK
    <2> QED
      BY <1>1, <2>1, <2>2, SMTT(30) DEF AsyncInv, NoncesDistinct
  <1>7. NonceAccounted'
    <2> SUFFICES ASSUME ~closed, NEW i \in Nat, mined <= i, i < high'
                 PROVE  i \in returned' \/ i \in pool \/ \E t \in Slot : held'[t] = i
      BY DEF NonceAccounted, l1
    <2>1. CASE i = got
      BY <1>1, <2>1 DEF AsyncInv, TypeOK
    <2>2. CASE i # got
      <3>1. i < high
        BY <1>2, <2>2 DEF AsyncInv, TypeOK
      <3>2. i \in returned \/ i \in pool \/ \E t \in Slot : held[t] = i
        BY <3>1 DEF AsyncInv, NonceAccounted
      <3>3. i \in returned => i \in returned'
        BY <1>1, <2>2 DEF AsyncInv, TypeOK
      <3>4. \A t \in Slot : held[t] = i => held'[t] = i
        BY <1>1, NonceAssumption DEF AsyncInv, TypeOK
      <3> QED
        BY <3>2, <3>3, <3>4
    <2> QED
      BY <2>1, <2>2
  <1> QED
    BY <1>3, <1>4, <1>5, <1>6, <1>7 DEF AsyncInv

(* Every step of a call keeps the invariant. *)
LEMMA SlotStepKeeps ==
    ASSUME Async = Slot, AsyncInv, NEW s \in Slot, SlotStep(s)
    PROVE  AsyncInv'
  <1> USE DEF cache, l1
  <1>0. Fault => faults' \in Nat
    BY SMTT(30) DEF Fault, AsyncInv, TypeOK
  <1>1. CASE Start(s)
    BY <1>1, MovedCall, Zenon DEF Start, AsyncInv, TypeOK, CallsInv, Holding
  <1>2. CASE CacheHit(s)
    <2>1. held[s] = None /\ nonce \in Nat
      BY <1>2, SMTT(30) DEF CacheHit, AsyncInv, TypeOK, CallsInv, Holding
    <2> QED
      BY <1>2, <2>1, ReservedNonce, Zenon DEF CacheHit
  <1>3. CASE CacheMiss(s)
    BY <1>3, MovedCall, Zenon DEF CacheMiss, AsyncInv, TypeOK, CallsInv, Holding
  <1>4. CASE Fetch(s)
    <2>1. fetched' \in [Slot -> Nat] /\ \A t \in Slot : fetched'[t] <= mined
      BY <1>4 DEF Fetch, AsyncInv, TypeOK, CallsInv
    <2> QED
      BY <1>4, <2>1, MovedCall, Zenon DEF Fetch, AsyncInv, TypeOK, Holding
  <1>5. CASE FetchFails(s)
    <2>1. /\ pc[s] = "fetching" /\ faults' \in Nat
          /\ pc' = [pc EXCEPT ![s] = "idle"]
          /\ tries' = [tries EXCEPT ![s] = 0]
          /\ UNCHANGED <<held, recycled, snapshot, fetched>>
          /\ UNCHANGED <<cache, closed, l1, floor>>
      BY <1>5, <1>0, Zenon DEF FetchFails
    <2>2. tries' \in [Slot -> Nat]
      BY <2>1 DEF AsyncInv, TypeOK
    <2> QED
      BY <2>1, <2>2, MovedCall, Zenon DEF AsyncInv, TypeOK, CallsInv, Holding
  <1>6. CASE FillCache(s)
    <2> DEFINE n == IF nonce = None THEN fetched[s] ELSE nonce
               r == {x \in returned : x >= fetched[s]}
    <2>1. held[s] = None /\ n \in Nat /\ (nonce = n \/ (nonce = None /\ n <= mined))
      BY <1>6 DEF FillCache, AsyncInv, TypeOK, CallsInv, Holding
    <2>2. r \in SUBSET returned /\ \A x \in returned : x \in r \/ x < mined
      BY SMTT(30) DEF AsyncInv, TypeOK, CallsInv
    <2>3. AdvanceNonce(s, n, r)
          /\ UNCHANGED <<generation, snapshot, fetched, closed, faults, l1, floor>>
      BY <1>6 DEF FillCache
    <2> HIDE DEF n, r
    <2> QED
      BY <2>1, <2>2, <2>3, ReservedNonce
  <1>7. CASE RetryFetch(s)
    <2>1. pc[s] = "relock"
      BY <1>7 DEF RetryFetch
    <2>2. CASE pc' = [pc EXCEPT ![s] = "lock"] /\ tries' = [tries EXCEPT ![s] = tries[s] + 1]
               /\ UNCHANGED <<held, recycled, snapshot, fetched>>
      <3>1. UNCHANGED <<cache, closed, faults, l1, floor>>
        BY <1>7 DEF RetryFetch
      <3>2. tries' \in [Slot -> Nat]
        BY <2>2 DEF AsyncInv, TypeOK
      <3> QED
        BY <2>1, <2>2, <3>1, <3>2, MovedCall, ZenonT(30) DEF AsyncInv, TypeOK, CallsInv, Holding
    <2>3. CASE Fails(s, None, "nonceAcquisition", FALSE)
      <3>1. held[s] = None
        BY <2>1 DEF AsyncInv, CallsInv, Holding
      <3>2. pc' = [pc EXCEPT ![s] = "idle"] /\ held' = held
        BY <2>3, <3>1 DEF Fails, ShouldReset, ShouldReturn, AsyncInv, TypeOK
      <3>3. tries' \in [Slot -> Nat] /\ UNCHANGED <<recycled, snapshot, fetched>>
        BY <2>3 DEF Fails, AsyncInv, TypeOK
      <3> QED
        BY <1>7, <2>1, <3>2, <3>3, MovedCall, Zenon
          DEF RetryFetch, AsyncInv, TypeOK, CallsInv, Holding
    <2> QED
      BY <1>7, <2>2, <2>3, Zenon DEF RetryFetch
  <1>8. CASE StartTask(s)
    <2>1. pc[s] = "starting" /\ held[s] # None
      BY <1>8, ZenonT(30) DEF StartTask, AsyncInv, CallsInv, Holding
    <2>2. CASE ~closed
      BY <1>8, <2>1, <2>2, MovedCall, SMTT(30) DEF StartTask, AsyncInv, TypeOK, CallsInv, Holding
    <2>3. CASE closed
      BY <1>8, <2>1, <2>3, EndedCall, ZenonT(30) DEF StartTask, AsyncInv, TypeOK, CallsInv
    <2> QED
      BY <2>2, <2>3, SMTT(30)
  <1>9. CASE Prepare(s)
    BY <1>9, MovedCall, ZenonT(30) DEF Prepare, AsyncInv, TypeOK, CallsInv, Holding
  <1>10. ASSUME NEW error, NEW published \in BOOLEAN, pc[s] \in Holding,
                Fails(s, held[s], error, published),
                UNCHANGED <<cache, closed, mined, floor>>, faults' \in Nat,
                pool \subseteq pool', pool' \subseteq Nat,
                error = "nonceTooLow" => held[s] < mined,
                published => pc[s] = "pending"
         PROVE  AsyncInv'
    <2>1. held[s] # None
      BY <1>10 DEF AsyncInv, CallsInv
    <2>2. /\ UNCHANGED <<recycled, snapshot, fetched>>
          /\ tries' \in [Slot -> Nat]
          /\ \/ pc' = [pc EXCEPT ![s] = "return"] /\ held' = held
             \/ /\ pc' = [pc EXCEPT ![s] = "idle"]
                /\ held' = [held EXCEPT ![s] = None]
                /\ error = "nonceTooLow" \/ published
      BY <1>10, <2>1, FailedCall DEF AsyncInv, TypeOK
    <2>3. CASE pc' = [pc EXCEPT ![s] = "return"] /\ held' = held
      BY <1>10, <2>2, <2>3, MovedCall, Zenon DEF AsyncInv, TypeOK, CallsInv, Holding
    <2>4. CASE pc' = [pc EXCEPT ![s] = "idle"] /\ held' = [held EXCEPT ![s] = None]
               /\ (error = "nonceTooLow" \/ published)
      <3>1. held[s] < mined \/ held[s] \in pool'
        BY <1>10, <2>4, Zenon DEF AsyncInv, CallsInv
      <3> QED
        BY <1>10, <2>1, <2>2, <2>4, <3>1, EndedCall, Zenon
    <2> QED
      BY <2>2, <2>3, <2>4
  <1>11. CASE PrepareFails(s)
    <2>1. PICK error \in {"other", "timeout"} : Fails(s, held[s], error, FALSE)
      BY <1>11, Zenon DEF PrepareFails
    <2>2. /\ pc[s] = "preparing" /\ faults' \in Nat
          /\ UNCHANGED <<cache, closed, l1, floor>>
      BY <1>11, <1>0, Zenon DEF PrepareFails
    <2> QED
      BY <1>10, <2>1, <2>2, Zenon DEF AsyncInv, TypeOK, Holding
  <1>12. CASE Publish(s)
    <2>1. pc[s] = "publishing" /\ held[s] \in Nat
      BY <1>12 DEF Publish, AsyncInv, TypeOK, CallsInv, Holding
    <2>2. TypeOK'
      BY <1>12, <2>1, ZenonT(30) DEF Publish, AsyncInv, TypeOK
    <2>3. CallsInv'
      BY <1>12, <2>1 DEF Publish, AsyncInv, TypeOK, CallsInv, Holding
    <2>4. CacheInv' /\ NoncesDistinct' /\ NonceAccounted'
      BY <1>12 DEF Publish, AsyncInv, TypeOK, CacheInv, NoncesDistinct, NonceAccounted
    <2> QED
      BY <2>2, <2>3, <2>4 DEF AsyncInv
  <1>13. CASE PublishUnheard(s)
    <2>1. pc[s] = "publishing" /\ pool' \subseteq Nat /\ pool \subseteq pool'
      BY <1>13, Zenon DEF PublishUnheard, AsyncInv, TypeOK, CallsInv, Holding
    <2>2. PICK error \in {"rpc", "timeout"} : Fails(s, held[s], error, FALSE)
      BY <1>13, Zenon DEF PublishUnheard
    <2> QED
      BY <1>10, <1>13, <1>0, <2>1, <2>2, Zenon DEF PublishUnheard, Holding
  <1>14. CASE PublishTooLow(s)
    BY <1>14, <1>10, Zenon DEF PublishTooLow, AsyncInv, TypeOK, Holding
  <1>15. CASE PublishRefused(s)
    BY <1>15, <1>10, Zenon DEF PublishRefused, AsyncInv, TypeOK, Holding
  <1>16. CASE PublishFails(s)
    <2>1. PICK error \in {"other", "timeout"} : Fails(s, held[s], error, FALSE)
      BY <1>16, Zenon DEF PublishFails
    <2>2. /\ pc[s] = "publishing" /\ faults' \in Nat
          /\ UNCHANGED <<cache, closed, l1, floor>>
      BY <1>16, <1>0 DEF PublishFails
    <2> QED
      BY <1>10, <2>1, <2>2, Zenon DEF AsyncInv, TypeOK, Holding
  <1>17. CASE PublishTooHigh(s)
    <2>0. /\ pc[s] = "publishing" /\ faults' \in Nat
          /\ UNCHANGED <<cache, closed, l1, floor>>
      BY <1>17, <1>0, Zenon DEF PublishTooHigh
    <2>1. CASE UNCHANGED <<pc, held, recycled, snapshot, fetched>>
               /\ tries' = [tries EXCEPT ![s] = tries[s] + 1]
      <3>1. pc' = [pc EXCEPT ![s] = "publishing"]
        BY <2>0, <2>1 DEF AsyncInv, TypeOK
      <3>2. tries' \in [Slot -> Nat]
        BY <2>1 DEF AsyncInv, TypeOK
      <3> QED
        BY <2>0, <2>1, <3>1, <3>2, MovedCall, Zenon DEF AsyncInv, TypeOK, CallsInv, Holding
    <2>2. CASE Fails(s, held[s], "nonceTooHigh", FALSE)
      BY <2>0, <2>2, <1>10, Zenon DEF AsyncInv, TypeOK, Holding
    <2> QED
      BY <1>17, <2>1, <2>2, ZenonT(30) DEF PublishTooHigh
  <1>18. CASE Confirm(s)
    <2>1. held[s] # None
      BY <1>18 DEF Confirm, AsyncInv, CallsInv, Holding
    <2> QED
      BY <1>18, <2>1, EndedCall, Zenon DEF Confirm, AsyncInv, TypeOK
  <1>19. CASE PendingFails(s)
    <2>1. PICK error \in {"nonceTooLow", "timeout", "closed"} :
            /\ error = "nonceTooLow" => held[s] < mined
            /\ faults' \in Nat
            /\ Fails(s, held[s], error, TRUE)
      BY <1>19, <1>0, Zenon DEF PendingFails, AsyncInv, TypeOK
    <2> QED
      BY <1>10, <1>19, <2>1, Zenon DEF PendingFails, AsyncInv, TypeOK, Holding
  <1>20. CASE ReturnReservedNonce(s)
    <2>1. pc[s] = "return" /\ held[s] \in Nat /\ held[s] < high
      BY <1>20 DEF ReturnReservedNonce, AsyncInv, TypeOK, CallsInv, Holding
    <2>2. TypeOK'
      BY <1>20, <2>1, Zenon DEF ReturnReservedNonce, AsyncInv, TypeOK
    <2>3. CallsInv'
      BY <1>20, <2>1 DEF ReturnReservedNonce, AsyncInv, TypeOK, CallsInv, Holding
    <2>4. CacheInv'
      BY <1>20, <2>1 DEF ReturnReservedNonce, AsyncInv, CacheInv
    <2>5. NoncesDistinct'
      <3>1. \A t \in Slot : held'[t] = None \/ (held'[t] = held[t] /\ t # s)
        BY <1>20 DEF ReturnReservedNonce, AsyncInv, TypeOK
      <3>2. returned' = returned \cup {held[s]}
        BY <1>20 DEF ReturnReservedNonce
      <3>3. None \notin Nat /\ returned \subseteq Nat
        BY NonceAssumption DEF AsyncInv, TypeOK
      <3> QED
        BY <2>1, <3>1, <3>2, <3>3, Zenon DEF AsyncInv, NoncesDistinct
    <2>6. NonceAccounted'
      BY <1>20 DEF ReturnReservedNonce, AsyncInv, TypeOK, NonceAccounted
    <2> QED
      BY <2>2, <2>3, <2>4, <2>5, <2>6 DEF AsyncInv
  <1>21. ~(CancelAcquisition(s) \/ Sign(s) \/ SignFails(s) \/ CancelSigning(s) \/ Reset(s))
    BY Zenon DEF CancelAcquisition, Sign, SignFails, CancelSigning, Reset, AsyncInv, CallsInv, Holding
  <1> QED
    BY <1>1, <1>2, <1>3, <1>4, <1>5, <1>6, <1>7, <1>8, <1>9, <1>11, <1>12, <1>13, <1>14, SMTT(30),
       <1>15, <1>16, <1>17, <1>18, <1>19, <1>20, <1>21 DEF SlotStep

(* Closing the manager and mining keep the invariant, and so does stuttering. *)
LEMMA OtherStepKeeps ==
    ASSUME AsyncInv, Close \/ Mine \/ UNCHANGED vars
    PROVE  AsyncInv'
  <1> USE DEF cache, calls, l1
  <1>1. CASE Close
    BY <1>1 DEF Close, AsyncInv, TypeOK, CallsInv, CacheInv, NoncesDistinct, NonceAccounted
  <1>2. CASE Mine
    <2>1. TypeOK' /\ CacheInv' /\ NoncesDistinct'
      BY <1>2 DEF Mine, AsyncInv, TypeOK, CacheInv, NoncesDistinct
    <2>2. CallsInv'
      BY <1>2 DEF Mine, AsyncInv, TypeOK, CallsInv
    <2>3. NonceAccounted'
      BY <1>2, SMTT(30) DEF Mine, AsyncInv, TypeOK, NonceAccounted
    <2> QED
      BY <2>1, <2>2, <2>3 DEF AsyncInv
  <1>3. CASE UNCHANGED vars
    BY <1>3 DEF vars, AsyncInv, TypeOK, CallsInv, CacheInv, NoncesDistinct, NonceAccounted
  <1> QED
    BY <1>1, <1>2, <1>3

(* The invariant implies that no nonce is lost. *)
LEMMA AccountedNotLost ==
    ASSUME AsyncInv
    PROVE  NoNonceLost
  BY NonceAssumption DEF AsyncInv, TypeOK, CacheInv, NonceAccounted, NoNonceLost, Frontier, MaxOf

(* However many transactions send_async handles at a time, and whatever fails: no nonce
   belongs to two of them or to one and to the pool of returned nonces, and no nonce that
   was issued is lost, so that no gap ever blocks the account. *)
THEOREM AsyncNonces ==
    ASSUME Async = Slot
    PROVE  Spec => [](NoncesDistinct /\ NoNonceLost)
  <1>1. Init => AsyncInv
    BY AsyncInit
  <1>2. AsyncInv /\ [Next]_vars => AsyncInv'
    BY SlotStepKeeps, OtherStepKeeps DEF Next
  <1>3. AsyncInv => NoncesDistinct /\ NoNonceLost
    BY AccountedNotLost DEF AsyncInv
  <1> QED
    BY <1>1, <1>2, <1>3, PTL DEF Spec

-----------------------------------------------------------------------------
(* The calls of send. *)

(* A call of send has a nonce from next_nonce until it ends. *)
SyncHolding == {"signing", "publishing", "pending", "return", "resetThenReturn"}

Resetting == {"reset", "resetThenReturn"}

(* One call of send: the guard it holds while it signs, and what its fetch read, which
   is as fresh as the last reset unless that reset overtook the fetch. *)
SyncCall(s) ==
    /\ s_pc[s] # "starting"
    /\ s_held[s] # None <=> s_pc[s] \in SyncHolding
    /\ s_pc[s] = "signing" => s_holder = s
    /\ s_pc[s] = "signing" /\ ~s_recycled[s] => s_held[s] >= s_floor
    /\ s_fetched[s] <= s_mined /\ s_snapshot[s] <= s_generation
    /\ s_pc[s] = "relock" /\ s_snapshot[s] = s_generation => s_fetched[s] >= s_floor

(* The cache of the callers of send: no nonce is reserved, and it is fresh. *)
SyncCache == s_high = 0 /\ s_floor <= s_mined /\ Sync!FreshAfterReset

(* Every nonce of the cache that was issued is accounted for. *)
SyncAccounted ==
    \/ s_closed \/ s_nonce = None
    \/ \A n \in Nat : s_mined <= n /\ n < s_nonce =>
          \/ n \in s_returned \/ n \in s_pool
          \/ \E s \in Slot : s_held[s] = n \/ s_pc[s] \in Resetting

(* The inductive invariant of the callers of send. *)
SyncInv == Sync!TypeOK /\ (\A s \in Slot : SyncCall(s)) /\ SyncCache /\ SyncAccounted

(* The process starts with an empty cache. *)
LEMMA SyncInit ==
    ASSUME Sync!Init
    PROVE  SyncInv
  <1>1. Sync!TypeOK
    BY NonceAssumption DEF Sync!Init, Sync!TypeOK
  <1>2. ASSUME NEW s \in Slot PROVE SyncCall(s)
    BY NonceAssumption DEF Sync!Init, SyncCall, SyncHolding
  <1>3. SyncCache /\ SyncAccounted
    BY NonceAssumption DEF Sync!Init, SyncCache, SyncAccounted, Sync!FreshAfterReset
  <1> QED
    BY <1>1, <1>2, <1>3 DEF SyncInv

(* What is left of a call of send that failed with nonce n: it returns the nonce, it
   resets the cache, or it forgets a nonce that is used or published. *)
LEMMA SyncFailed ==
    ASSUME SyncInv, NEW s \in Slot, NEW n \in Nat \cup {None}, NEW error,
           NEW published \in BOOLEAN, Sync!Fails(s, n, error, published)
    PROVE  /\ UNCHANGED <<s_recycled, s_snapshot, s_fetched>>
           /\ s_tries' = [s_tries EXCEPT ![s] = 0]
           /\ \E p, m :
                /\ s_pc' = [s_pc EXCEPT ![s] = p] /\ s_held' = [s_held EXCEPT ![s] = m]
                /\ \/ m = n /\ n # None /\ p \in {"return", "resetThenReturn"}
                   \/ m = None /\ p = "reset"
                   \/ m = None /\ p = "idle" /\ (error = "nonceTooLow" \/ published)
  BY Zenon DEF Sync!Fails, Sync!ShouldReset, Sync!ShouldReturn

(* A step of the call of s that leaves the cache and L1 as they are, or adds to what is
   returned or published: no nonce gets lost unless it is used, or a reset follows. *)
LEMMA SyncMoved ==
    ASSUME SyncInv, NEW s \in Slot, NEW p, NEW m,
           s_pc' = [s_pc EXCEPT ![s] = p], s_held' = [s_held EXCEPT ![s] = m],
           UNCHANGED <<s_nonce, s_generation, s_high, s_mined, s_floor, s_closed>>,
           s_returned \subseteq s_returned', s_pool \subseteq s_pool',
           Sync!TypeOK', SyncCall(s)',
           \A t \in Slot : t # s =>
             /\ s_recycled'[t] = s_recycled[t] /\ s_snapshot'[t] = s_snapshot[t]
             /\ s_fetched'[t] = s_fetched[t]
             /\ s_pc[t] = "signing" => s_holder' = s_holder,
           s_pc[s] \notin Resetting,
           \/ s_held[s] = None \/ m = s_held[s] \/ p \in Resetting \/ s_closed
           \/ s_held[s] \in s_returned' \/ s_held[s] \in s_pool' \/ s_held[s] < s_mined
    PROVE  SyncInv'
  <1>1. /\ s_pc'[s] = p /\ s_held'[s] = m
        /\ \A t \in Slot : t # s => s_pc'[t] = s_pc[t] /\ s_held'[t] = s_held[t]
    BY DEF SyncInv, Sync!TypeOK
  <1>2. ASSUME NEW t \in Slot, t # s PROVE SyncCall(t)'
    BY <1>1, <1>2, SMTT(30) DEF SyncInv, SyncCall
  <1>3. SyncCache'
    BY Zenon DEF SyncInv, SyncCache, Sync!FreshAfterReset
  <1>4. SyncAccounted'
    <2> SUFFICES ASSUME ~s_closed, s_nonce # None, NEW n \in Nat, s_mined <= n, n < s_nonce
                 PROVE  \/ n \in s_returned' \/ n \in s_pool'
                        \/ \E t \in Slot : s_held'[t] = n \/ s_pc'[t] \in Resetting
      BY DEF SyncAccounted
    <2>1. \/ n \in s_returned \/ n \in s_pool
          \/ \E t \in Slot : s_held[t] = n \/ s_pc[t] \in Resetting
      BY DEF SyncInv, SyncAccounted
    <2>2. ASSUME NEW t \in Slot, s_held[t] = n \/ s_pc[t] \in Resetting
          PROVE  \/ n \in s_returned' \/ n \in s_pool'
                 \/ \E u \in Slot : s_held'[u] = n \/ s_pc'[u] \in Resetting
      <3>1. CASE t # s
        BY <1>1, <2>2, <3>1
      <3>2. CASE t = s
        <4>1. s_held[s] = n /\ n # None
          BY <2>2, <3>2, NonceAssumption, SMTT(30)
        <4>2. ~(s_held[s] < s_mined)
          BY <4>1, SMTT(30) DEF SyncInv, Sync!TypeOK
        <4> QED
          BY <1>1, <4>1, <4>2, SMTT(30)
      <3> QED
        BY <3>1, <3>2
    <2> QED
      BY <2>1, <2>2
  <1> QED
    BY <1>2, <1>3, <1>4 DEF SyncInv

(* A call that fails with the nonce n, which was its own: what the step leaves alone. *)
LEMMA SyncFailedMoved ==
    ASSUME SyncInv, NEW s \in Slot, NEW n \in Nat \cup {None}, NEW error,
           NEW published \in BOOLEAN, Sync!Fails(s, n, error, published),
           n = s_held[s], s_pc[s] \notin Resetting, s_pc[s] # "signing",
           UNCHANGED <<s_nonce, s_generation, s_high, s_returned, s_holder, s_mined, s_floor, s_closed>>,
           s_faults' \in Nat, s_pool \subseteq s_pool', s_pool' \subseteq Nat,
           error = "nonceTooLow" \/ published => s_closed \/ s_held[s] < s_mined \/ error = "timeout"
    PROVE  SyncInv'
  <1> DEFINE Left(p, m) ==
          \/ m = n /\ n # None /\ p \in {"return", "resetThenReturn"}
          \/ m = None /\ p = "reset"
          \/ m = None /\ p = "idle" /\ (s_closed \/ s_held[s] < s_mined)
  <1>1. /\ UNCHANGED <<s_recycled, s_snapshot, s_fetched>>
        /\ s_tries' = [s_tries EXCEPT ![s] = 0]
    BY DEF Sync!Fails
  <1>2. PICK p, m : s_pc' = [s_pc EXCEPT ![s] = p] /\ s_held' = [s_held EXCEPT ![s] = m]
                    /\ Left(p, m)
    <2>1. error = "timeout" => s_pc' = [s_pc EXCEPT ![s] = "reset"]
                               \/ s_pc' = [s_pc EXCEPT ![s] = "resetThenReturn"]
      BY ZenonT(30) DEF Sync!Fails, Sync!ShouldReset, Sync!ShouldReturn
    <2>2. s_pc'[s] # "idle" \/ error # "timeout"
      BY <2>1 DEF SyncInv, Sync!TypeOK
    <2>3. PICK p, m :
            /\ s_pc' = [s_pc EXCEPT ![s] = p] /\ s_held' = [s_held EXCEPT ![s] = m]
            /\ \/ m = n /\ n # None /\ p \in {"return", "resetThenReturn"}
               \/ m = None /\ p = "reset"
               \/ m = None /\ p = "idle" /\ (error = "nonceTooLow" \/ published)
      BY SyncFailed
    <2>4. s_pc'[s] = p
      BY <2>3 DEF SyncInv, Sync!TypeOK
    <2> QED
      BY <2>2, <2>3, <2>4, Zenon
  <1>3. Sync!TypeOK'
    BY <1>1, <1>2 DEF SyncInv, Sync!TypeOK
  <1>4. s_pc'[s] = p /\ s_held'[s] = m
    BY <1>2, SMTT(30) DEF SyncInv, Sync!TypeOK
  <1>5. SyncCall(s)'
    BY <1>1, <1>2, <1>4 DEF SyncInv, SyncCall, SyncHolding, Resetting
  <1> QED
    BY <1>1, <1>2, <1>3, <1>5, SyncMoved, Zenon DEF Resetting

(* next_nonce: the smallest returned nonce, or a fresh one, whose guard s now holds. *)
LEMMA SyncReserved ==
    ASSUME SyncInv, NEW s \in Slot, NEW n \in Nat, NEW r,
           s_pc[s] \in {"lock", "relock"}, s_holder = None,
           n = s_nonce \/ (s_nonce = None /\ n <= s_mined), n >= s_floor,
           r \subseteq s_returned, \A x \in s_returned : x < s_mined \/ x \in r,
           Sync!AdvanceNonce(s, n, r),
           UNCHANGED <<s_generation, s_snapshot, s_fetched, s_closed, s_faults, s_mined, s_pool,
                       s_floor>>
    PROVE  SyncInv'
  <1>1. PICK got \in IF r # {} THEN Sync!Smallest(r) ELSE {Sync!Effective(n)} :
          /\ s_nonce' = IF r # {} THEN n ELSE got + 1
          /\ s_returned' = r \ {got}
          /\ s_held' = [s_held EXCEPT ![s] = got]
          /\ s_recycled' = [s_recycled EXCEPT ![s] = r # {}]
          /\ s_high' = s_high /\ s_holder' = s
          /\ s_pc' = [s_pc EXCEPT ![s] = "signing"]
          /\ s_tries' = [s_tries EXCEPT ![s] = 0]
    BY Zenon DEF Sync!AdvanceNonce
  <1>2. /\ got \in Nat
        /\ \/ r # {} /\ got \in r /\ s_nonce' = n
           \/ r = {} /\ got = n /\ s_nonce' = n + 1
    <2>1. CASE r # {}
      BY <1>1, <2>1 DEF SyncInv, Sync!TypeOK, Sync!Smallest
    <2>2. CASE r = {}
      BY <1>1, <2>2 DEF SyncInv, SyncCache, Sync!Effective, Sync!MaxOf
    <2> QED
      BY <2>1, <2>2
  <1>3. Sync!TypeOK'
    <2>1. s_nonce' \in Nat /\ s_returned' \subseteq Nat /\ s_held' \in [Slot -> Nat \cup {None}]
      BY <1>1, <1>2 DEF SyncInv, Sync!TypeOK
    <2>2. s_recycled' \in [Slot -> BOOLEAN]
      BY <1>1 DEF SyncInv, Sync!TypeOK
    <2> QED
      BY <1>1, <2>1, <2>2 DEF SyncInv, Sync!TypeOK
  <1>4. /\ s_pc'[s] = "signing" /\ s_held'[s] = got /\ (s_recycled'[s] <=> r # {})
        /\ \A t \in Slot : t # s =>
             s_pc'[t] = s_pc[t] /\ s_held'[t] = s_held[t] /\ s_recycled'[t] = s_recycled[t]
    BY <1>1, Zenon DEF SyncInv, Sync!TypeOK
  <1>5. ASSUME NEW t \in Slot PROVE SyncCall(t)'
    <2>1. CASE t = s
      <3>1. got # None /\ (r = {} => got >= s_floor)
        BY <1>2, NonceAssumption, SMTT(30)
      <3> QED
        BY <1>1, <1>4, <2>1, <3>1 DEF SyncInv, SyncCall, SyncHolding
    <2>2. CASE t # s
      <3>1. s_pc[t] # "signing"
        BY NonceAssumption DEF SyncInv, SyncCall
      <3> QED
        BY <1>4, <2>2, <3>1, SMTT(30) DEF SyncInv, SyncCall
    <2> QED
      BY <2>1, <2>2
  <1>6. SyncCache'
    <2>1. s_floor \in Nat /\ s_nonce' >= s_floor
      BY <1>2, SMTT(30) DEF SyncInv, Sync!TypeOK
    <2> QED
      BY <1>1, <2>1 DEF SyncInv, SyncCache, Sync!FreshAfterReset
  <1>7. SyncAccounted'
    <2> SUFFICES ASSUME ~s_closed, NEW i \in Nat, s_mined <= i, i < s_nonce'
                 PROVE  \/ i \in s_returned' \/ i \in s_pool
                        \/ \E t \in Slot : s_held'[t] = i \/ s_pc'[t] \in Resetting
      BY DEF SyncAccounted
    <2>1. CASE i = got
      BY <1>4, <2>1
    <2>2. CASE i # got
      <3>1. i < n
        BY <1>2, <2>2
      <3>2. n = s_nonce /\ s_nonce # None
        BY <3>1, NonceAssumption, SMTT(30) DEF SyncInv, Sync!TypeOK
      <3>3. \/ i \in s_returned \/ i \in s_pool
            \/ \E t \in Slot : s_held[t] = i \/ s_pc[t] \in Resetting
        BY <3>1, <3>2, SMTT(30) DEF SyncInv, SyncAccounted
      <3>4. i \in s_returned => i \in s_returned'
        BY <1>1, <2>2 DEF SyncInv, Sync!TypeOK
      <3>5. s_held[s] = None /\ i # None /\ s_pc[s] \notin Resetting
        BY NonceAssumption DEF SyncInv, SyncCall, SyncHolding, Resetting
      <3> QED
        BY <1>4, <3>3, <3>4, <3>5
    <2> QED
      BY <2>1, <2>2, Zenon
  <1> QED
    BY <1>3, <1>5, <1>6, <1>7, SMTT(30) DEF SyncInv

(* Steps that move a call on without a nonce changing hands. *)
LEMMA SyncGoesOn ==
    ASSUME SyncInv, NEW s \in Slot,
           \/ Sync!Start(s) \/ Sync!CacheMiss(s) \/ Sync!Fetch(s) \/ Sync!Prepare(s)
           \/ Sync!Sign(s) \/ Sync!Publish(s) \/ Sync!Confirm(s)
    PROVE  SyncInv'
  <1>1. /\ s_held[s] \in Nat \cup {None} /\ s_mined \in Nat
        /\ s_held = [s_held EXCEPT ![s] = s_held[s]]
        /\ s_generation \in Nat /\ s_floor \in Nat /\ s_floor <= s_mined
    BY DEF SyncInv, Sync!TypeOK, SyncCache
  <1>2. CASE Sync!Start(s) \/ Sync!Prepare(s)
    <2>1. PICK p \in {"preparing", "lock"} : s_pc' = [s_pc EXCEPT ![s] = p]
      BY <1>2 DEF Sync!Start, Sync!Prepare
    <2>2. /\ UNCHANGED <<Sync!cache, s_held, s_recycled, s_snapshot, s_fetched, s_tries>>
          /\ UNCHANGED <<s_closed, s_faults, Sync!l1, s_floor>>
          /\ s_pc[s] \in {"idle", "preparing"}
      BY <1>2 DEF Sync!Start, Sync!Prepare
    <2>3. Sync!TypeOK' /\ s_pc'[s] = p
      BY <2>1, <2>2, SMTT(30) DEF SyncInv, Sync!TypeOK, Sync!cache, Sync!l1
    <2>4. SyncCall(s)'
      BY <2>2, <2>3, Zenon DEF SyncInv, SyncCall, SyncHolding, Sync!cache, Sync!l1
    <2> QED
      BY <1>1, <2>1, <2>2, <2>3, <2>4, SyncMoved, Zenon DEF Resetting, Sync!cache, Sync!l1
  <1>3. CASE Sync!CacheMiss(s)
    <2>1. /\ s_pc' = [s_pc EXCEPT ![s] = "fetching"] /\ s_pc[s] = "lock"
          /\ s_snapshot' = [s_snapshot EXCEPT ![s] = s_generation]
          /\ UNCHANGED <<Sync!cache, s_held, s_recycled, s_fetched, s_tries>>
          /\ UNCHANGED <<s_closed, s_faults, Sync!l1, s_floor>>
      BY <1>3 DEF Sync!CacheMiss
    <2>2. /\ Sync!TypeOK' /\ s_pc'[s] = "fetching" /\ s_snapshot'[s] = s_generation
          /\ \A t \in Slot : t # s => s_snapshot'[t] = s_snapshot[t]
      BY <2>1 DEF SyncInv, Sync!TypeOK, Sync!cache, Sync!l1
    <2>3. SyncCall(s)'
      BY <1>1, <2>1, <2>2, SMTT(30) DEF SyncInv, SyncCall, SyncHolding, Sync!cache, Sync!l1
    <2> QED
      BY <1>1, <2>1, <2>2, <2>3, SyncMoved, Zenon DEF Resetting, Sync!cache, Sync!l1
  <1>4. CASE Sync!Fetch(s)
    <2>1. /\ s_pc' = [s_pc EXCEPT ![s] = "relock"] /\ s_pc[s] = "fetching"
          /\ s_fetched' = [s_fetched EXCEPT ![s] = s_mined]
          /\ UNCHANGED <<Sync!cache, s_held, s_recycled, s_snapshot, s_tries>>
          /\ UNCHANGED <<s_closed, s_faults, Sync!l1, s_floor>>
      BY <1>4 DEF Sync!Fetch
    <2>2. /\ Sync!TypeOK' /\ s_pc'[s] = "relock" /\ s_fetched'[s] = s_mined
          /\ \A t \in Slot : t # s => s_fetched'[t] = s_fetched[t]
      BY <2>1 DEF SyncInv, Sync!TypeOK, Sync!cache, Sync!l1
    <2>3. SyncCall(s)'
      BY <1>1, <2>1, <2>2, SMTT(30) DEF SyncInv, SyncCall, SyncHolding, Sync!cache, Sync!l1
    <2> QED
      BY <1>1, <2>1, <2>2, <2>3, SyncMoved, Zenon DEF Resetting, Sync!cache, Sync!l1
  <1>5. CASE Sync!Sign(s)
    <2>1. /\ s_pc' = [s_pc EXCEPT ![s] = "publishing"] /\ s_pc[s] = "signing"
          /\ s_recycled' = [s_recycled EXCEPT ![s] = FALSE] /\ s_holder' = None
          /\ UNCHANGED <<s_nonce, s_generation, s_high, s_returned, s_held, s_snapshot, s_fetched>>
          /\ UNCHANGED <<s_tries, s_closed, s_faults, Sync!l1, s_floor>>
      BY <1>5 DEF Sync!Sign
    <2>2. /\ s_pc'[s] = "publishing"
          /\ \A t \in Slot : t # s => s_recycled'[t] = s_recycled[t]
      BY <2>1 DEF SyncInv, Sync!TypeOK
    <2>3. Sync!TypeOK'
      <3>1. s_recycled' \in [Slot -> BOOLEAN]
        BY <2>1, SMTT(30) DEF SyncInv, Sync!TypeOK
      <3> QED
        BY <2>1, <3>1 DEF SyncInv, Sync!TypeOK, Sync!l1
    <2>4. SyncCall(s)'
      BY <1>1, <2>1, <2>2, SMTT(30) DEF SyncInv, SyncCall, SyncHolding, Sync!l1
    <2>5. ASSUME NEW t \in Slot, t # s PROVE s_pc[t] # "signing"
      BY <2>1, <2>5, Zenon DEF SyncInv, SyncCall
    <2> QED
      BY <1>1, <2>1, <2>2, <2>3, <2>4, <2>5, SyncMoved, Zenon DEF Resetting, Sync!l1
  <1>6. CASE Sync!Publish(s)
    <2>1. /\ s_pc' = [s_pc EXCEPT ![s] = "pending"] /\ s_pc[s] = "publishing"
          /\ s_pool' = s_pool \cup {s_held[s]} /\ s_tries' = [s_tries EXCEPT ![s] = 0]
          /\ UNCHANGED <<Sync!cache, s_held, s_recycled, s_snapshot, s_fetched>>
          /\ UNCHANGED <<s_closed, s_faults, s_mined, s_floor>>
      BY <1>6 DEF Sync!Publish
    <2>2. s_held[s] \in Nat
      BY <2>1 DEF SyncInv, SyncCall, SyncHolding, Sync!TypeOK
    <2>3. Sync!TypeOK' /\ s_pc'[s] = "pending"
      BY <2>1, <2>2, Zenon DEF SyncInv, Sync!TypeOK, Sync!cache
    <2>4. SyncCall(s)'
      BY <1>1, <2>1, <2>3 DEF SyncInv, SyncCall, SyncHolding, Sync!cache
    <2> QED
      BY <1>1, <2>1, <2>3, <2>4, SyncMoved, Zenon DEF Resetting, Sync!cache
  <1>7. CASE Sync!Confirm(s)
    <2>1. /\ s_pc' = [s_pc EXCEPT ![s] = "idle"] /\ s_pc[s] = "pending"
          /\ s_held' = [s_held EXCEPT ![s] = None] /\ s_held[s] < s_mined
          /\ UNCHANGED <<Sync!cache, s_recycled, s_snapshot, s_fetched, s_tries>>
          /\ UNCHANGED <<s_closed, s_faults, Sync!l1, s_floor>>
      BY <1>7 DEF Sync!Confirm
    <2>2. Sync!TypeOK' /\ s_pc'[s] = "idle" /\ s_held'[s] = None
      BY <2>1 DEF SyncInv, Sync!TypeOK, Sync!cache, Sync!l1
    <2>3. SyncCall(s)'
      BY <1>1, <2>1, <2>2 DEF SyncInv, SyncCall, SyncHolding, Sync!cache, Sync!l1
    <2> QED
      BY <1>1, <2>1, <2>2, <2>3, SyncMoved, Zenon DEF Resetting, Sync!cache, Sync!l1
  <1> QED
    BY <1>2, <1>3, <1>4, <1>5, <1>6, <1>7

(* The cache answers, or the fetch that no reset overtook fills it. *)
LEMMA SyncAcquires ==
    ASSUME SyncInv, NEW s \in Slot, Sync!CacheHit(s) \/ Sync!FillCache(s)
    PROVE  SyncInv'
  <1>1. /\ s_nonce \in Nat \cup {None} /\ s_fetched[s] \in Nat /\ s_fetched[s] <= s_mined
        /\ s_mined \in Nat /\ s_returned \subseteq Nat /\ None \notin Nat
        /\ s_nonce # None => s_nonce >= s_floor
    BY NonceAssumption DEF SyncInv, SyncCall, SyncCache, Sync!TypeOK, Sync!FreshAfterReset
  <1>2. CASE Sync!CacheHit(s)
    <2>1. /\ s_pc[s] = "lock" /\ s_holder = None /\ s_nonce \in Nat /\ s_nonce >= s_floor
          /\ Sync!AdvanceNonce(s, s_nonce, s_returned)
          /\ UNCHANGED <<s_generation, s_snapshot, s_fetched, s_closed, s_faults>>
          /\ UNCHANGED <<s_mined, s_pool, s_floor>>
      BY <1>1, <1>2 DEF Sync!CacheHit, Sync!l1
    <2> QED
      BY <2>1, SyncReserved
  <1>3. CASE Sync!FillCache(s)
    <2> DEFINE n == IF s_nonce = None THEN s_fetched[s] ELSE s_nonce
               r == {x \in s_returned : x >= s_fetched[s]}
    <2>1. /\ s_pc[s] = "relock" /\ s_holder = None /\ s_generation = s_snapshot[s]
          /\ Sync!AdvanceNonce(s, n, r)
          /\ UNCHANGED <<s_generation, s_snapshot, s_fetched, s_closed, s_faults>>
          /\ UNCHANGED <<s_mined, s_pool, s_floor>>
      BY <1>3 DEF Sync!FillCache, Sync!Stale, Sync!l1
    <2>2. s_fetched[s] >= s_floor
      BY <2>1 DEF SyncInv, SyncCall
    <2>3. n \in Nat /\ n >= s_floor /\ (n = s_nonce \/ (s_nonce = None /\ n <= s_mined))
      BY <1>1, <2>2
    <2>4. r \subseteq s_returned /\ \A x \in s_returned : x < s_mined \/ x \in r
      BY <1>1
    <2> HIDE DEF n, r
    <2> QED
      BY <2>1, <2>3, <2>4, SyncReserved, SMTT(30)
  <1> QED
    BY <1>2, <1>3

(* The failures of a call that does not hold the guard. *)
LEMMA SyncFails ==
    ASSUME SyncInv, NEW s \in Slot,
           \/ Sync!FetchFails(s) \/ Sync!RetryFetch(s) \/ Sync!PrepareFails(s)
           \/ Sync!CancelAcquisition(s) \/ Sync!PublishUnheard(s) \/ Sync!PublishTooLow(s)
           \/ Sync!PublishRefused(s) \/ Sync!PublishFails(s) \/ Sync!PublishTooHigh(s)
           \/ Sync!PendingFails(s)
    PROVE  SyncInv'
  <1>1. /\ s_held[s] \in Nat \cup {None} /\ s_mined \in Nat /\ None \in Nat \cup {None}
        /\ s_held = [s_held EXCEPT ![s] = s_held[s]] /\ s_pool \subseteq Nat /\ s_faults \in Nat
    BY DEF SyncInv, Sync!TypeOK
  <1>2. Sync!Fault => s_faults' \in Nat
    BY <1>1, SMTT(30) DEF Sync!Fault
  <1>3. s_pc[s] \in {"lock", "fetching", "relock", "preparing"} => s_held[s] = None
    BY Zenon DEF SyncInv, SyncCall, SyncHolding
  <1>4. s_pc[s] = "publishing" => s_held[s] \in Nat
    BY DEF SyncInv, SyncCall, SyncHolding, Sync!TypeOK
  <1>5. ASSUME NEW p \in {"preparing", "lock"}, s_pc' = [s_pc EXCEPT ![s] = p],
               s_pc[s] \in {"fetching", "relock"}, s_tries' \in [Slot -> Nat], s_faults' \in Nat,
               UNCHANGED <<s_held, s_recycled, s_snapshot, s_fetched>>,
               UNCHANGED <<Sync!cache, s_closed, Sync!l1, s_floor>>
        PROVE  SyncInv'
    <2>1. Sync!TypeOK' /\ s_pc'[s] = p
      BY <1>5 DEF SyncInv, Sync!TypeOK, Sync!cache, Sync!l1
    <2>2. SyncCall(s)'
      BY <1>3, <1>5, <2>1, Zenon DEF SyncInv, SyncCall, SyncHolding, Sync!cache, Sync!l1
    <2> QED
      BY <1>1, <1>5, <2>1, <2>2, SyncMoved, Zenon DEF Resetting, Sync!cache, Sync!l1
  <1>6. CASE Sync!FetchFails(s)
    <2>1. CASE Sync!Fails(s, None, "rpc", FALSE)
      BY <1>1, <1>2, <1>3, <1>6, <2>1, SyncFailedMoved, Zenon
        DEF Sync!FetchFails, Sync!cache, Sync!l1, Resetting
    <2>2. CASE /\ s_pc' = [s_pc EXCEPT ![s] = "preparing"]
               /\ s_tries' = [s_tries EXCEPT ![s] = 0]
               /\ UNCHANGED <<s_held, s_recycled, s_snapshot, s_fetched>>
      <3>1. s_tries' \in [Slot -> Nat]
        BY <2>2 DEF SyncInv, Sync!TypeOK
      <3> QED
        BY <1>2, <1>5, <1>6, <2>2, <3>1 DEF Sync!FetchFails
    <2> QED
      BY <1>6, <2>1, <2>2, Zenon DEF Sync!FetchFails
  <1>7. CASE Sync!RetryFetch(s)
    <2>1. CASE Sync!Fails(s, None, "nonceAcquisition", FALSE)
      BY <1>1, <1>3, <1>7, <2>1, SyncFailedMoved, Zenon
        DEF Sync!RetryFetch, Sync!cache, Sync!l1, Resetting
    <2>2. CASE /\ s_pc' = [s_pc EXCEPT ![s] = "lock"]
               /\ s_tries' = [s_tries EXCEPT ![s] = @ + 1]
               /\ UNCHANGED <<s_held, s_recycled, s_snapshot, s_fetched>>
      <3>1. s_tries' \in [Slot -> Nat]
        BY <2>2 DEF SyncInv, Sync!TypeOK
      <3> QED
        BY <1>1, <1>5, <1>7, <2>2, <3>1 DEF Sync!RetryFetch
    <2> QED
      BY <1>7, <2>1, <2>2, Zenon DEF Sync!RetryFetch
  <1>8. CASE Sync!PrepareFails(s)
    <2>1. PICK error \in {"other", "timeout"} : Sync!Fails(s, s_held[s], error, FALSE)
      BY <1>8, Zenon DEF Sync!PrepareFails
    <2> QED
      BY <1>1, <1>2, <1>8, <2>1, SyncFailedMoved, Zenon
        DEF Sync!PrepareFails, Sync!cache, Sync!l1, Resetting
  <1>9. CASE Sync!CancelAcquisition(s)
    BY <1>1, <1>2, <1>3, <1>9, SyncFailedMoved, Zenon
      DEF Sync!CancelAcquisition, Sync!cache, Sync!l1, Resetting
  <1>10. CASE Sync!PublishUnheard(s)
    <2>1. PICK error \in {"rpc", "timeout"} : Sync!Fails(s, s_held[s], error, FALSE)
      BY <1>10, Zenon DEF Sync!PublishUnheard
    <2>2. s_pool' = s_pool \cup {s_held[s]} /\ s_pool' \subseteq Nat
      BY <1>1, <1>4, <1>10 DEF Sync!PublishUnheard
    <2> QED
      BY <1>1, <1>2, <1>10, <2>1, <2>2, SyncFailedMoved, Zenon
        DEF Sync!PublishUnheard, Sync!cache, Resetting
  <1>11. CASE Sync!PublishTooLow(s)
    BY <1>1, <1>11, SyncFailedMoved, Zenon DEF Sync!PublishTooLow, Sync!cache, Sync!l1, Resetting
  <1>12. CASE Sync!PublishRefused(s)
    BY <1>1, <1>12, SyncFailedMoved, Zenon DEF Sync!PublishRefused, Sync!cache, Sync!l1, Resetting
  <1>13. CASE Sync!PublishFails(s)
    <2>1. PICK error \in {"other", "timeout"} : Sync!Fails(s, s_held[s], error, FALSE)
      BY <1>13, Zenon DEF Sync!PublishFails
    <2> QED
      BY <1>1, <1>2, <1>13, <2>1, SyncFailedMoved, Zenon
        DEF Sync!PublishFails, Sync!cache, Sync!l1, Resetting
  <1>14. CASE Sync!PublishTooHigh(s)
    <2>1. ~(s_tries[s] < 0)
      BY DEF SyncInv, Sync!TypeOK
    <2>2. Sync!Fails(s, s_held[s], "nonceTooHigh", FALSE)
      BY <1>14, <2>1, Zenon DEF Sync!PublishTooHigh
    <2> QED
      BY <1>1, <1>2, <1>14, <2>2, SyncFailedMoved, ZenonT(30)
        DEF Sync!PublishTooHigh, Sync!cache, Sync!l1, Resetting
  <1>15. CASE Sync!PendingFails(s)
    <2>1. PICK error \in {"nonceTooLow", "timeout", "closed"} :
            /\ error = "nonceTooLow" => s_held[s] < s_mined
            /\ error = "closed" => s_closed
            /\ s_faults' \in Nat
            /\ Sync!Fails(s, s_held[s], error, TRUE)
      BY <1>1, <1>2, <1>15, ZenonT(30) DEF Sync!PendingFails
    <2>2. error = "timeout" \/ s_closed \/ s_held[s] < s_mined
      BY <2>1
    <2> QED
      BY <1>1, <1>15, <2>1, <2>2, SyncFailedMoved, Zenon
        DEF Sync!PendingFails, Sync!cache, Sync!l1, Resetting
  <1> QED
    BY <1>6, <1>7, <1>8, <1>9, <1>10, <1>11, <1>12, <1>13, <1>14, <1>15, SMTT(30)

(* Signing fails or is cancelled: the nonce goes back, or a reset will rewind past it. *)
LEMMA SyncUnsigned ==
    ASSUME SyncInv, NEW s \in Slot, Sync!SignFails(s) \/ Sync!CancelSigning(s)
    PROVE  SyncInv'
  <1>1. /\ s_pc[s] = "signing" /\ s_holder' = None /\ s_faults' \in Nat
        /\ s_pc' = [s_pc EXCEPT ![s] = "reset"] /\ s_held' = [s_held EXCEPT ![s] = None]
        /\ s_recycled' = [s_recycled EXCEPT ![s] = FALSE]
        /\ UNCHANGED <<s_generation, s_high, s_snapshot, s_fetched, s_tries, s_closed>>
        /\ UNCHANGED <<s_mined, s_pool, s_floor>>
    BY SMTT(30) DEF SyncInv, Sync!TypeOK, Sync!SignFails, Sync!CancelSigning, Sync!ShouldReset, Sync!Fault, Sync!l1
  <1>2. s_held[s] \in Nat /\ (s_recycled[s] \/ s_held[s] >= s_floor)
    BY <1>1, SMTT(30) DEF SyncInv, SyncCall, SyncHolding, Sync!TypeOK
  <1>3. /\ s_nonce' = s_nonce \/ (s_nonce' = s_held[s] /\ ~s_recycled[s])
        /\ s_returned' = s_returned \/ s_returned' = s_returned \cup {s_held[s]}
    BY SMTT(30) DEF Sync!SignFails, Sync!CancelSigning, Sync!Rollback
  <1>4. Sync!TypeOK'
    <2>1. s_nonce' \in Nat \cup {None} /\ s_returned' \subseteq Nat
      BY <1>2, <1>3, Zenon DEF SyncInv, Sync!TypeOK
    <2>2. s_recycled' \in [Slot -> BOOLEAN]
      BY <1>1 DEF SyncInv, Sync!TypeOK
    <2> QED
      BY <1>1, <2>1, <2>2, SMTT(30) DEF SyncInv, Sync!TypeOK
  <1>5. /\ s_pc'[s] = "reset" /\ s_held'[s] = None
        /\ \A t \in Slot : t # s =>
             s_pc'[t] = s_pc[t] /\ s_held'[t] = s_held[t] /\ s_recycled'[t] = s_recycled[t]
    BY <1>1 DEF SyncInv, Sync!TypeOK
  <1>6. ASSUME NEW t \in Slot PROVE SyncCall(t)'
    <2>1. CASE t = s
      BY <1>1, <1>5, <2>1, SMTT(30) DEF SyncInv, SyncCall, SyncHolding
    <2>2. CASE t # s
      <3>1. s_pc[t] # "signing"
        BY <1>1, <2>2, Zenon DEF SyncInv, SyncCall
      <3> QED
        BY <1>1, <1>5, <2>2, <3>1, SMTT(30) DEF SyncInv, SyncCall
    <2> QED
      BY <2>1, <2>2
  <1>7. SyncCache'
    BY <1>1, <1>2, <1>3, SMTT(30) DEF SyncInv, SyncCache, Sync!FreshAfterReset
  <1>8. SyncAccounted'
    BY <1>5, Zenon DEF SyncAccounted, Resetting
  <1> QED
    BY <1>4, <1>6, <1>7, <1>8 DEF SyncInv

(* reset, and return_reserved_nonce. *)
LEMMA SyncGivesBack ==
    ASSUME SyncInv, NEW s \in Slot, Sync!Reset(s) \/ Sync!ReturnReservedNonce(s)
    PROVE  SyncInv'
  <1>1. s_mined \in Nat /\ s_generation \in Nat /\ s_floor \in Nat
    BY DEF SyncInv, Sync!TypeOK
  <1>2. CASE Sync!Reset(s)
    <2>1. PICK p \in {"idle", "return"} :
            /\ s_pc' = [s_pc EXCEPT ![s] = p]
            /\ p = "idle" => s_pc[s] = "reset"
            /\ p = "return" => s_pc[s] = "resetThenReturn"
      BY <1>2, Zenon DEF Sync!Reset
    <2>2. /\ s_nonce' = None /\ s_generation' = s_generation + 1 /\ s_floor' = s_mined
          /\ s_holder = None
          /\ UNCHANGED <<s_high, s_returned, s_holder, s_held, s_recycled, s_snapshot, s_fetched>>
          /\ UNCHANGED <<s_tries, s_closed, s_faults, s_mined, s_pool>>
      BY <1>2 DEF Sync!Reset, Sync!l1
    <2>3. Sync!TypeOK'
      BY <1>1, <2>1, <2>2 DEF SyncInv, Sync!TypeOK
    <2>4. s_pc'[s] = p /\ \A t \in Slot : t # s => s_pc'[t] = s_pc[t]
      BY <2>1 DEF SyncInv, Sync!TypeOK
    <2>5. ASSUME NEW t \in Slot PROVE SyncCall(t)'
      <3>1. /\ s_pc[t] # "signing" /\ s_snapshot[t] \in Nat
            /\ s_snapshot[t] <= s_generation
        BY <2>2, NonceAssumption DEF SyncInv, SyncCall, Sync!TypeOK
      <3>2. s_snapshot[t] <= s_generation' /\ s_snapshot[t] # s_generation'
        <4>1. s_generation \in Nat /\ s_generation' = s_generation + 1
          BY <1>1, <2>2, SMTT(30)
        <4> QED
          BY <3>1, <4>1
      <3>3. CASE t = s
        BY <2>1, <2>2, <2>4, <3>1, <3>2, <3>3, SMTT(30) DEF SyncInv, SyncCall, SyncHolding
      <3>4. CASE t # s
        BY <2>2, <2>4, <3>1, <3>2, <3>4 DEF SyncInv, SyncCall
      <3> QED
        BY <3>3, <3>4, SMTT(30)
    <2>6. SyncCache' /\ SyncAccounted'
      <3>1. SyncAccounted'
        BY <2>2 DEF SyncAccounted
      <3>2. s_high = 0 /\ s_mined \in Nat
        BY <1>1 DEF SyncInv, SyncCache, Sync!TypeOK
      <3>3. SyncCache'
        BY <2>2, <3>2, SMTT(30) DEF SyncCache, Sync!FreshAfterReset
      <3> QED
        BY <3>1, <3>3, SMTT(30)
    <2> QED
      BY <2>3, <2>5, <2>6 DEF SyncInv
  <1>3. CASE Sync!ReturnReservedNonce(s)
    <2>1. /\ s_pc[s] = "return" /\ s_pc' = [s_pc EXCEPT ![s] = "idle"]
          /\ s_held' = [s_held EXCEPT ![s] = None] /\ s_returned' = s_returned \cup {s_held[s]}
          /\ UNCHANGED <<s_nonce, s_generation, s_high, s_holder, s_recycled, s_snapshot>>
          /\ UNCHANGED <<s_fetched, s_tries, s_closed, s_faults, s_mined, s_pool, s_floor>>
      BY <1>3, SMTT(30) DEF Sync!ReturnReservedNonce, Sync!l1
    <2>2. s_held[s] \in Nat
      BY <2>1, SMTT(30) DEF SyncInv, SyncCall, SyncHolding, Sync!TypeOK
    <2>3. Sync!TypeOK' /\ s_pc'[s] = "idle" /\ s_held'[s] = None
      BY <2>1, <2>2, Zenon DEF SyncInv, Sync!TypeOK
    <2>4. SyncCall(s)'
      BY <2>1, <2>3, Zenon DEF SyncInv, SyncCall, SyncHolding
    <2> QED
      BY <2>1, <2>3, <2>4, SyncMoved, Zenon DEF Resetting
  <1> QED
    BY <1>2, <1>3

(* Every step of the callers of send and of L1 keeps the invariant. *)
LEMMA SyncStepKeeps ==
    ASSUME SyncInv, Sync!Next \/ UNCHANGED Sync!vars
    PROVE  SyncInv'
  <1>1. ASSUME NEW s \in Slot, Sync!SlotStep(s) PROVE SyncInv'
    <2>1. ~Sync!StartTask(s)
      BY Zenon DEF SyncInv, SyncCall, Sync!StartTask
    <2> QED
      BY <1>1, <2>1, SyncGoesOn, SyncAcquires, SyncFails, SyncUnsigned, SyncGivesBack, SMTT(30)
        DEF Sync!SlotStep
  <1>2. CASE Sync!Close
    <2>1. /\ s_closed' = TRUE /\ UNCHANGED <<Sync!cache, Sync!calls, s_faults, Sync!l1, s_floor>>
      BY <1>2, SMTT(30) DEF Sync!Close
    <2>2. Sync!TypeOK'
      BY <2>1, SMTT(30) DEF SyncInv, Sync!TypeOK, Sync!cache, Sync!calls, Sync!l1
    <2>3. ASSUME NEW s \in Slot PROVE SyncCall(s)'
      <3>1. SyncCall(s)
        BY Zenon DEF SyncInv
      <3>2. /\ s_pc' = s_pc /\ s_held' = s_held /\ s_holder' = s_holder /\ s_floor' = s_floor
            /\ s_recycled' = s_recycled /\ s_fetched' = s_fetched /\ s_mined' = s_mined
            /\ s_snapshot' = s_snapshot /\ s_generation' = s_generation
        BY <2>1 DEF Sync!cache, Sync!calls, Sync!l1
      <3> QED
        BY <3>1, <3>2 DEF SyncCall
    <2>4. SyncCache' /\ SyncAccounted'
      BY <2>1 DEF SyncInv, SyncCache, SyncAccounted, Sync!FreshAfterReset, Sync!cache, Sync!l1
    <2> QED
      BY <2>2, <2>3, <2>4 DEF SyncInv
  <1>3. CASE Sync!Mine
    <2>1. /\ s_mined' = s_mined + 1 /\ s_pool' = s_pool \ {s_mined} /\ s_mined \in Nat
          /\ UNCHANGED <<Sync!cache, Sync!calls, s_closed, s_faults, s_floor>>
      BY <1>3 DEF SyncInv, Sync!TypeOK, Sync!Mine
    <2>2. Sync!TypeOK'
      BY <2>1, SMTT(30) DEF SyncInv, Sync!TypeOK, Sync!cache, Sync!calls
    <2>3. ASSUME NEW s \in Slot PROVE SyncCall(s)'
      <3>1. s_fetched[s] \in Nat /\ s_fetched[s] <= s_mined + 1
        BY <2>1 DEF SyncInv, SyncCall, Sync!TypeOK
      <3> QED
        BY <2>1, <3>1, SMTT(30) DEF SyncInv, SyncCall, Sync!cache, Sync!calls
    <2>4. SyncCache'
      BY <2>1, SMTT(30) DEF SyncInv, Sync!TypeOK, SyncCache, Sync!FreshAfterReset, Sync!cache
    <2>5. SyncAccounted'
      <3> SUFFICES ASSUME ~s_closed, s_nonce # None, NEW n \in Nat, s_mined' <= n, n < s_nonce
                   PROVE  \/ n \in s_returned \/ n \in s_pool'
                          \/ \E s \in Slot : s_held[s] = n \/ s_pc[s] \in Resetting
        BY <2>1 DEF SyncAccounted, Sync!cache, Sync!calls
      <3>1. s_mined <= n /\ n # s_mined
        BY <2>1
      <3> QED
        BY <2>1, <3>1, Zenon DEF SyncInv, SyncAccounted
    <2> QED
      BY <2>2, <2>3, <2>4, <2>5 DEF SyncInv
  <1>4. CASE UNCHANGED Sync!vars
    <2>1. UNCHANGED <<Sync!cache, Sync!calls, s_closed, s_faults, Sync!l1, s_floor>>
      BY <1>4, SMTT(30) DEF Sync!vars
    <2>2. Sync!TypeOK'
      BY <2>1, SMTT(30) DEF SyncInv, Sync!TypeOK, Sync!cache, Sync!calls, Sync!l1
    <2>3. ASSUME NEW s \in Slot PROVE SyncCall(s)'
      <3>1. SyncCall(s)
        BY Zenon DEF SyncInv
      <3>2. /\ s_pc' = s_pc /\ s_held' = s_held /\ s_holder' = s_holder /\ s_floor' = s_floor
            /\ s_recycled' = s_recycled /\ s_fetched' = s_fetched /\ s_mined' = s_mined
            /\ s_snapshot' = s_snapshot /\ s_generation' = s_generation
        BY <2>1 DEF Sync!cache, Sync!calls, Sync!l1
      <3> QED
        BY <3>1, <3>2 DEF SyncCall
    <2>4. SyncCache' /\ SyncAccounted'
      BY <2>1, Zenon DEF SyncInv, SyncCache, SyncAccounted, Sync!FreshAfterReset, Sync!cache, Sync!calls, Sync!l1
    <2> QED
      BY <2>2, <2>3, <2>4 DEF SyncInv
  <1> QED
    BY <1>1, <1>2, <1>3, <1>4, SMTT(30) DEF Sync!Next

(* The invariant implies that no nonce is lost. *)
LEMMA SyncNotLost ==
    ASSUME SyncInv
    PROVE  Sync!NoNonceLost
  BY NonceAssumption
     DEF SyncInv, SyncCache, SyncAccounted, Resetting, Sync!TypeOK, Sync!NoNonceLost, Sync!Frontier, Sync!MaxOf

-----------------------------------------------------------------------------
(* The transactions dispatched and not yet settled, and the permits counted over them. *)
Waiting == {i \in Queue!Tx : task[i] = "waiting"}

PermitsCounted ==
    permits + Cardinality(Waiting) + (IF caller = "dispatching" THEN 1 ELSE 0) = MaxPending

(* The queue above send_async.  A transaction that is not dispatched has no completion
   task, and the caller asks for a permit only while it has transactions left. *)
QueueInv ==
    /\ Queue!TypeOK /\ PermitsCounted
    /\ Len(sent) <= Transactions
    /\ \A i \in Queue!Tx : i > Len(sent) => task[i] = "none"
    /\ caller # "idle" => Len(sent) < Transactions

(* The transactions that wait to settle are finitely many. *)
LEMMA WaitingFinite ==
    /\ IsFiniteSet(Queue!Tx) /\ IsFiniteSet(Waiting) /\ Cardinality(Waiting) \in Nat
  <1>1. IsFiniteSet(Queue!Tx)
    BY PartAssumption, FS_Interval DEF Queue!Tx
  <1>2. IsFiniteSet(Waiting)
    BY <1>1, FS_Subset, SMTT(30) DEF Waiting
  <1> QED
    BY <1>1, <1>2, FS_CardinalityType

(* The queue's instance counts its tasks as FiniteSets does. *)
LEMMA QueueCounts ==
    ASSUME NEW S, IsFiniteSet(S)
    PROVE  Queue!Cardinality(S) = Cardinality(S)
  <1>1. \A T : Queue!IsFiniteSet(T) <=> IsFiniteSet(T)
    BY DEF Queue!IsFiniteSet, IsFiniteSet
  <1> QED
    BY <1>1 DEF Queue!Cardinality, Cardinality

(* Counted permits are the permits queue.rs accounts for. *)
LEMMA QueueNotLost ==
    ASSUME QueueInv
    PROVE  Queue!TypeOK /\ Queue!PermitsAccounted
  BY WaitingFinite, QueueCounts DEF QueueInv, PermitsCounted, Queue!PermitsAccounted, Waiting

(* The queue starts with all its permits. *)
LEMMA QueueInit ==
    ASSUME Queue!Init
    PROVE  QueueInv
  <1>1. Waiting = {}
    BY DEF Queue!Init, Waiting
  <1>2. PermitsCounted
    BY <1>1, FS_EmptySet, PartAssumption DEF Queue!Init, PermitsCounted
  <1>3. Queue!TypeOK
    BY PartAssumption DEF Queue!Init, Queue!TypeOK
  <1> QED
    BY <1>2, <1>3, PartAssumption DEF QueueInv, Queue!Init

(* Every step of the caller and of the completion tasks keeps the invariant. *)
LEMMA QueueStepKeeps ==
    ASSUME QueueInv, Queue!Next \/ UNCHANGED queue
    PROVE  QueueInv'
  <1>1. /\ permits \in 0 .. MaxPending /\ MaxPending \in Nat /\ Transactions \in Nat
        /\ sent \in Seq(Queue!Tx) /\ results \in Seq(Queue!Tx) /\ received \in Seq(Queue!Tx)
        /\ task \in [Queue!Tx -> {"none", "waiting", "settled", "done"}]
        /\ Len(sent) \in Nat /\ Len(results) \in Nat /\ Len(results) <= Capacity
        /\ Capacity \in Nat
    BY PartAssumption DEF QueueInv, Queue!TypeOK
  <1>2. /\ permits + Cardinality(Waiting) + (IF caller = "dispatching" THEN 1 ELSE 0) = MaxPending
        /\ Cardinality(Waiting) \in Nat /\ IsFiniteSet(Waiting)
    BY WaitingFinite DEF QueueInv, PermitsCounted, Waiting
  <1>3. CASE Queue!Send
    BY <1>3 DEF QueueInv, Queue!TypeOK, PermitsCounted, Queue!Send, Waiting
  <1>4. CASE Queue!Acquire \/ Queue!TrySend
    <2>1. /\ permits' = permits - 1 /\ caller' = "dispatching" /\ caller # "dispatching"
          /\ UNCHANGED <<sent, task, results, received>> /\ permits > 0
          /\ Len(sent) < Transactions
      BY <1>4 DEF QueueInv, Queue!Acquire, Queue!TrySend
    <2>2. Waiting' = Waiting
      BY <2>1 DEF Waiting
    <2>3. PermitsCounted'
      BY <1>1, <1>2, <2>1, <2>2 DEF PermitsCounted
    <2>4. permits' \in 0 .. MaxPending
      BY <1>1, <2>1
    <2> QED
      BY <2>1, <2>3, <2>4 DEF QueueInv, Queue!TypeOK
  <1>5. CASE Queue!Dispatch
    <2> DEFINE k == Len(sent) + 1
    <2>1. /\ caller = "dispatching" /\ caller' = "idle" /\ sent' = Append(sent, k)
          /\ task' = [task EXCEPT ![k] = "waiting"] /\ UNCHANGED <<permits, results, received>>
      BY <1>5 DEF Queue!Dispatch
    <2>2. k \in Queue!Tx /\ task[k] = "none" /\ k \in Nat
      BY <1>1, <2>1 DEF QueueInv, Queue!Tx
    <2>3. sent' \in Seq(Queue!Tx) /\ Len(sent') = k
      BY <1>1, <2>1, <2>2
    <2> HIDE DEF k
    <2>4. Waiting' = Waiting \cup {k} /\ k \notin Waiting
      BY <1>1, <2>1, <2>2 DEF Waiting
    <2>5. Cardinality(Waiting') = Cardinality(Waiting) + 1
      BY <1>2, <2>4, FS_AddElement
    <2>6. PermitsCounted'
      BY <1>1, <1>2, <2>1, <2>5 DEF PermitsCounted
    <2>7. ASSUME NEW i \in Queue!Tx, i > Len(sent') PROVE task'[i] = "none"
      <3>1. i \in Nat /\ i # k /\ i > Len(sent)
        BY <1>1, <2>2, <2>3, <2>7 DEF Queue!Tx, k
      <3> QED
        BY <1>1, <2>1, <3>1 DEF QueueInv
    <2>8. Len(sent') <= Transactions
      BY <1>1, <2>2, <2>3 DEF Queue!Tx
    <2>9. Queue!TypeOK'
      BY <1>1, <2>1, <2>2, <2>3, SMTT(30) DEF QueueInv, Queue!TypeOK
    <2> QED
      BY <2>1, <2>6, <2>7, <2>8, <2>9 DEF QueueInv
  <1>6. CASE Queue!Receive
    <2>1. Head(results) \in Queue!Tx /\ results # <<>>
      BY <1>1, <1>6 DEF Queue!Receive
    <2>2. /\ results' \in Seq(Queue!Tx) /\ Len(results') <= Capacity
          /\ received' \in Seq(Queue!Tx)
      BY <1>1, <1>6, <2>1 DEF Queue!Receive
    <2> QED
      BY <1>6, <2>2 DEF QueueInv, Queue!TypeOK, PermitsCounted, Waiting, Queue!Receive
  <1>7. ASSUME NEW i \in Queue!Tx, Queue!Settle(i) PROVE QueueInv'
    <2>1. /\ task[i] = "waiting" /\ permits' = permits + 1
          /\ task' = [task EXCEPT ![i] = "settled"] /\ UNCHANGED <<caller, sent, results, received>>
      BY <1>7 DEF Queue!Settle
    <2>2. Waiting' = Waiting \ {i} /\ i \in Waiting
      BY <1>1, <2>1 DEF Waiting
    <2>3. Cardinality(Waiting') = Cardinality(Waiting) - 1
      BY <1>2, <2>2, FS_RemoveElement
    <2>4. Cardinality(Waiting') \in Nat
      <3>1. IsFiniteSet(Waiting')
        BY <1>2, <2>2, FS_Subset
      <3> QED
        BY <3>1, FS_CardinalityType
    <2>5. PermitsCounted' /\ permits' \in 0 .. MaxPending
      BY <1>1, <1>2, <2>1, <2>3, <2>4 DEF PermitsCounted
    <2>6. \A j \in Queue!Tx : j > Len(sent') => task'[j] = "none"
      BY <1>1, <2>1 DEF QueueInv
    <2>7. Queue!TypeOK'
      BY <1>1, <2>1, <2>5 DEF QueueInv, Queue!TypeOK
    <2> QED
      BY <2>1, <2>5, <2>6, <2>7 DEF QueueInv
  <1>8. ASSUME NEW i \in Queue!Tx, Queue!Deliver(i) PROVE QueueInv'
    <2>1. /\ task[i] = "settled" /\ Len(results) < Capacity /\ results' = Append(results, i)
          /\ task' = [task EXCEPT ![i] = "done"] /\ UNCHANGED <<permits, caller, sent, received>>
      BY <1>8 DEF Queue!Deliver
    <2>2. Waiting' = Waiting
      BY <1>1, <2>1 DEF Waiting
    <2>3. results' \in Seq(Queue!Tx) /\ Len(results') <= Capacity
      BY <1>1, <2>1
    <2>4. PermitsCounted'
      BY <1>2, <2>1, <2>2 DEF PermitsCounted
    <2>5. \A j \in Queue!Tx : j > Len(sent') => task'[j] = "none"
      BY <1>1, <2>1 DEF QueueInv
    <2>6. Queue!TypeOK'
      BY <1>1, <2>1, <2>3, SMTT(30) DEF QueueInv, Queue!TypeOK
    <2> QED
      BY <2>1, <2>4, <2>5, <2>6 DEF QueueInv
  <1>9. CASE UNCHANGED queue
    BY <1>9 DEF QueueInv, Queue!TypeOK, PermitsCounted, Waiting, queue
  <1> QED
    BY <1>3, <1>4, <1>5, <1>6, <1>7, <1>8, <1>9
       DEF Queue!Next, Queue!Caller, Queue!Completion

-----------------------------------------------------------------------------
(* The three parts together.  A step of one leaves the others as they are. *)
PartsInv == AsyncInv /\ SyncInv /\ QueueInv

(* Every step keeps the invariants of all parts. *)
LEMMA PartsKept ==
    ASSUME Async = Slot, PartsInv, [MCNext]_mcvars
    PROVE  PartsInv'
  <1>1. Next \/ UNCHANGED vars
    BY DEF MCNext, NonceStep, QueueStep, SyncStep, mcvars
  <1>2. Queue!Next \/ UNCHANGED queue
    BY DEF MCNext, NonceStep, QueueStep, SyncStep, mcvars
  <1>3. Sync!Next \/ UNCHANGED sync
    BY DEF MCNext, NonceStep, QueueStep, SyncStep, mcvars
  <1>4. UNCHANGED sync => UNCHANGED Sync!vars
    BY DEF sync, Sync!vars, Sync!cache, Sync!calls, Sync!l1
  <1>5. AsyncInv'
    BY <1>1, SlotStepKeeps, OtherStepKeeps DEF Next, PartsInv
  <1>6. SyncInv'
    BY <1>3, <1>4, SyncStepKeeps DEF PartsInv
  <1>7. QueueInv'
    BY <1>2, QueueStepKeeps DEF PartsInv
  <1> QED
    BY <1>5, <1>6, <1>7 DEF PartsInv

(* Nothing that was handed out is lost, however many callers, transactions and permits
   there are: a nonce that send_async or send was given and that is not mined belongs to
   a call, waits to be issued again, is in the mempool or is about to be forgotten by a
   reset, and every permit of the queue comes back when its transaction settles. *)
THEOREM NothingIsLost ==
    ASSUME Async = Slot
    PROVE  MCSpec => []NothingLost
  <1>1. MCInit => PartsInv
    BY AsyncInit, SyncInit, QueueInit DEF MCInit, PartsInv
  <1>2. PartsInv /\ [MCNext]_mcvars => PartsInv'
    BY PartsKept
  <1>3. PartsInv => NothingLost
    BY AccountedNotLost, SyncNotLost, QueueNotLost DEF PartsInv, AsyncInv, SyncInv, NothingLost
  <1> QED
    BY <1>1, <1>2, <1>3, PTL DEF MCSpec

(* What a reset of the cache forgot does not come back: a fetch that the reset overtook
   is thrown away (the generation next_nonce compares), so that the cache is never filled
   with a nonce that the chain had passed when a failed send reset it. *)
THEOREM SyncIsFresh ==
    MCSpec => []SyncFreshAfterReset
  <1>1. MCInit => SyncInv
    BY SyncInit DEF MCInit
  <1>2. SyncInv /\ [MCNext]_mcvars => SyncInv'
    <2>1. [MCNext]_mcvars => Sync!Next \/ UNCHANGED sync
      BY DEF MCNext, NonceStep, QueueStep, SyncStep, mcvars
    <2>2. UNCHANGED sync => UNCHANGED Sync!vars
      BY DEF sync, Sync!vars, Sync!cache, Sync!calls, Sync!l1
    <2> QED
      BY <2>1, <2>2, SyncStepKeeps
  <1>3. SyncInv => SyncFreshAfterReset
    BY DEF SyncInv, SyncCache, SyncFreshAfterReset
  <1> QED
    BY <1>1, <1>2, <1>3, PTL DEF MCSpec
=============================================================================
