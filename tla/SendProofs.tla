------------------------------ MODULE SendProofs ------------------------------
(***************************************************************************)
(* Theorems about one transaction on its way to L1, for any number of      *)
(* versions, confirmations, blocks, reorganisations and failed requests.   *)
(***************************************************************************)
EXTENDS SendLoop, FiniteSetTheorems, TLAPS

Block == [fork : Nat, tx : Version \cup {None, Foreign}]

(* The chain: its height, and the forks its blocks were built on. *)
ChainInv ==
    /\ chain \in Seq(Block) /\ plan \in Plans /\ forks \in Nat
    /\ Len(chain) <= plan.height
    /\ \A i \in 1 .. Len(chain) : chain[i].fork <= forks

(* What the poller of v read: the block of the receipt had v in it, and a block that
   has been reorganised out since was built on an earlier fork.  Only a version that
   was published has a poller. *)
PollerInv(v) ==
    /\ v \notin pool => poller[v].st = "none"
    /\ poller[v].fork <= forks
    /\ poller[v].at # 0 =>
         /\ poller[v].at > Len(chain) => poller[v].fork < forks
         /\ poller[v].at <= Len(chain) /\ chain[poller[v].at].fork = poller[v].fork
              => chain[poller[v].at].tx = v

(* Versions the mempool accepted that nothing watches. *)
Unwatched == {v \in pool : poller[v].st = "none"}

(* The inductive invariant. *)
SendInv ==
    /\ TypeOK /\ ChainInv /\ \A v \in Version : PollerInv(v)
    /\ loop = "publishing" => pool = {}
    /\ loop # "done" /\ ~closed =>
         /\ Cardinality(Unwatched) <= unheard
         /\ \A v \in pool : poller[v].st = "ended" => receipts = <<v>>

-----------------------------------------------------------------------------
(* The states of a poller. *)
Pollers == [st : {"none", "asking", "tip", "receipt", "both", "deliver", "ended"},
            tip : 0 .. plan.height, at : 0 .. plan.height, fork : Nat]

(* Facts about the constants. *)
LEMMA PlanFacts ==
    ASSUME plan \in Plans
    PROVE  /\ plan.height \in Nat /\ plan.levels \in Version /\ plan.levels \in Nat
           /\ Version \subseteq Nat /\ 1 \in Version /\ IsFiniteSet(Version)
           /\ 1 .. plan.levels \subseteq Version
  <1>1. plan.height \in Nat /\ plan.levels \in Version /\ MaxVersions \in Nat \ {0}
    BY SendAssumption
  <1>2. IsFiniteSet(Version)
    BY <1>1, FS_Interval DEF Version
  <1> QED
    BY <1>1, <1>2 DEF Version

(* The pollers a poller starts from. *)
LEMMA FreshPollers ==
    ASSUME plan \in Plans
    PROVE  /\ Idle \in Pollers /\ Polling \in Pollers /\ [Idle EXCEPT !.st = "ended"] \in Pollers
           /\ Idle.at = 0 /\ Polling.at = 0 /\ [Idle EXCEPT !.st = "ended"].at = 0
           /\ Idle.fork = 0 /\ Polling.fork = 0 /\ [Idle EXCEPT !.st = "ended"].fork = 0
           /\ Idle.st = "none" /\ Polling.st = "asking"
           /\ [Idle EXCEPT !.st = "ended"].st = "ended"
  <1>1. plan.height \in Nat
    BY PlanFacts
  <1>2. Idle \in Pollers
    BY <1>1 DEF Idle, Pollers
  <1>3. Polling \in Pollers /\ [Idle EXCEPT !.st = "ended"] \in Pollers
    BY <1>2 DEF Polling, Pollers
  <1> QED
    BY <1>2, <1>3 DEF Idle, Polling, Pollers

(* Fewer unwatched versions are at most as many. *)
LEMMA FewerUnwatched ==
    ASSUME NEW S, NEW T, T \subseteq S, S \subseteq Version, plan \in Plans
    PROVE  Cardinality(T) <= Cardinality(S) /\ Cardinality(S) \in Nat /\ Cardinality(T) \in Nat
  <1>1. IsFiniteSet(Version)
    BY PlanFacts
  <1>2. IsFiniteSet(S) /\ IsFiniteSet(T)
    BY <1>1, FS_Subset
  <1> QED
    BY <1>2, FS_Subset, FS_CardinalityType

(* A send starts with nothing published. *)
LEMMA SendInit ==
    ASSUME Init
    PROVE  SendInv
  <1>1. plan \in Plans /\ chain = <<>> /\ forks = 0
    BY DEF Init
  <1>2. poller \in [Version -> Pollers] /\ \A v \in Version : poller[v] = Idle
    BY <1>1, FreshPollers DEF Init
  <1>3. TypeOK
    <2>1. /\ bump \in [fee : 0 .. MaxVersions, hash : 0 .. MaxVersions]
          /\ chain \in Seq(Block) /\ mined_txs \subseteq Version /\ pool \subseteq Version
      BY SendAssumption DEF Init
    <2>2. closed \in BOOLEAN /\ has_published \in BOOLEAN /\ bump_fees \in BOOLEAN
      BY Zenon DEF Init
    <2>3. receipts = <<>> /\ forks \in Nat /\ faults \in Nat /\ unheard \in Nat
          /\ nonce_too_low_count \in Nat /\ outcome = "none" /\ loop = "publishing"
      BY DEF Init
    <2> QED
      BY <1>1, <1>2, <2>1, <2>2, <2>3 DEF TypeOK, Pollers, Block
  <1>4. ChainInv /\ \A v \in Version : PollerInv(v)
    BY <1>1, <1>2, PlanFacts, FreshPollers DEF ChainInv, PollerInv
  <1>5. Unwatched = {}
    BY DEF Init, Unwatched
  <1>6. Cardinality(Unwatched) <= unheard
    BY <1>5, FS_EmptySet DEF Init
  <1> QED
    BY <1>3, <1>4, <1>6 DEF SendInv, Init

-----------------------------------------------------------------------------
(* The steps of the loop leave the chain alone and what the pollers read; a version
   that is published gets a poller, but for one whose acceptance was not heard of. *)
LoopMoves ==
    /\ UNCHANGED <<chain, forks, plan>>
    /\ poller' \in [Version -> Pollers]
    /\ pool \subseteq pool'
    /\ \A v \in Version :
         poller'[v] = poller[v] \/ (poller'[v] = Polling /\ v \in pool')

(* Such a step keeps what is known of the chain and the pollers. *)
LEMMA LoopMovesKeep ==
    ASSUME SendInv, LoopMoves
    PROVE  ChainInv' /\ \A v \in Version : PollerInv(v)'
  <1>1. ChainInv'
    BY DEF SendInv, ChainInv, LoopMoves
  <1>2. plan \in Plans /\ forks \in Nat
    BY DEF SendInv, ChainInv
  <1>3. ASSUME NEW v \in Version PROVE PollerInv(v)'
    BY <1>2, FreshPollers DEF SendInv, PollerInv, LoopMoves
  <1> QED
    BY <1>1, <1>3

(* The first publication. *)
LEMMA PublishFirstInv ==
    ASSUME SendInv, PublishFirst
    PROVE  SendInv'
  <1>1. /\ plan \in Plans /\ 1 \in Version /\ Polling \in Pollers /\ Pollers' = Pollers
        /\ poller \in [Version -> Pollers]
    BY PlanFacts, FreshPollers DEF SendInv, TypeOK, PublishFirst, bounds, Pollers
  <1>2. LoopMoves
    BY <1>1 DEF LoopMoves, PublishFirst, bounds, SendInv
  <1>3. bump' \in [fee : 0 .. MaxVersions, hash : 0 .. MaxVersions]
    BY <1>1, SendAssumption DEF PublishFirst, Version
  <1>4. TypeOK'
    BY <1>1, <1>2, <1>3 DEF SendInv, TypeOK, PublishFirst, bounds, LoopMoves, Pollers
  <1>5. poller'[1] = Polling /\ Polling.st = "asking"
    BY <1>1, FreshPollers DEF PublishFirst
  <1>6. Unwatched' = {}
    BY <1>5 DEF Unwatched, PublishFirst
  <1>7. Cardinality(Unwatched)' <= unheard' /\ \A v \in pool' : poller'[v].st # "ended"
    BY <1>5, <1>6, FS_EmptySet DEF PublishFirst, bounds, SendInv, TypeOK
  <1> QED
    BY <1>2, <1>4, <1>7, LoopMovesKeep DEF SendInv, PublishFirst

(* A step of the loop that neither publishes nor touches a poller: the send ends, or
   nothing is taken from the receipts. *)
Waits ==
    /\ UNCHANGED <<mined_txs, has_published, poller, closed, chain, forks, pool, plan, unheard>>
    /\ bump' \in [fee : 0 .. MaxVersions, hash : 0 .. MaxVersions]
    /\ loop' \in {"top", "select", "bumping", "done"}
    /\ outcome' \in {"none", "confirmed", "nonceTooLow", "closed", "timeout", "unpublished"}
    /\ nonce_too_low_count' \in Nat /\ bump_fees' \in BOOLEAN /\ faults' \in Nat
    /\ receipts' = receipts \/ (loop' = "done" /\ receipts' = <<>>)
    /\ loop = "done" => loop' = "done"

(* Such a step keeps the invariant. *)
LEMMA WaitsInv ==
    ASSUME SendInv, Waits
    PROVE  SendInv'
  <1>1. plan \in Plans /\ poller \in [Version -> Pollers] /\ Pollers' = Pollers
    BY DEF SendInv, TypeOK, Waits, Pollers
  <1>2. LoopMoves
    BY <1>1 DEF LoopMoves, Waits
  <1>3. TypeOK'
    <2>1. receipts' \in {<<>>} \cup {<<v>> : v \in Version}
      BY DEF SendInv, TypeOK, Waits
    <2> QED
      BY <1>1, <2>1 DEF SendInv, TypeOK, Waits, Pollers
  <1>4. Unwatched' = Unwatched
    BY DEF Unwatched, Waits
  <1> QED
    BY <1>2, <1>3, <1>4, LoopMovesKeep DEF SendInv, Waits

(* A send error counts and may ask for a bump. *)
LEMMA SendErrors ==
    ASSUME SendInv, NEW error, ProcessSendError(error)
    PROVE  /\ nonce_too_low_count' \in Nat /\ bump_fees' \in BOOLEAN
           /\ UNCHANGED <<mined_txs, has_published>>
  <1>1. nonce_too_low_count \in Nat /\ bump_fees \in BOOLEAN
    BY DEF SendInv, TypeOK
  <1>2. nonce_too_low_count' \in Nat
    BY <1>1 DEF ProcessSendError
  <1>3. bump_fees' \in BOOLEAN
    BY <1>1, Zenon DEF ProcessSendError
  <1> QED
    BY <1>2, <1>3 DEF ProcessSendError

(* The steps of the loop that publish nothing. *)
LEMMA QuietLoopInv ==
    ASSUME SendInv,
           PublishFirstFails \/ Top \/ Receive \/ Tick \/ SkipBump \/ BumpFails \/ SendTimeout
    PROVE  SendInv'
  <1>1. /\ bump \in [fee : 0 .. MaxVersions, hash : 0 .. MaxVersions]
        /\ outcome \in {"none", "confirmed", "nonceTooLow", "closed", "timeout", "unpublished"}
        /\ nonce_too_low_count \in Nat /\ bump_fees \in BOOLEAN /\ faults \in Nat
    BY DEF SendInv, TypeOK
  <1>0. receipts # <<>> => Tail(receipts) = <<>>
    <2>1. receipts = <<>> \/ \E v \in Version : receipts = <<v>>
      BY DEF SendInv, TypeOK
    <2>2. \A v \in Version : Tail(<<v>>) = <<>>
      OBVIOUS
    <2> QED
      BY <2>1, <2>2, Zenon
  <1>2. Fault => faults' \in Nat /\ UNCHANGED <<plan, unheard>>
    BY <1>1 DEF Fault
  <1>3. CASE PublishFirstFails
    <2>1. /\ nonce_too_low_count' \in Nat /\ bump_fees' \in BOOLEAN
          /\ UNCHANGED <<mined_txs, has_published, plan, unheard>> /\ faults' \in Nat
      BY <1>1, <1>2, <1>3, SendErrors DEF PublishFirstFails, send, bounds
    <2> QED
      BY <1>1, <1>3, <2>1, WaitsInv DEF PublishFirstFails, Returns, Waits, l1
  <1>4. CASE Top
    <2>1. bump_fees' \in BOOLEAN /\ loop' \in {"select", "bumping", "done"}
      BY <1>1, <1>4, Zenon DEF Top, Returns
    <2>2. receipts' = receipts \/ (loop' = "done" /\ receipts' = <<>>)
      BY <1>0, <1>4 DEF Top, Returns
    <2>3. outcome' = outcome \/ outcome' \in {"closed", "nonceTooLow", "confirmed"}
      BY <1>4 DEF Top, Returns
    <2>4. UNCHANGED <<bump, mined_txs, has_published, nonce_too_low_count, poller, closed, l1, bounds>>
          /\ loop = "top"
      BY <1>4 DEF Top
    <2> QED
      BY <1>1, <2>1, <2>2, <2>3, <2>4, WaitsInv DEF Waits, l1, bounds
  <1>5. CASE Receive
    BY <1>0, <1>1, <1>5, WaitsInv DEF Receive, Returns, Waits, send, l1, bounds
  <1>6. CASE Tick \/ SkipBump
    BY <1>1, <1>6, WaitsInv DEF Tick, SkipBump, Waits, send, l1, bounds
  <1>7. CASE BumpFails
    <2>1. UNCHANGED <<plan, unheard>> /\ faults' \in Nat
      BY <1>1, <1>2, <1>7 DEF BumpFails, bounds
    <2> QED
      BY <1>1, <1>7, <2>1, WaitsInv DEF BumpFails, Waits, send, l1
  <1>8. CASE SendTimeout
    BY <1>1, <1>2, <1>8, WaitsInv DEF SendTimeout, Returns, Waits, send, l1
  <1> QED
    BY <1>3, <1>4, <1>5, <1>6, <1>7, <1>8

(* A version is published: it gets a poller, or its acceptance is not heard of. *)
LEMMA BumpInv ==
    ASSUME SendInv, NEW w \in 1 .. plan.levels, Bump(w)
    PROVE  SendInv'
  <1>1. /\ plan \in Plans /\ w \in Version /\ w \in Nat /\ Polling \in Pollers
        /\ poller \in [Version -> Pollers] /\ pool \subseteq Version
        /\ Version \subseteq Nat /\ unheard \in Nat /\ faults \in Nat
    BY PlanFacts, FreshPollers, Zenon DEF SendInv, TypeOK, Pollers
  <1>8. /\ bump \in [fee : 0 .. MaxVersions, hash : 0 .. MaxVersions]
        /\ [bump EXCEPT !.fee = w] \in [fee : 0 .. MaxVersions, hash : 0 .. MaxVersions]
        /\ [fee |-> w, hash |-> w] \in [fee : 0 .. MaxVersions, hash : 0 .. MaxVersions]
    <2>1. w \in 0 .. MaxVersions
      BY <1>1, SendAssumption DEF Version
    <2>2. bump \in [fee : 0 .. MaxVersions, hash : 0 .. MaxVersions]
      BY DEF SendInv, TypeOK
    <2> QED
      BY <2>1, <2>2
  <1>2. /\ nonce_too_low_count \in Nat /\ bump_fees \in BOOLEAN
        /\ outcome \in {"none", "confirmed", "nonceTooLow", "closed", "timeout", "unpublished"}
    BY DEF SendInv, TypeOK
  <1>3. loop = "bumping" /\ loop' = "top" /\ UNCHANGED <<outcome, receipts, closed, chain, forks>>
    BY DEF Bump
  <1>4. Fault => faults' \in Nat /\ UNCHANGED <<plan, unheard>>
    BY <1>1 DEF Fault
  <1>5. CASE UNCHANGED <<pool, poller>> /\ UNCHANGED <<plan, unheard>> /\ faults' \in Nat
             /\ bump' \in {bump, [bump EXCEPT !.fee = w]}
             /\ (UNCHANGED send \/ \E error : ProcessSendError(error))
    <2>1. /\ nonce_too_low_count' \in Nat /\ bump_fees' \in BOOLEAN
          /\ UNCHANGED <<mined_txs, has_published>>
      BY <1>2, <1>5, SendErrors DEF send
    <2> QED
      BY <1>2, <1>3, <1>5, <1>8, <2>1, WaitsInv DEF Waits
  <1>6. CASE Bumped(w) /\ UNCHANGED send /\ \A v \in pool : v < w
    <2>1. /\ pool' = pool \cup {w} /\ poller' = [poller EXCEPT ![w] = Polling]
          /\ UNCHANGED <<plan, faults, unheard>> /\ Pollers' = Pollers
          /\ bump' = [fee |-> w, hash |-> w]
      BY <1>6 DEF Bumped, bounds, Pollers
    <2>2. LoopMoves
      BY <1>1, <1>3, <2>1 DEF LoopMoves
    <2>3. TypeOK'
      BY <1>1, <1>2, <1>3, <1>6, <1>8, <2>1, <2>2 DEF SendInv, TypeOK, Pollers, LoopMoves, send
    <2>4. poller'[w].st = "asking" /\ \A v \in Version : v # w => poller'[v] = poller[v]
      BY <1>1, <2>1, FreshPollers
    <2>5. Unwatched' \subseteq Unwatched /\ Unwatched \subseteq Version
      BY <1>1, <2>1, <2>4, Zenon DEF Unwatched
    <2>6. Cardinality(Unwatched') <= Cardinality(Unwatched)
          /\ Cardinality(Unwatched) \in Nat /\ Cardinality(Unwatched') \in Nat
      BY <1>1, <2>5, FewerUnwatched, Zenon
    <2>7. loop' # "done" /\ ~closed' =>
            /\ Cardinality(Unwatched') <= unheard'
            /\ \A v \in pool' : poller'[v].st = "ended" => receipts' = <<v>>
      BY <1>1, <1>3, <2>1, <2>4, <2>6 DEF SendInv
    <2> QED
      BY <1>3, <2>2, <2>3, <2>7, LoopMovesKeep DEF SendInv
  <1>7. CASE /\ \A v \in pool : v < w
             /\ unheard' = unheard + 1 /\ pool' = pool \cup {w}
             /\ ProcessSendError("retryable")
             /\ UNCHANGED <<bump, poller, plan, faults>>
    <2>1. Pollers' = Pollers
      BY <1>7 DEF Pollers
    <2>2. LoopMoves
      BY <1>1, <1>3, <1>7, <2>1 DEF LoopMoves
    <2>3. /\ nonce_too_low_count' \in Nat /\ bump_fees' \in BOOLEAN
          /\ UNCHANGED <<mined_txs, has_published>>
      BY <1>7, SendErrors
    <2>4. TypeOK'
      <3>1. pool' \subseteq Version /\ unheard' \in Nat
        BY <1>1, <1>7
      <3>2. poller' \in [Version -> Pollers'] /\ UNCHANGED <<bump, faults, plan>>
        BY <1>1, <1>7, <2>1
      <3> QED
        BY <1>2, <1>3, <1>8, <2>3, <3>1, <3>2 DEF SendInv, TypeOK, Pollers
    <2>5. Unwatched' \subseteq Unwatched \cup {w} /\ Unwatched \subseteq Version
          /\ Unwatched \cup {w} \subseteq Version
      BY <1>1, <1>7, Zenon DEF Unwatched
    <2>6. /\ Cardinality(Unwatched') <= Cardinality(Unwatched \cup {w})
          /\ Cardinality(Unwatched') \in Nat /\ Cardinality(Unwatched) \in Nat
          /\ IsFiniteSet(Unwatched)
      BY <1>1, <2>5, FewerUnwatched, PlanFacts, FS_Subset, Zenon
    <2>7. Cardinality(Unwatched \cup {w}) \in {Cardinality(Unwatched), Cardinality(Unwatched) + 1}
      BY <2>6, FS_AddElement, Zenon
    <2>8. poller[w].st = "none"
      <3>1. w \notin pool
        BY <1>1, <1>7
      <3> QED
        BY <1>1, <3>1 DEF SendInv, PollerInv
    <2>9. ASSUME ~closed'
          PROVE  /\ Cardinality(Unwatched') <= unheard'
                 /\ \A v \in pool' : poller'[v].st = "ended" => receipts' = <<v>>
      <3>1. Cardinality(Unwatched) <= unheard
            /\ \A v \in pool : poller[v].st = "ended" => receipts = <<v>>
        BY <1>3, <2>9 DEF SendInv
      <3>2. Cardinality(Unwatched') <= unheard'
        BY <1>1, <1>7, <2>6, <2>7, <3>1
      <3> QED
        BY <1>3, <1>7, <2>8, <3>1, <3>2
    <2> QED
      BY <1>3, <2>2, <2>4, <2>9, LoopMovesKeep DEF SendInv
  <1> QED
    BY <1>1, <1>4, <1>5, <1>6, <1>7 DEF Bump, bounds

(* The manager is closed. *)
LEMMA CloseInv ==
    ASSUME SendInv, Close
    PROVE  SendInv'
  <1>1. /\ closed' = TRUE /\ UNCHANGED <<loop, outcome, bump, receipts, poller, pool>>
        /\ UNCHANGED <<mined_txs, has_published, nonce_too_low_count, bump_fees>>
        /\ UNCHANGED <<chain, forks, plan, faults, unheard>>
    BY DEF Close, send, l1, bounds
  <1>2. TypeOK'
    BY <1>1 DEF SendInv, TypeOK
  <1>3. ChainInv' /\ \A v \in Version : PollerInv(v)'
    BY <1>1 DEF SendInv, ChainInv, PollerInv
  <1> QED
    BY <1>1, <1>2, <1>3 DEF SendInv

-----------------------------------------------------------------------------
(* What poller p of version v may have read of the chain. *)
Read(v, p) ==
    /\ p.fork <= forks
    /\ p.at # 0 =>
         /\ p.at > Len(chain) => p.fork < forks
         /\ p.at <= Len(chain) /\ chain[p.at].fork = p.fork => chain[p.at].tx = v

(* A step of the poller of v, which becomes p: it ends when its receipt is on the
   channel, the send is over or the manager is closed. *)
PollerMoves(v, p) ==
    /\ UNCHANGED <<loop, outcome, bump, closed, chain, forks, pool, plan, unheard>>
    /\ mined_txs' \subseteq Version /\ has_published' \in BOOLEAN
    /\ nonce_too_low_count' \in Nat /\ bump_fees' \in BOOLEAN /\ faults' \in Nat
    /\ poller' = [poller EXCEPT ![v] = p]
    /\ p \in Pollers /\ p.st # "none" /\ poller[v].st # "none" /\ Read(v, p)
    /\ receipts' = receipts \/ (receipts = <<>> /\ receipts' = <<v>>)
    /\ p.st = "ended" => loop = "done" \/ closed \/ receipts' = <<v>>

(* Such a step keeps the invariant. *)
LEMMA PollerMovesInv ==
    ASSUME SendInv, NEW v \in Version, NEW p, PollerMoves(v, p)
    PROVE  SendInv'
  <1>1. /\ plan \in Plans /\ poller \in [Version -> Pollers] /\ Pollers' = Pollers
        /\ pool \subseteq Version /\ receipts \in {<<>>} \cup {<<u>> : u \in Version}
    BY DEF SendInv, TypeOK, Pollers, PollerMoves
  <1>2. poller' \in [Version -> Pollers] /\ poller'[v] = p
        /\ \A u \in Version : u # v => poller'[u] = poller[u]
    BY <1>1 DEF PollerMoves
  <1>3. v \in pool
    BY DEF SendInv, PollerInv, PollerMoves
  <1>4. TypeOK'
    <2>1. receipts' \in {<<>>} \cup {<<u>> : u \in Version}
      BY <1>1 DEF PollerMoves
    <2> QED
      BY <1>1, <1>2, <2>1 DEF SendInv, TypeOK, Pollers, PollerMoves
  <1>5. ChainInv'
    BY DEF SendInv, ChainInv, PollerMoves
  <1>6. ASSUME NEW u \in Version PROVE PollerInv(u)'
    BY <1>2, <1>3 DEF SendInv, PollerInv, PollerMoves, Read
  <1>7. Unwatched' = Unwatched
    BY <1>1, <1>2 DEF Unwatched, PollerMoves
  <1>8. ASSUME loop # "done", ~closed, NEW u \in pool, poller'[u].st = "ended"
        PROVE  receipts' = <<u>>
    <2>1. CASE u = v
      BY <1>2, <1>8, <2>1 DEF PollerMoves
    <2>2. CASE u # v
      <3>1. receipts = <<u>>
        BY <1>1, <1>2, <1>8, <2>2 DEF SendInv
      <3>2. <<u>> # <<>>
        OBVIOUS
      <3> QED
        BY <3>1, <3>2 DEF PollerMoves
    <2> QED
      BY <2>1, <2>2
  <1> QED
    BY <1>4, <1>5, <1>6, <1>7, <1>8 DEF SendInv, PollerMoves

(* A poller that starts afresh. *)
LEMMA PollsAgain ==
    ASSUME SendInv, NEW v \in Version, PollAgain(v)
    PROVE  \E p \in Pollers :
             /\ poller' = [poller EXCEPT ![v] = p] /\ p.st \in {"asking", "ended"}
             /\ Read(v, p) /\ (p.st = "ended" => closed)
  <1>1. plan \in Plans /\ forks \in Nat
    BY DEF SendInv, ChainInv
  <1>2. CASE closed
    <2> DEFINE q == [Idle EXCEPT !.st = "ended"]
    <2>1. poller' = [poller EXCEPT ![v] = q]
      BY <1>2 DEF PollAgain, Set
    <2>2. q \in Pollers /\ q.st = "ended" /\ q.at = 0 /\ q.fork = 0
      BY <1>1, FreshPollers
    <2> HIDE DEF q
    <2>3. Read(v, q)
      BY <1>1, <2>2 DEF Read
    <2> QED
      BY <1>2, <2>1, <2>2, <2>3, Zenon
  <1>3. CASE ~closed
    <2>1. poller' = [poller EXCEPT ![v] = Polling]
      BY <1>3 DEF PollAgain, Set
    <2>2. Polling \in Pollers /\ Polling.st = "asking" /\ Polling.at = 0 /\ Polling.fork = 0
      BY <1>1, FreshPollers
    <2>3. Read(v, Polling)
      BY <1>1, <2>2 DEF Read
    <2>4. Polling.st # "ended"
      BY <2>2
    <2> QED
      BY <2>1, <2>2, <2>3, <2>4, Zenon
  <1> QED
    BY <1>2, <1>3

(* A step that touches nothing the send knows but the pollers. *)
LEMMA OnlyPollers ==
    ASSUME SendInv, UNCHANGED <<loop, outcome, bump, send, receipts, closed, l1, bounds>>
    PROVE  /\ UNCHANGED <<loop, outcome, bump, closed, chain, forks, pool, plan, unheard>>
           /\ mined_txs' \subseteq Version /\ has_published' \in BOOLEAN
           /\ nonce_too_low_count' \in Nat /\ bump_fees' \in BOOLEAN /\ faults' \in Nat
           /\ receipts' = receipts
  BY DEF SendInv, TypeOK, send, l1, bounds

(* The block number is read. *)
LEMMA AskTipInv ==
    ASSUME SendInv, NEW v \in Version, AskTip(v)
    PROVE  SendInv'
  <1> DEFINE st == IF poller[v].st = "asking" THEN "tip" ELSE "both"
             q == [poller[v] EXCEPT !.tip = Len(chain), !.st = st]
  <1>1. /\ poller[v] \in Pollers /\ Len(chain) \in 0 .. plan.height /\ Read(v, poller[v])
    BY DEF SendInv, TypeOK, Pollers, ChainInv, PollerInv, Read
  <1>2. st \in {"tip", "both"}
    OBVIOUS
  <1>3. poller' = [poller EXCEPT ![v] = q] /\ poller[v].st \in {"asking", "receipt"}
    BY DEF AskTip, Set
  <1> HIDE DEF st
  <1>4. q \in Pollers /\ q.st = st /\ q.at = poller[v].at /\ q.fork = poller[v].fork
    BY <1>1, <1>2, Zenon DEF Pollers
  <1> HIDE DEF q
  <1>5. Read(v, q)
    BY <1>1, <1>4 DEF Read
  <1>6. PollerMoves(v, q)
    BY <1>2, <1>3, <1>4, <1>5, OnlyPollers DEF PollerMoves, AskTip
  <1> QED
    BY <1>6, PollerMovesInv

(* The receipt is read. *)
LEMMA AskReceiptInv ==
    ASSUME SendInv, NEW v \in Version, AskReceipt(v)
    PROVE  SendInv'
  <1> DEFINE st == IF poller[v].st = "asking" THEN "receipt" ELSE "both"
             q(i, f) == [poller[v] EXCEPT !.at = i, !.fork = f, !.st = st]
  <1>1. /\ poller[v] \in Pollers /\ Len(chain) \in 0 .. plan.height /\ chain \in Seq(Block)
        /\ plan.height \in Nat /\ \A i \in 1 .. Len(chain) : chain[i].fork <= forks
        /\ forks \in Nat
    BY PlanFacts DEF SendInv, TypeOK, Pollers, ChainInv
  <1>2. st \in {"receipt", "both"}
    BY SMTT(30)
  <1>3. poller[v].st \in {"asking", "tip"}
        /\ UNCHANGED <<loop, outcome, bump, send, receipts, closed, l1, bounds>>
    BY ZenonT(30) DEF AskReceipt
  <1>4. \/ poller' = [poller EXCEPT ![v] = q(0, 0)]
        \/ \E i \in DOMAIN chain : IncludedAt(v, i)
                                   /\ poller' = [poller EXCEPT ![v] = q(i, chain[i].fork)]
    BY Zenon DEF AskReceipt, Set
  <1> HIDE DEF st
  <1>5. ASSUME NEW i \in 0 .. plan.height, NEW f \in Nat
        PROVE  q(i, f) \in Pollers /\ q(i, f).st = st /\ q(i, f).at = i /\ q(i, f).fork = f
    BY <1>1, <1>2, Zenon DEF Pollers
  <1> HIDE DEF q
  <1>6. CASE poller' = [poller EXCEPT ![v] = q(0, 0)]
    <2>1. q(0, 0) \in Pollers /\ q(0, 0).st = st /\ Read(v, q(0, 0))
      BY <1>1, <1>5 DEF Read
    <2>2. PollerMoves(v, q(0, 0))
      BY <1>2, <1>3, <1>6, <2>1, OnlyPollers DEF PollerMoves
    <2> QED
      BY <2>2, PollerMovesInv
  <1>7. ASSUME NEW i \in DOMAIN chain, IncludedAt(v, i),
               poller' = [poller EXCEPT ![v] = q(i, chain[i].fork)]
        PROVE  SendInv'
    <2>1. /\ i \in 1 .. Len(chain) /\ i \in 0 .. plan.height /\ chain[i].fork \in Nat
          /\ chain[i].tx = v
      <3>1. i \in 1 .. Len(chain) /\ Len(chain) \in Nat
        BY <1>1
      <3>2. chain[i] \in Block
        BY <1>1, <3>1
      <3> QED
        BY <1>1, <1>7, <3>1, <3>2 DEF Block, IncludedAt
    <2>2. /\ q(i, chain[i].fork) \in Pollers /\ q(i, chain[i].fork).st = st
          /\ q(i, chain[i].fork).at = i /\ q(i, chain[i].fork).fork = chain[i].fork
      BY <1>5, <2>1
    <2>3. Read(v, q(i, chain[i].fork))
      BY <1>1, <2>1, <2>2 DEF Read
    <2>4. PollerMoves(v, q(i, chain[i].fork))
      BY <1>2, <1>3, <1>7, <2>2, <2>3, OnlyPollers DEF PollerMoves
    <2> QED
      BY <2>4, PollerMovesInv
  <1> QED
    BY <1>4, <1>6, <1>7

(* The state is recorded. *)
LEMMA SendStateKept ==
    ASSUME SendInv, NEW v \in Version, TxMined(v) \/ TxNotMined(v)
    PROVE  /\ mined_txs' \subseteq Version /\ has_published' \in BOOLEAN
           /\ nonce_too_low_count' \in Nat /\ bump_fees' \in BOOLEAN
  <1>1. /\ mined_txs \subseteq Version /\ has_published \in BOOLEAN
        /\ nonce_too_low_count \in Nat /\ bump_fees \in BOOLEAN
    BY DEF SendInv, TypeOK
  <1>2. mined_txs' \subseteq Version /\ nonce_too_low_count' \in Nat
    BY <1>1 DEF TxMined, TxNotMined
  <1> QED
    BY <1>1, <1>2 DEF TxMined, TxNotMined

(* The canonical block is read. *)
LEMMA JudgeInv ==
    ASSUME SendInv, NEW v \in Version, Judge(v)
    PROVE  SendInv'
  <1>1. /\ mined_txs' \subseteq Version /\ has_published' \in BOOLEAN
        /\ nonce_too_low_count' \in Nat /\ bump_fees' \in BOOLEAN
    BY SendStateKept DEF Judge
  <1>2. /\ UNCHANGED <<loop, outcome, bump, closed, chain, forks, pool, plan, unheard>>
        /\ receipts' = receipts /\ faults' \in Nat /\ poller[v].st = "both"
    BY DEF SendInv, TypeOK, Judge, l1, bounds
  <1>3. CASE PollAgain(v)
    <2>1. PICK p \in Pollers :
             /\ poller' = [poller EXCEPT ![v] = p] /\ p.st \in {"asking", "ended"}
             /\ Read(v, p) /\ (p.st = "ended" => closed)
      BY <1>3, PollsAgain
    <2>2. PollerMoves(v, p)
      BY <1>1, <1>2, <2>1 DEF PollerMoves
    <2> QED
      BY <2>2, PollerMovesInv
  <1>4. CASE Set(v, [poller[v] EXCEPT !.st = "deliver"])
    <2> DEFINE q == [poller[v] EXCEPT !.st = "deliver"]
    <2>1. poller[v] \in Pollers /\ Read(v, poller[v])
      BY DEF SendInv, TypeOK, Pollers, PollerInv, Read
    <2>2. poller' = [poller EXCEPT ![v] = q]
      BY <1>4 DEF Set
    <2>3. q \in Pollers /\ q.st = "deliver" /\ q.at = poller[v].at /\ q.fork = poller[v].fork
      BY <2>1 DEF Pollers
    <2> HIDE DEF q
    <2>4. Read(v, q)
      BY <2>1, <2>3 DEF Read
    <2>5. PollerMoves(v, q)
      BY <1>1, <1>2, <2>2, <2>3, <2>4 DEF PollerMoves
    <2> QED
      BY <2>5, PollerMovesInv
  <1> QED
    BY <1>3, <1>4 DEF Judge

(* A query fails. *)
LEMMA QueryFailsInv ==
    ASSUME SendInv, NEW v \in Version, QueryFails(v)
    PROVE  SendInv'
  <1>1. PICK p \in Pollers :
           /\ poller' = [poller EXCEPT ![v] = p] /\ p.st \in {"asking", "ended"}
           /\ Read(v, p) /\ (p.st = "ended" => closed)
    BY PollsAgain DEF QueryFails
  <1>2. /\ UNCHANGED <<loop, outcome, bump, closed, chain, forks, pool, plan, unheard>>
        /\ receipts' = receipts /\ faults' \in Nat /\ poller[v].st # "none"
        /\ mined_txs' \subseteq Version /\ has_published' \in BOOLEAN
        /\ nonce_too_low_count' \in Nat /\ bump_fees' \in BOOLEAN
    BY DEF SendInv, TypeOK, QueryFails, Fault, l1, send
  <1>3. PollerMoves(v, p)
    BY <1>1, <1>2 DEF PollerMoves
  <1> QED
    BY <1>3, PollerMovesInv

(* A receipt is sent, or the poller of a send that is over stops. *)
LEMMA PollerEndsInv ==
    ASSUME SendInv, NEW v \in Version, Deliver(v) \/ HangUp(v)
    PROVE  SendInv'
  <1> DEFINE q == [Idle EXCEPT !.st = "ended"]
  <1>1. plan \in Plans /\ forks \in Nat
    BY DEF SendInv, ChainInv
  <1>2. q \in Pollers /\ q.st = "ended" /\ q.at = 0 /\ q.fork = 0
    BY <1>1, FreshPollers
  <1>3. /\ UNCHANGED <<loop, outcome, bump, closed, chain, forks, pool, plan, unheard>>
        /\ mined_txs' \subseteq Version /\ has_published' \in BOOLEAN
        /\ nonce_too_low_count' \in Nat /\ bump_fees' \in BOOLEAN /\ faults' \in Nat
    BY DEF SendInv, TypeOK, Deliver, HangUp, send, l1, bounds
  <1>4. poller' = [poller EXCEPT ![v] = q] /\ poller[v].st # "none"
    BY DEF Deliver, HangUp, Set
  <1> HIDE DEF q
  <1>5. Read(v, q)
    BY <1>1, <1>2 DEF Read
  <1>6. \/ receipts = <<>> /\ receipts' = <<v>>
        \/ receipts' = receipts /\ loop = "done"
    BY DEF Deliver, HangUp
  <1>7. PollerMoves(v, q)
    BY <1>2, <1>3, <1>4, <1>5, <1>6 DEF PollerMoves
  <1> QED
    BY <1>7, PollerMovesInv

-----------------------------------------------------------------------------
(* L1 moves: nothing but the chain changes. *)
LEMMA ChainMovesInv ==
    ASSUME SendInv, ChainInv', \A v \in Version : PollerInv(v)',
           UNCHANGED <<loop, outcome, bump, send, receipts, poller, closed, pool, bounds>>
    PROVE  SendInv'
  <1>1. chain' \in Seq([fork : Nat, tx : Version \cup {None, Foreign}]) /\ forks' \in Nat
    BY DEF ChainInv, Block
  <1>2. TypeOK'
    BY <1>1 DEF SendInv, TypeOK, send, bounds
  <1>3. Unwatched' = Unwatched
    BY DEF Unwatched
  <1> QED
    BY <1>2, <1>3 DEF SendInv, bounds

(* A block is built: a version that is read in a block that was reorganised out is not
   in it, because it is on a later fork. *)
LEMMA MineInv ==
    ASSUME SendInv, NEW t \in pool \cup {None, Foreign}, Mine(t)
    PROVE  SendInv'
  <1> DEFINE b == [fork |-> forks, tx |-> t]
  <1>1. /\ chain \in Seq(Block) /\ forks \in Nat /\ Len(chain) \in Nat /\ pool \subseteq Version
        /\ plan.height \in Nat /\ \A i \in 1 .. Len(chain) : chain[i].fork <= forks
        /\ Len(chain) < plan.height
    BY PlanFacts DEF SendInv, ChainInv, TypeOK, Mine
  <1>2. b \in Block /\ b.fork = forks
    BY <1>1 DEF Block
  <1>3. chain' = Append(chain, b) /\ UNCHANGED <<forks, plan, poller, pool>>
    BY DEF Mine, bounds
  <1> HIDE DEF b
  <1>4. /\ chain' \in Seq(Block) /\ Len(chain') = Len(chain) + 1
        /\ \A i \in 1 .. Len(chain) : chain'[i] = chain[i]
        /\ chain'[Len(chain) + 1] = b
    BY <1>1, <1>2, <1>3
  <1>5. ChainInv'
    <2>1. ASSUME NEW i \in 1 .. Len(chain') PROVE chain'[i].fork <= forks
      BY <1>1, <1>2, <1>4
    <2> QED
      BY <1>1, <1>3, <1>4, <2>1 DEF SendInv, ChainInv
  <1>6. ASSUME NEW v \in Version PROVE PollerInv(v)'
    <2>1. poller[v].at \in Nat /\ poller[v].fork \in Nat /\ PollerInv(v)
      BY <1>1 DEF SendInv, TypeOK
    <2>2. CASE poller[v].at = 0
      BY <1>3, <2>1, <2>2 DEF PollerInv
    <2>3. CASE poller[v].at \in 1 .. Len(chain)
      BY <1>1, <1>3, <1>4, <2>1, <2>3 DEF PollerInv
    <2>4. CASE poller[v].at > Len(chain)
      BY <1>1, <1>2, <1>3, <1>4, <2>1, <2>4 DEF PollerInv
    <2> QED
      BY <1>1, <2>1, <2>2, <2>3, <2>4
  <1> QED
    BY <1>5, <1>6, ChainMovesInv DEF Mine

(* The last blocks are reorganised out. *)
LEMMA ReorgInv ==
    ASSUME SendInv, NEW n \in 0 .. Len(chain) - 1, Reorg(n)
    PROVE  SendInv'
  <1>1. /\ chain \in Seq(Block) /\ forks \in Nat /\ Len(chain) \in Nat /\ n \in Nat
        /\ plan.height \in Nat /\ \A i \in 1 .. Len(chain) : chain[i].fork <= forks
        /\ Len(chain) <= plan.height /\ n <= Len(chain)
    BY PlanFacts DEF SendInv, ChainInv
  <1>2. chain' = SubSeq(chain, 1, n) /\ UNCHANGED <<plan, poller, pool>> /\ forks' = forks + 1
    BY DEF Reorg, bounds
  <1>3. /\ chain' \in Seq(Block) /\ Len(chain') = n
        /\ \A i \in 1 .. n : chain'[i] = chain[i]
    BY <1>1, <1>2
  <1>4. ChainInv'
    <2>1. ASSUME NEW i \in 1 .. Len(chain') PROVE chain'[i].fork <= forks'
      <3>1. i \in 1 .. Len(chain) /\ chain'[i] = chain[i] /\ chain[i] \in Block
        BY <1>1, <1>3
      <3> QED
        BY <1>1, <1>2, <3>1 DEF Block
    <2> QED
      BY <1>1, <1>2, <1>3, <2>1 DEF SendInv, ChainInv
  <1>5. ASSUME NEW v \in Version PROVE PollerInv(v)'
    <2>1. poller[v].at \in Nat /\ poller[v].fork \in Nat /\ PollerInv(v)
      BY <1>1, SMTT(30) DEF SendInv, TypeOK
    <2>2. CASE poller[v].at = 0
      BY <1>1, <1>2, <2>1, <2>2 DEF PollerInv
    <2>3. CASE poller[v].at \in 1 .. n
      <3>1. /\ chain'[poller[v].at] = chain[poller[v].at] /\ poller[v].at <= Len(chain)
            /\ poller[v].at <= Len(chain') /\ poller[v].fork <= forks + 1
        BY <1>1, <1>3, <2>1, <2>3 DEF PollerInv
      <3> QED
        BY <1>1, <1>2, <1>3, <2>1, <2>3, <3>1 DEF PollerInv
    <2>4. CASE poller[v].at > n
      BY <1>1, <1>2, <1>3, <2>1, <2>4 DEF PollerInv
    <2> QED
      BY <1>1, <2>1, <2>2, <2>3, <2>4
  <1> QED
    BY <1>4, <1>5, ChainMovesInv DEF Reorg

-----------------------------------------------------------------------------
(* Every step of a poller keeps the invariant. *)
LEMMA PollerStepInv ==
    ASSUME SendInv, NEW v \in Version, PollerStep(v)
    PROVE  SendInv'
  BY AskTipInv, AskReceiptInv, JudgeInv, QueryFailsInv, PollerEndsInv DEF PollerStep

(* Every step of the loop does. *)
LEMMA LoopStepInv ==
    ASSUME SendInv, LoopStep
    PROVE  SendInv'
  BY PublishFirstInv, QuietLoopInv, BumpInv DEF LoopStep

(* A step in which nothing happens does. *)
LEMMA SendStutters ==
    ASSUME SendInv, UNCHANGED vars
    PROVE  SendInv'
  <1>1. /\ UNCHANGED <<loop, outcome, bump, send, receipts, poller, closed, pool, bounds>>
        /\ UNCHANGED <<chain, forks>>
    BY DEF vars, l1
  <1>2. ChainInv'
    BY <1>1 DEF SendInv, ChainInv, bounds
  <1>3. ASSUME NEW v \in Version PROVE PollerInv(v)'
    BY <1>1 DEF SendInv, PollerInv
  <1> QED
    BY <1>1, <1>2, <1>3, ChainMovesInv

(* The invariant is inductive: whatever the loop, the pollers, Close and L1 do next. *)
LEMMA SendStep ==
    ASSUME SendInv, [Next]_vars
    PROVE  SendInv'
  <1>1. CASE L1Step
    BY <1>1, MineInv, ReorgInv DEF L1Step
  <1> QED
    BY <1>1, LoopStepInv, CloseInv, PollerStepInv, SendStutters DEF Next

(* send_event_loop with its pollers keeps the invariant, for every fee limit, number of
   confirmations, chain, reorganisation, failed request and lost answer. *)
THEOREM SendInvariant == Spec => []SendInv
  <1>1. Init => SendInv
    BY SendInit
  <1>2. SendInv /\ [Next]_vars => SendInv'
    BY SendStep
  <1> QED
    BY <1>1, <1>2, PTL DEF Spec

(* Every version the mempool accepted has a poller until the send ends, whatever fee
   bumps, errors and reorganisations came between, except one whose acceptance was not
   heard of: whichever version is mined, send_event_loop notices. *)
THEOREM VersionsAreWatched == Spec => []VersionsWatched
  <1>1. SendInv => VersionsWatched
    BY DEF SendInv, VersionsWatched, Unwatched
  <1> QED
    BY <1>1, SendInvariant, PTL

(* A receipt that is judged confirmed is in the canonical chain at that moment. *)
LEMMA JudgedCanonical ==
    ASSUME SendInv, Next, NEW v \in Version, Judged(v)
    PROVE  IncludedAt(v, poller[v].at)
  <1>1. /\ poller \in [Version -> Pollers] /\ chain \in Seq(Block) /\ plan \in Plans
        /\ plan.height \in Nat /\ 1 \in Version /\ 1 .. plan.levels \subseteq Version
    BY PlanFacts DEF SendInv, TypeOK, ChainInv, Pollers
  <1>2. poller[v].st = "both" /\ poller'[v].st = "deliver"
    BY DEF Judged
  <1>3. poller' # poller
    BY <1>2
  <1>4. ASSUME NEW u \in Version, NEW p, poller' = [poller EXCEPT ![u] = p],
               p.st # "deliver"
        PROVE  FALSE
    BY <1>1, <1>2, <1>4
  <1>5. Polling.st # "deliver" /\ [Idle EXCEPT !.st = "ended"].st # "deliver"
    BY <1>1, FreshPollers
  <1>6. ~LoopStep
    <2>1. ~PublishFirst /\ \A w \in 1 .. plan.levels : ~Bumped(w)
      BY <1>1, <1>4, <1>5 DEF PublishFirst, Bumped
    <2>2. \A w \in 1 .. plan.levels : ~Bump(w)
      BY <1>3, <2>1 DEF Bump
    <2> QED
      BY <1>3, <2>1, <2>2 DEF LoopStep, PublishFirstFails, Top, Receive, Tick, SkipBump,
                              BumpFails, SendTimeout
  <1>7. ~Close /\ ~L1Step
    BY <1>3, Zenon DEF Close, L1Step, Mine, Reorg
  <1>8. PICK u \in Version : PollerStep(u)
    BY <1>6, <1>7 DEF Next
  <1>9. ~PollAgain(u)
    BY <1>4, PollsAgain
  <1>10. ~QueryFails(u) /\ ~Deliver(u) /\ ~HangUp(u)
    BY <1>4, <1>5, <1>9, Zenon DEF QueryFails, Deliver, HangUp, Set
  <1>11. poller[u] \in Pollers
    BY <1>1
  <1>12. ~AskTip(u)
    <2> DEFINE st == IF poller[u].st = "asking" THEN "tip" ELSE "both"
    <2>1. st # "deliver"
      OBVIOUS
    <2>2. AskTip(u) => poller' = [poller EXCEPT ![u] = [poller[u] EXCEPT !.tip = Len(chain), !.st = st]]
      BY DEF AskTip, Set
    <2> HIDE DEF st
    <2>3. [poller[u] EXCEPT !.tip = Len(chain), !.st = st].st # "deliver"
      BY <1>11, <2>1 DEF Pollers
    <2> QED
      BY <1>4, <2>2, <2>3, Zenon
  <1>13. ~AskReceipt(u)
    <2> DEFINE st == IF poller[u].st = "asking" THEN "receipt" ELSE "both"
               q(i, f) == [poller[u] EXCEPT !.at = i, !.fork = f, !.st = st]
    <2>1. st # "deliver"
      OBVIOUS
    <2>2. AskReceipt(u) => \E i, f : poller' = [poller EXCEPT ![u] = q(i, f)]
      BY Zenon DEF AskReceipt, Set
    <2> HIDE DEF st
    <2>3. ASSUME NEW i, NEW f PROVE q(i, f).st # "deliver"
      BY <1>11, <2>1 DEF Pollers
    <2> HIDE DEF q
    <2> QED
      BY <1>4, <2>2, <2>3
  <1>14. Judge(u) /\ Canonical(poller[u]) /\ Set(u, [poller[u] EXCEPT !.st = "deliver"])
    BY <1>8, <1>9, <1>10, <1>12, <1>13 DEF PollerStep, Judge
  <1>15. u = v
    BY <1>1, <1>2, <1>14 DEF Set
  <1>16. PollerInv(v) /\ poller[v] \in Pollers /\ Canonical(poller[v])
    BY <1>1, <1>14, <1>15 DEF SendInv
  <1>17. poller[v].at \in 1 .. Len(chain) /\ chain[poller[v].at].tx = v
    BY <1>1, <1>16 DEF PollerInv, Canonical, Pollers
  <1> QED
    BY <1>1, <1>17 DEF IncludedAt

(* query_receipt hands a receipt on only when its block is on the canonical chain at
   that moment, however often the chain was reorganised between its requests. *)
THEOREM ReceiptsAreCanonical == Spec => ReceiptCanonical
  <1>1. SendInv /\ [Next]_vars
          => [\A v \in Version : Judged(v) => IncludedAt(v, poller[v].at)]_vars
    BY JudgedCanonical
  <1> QED
    BY <1>1, SendInvariant, PTL DEF Spec, ReceiptCanonical

=============================================================================
