------------------------------ MODULE SendLoop ------------------------------
(***************************************************************************)
(* One transaction on its way to L1: send_event_loop, its fee bumps, its   *)
(* receipt pollers and the SendState they share                            *)
(* (crates/utilities/tx-manager/src/manager.rs and send_state.rs).  A      *)
(* version of the transaction is a fee level; all versions have one nonce, *)
(* so at most one of them, or a foreign transaction, is on the chain.  A   *)
(* block is identified by its height and by the fork it was built on.      *)
(***************************************************************************)
EXTENDS Integers, Sequences, FiniteSets

CONSTANTS
    MaxVersions, \* versions of a transaction
    Confirmations, \* num_confirmations
    Threshold,   \* safe_abort_nonce_too_low_count
    Foreign,     \* a transaction of the account that this send did not make
    None,        \* an empty block
    Plans        \* the bounds of a run: records [levels, height, reorgs, faults,
                 \* unheard] of the fee levels below the fee limit, the blocks of
                 \* the chain, its reorganisations, the failed requests, and the
                 \* accepted publications with a lost answer

Version == 1 .. MaxVersions

ASSUME SendAssumption ==
    /\ MaxVersions \in Nat \ {0} /\ Confirmations \in Nat \ {0}
    /\ Threshold \in Nat \ {0}
    /\ Foreign \notin Version /\ None \notin Version /\ Foreign # None
    /\ Plans \subseteq [levels : Version, height : Nat, reorgs : Nat, faults : Nat,
                         unheard : Nat]

VARIABLES
    loop,      \* "publishing", "top", "select", "bumping" or "done"
    outcome,   \* what send_event_loop returned, or "none"
    bump,      \* BumpState: [fee: the last version's, hash: the version it tracks]
    mined_txs, \* SendState: versions seen on chain
    has_published,
    nonce_too_low_count,
    bump_fees,
    receipts,  \* the receipt channel, of capacity one
    poller,    \* poller[v]: the polling task of version v
    closed,    \* the manager is closed
    chain,     \* the canonical chain: records [fork, tx]
    forks,     \* reorganisations so far
    pool,      \* versions the mempool accepted
    plan,      \* the bounds
    faults, unheard

send == <<mined_txs, has_published, nonce_too_low_count, bump_fees>>
l1 == <<chain, forks, pool>>
bounds == <<plan, faults, unheard>>
vars == <<loop, outcome, bump, send, receipts, poller, closed, l1, bounds>>

Idle == [st |-> "none", tip |-> 0, at |-> 0, fork |-> 0]
Polling == [Idle EXCEPT !.st = "asking"]

Init ==
    /\ loop = "publishing" /\ outcome = "none"
    /\ bump = [fee |-> 0, hash |-> 0]
    /\ mined_txs = {} /\ has_published = FALSE
    /\ nonce_too_low_count = 0 /\ bump_fees = FALSE
    /\ receipts = <<>>
    /\ poller = [v \in Version |-> Idle]
    /\ closed = FALSE
    /\ chain = <<>> /\ forks = 0 /\ pool = {}
    /\ plan \in Plans /\ faults = 0 /\ unheard = 0

\* The account's nonce is used by a block of the canonical chain.
NonceUsed == \E i \in DOMAIN chain : chain[i].tx # None

\* Version v is in block i of the canonical chain.
IncludedAt(v, i) == i \in DOMAIN chain /\ chain[i].tx = v

Fault == faults < plan.faults /\ faults' = faults + 1 /\ UNCHANGED <<plan, unheard>>

Returns(result) == loop' = "done" /\ outcome' = result

-----------------------------------------------------------------------------
(* SendState. *)

\* process_send_error
ProcessSendError(error) ==
    /\ nonce_too_low_count' = nonce_too_low_count + (IF error = "nonceTooLow" THEN 1 ELSE 0)
    /\ bump_fees' = (bump_fees \/ error = "retryable")
    /\ UNCHANGED <<mined_txs, has_published>>

\* tx_mined
TxMined(v) ==
    /\ mined_txs' = mined_txs \cup {v}
    /\ UNCHANGED <<has_published, nonce_too_low_count, bump_fees>>

\* tx_not_mined
TxNotMined(v) ==
    /\ mined_txs' = mined_txs \ {v}
    /\ nonce_too_low_count' = IF mined_txs = {v} THEN 0 ELSE nonce_too_low_count
    /\ UNCHANGED <<has_published, bump_fees>>

\* critical_error_at, except for the mempool deadline, which is about
\* unpublished transactions only.
Critical ==
    /\ mined_txs = {}
    /\ \/ ~has_published /\ nonce_too_low_count > 0
       \/ nonce_too_low_count >= Threshold

-----------------------------------------------------------------------------
(* The event loop. *)

\* The first version is published, its poller spawned and the loop entered.
PublishFirst ==
    /\ loop = "publishing" /\ ~closed /\ ~NonceUsed
    /\ pool' = {1}
    /\ has_published' = TRUE
    /\ bump' = [fee |-> 1, hash |-> 1]
    /\ poller' = [poller EXCEPT ![1] = Polling]
    /\ loop' = "top"
    /\ UNCHANGED <<outcome, mined_txs, nonce_too_low_count, bump_fees, receipts, closed,
                   chain, forks, bounds>>

\* publish_tx_with_nonce_retry gives up: the nonce is used, the manager is
\* closed, the endpoint fails, or the deadline or the send timeout expires.
PublishFirstFails ==
    /\ loop = "publishing"
    /\ Returns("unpublished")
    /\ \/ NonceUsed /\ ProcessSendError("nonceTooLow") /\ UNCHANGED bounds
       \/ closed /\ UNCHANGED <<send, bounds>>
       \/ Fault /\ ProcessSendError("retryable")
    /\ UNCHANGED <<bump, receipts, poller, closed, l1>>

\* The head of the loop, down to the select.
Top ==
    /\ loop = "top"
    /\ \/ closed /\ Returns("closed") /\ UNCHANGED <<bump_fees, receipts>>
       \/ ~closed /\ Critical /\ Returns("nonceTooLow") /\ UNCHANGED <<bump_fees, receipts>>
       \/ /\ ~closed /\ ~Critical /\ receipts # <<>>
          /\ Returns("confirmed")
          /\ receipts' = Tail(receipts)
          /\ UNCHANGED bump_fees
       \/ /\ ~closed /\ ~Critical /\ receipts = <<>>
          /\ loop' = IF bump_fees THEN "bumping" ELSE "select"
          /\ bump_fees' = FALSE
          /\ UNCHANGED <<outcome, receipts>>
    /\ UNCHANGED <<bump, mined_txs, has_published, nonce_too_low_count, poller, closed,
                   l1, bounds>>

\* A receipt arrives while the loop waits.
Receive ==
    /\ loop = "select" /\ receipts # <<>>
    /\ Returns("confirmed")
    /\ receipts' = Tail(receipts)
    /\ UNCHANGED <<bump, send, poller, closed, l1, bounds>>

\* The resubmission timer fires; the select prefers a receipt.
Tick ==
    /\ loop = "select" /\ receipts = <<>>
    /\ loop' = "bumping"
    /\ UNCHANGED <<outcome, bump, send, receipts, poller, closed, l1, bounds>>

\* try_fee_bump: no bump while a version waits for confirmation.
SkipBump ==
    /\ loop = "bumping" /\ mined_txs # {}
    /\ loop' = "top"
    /\ UNCHANGED <<outcome, bump, send, receipts, poller, closed, l1, bounds>>

(* Mutant: the replacement has no poller. *)
BumpUnpolled(w) ==
    /\ pool' = pool \cup {w}
    /\ bump' = [fee |-> w, hash |-> w]
    /\ UNCHANGED <<poller, bounds>>

\* The replacement is accepted and gets a poller of its own.
Bumped(w) ==
    /\ pool' = pool \cup {w}
    /\ bump' = [fee |-> w, hash |-> w]
    /\ poller' = [poller EXCEPT ![w] = Polling]
    /\ UNCHANGED bounds

\* handle_fee_bump publishes version w. A version the mempool has already
\* (AlreadyKnown) counts as a success of the tracked hash, whose second poller
\* does what the first does.
Bump(w) ==
    /\ loop = "bumping" /\ mined_txs = {} /\ w > bump.fee /\ ~closed
    /\ loop' = "top"
    /\ \/ /\ ~NonceUsed /\ \A v \in pool : v < w
          /\ Bumped(w)
          /\ UNCHANGED send
       \/ /\ ~NonceUsed /\ w \in pool
          /\ bump' = [bump EXCEPT !.fee = w]
          /\ UNCHANGED <<send, pool, poller, bounds>>
       \/ /\ ~NonceUsed /\ w \notin pool /\ \E v \in pool : v > w
          /\ ProcessSendError("retryable")
          /\ UNCHANGED <<bump, pool, poller, bounds>>
       \/ /\ NonceUsed
          /\ ProcessSendError("nonceTooLow")
          /\ UNCHANGED <<bump, pool, poller, bounds>>
       \/ /\ Fault
          /\ ProcessSendError("retryable")
          /\ UNCHANGED <<bump, pool, poller>>
       \/ /\ ~NonceUsed /\ \A v \in pool : v < w
          /\ unheard < plan.unheard /\ unheard' = unheard + 1
          /\ pool' = pool \cup {w}
          /\ ProcessSendError("retryable")
          /\ UNCHANGED <<bump, poller, plan, faults>>
    /\ UNCHANGED <<outcome, receipts, closed, chain, forks>>

\* The bump fails before it is published: the fee limit is reached, preparing
\* it fails, or the manager is closed.
BumpFails ==
    /\ loop = "bumping" /\ mined_txs = {}
    /\ loop' = "top"
    /\ \/ (bump.fee = plan.levels \/ closed) /\ UNCHANGED bounds
       \/ Fault
    /\ UNCHANGED <<outcome, bump, send, receipts, poller, closed, l1>>

\* The send timeout drops the loop wherever it waits.
SendTimeout ==
    /\ loop \in {"select", "bumping"}
    /\ Fault
    /\ Returns("timeout")
    /\ UNCHANGED <<bump, send, receipts, poller, closed, l1>>

Close ==
    /\ ~closed
    /\ closed' = TRUE
    /\ UNCHANGED <<loop, outcome, bump, send, receipts, poller, l1, bounds>>

-----------------------------------------------------------------------------
(* The receipt pollers: wait_mined and query_receipt. *)

Set(v, p) == poller' = [poller EXCEPT ![v] = p]

\* The block number is read; the receipt is read before or after it.
AskTip(v) ==
    /\ loop # "done" /\ poller[v].st \in {"asking", "receipt"}
    /\ Set(v, [poller[v] EXCEPT !.tip = Len(chain),
                                !.st = IF @ = "asking" THEN "tip" ELSE "both"])
    /\ UNCHANGED <<loop, outcome, bump, send, receipts, closed, l1, bounds>>

\* The receipt of v is read: the block it is in, or none.
AskReceipt(v) ==
    /\ loop # "done" /\ poller[v].st \in {"asking", "tip"}
    /\ \/ \E i \in DOMAIN chain :
            /\ IncludedAt(v, i)
            /\ Set(v, [poller[v] EXCEPT !.at = i, !.fork = chain[i].fork,
                                        !.st = IF @ = "asking" THEN "receipt" ELSE "both"])
       \/ /\ \A i \in DOMAIN chain : ~IncludedAt(v, i)
          /\ Set(v, [poller[v] EXCEPT !.at = 0, !.fork = 0,
                                      !.st = IF @ = "asking" THEN "receipt" ELSE "both"])
    /\ UNCHANGED <<loop, outcome, bump, send, receipts, closed, l1, bounds>>

\* A poller that is not done asks again, or ends when the manager is closed.
PollAgain(v) == Set(v, IF closed THEN [Idle EXCEPT !.st = "ended"] ELSE Polling)

(* Mutant: a receipt is trusted without looking at the canonical block. *)
CanonicalAlways(p) == p.at # 0

\* The block of the receipt is the canonical one at its height.
Canonical(p) ==
    p.at # 0 /\ p.at <= Len(chain) /\ chain[p.at].fork = p.fork

\* tx_block + num_confirmations <= tip + 1
Deep(p) == p.at + Confirmations <= p.tip + 1

\* The canonical block is read and the state recorded.
Judge(v) ==
    /\ loop # "done" /\ poller[v].st = "both"
    /\ \/ /\ ~Canonical(poller[v])
          /\ TxNotMined(v)
          /\ PollAgain(v)
       \/ /\ Canonical(poller[v]) /\ Deep(poller[v])
          /\ TxMined(v)
          /\ Set(v, [poller[v] EXCEPT !.st = "deliver"])
       \/ /\ Canonical(poller[v]) /\ ~Deep(poller[v])
          /\ TxMined(v)
          /\ PollAgain(v)
    /\ UNCHANGED <<loop, outcome, bump, receipts, closed, l1, bounds>>

\* A query fails or times out.
QueryFails(v) ==
    /\ loop # "done" /\ poller[v].st \in {"asking", "tip", "receipt", "both"}
    /\ Fault
    /\ PollAgain(v)
    /\ UNCHANGED <<loop, outcome, bump, send, receipts, closed, l1>>

(* Mutant: the receipt is sent whether or not the channel has room. *)
DeliverUnbounded(v) ==
    /\ loop # "done" /\ poller[v].st = "deliver"
    /\ receipts' = Append(receipts, v)
    /\ Set(v, [Idle EXCEPT !.st = "ended"])
    /\ UNCHANGED <<loop, outcome, bump, send, closed, l1, bounds>>

(* Mutant: only the receipt of the version the loop tracks is sent. *)
DeliverTracked(v) ==
    /\ loop # "done" /\ poller[v].st = "deliver" /\ receipts = <<>> /\ v = bump.hash
    /\ receipts' = <<v>>
    /\ Set(v, [Idle EXCEPT !.st = "ended"])
    /\ UNCHANGED <<loop, outcome, bump, send, closed, l1, bounds>>

\* The receipt is sent when the channel has room.
Deliver(v) ==
    /\ loop # "done" /\ poller[v].st = "deliver" /\ receipts = <<>>
    /\ receipts' = <<v>>
    /\ Set(v, [Idle EXCEPT !.st = "ended"])
    /\ UNCHANGED <<loop, outcome, bump, send, closed, l1, bounds>>

(* Mutant: a poller notices a dropped receiver only when it delivers. *)
HangUpLate(v) ==
    /\ loop = "done" /\ poller[v].st = "deliver"
    /\ Set(v, [Idle EXCEPT !.st = "ended"])
    /\ UNCHANGED <<loop, outcome, bump, send, receipts, closed, l1, bounds>>

\* The loop has returned and dropped the receiver: every poller stops.
HangUp(v) ==
    /\ loop = "done" /\ poller[v].st \notin {"none", "ended"}
    /\ Set(v, [Idle EXCEPT !.st = "ended"])
    /\ UNCHANGED <<loop, outcome, bump, send, receipts, closed, l1, bounds>>

-----------------------------------------------------------------------------
(* L1. *)

\* A block without the nonce leaves room for the transaction to be confirmed.
Mine(t) ==
    /\ Len(chain) < plan.height
    /\ t = None /\ ~NonceUsed => Len(chain) + 1 + Confirmations <= plan.height
    /\ t # None => ~NonceUsed
    /\ chain' = Append(chain, [fork |-> forks, tx |-> t])
    /\ UNCHANGED <<loop, outcome, bump, send, receipts, poller, closed, forks, pool, bounds>>

\* The last blocks are reorganised out; accepted transactions stay in the pool.
Reorg(n) ==
    /\ forks < plan.reorgs
    /\ forks' = forks + 1
    /\ chain' = SubSeq(chain, 1, n)
    /\ UNCHANGED <<loop, outcome, bump, send, receipts, poller, closed, pool, bounds>>

LoopStep ==
    \/ PublishFirst \/ PublishFirstFails \/ Top \/ Receive \/ Tick \/ SkipBump
    \/ (\E w \in 1 .. plan.levels : Bump(w)) \/ BumpFails \/ SendTimeout

PollerStep(v) ==
    AskTip(v) \/ AskReceipt(v) \/ Judge(v) \/ QueryFails(v) \/ Deliver(v) \/ HangUp(v)

L1Step ==
    \/ \E t \in pool \cup {None, Foreign} : Mine(t)
    \/ \E n \in 0 .. Len(chain) - 1 : Reorg(n)

Next == LoopStep \/ Close \/ (\E v \in Version : PollerStep(v)) \/ L1Step

Spec == Init /\ [][Next]_vars

\* The runtime polls the loop and every poller; L1 includes one of the accepted
\* versions and builds on it.
Fairness ==
    /\ WF_vars(LoopStep)
    /\ \A v \in Version : WF_vars(PollerStep(v))
    /\ WF_vars(\E t \in pool : Mine(t))
    /\ WF_vars(NonceUsed /\ Mine(None))

FairSpec == Spec /\ Fairness

-----------------------------------------------------------------------------
(* Properties. *)

\* The types of the variables.
TypeOK ==
    /\ loop \in {"publishing", "top", "select", "bumping", "done"}
    /\ outcome \in {"none", "confirmed", "nonceTooLow", "closed", "timeout", "unpublished"}
    /\ bump \in [fee : 0 .. MaxVersions, hash : 0 .. MaxVersions]
    /\ mined_txs \subseteq Version /\ has_published \in BOOLEAN
    /\ nonce_too_low_count \in Nat /\ bump_fees \in BOOLEAN
    /\ receipts \in {<<>>} \cup {<<v>> : v \in Version}
    /\ poller \in [Version -> [st : {"none", "asking", "tip", "receipt", "both", "deliver",
                                     "ended"},
                               tip : 0 .. plan.height, at : 0 .. plan.height, fork : Nat]]
    /\ closed \in BOOLEAN
    /\ chain \in Seq([fork : Nat, tx : Version \cup {None, Foreign}])
    /\ plan \in Plans /\ forks \in Nat /\ pool \subseteq Version /\ faults \in Nat /\ unheard \in Nat

\* Version v is judged confirmed by this step.
Judged(v) == poller[v].st = "both" /\ poller'[v].st = "deliver"

\* A receipt is only handed on when its block is on the canonical chain at that
\* moment, whatever was reorganised while the query was under way.
ReceiptCanonical ==
    [][\A v \in Version : Judged(v) => IncludedAt(v, poller[v].at)]_vars

\* Every version L1 accepted is watched until the send ends, so that whichever is
\* mined is noticed; only a version whose acceptance was never heard of is not.
VersionsWatched ==
    TypeOK /\ (loop # "done" /\ ~closed =>
      /\ Cardinality({v \in pool : poller[v].st = "none"}) <= unheard
      /\ \A v \in pool : poller[v].st = "ended" => receipts = <<v>>)

\* The send settles: none of the polling, bumping and skipping goes on for ever,
\* unless another transaction or a version whose acceptance was not heard of takes
\* the nonce and the fee limit keeps the loop from noticing.
SendSettles ==
    <>(loop = "done" \/ unheard > 0 \/ \E i \in DOMAIN chain : chain[i].tx = Foreign)

\* No poller outlives its send: the tasks of all versions end when it settles.
PollersEnd ==
    loop = "done" ~> \A v \in Version : poller[v].st \in {"none", "ended"}

\* A send and all that it started comes to an end.
SendEnds == SendSettles /\ PollersEnd
=============================================================================
