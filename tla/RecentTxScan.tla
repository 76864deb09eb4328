---------------------------- MODULE RecentTxScan ----------------------------
(***************************************************************************)
(* The batcher's start-up scan for its recent L1 transactions              *)
(* (crates/batcher/service/src/recent_txs.rs), a binary search over the    *)
(* account's nonce per block in which every probe is a request of its own, *)
(* and the wait for the rollup node to read up to its result (service.rs). *)
(* L1 grows and reorganises between the requests.                          *)
(***************************************************************************)
EXTENDS Integers

CONSTANTS
    Block,     \* the numbers of L1 blocks
    Nonce,     \* nonces of the batcher's account
    Depth,     \* check_recent_txs_depth
    MaxReorgs, \* reorganisations of L1 in a run
    MaxFaults  \* requests of a run that fail

\* The account's nonce after each block of a chain: it never falls.
Chain == {f \in [Block -> Nonce] : \A a, b \in Block : a <= b => f[a] <= f[b]}

ASSUME ScanAssumption ==
    /\ Block \subseteq Nat /\ Nonce \subseteq Nat /\ 0 \in Block
    /\ \A b \in Block : 0 .. b \subseteq Block
    /\ Depth \in Nat \ {0} /\ MaxReorgs \in Nat /\ MaxFaults \in Nat

VARIABLES
    nonce,        \* L1's present chain, its blocks to come included
    head,         \* L1's head
    step,         \* where the scan is
    current_l1, oldest_l1, current_nonce, oldest_nonce, low, high,
    target,       \* the block to wait for
    read,         \* nonce answers of this scan by block
    reorgs, faults

l1 == <<nonce, head, reorgs>>
window == <<current_l1, oldest_l1, current_nonce, oldest_nonce>>
vars == <<l1, step, window, low, high, target, read, faults>>

Init ==
    /\ nonce \in Chain /\ head \in Block
    /\ step = "head"
    /\ current_l1 = 0 /\ oldest_l1 = 0 /\ current_nonce = 0 /\ oldest_nonce = 0
    /\ low = 0 /\ high = 0 /\ target = 0
    /\ read = [b \in {} |-> 0]
    /\ reorgs = 0 /\ faults = 0

-----------------------------------------------------------------------------
(* L1. *)

L1Grows ==
    /\ head + 1 \in Block /\ head' = head + 1
    /\ UNCHANGED <<nonce, reorgs, step, window, low, high, target, read, faults>>

\* The blocks from some height above the first on are replaced.
L1Reorganises ==
    /\ reorgs < MaxReorgs /\ reorgs' = reorgs + 1
    /\ nonce' \in {f \in Chain : f[0] = nonce[0]} /\ head' \in Block
    /\ UNCHANGED <<step, window, low, high, target, read, faults>>

-----------------------------------------------------------------------------
(* RecentTxSyncTarget::find *)

(* Mutant: the window of a short chain starts below block 0. *)
PlainSub(a, b) == a - b

SaturatingSub(a, b) == IF a < b THEN 0 ELSE a - b

\* Note the answer to a probe.
Note(b) == read' = [x \in DOMAIN read \cup {b} |-> IF x = b THEN nonce[b] ELSE read[x]]

GetBlockNumber ==
    /\ step = "head"
    /\ current_l1' = head /\ oldest_l1' = SaturatingSub(head, Depth)
    /\ step' = "current"
    /\ UNCHANGED <<l1, current_nonce, oldest_nonce, low, high, target, read, faults>>

CurrentNonce ==
    /\ step = "current" /\ current_l1 <= head
    /\ current_nonce' = nonce[current_l1] /\ Note(current_l1)
    /\ step' = "oldest"
    /\ UNCHANGED <<l1, current_l1, oldest_l1, oldest_nonce, low, high, target, faults>>

Found(b) == target' = b /\ step' = "wait"

\* The oldest block of the window: L1 changed, no transaction in the window, or a search.
OldestNonce ==
    /\ step = "oldest" /\ oldest_l1 <= head
    /\ oldest_nonce' = nonce[oldest_l1] /\ Note(oldest_l1)
    /\ \/ /\ nonce[oldest_l1] > current_nonce
          /\ Found(current_l1) /\ UNCHANGED <<low, high>>
       \/ /\ nonce[oldest_l1] = current_nonce
          /\ Found(oldest_l1) /\ UNCHANGED <<low, high>>
       \/ /\ nonce[oldest_l1] < current_nonce
          /\ low' = oldest_l1 + 1 /\ high' = current_l1
          /\ step' = "search" /\ UNCHANGED target
    /\ UNCHANGED <<l1, current_l1, oldest_l1, current_nonce, faults>>

mid == low + (high - low) \div 2

(* Mutant: a block with the current nonce is not kept as a candidate. *)
ProbeSkips ==
    /\ step = "search" /\ low < high /\ mid <= head
    /\ Note(mid)
    /\ \/ /\ nonce[mid] > current_nonce
          /\ Found(current_l1) /\ UNCHANGED <<low, high>>
       \/ /\ nonce[mid] = current_nonce
          /\ high' = SaturatingSub(mid, 1) /\ UNCHANGED <<low, step, target>>
       \/ /\ nonce[mid] < current_nonce
          /\ low' = mid + 1 /\ UNCHANGED <<high, step, target>>
    /\ UNCHANGED <<l1, window, faults>>

(* Mutant: a nonce above the current one, after a reorganisation, narrows the search. *)
ProbeTrusts ==
    /\ step = "search" /\ low < high /\ mid <= head
    /\ Note(mid)
    /\ \/ /\ nonce[mid] >= current_nonce
          /\ high' = mid /\ UNCHANGED low
       \/ /\ nonce[mid] < current_nonce
          /\ low' = mid + 1 /\ UNCHANGED high
    /\ UNCHANGED <<l1, step, target, window, faults>>

Probe ==
    /\ step = "search" /\ low < high /\ mid <= head
    /\ Note(mid)
    /\ \/ /\ nonce[mid] > current_nonce
          /\ Found(current_l1) /\ UNCHANGED <<low, high>>
       \/ /\ nonce[mid] = current_nonce
          /\ high' = mid /\ UNCHANGED <<low, step, target>>
       \/ /\ nonce[mid] < current_nonce
          /\ low' = mid + 1 /\ UNCHANGED <<high, step, target>>
    /\ UNCHANGED <<l1, window, faults>>

(* Mutant: a window of one block is searched on. *)
SearchEndsLate ==
    /\ step = "search" /\ low > high
    /\ Found(low)
    /\ UNCHANGED <<l1, window, low, high, read, faults>>

SearchEnds ==
    /\ step = "search" /\ low >= high
    /\ Found(low)
    /\ UNCHANGED <<l1, window, low, high, read, faults>>

\* The block the next request is about.
Requested ==
    CASE step = "current" -> current_l1
      [] step = "oldest" -> oldest_l1
      [] step = "search" -> IF low < high THEN mid ELSE 0
      [] OTHER -> 0

\* A request fails, or asks for a block a reorganisation removed: rpc_retry scans anew.
ScanFails ==
    /\ step \in {"head", "current", "oldest", "search"}
    /\ \/ faults < MaxFaults /\ faults' = faults + 1
       \/ Requested > head /\ UNCHANGED faults
    /\ step' = "head" /\ read' = [b \in {} |-> 0]
    /\ UNCHANGED <<l1, window, low, high, target>>

\* wait_for_node_sync sees a status of the rollup node at or above the target.
NodeSynced ==
    /\ step = "wait" /\ \E current \in Block : current >= target
    /\ step' = "synced"
    /\ UNCHANGED <<l1, window, low, high, target, read, faults>>

\* rpc_retry or wait_for_node_sync runs out of time: setup fails.
TimesOut ==
    /\ step \notin {"synced", "failed"}
    /\ step' = "failed"
    /\ UNCHANGED <<l1, window, low, high, target, read, faults>>

Scan == GetBlockNumber \/ CurrentNonce \/ OldestNonce \/ Probe \/ SearchEnds \/ ScanFails

Next == L1Grows \/ L1Reorganises \/ Scan \/ NodeSynced \/ TimesOut

\* Every request is answered or fails.
Spec == Init /\ [][Next]_vars /\ WF_vars(Scan)

-----------------------------------------------------------------------------
(* Properties. *)

\* The types of the variables.
TypeOK ==
    /\ nonce \in Chain /\ head \in Block
    /\ step \in {"head", "current", "oldest", "search", "wait", "synced", "failed"}
    /\ current_l1 \in Block /\ oldest_l1 \in Block
    /\ current_nonce \in Nat /\ oldest_nonce \in Nat
    /\ low \in Nat /\ high \in Nat /\ target \in Nat
    /\ DOMAIN read \subseteq Block /\ \A b \in DOMAIN read : read[b] \in Nonce
    /\ reorgs \in Nat /\ faults \in Nat

\* The scan has its result.
Finished == step \in {"wait", "synced"}

\* Without a reorganisation every transaction of the account up to the head the scan
\* started from is in a block up to the target, so that a node that has read the target
\* has read them all.
AllTxsCovered ==
    Finished /\ reorgs = 0 =>
      \A b \in Block : b < current_l1 /\ nonce[b] < nonce[b + 1] => b + 1 <= target

\* With a reorganisation between its requests the scan still returns a block of its
\* window that it saw with the nonce it looks for, and the block below it with a lower
\* one; or the head it started from, when what it read cannot be one chain.
TargetWitnessed ==
    Finished =>
      /\ target \in oldest_l1 .. current_l1
      /\ target \in DOMAIN read
      /\ read[target] = current_nonce
      /\ target \notin {oldest_l1, current_l1} =>
           target - 1 \in DOMAIN read /\ read[target - 1] < current_nonce

\* The scan is right: its variables have their types, its target was seen to be the block
\* it looks for, and a node that has read it has read every transaction
\* (RecentTxSyncTarget::find).
ScanCorrect == TypeOK /\ TargetWitnessed /\ AllTxsCovered

\* Every scan ends, although the chain may change under it.
ScanEnds == <>(Finished \/ step = "failed")
=============================================================================
