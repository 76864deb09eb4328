---------------------------- MODULE ThrottlePush ----------------------------
(***************************************************************************)
(* One pusher task per block builder carries the published DA limits to it *)
(* (crates/batcher/service/src/throttle.rs).  A push may be refused, may   *)
(* fail, or may time out at the client and still reach the builder later.  *)
(* The builder's handler stores the two limits one after the other         *)
(* (set_max_da_size, crates/execution/payload/src/config.rs), so that two  *)
(* pushes may interleave.  Builders keep the limits in memory and lose     *)
(* them when they restart.                                                 *)
(***************************************************************************)
EXTENDS Naturals, FiniteSets

CONSTANTS
    Builder,   \* block builders
    PushedLimits,  \* limits the throttle may publish
    InitialLimits, \* limits it may start from
    MaxEvents  \* publications, restarts and failed pushes of a run

\* What a builder applies before it is told: 0 means no maximum.
Unlimited == [max_tx_size |-> 0, max_block_size |-> 0]

VARIABLES
    published, \* the value of the watch channel
    task,      \* task[b] \in {"push", "stored", "wait", "returned"}
    pushing,   \* pushing[b]: the limits the pusher of b read last
    applied,   \* applied[b]: the limits builder b applies
    late,      \* pushes that timed out and may still be handled
    cancelled, \* the runtime is cancelled
    events,    \* events so far
    history    \* every value the watch channel had

vars == <<published, task, pushing, applied, late, cancelled, events, history>>

Init ==
    /\ published \in InitialLimits /\ history = {published}
    /\ task = [b \in Builder |-> "push"]
    /\ pushing = [b \in Builder |-> published]
    /\ applied = [b \in Builder |-> Unlimited]
    /\ late = {}
    /\ cancelled = FALSE
    /\ events = 0

Event ==
    /\ events < MaxEvents
    /\ events' = events + 1

(* send_if_modified: the watch channel keeps the latest value only. *)
Publish ==
    /\ Event
    /\ published' \in PushedLimits \ {published}
    /\ history' = history \cup {published'}
    /\ UNCHANGED <<task, pushing, applied, late, cancelled>>

-----------------------------------------------------------------------------
(* The push. *)

(* Mutant: the handler takes its arguments in the other order. *)
StoreTxSwapped(b, limits) == applied' = [applied EXCEPT ![b].max_tx_size = limits.max_block_size]

(* The handler stores the first limit, and then the second one. *)
StoreTx(b, limits) == applied' = [applied EXCEPT ![b].max_tx_size = limits.max_tx_size]
StoreBlock(b, limits) == applied' = [applied EXCEPT ![b].max_block_size = limits.max_block_size]

(* The push reaches the handler of the builder. *)
PushStored(b) ==
    /\ task[b] = "push"
    /\ StoreTx(b, pushing[b])
    /\ task' = [task EXCEPT ![b] = "stored"]
    /\ UNCHANGED <<published, pushing, late, cancelled, events, history>>

(* The handler is through, and the pusher has its answer. *)
PushApplied(b) ==
    /\ task[b] = "stored"
    /\ StoreBlock(b, pushing[b])
    /\ task' = [task EXCEPT ![b] = "wait"]
    /\ UNCHANGED <<published, pushing, late, cancelled, events, history>>

(* The builder refuses, or cannot be reached. *)
PushFails(b) ==
    /\ Event
    /\ task[b] = "push"
    /\ task' = [task EXCEPT ![b] = "wait"]
    /\ UNCHANGED <<published, pushing, applied, late, cancelled, history>>

(* The request times out, on its way or in the handler. *)
PushTimesOut(b) ==
    /\ Event
    /\ task[b] \in {"push", "stored"}
    /\ late' = late \cup {[id |-> events, builder |-> b, limits |-> pushing[b],
                          stored |-> task[b] = "stored"]}
    /\ task' = [task EXCEPT ![b] = "wait"]
    /\ UNCHANGED <<published, pushing, applied, cancelled, history>>

(* The builder does not serve the miner API: run returns, and the batcher stops. *)
MethodNotFound(b) ==
    /\ task[b] = "push"
    /\ task' = [task EXCEPT ![b] = "returned"]
    /\ cancelled' = TRUE
    /\ UNCHANGED <<published, pushing, applied, late, events, history>>

(* A push the pusher gave up on reaches the handler. *)
LateStored(push) ==
    /\ ~push.stored
    /\ StoreTx(push.builder, push.limits)
    /\ late' = (late \ {push}) \cup {[push EXCEPT !.stored = TRUE]}
    /\ UNCHANGED <<published, task, pushing, cancelled, events, history>>

LateApplied(push) ==
    /\ push.stored
    /\ StoreBlock(push.builder, push.limits)
    /\ late' = late \ {push}
    /\ UNCHANGED <<published, task, pushing, cancelled, events, history>>

LateLands == \E push \in late : LateStored(push) \/ LateApplied(push)

(* Mutant: the pusher sleeps until the limits change. *)
WakeOnChange(b) ==
    /\ task[b] = "wait" /\ ~cancelled /\ pushing[b] # published
    /\ pushing' = [pushing EXCEPT ![b] = published]
    /\ task' = [task EXCEPT ![b] = "push"]
    /\ UNCHANGED <<published, applied, late, cancelled, events, history>>

(* New limits or the refresh interval: either way the current limits are read and pushed. *)
Wake(b) ==
    /\ task[b] = "wait" /\ ~cancelled
    /\ pushing' = [pushing EXCEPT ![b] = published]
    /\ task' = [task EXCEPT ![b] = "push"]
    /\ UNCHANGED <<published, applied, late, cancelled, events, history>>

(* A restart ends the handlers too: the pusher whose push was there gets an error. *)
BuilderRestarts(b) ==
    /\ Event
    /\ applied' = [applied EXCEPT ![b] = Unlimited]
    /\ task' = [task EXCEPT ![b] = IF @ = "stored" THEN "wait" ELSE @]
    /\ late' = {push \in late : push.builder # b \/ ~push.stored}
    /\ UNCHANGED <<published, pushing, cancelled, history>>

(* The batcher is cancelled, or its driver, and with it the throttle, is gone. *)
Stop ==
    /\ ~cancelled
    /\ cancelled' = TRUE
    /\ UNCHANGED <<published, task, pushing, applied, late, events, history>>

(* A cancelled pusher returns when its push is over. *)
Return(b) ==
    /\ task[b] = "wait" /\ cancelled
    /\ task' = [task EXCEPT ![b] = "returned"]
    /\ UNCHANGED <<published, pushing, applied, late, cancelled, events, history>>

Next ==
    \/ Publish \/ LateLands \/ Stop
    \/ \E b \in Builder :
          \/ PushStored(b) \/ PushApplied(b) \/ PushFails(b) \/ PushTimesOut(b)
          \/ MethodNotFound(b) \/ Wake(b) \/ Return(b) \/ BuilderRestarts(b)

(* What the runtime does for the pusher of b and its push. *)
Pushes(b) == Wake(b) \/ Return(b) \/ PushStored(b) \/ PushApplied(b)

(***************************************************************************)
(* A pusher's timer fires and its push gets an answer; requests on their   *)
(* way arrive or are lost within the network timeout.                      *)
(***************************************************************************)
Fairness ==
    /\ WF_vars(LateLands)
    /\ \A b \in Builder : WF_vars(Pushes(b))

Spec == Init /\ [][Next]_vars /\ Fairness

-----------------------------------------------------------------------------
(* The watch value, the tasks and the builders' limits. *)
TypeOK ==
    /\ published \in PushedLimits /\ history \subseteq PushedLimits
    /\ task \in [Builder -> {"push", "stored", "wait", "returned"}]
    /\ pushing \in [Builder -> PushedLimits]
    /\ applied \in [Builder -> [max_tx_size : Nat, max_block_size : Nat]]
    /\ late \subseteq [id : 0..MaxEvents, builder : Builder, limits : PushedLimits,
                       stored : BOOLEAN]
    /\ cancelled \in BOOLEAN
    /\ events \in 0..MaxEvents

(***************************************************************************)
(* What is pushed was published, and so was each of the two limits a       *)
(* builder applies, unless it has not been told since it started: however  *)
(* late a push is handled, and whichever pushes interleave in the handler  *)
(* (run, push and set_max_da_size).                                        *)
(***************************************************************************)
OnlyPublished ==
    /\ published \in history
    /\ \A b \in Builder :
         /\ pushing[b] \in history
         /\ applied[b].max_tx_size \in {0} \cup {l.max_tx_size : l \in history}
         /\ applied[b].max_block_size \in {0} \cup {l.max_block_size : l \in history}
    /\ \A push \in late : push.limits \in history

(***************************************************************************)
(* Once publications, failures and restarts cease, every pusher of a       *)
(* cancelled batcher has returned, and otherwise every builder ends up     *)
(* applying the published limits for good, also one that restarted, missed *)
(* a push, or received an old push late (REFRESH_INTERVAL).                *)
(***************************************************************************)
BuildersConverge ==
    \A b \in Builder :
        <>[](IF cancelled THEN task[b] = "returned" ELSE applied[b] = published)
=============================================================================
