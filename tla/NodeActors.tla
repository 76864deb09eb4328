------------------------------ MODULE NodeActors ------------------------------
(***************************************************************************)
(* The derivation actor and the engine actor of a validator node, and the  *)
(* two channels between them: actors/derivation/actor.rs on one side,      *)
(* actors/engine/{validator_engine_request_handler,                        *)
(* engine_request_processor}.rs over the engine's task queue on the other. *)
(*                                                                         *)
(* The derivation actor steps its pipeline from the safe head the engine   *)
(* last confirmed, sends the attributes to the engine, and waits.  The     *)
(* engine answers through the derivation actor's inbound channel with a    *)
(* new safe head, or with a signal (reset, flush) and then a safe head.    *)
(* The L1 watcher writes to the same channel, so its messages fall between *)
(* any two of the engine's.  Every send is a step of its own.              *)
(*                                                                         *)
(* Abstractions.  One L1 block carries at most one batch, for one L2       *)
(* number; the pipeline is reduced to what the protocol sees of it: it     *)
(* reads the L1 in order, takes the batch that follows its cursor, drops   *)
(* any other, notices a reorg only when it reads the next block, forgets   *)
(* everything on a reset, and fails a step or a signal as often as the     *)
(* plan allows.  The channel timeout and the sequencing window are longer  *)
(* than the chain.                                                         *)
(***************************************************************************)
EXTENDS DerivationState, EngineTasks, SafeHeadDb

CONSTANT
  Plans \* what may happen in a behaviour, a set of records:
        \*   l1            the length of the L1 chain
        \*   batches       what a batch may hold: among Good \cup {Bad, Rejected}
        \*   reorgs        L1 reorgs
        \*   gossip        gossiped unsafe blocks
        \*   elFaults      losses and late imports of the execution layer
        \*   deferrals     SYNCING answers to a reconciliation
        \*   restarts      restarts of the node
        \*   failedResets  engine resets that fail
        \*   yields        temporary errors of a pipeline step, L1 data unread
        \*   stepErrors    reset and critical errors of a pipeline step
        \*   failedSignals signals the pipeline fails to execute
        \*   dbFaults      writes the safe head database fails
        \*   capacity      slots of the derivation actor's inbound channel
        \*   interrupts    whether the watcher's head notices may fall between the
        \*                 messages the engine sends in a row
        \*   endless       whether the watcher reports heads beyond the bound l1

VARIABLES
  l1,        \* the L1 chain: blocks [n, c, f] with a batch c for L2 block n
             \* (n = 0 is no batch) on fork f
  finL1,     \* the number of the finalized L1 block
  news,      \* what the L1 watcher has not reported yet: "head", "finalized"
  d,         \* the derivation actor
  pipe,      \* its pipeline: the L1 prefix it has read, the batch it holds, and
             \* whether it was ever reset to a block of the L1
  inbox,     \* the derivation actor's inbound channel
  h,         \* the engine's heads and the execution layer
  e,         \* the engine actor
  requests,  \* the engine actor's inbound channel
  db,        \* the safe head database
  plan,      \* the plan of this behaviour
  left       \* what remains of its bounds

l1Vars == <<l1, finL1, news>>
derivationVars == <<d, pipe, db>>
engineVars == <<h, e>>
bounds == <<plan, left>>
vars == <<l1Vars, derivationVars, engineVars, inbox, requests, bounds>>

Block(n, c, f) == [n |-> n, c |-> c, f |-> f]
NoBatch == Block(0, Deposits, 0)
Msg(k, b, n) == [k |-> k, b |-> b, n |-> n]
Req(k, parent, x, n) == [k |-> k, parent |-> parent, x |-> x, n |-> n]
NoElement == [c |-> Deposits, f |-> 0]

Origin(b) == Len(b)
Forks == [i \in DOMAIN l1 |-> l1[i].f]

Spend(faults) ==
  /\ \A bound \in faults : left[bound] > 0
  /\ left' = [bound \in DOMAIN left |->
                left[bound] - IF bound \in faults THEN 1 ELSE 0]
  /\ UNCHANGED plan

Take(bound) == Spend({bound})

NewDerivation ==
  [state |-> "AwaitingELSyncCompletion", confirmed |-> <<>>, pending |-> 0,
   awaiting |-> [l \in {} |-> 0], finalized |-> 0,
   busy |-> FALSE, waiting |-> FALSE, alive |-> TRUE]

NewPipeline == [view |-> <<>>, batch |-> NoBatch, anchored |-> FALSE]

NewEngine ==
  [draining |-> FALSE, tasks |-> <<>>, out |-> <<>>, sent |-> {},
   complete |-> FALSE, alive |-> TRUE]

Init ==
  /\ l1 = <<>> /\ finL1 = 0 /\ news = {}
  /\ d = NewDerivation /\ pipe = NewPipeline /\ e = NewEngine
  /\ inbox = <<>> /\ requests = <<>>
  /\ h = [unsafe |-> <<>>, safe |-> <<>>, fin |-> <<>>, el |-> <<>>,
          elSafe |-> <<>>, elFin |-> <<>>, synced |-> FALSE, known |-> FALSE]
  /\ db = EmptyDb
  /\ plan \in Plans
  /\ left = [bound \in {"reorgs", "gossip", "elFaults", "deferrals", "restarts",
                        "failedResets", "yields", "stepErrors", "failedSignals",
                        "dbFaults"} |-> plan[bound]]

(* An error of either actor cancels the whole node. *)
Up == d.alive /\ e.alive

-----------------------------------------------------------------------------
(* The L1 chain, and the L1 watcher that reports it (l1_watcher/actor.rs).  The
   batch of an L1 block is for an L2 block whose origin is not above it. *)

NewBlocks(number, f) ==
  {Block(0, Deposits, f)}
    \cup {Block(n, c, f) : n \in 1 .. number, c \in plan.batches}

ExtendL1 ==
  /\ Len(l1) < plan.l1
  /\ \E b \in NewBlocks(Len(l1) + 1, plan.reorgs - left.reorgs) : l1' = Append(l1, b)
  /\ news' = news \cup {"head"}
  /\ UNCHANGED <<finL1, derivationVars, engineVars, inbox, requests, bounds>>

(* The L1 goes on beyond the bound, with blocks the pipeline need not read, and
   slower than the derivation actor reads its notices. *)
FurtherL1 ==
  /\ plan.endless /\ Len(l1) = plan.l1 /\ "head" \notin news
  /\ \A m \in ToSet(inbox) : m.k # "head"
  /\ news' = news \cup {"head"}
  /\ UNCHANGED <<l1, finL1, derivationVars, engineVars, inbox, requests, bounds>>

(* The blocks above k are replaced by one other block.  The chain ends longer
   than any that was replaced. *)
ReorgL1(k) ==
  /\ k >= finL1 /\ k < Len(l1) /\ Len(l1) < plan.l1
  /\ Take("reorgs")
  /\ \E b \in NewBlocks(k + 1, plan.reorgs - left'.reorgs) :
       l1' = Append(SubSeq(l1, 1, k), b)
  /\ news' = news \cup {"head"}
  /\ UNCHANGED <<finL1, derivationVars, engineVars, inbox, requests>>

(* No trace of a replaced block: the pipeline has read the present chain, and
   no reset is under way. *)
ReorgNoticed ==
  /\ IsPrefix(pipe.view, l1) /\ ~d.waiting
  /\ \A m \in ToSet(inbox) \cup ToSet(e.out) : m.k # "reset"

(* Finality is slower than the node: the L1 finalizes no block before the node
   has noticed the reorg that brought it. *)
FinalizeL1 ==
  /\ finL1 < Len(l1)
  /\ ReorgNoticed
  /\ finL1' = finL1 + 1
  /\ news' = news \cup {"finalized"}
  /\ UNCHANGED <<l1, derivationVars, engineVars, inbox, requests, bounds>>

NotifyHead ==
  /\ Up /\ "head" \in news /\ Len(inbox) < plan.capacity
  /\ plan.interrupts \/ e.out = <<>>
  /\ inbox' = Append(inbox, Msg("head", <<>>, 0))
  /\ news' = news \ {"head"}
  /\ UNCHANGED <<l1, finL1, derivationVars, engineVars, requests, bounds>>

NotifyFinalized ==
  /\ Up /\ "finalized" \in news /\ Len(inbox) < plan.capacity
  /\ inbox' = Append(inbox, Msg("finalized", <<>>, finL1))
  /\ news' = news \ {"finalized"}
  /\ UNCHANGED <<l1, finL1, derivationVars, engineVars, requests, bounds>>

(* The network actor passes on a gossiped block, whose origin is on the L1. *)
Gossip(c) ==
  LET n == Len(h.unsafe) + 1
  IN  /\ Up /\ n <= Len(l1)
      /\ Take("gossip")
      /\ requests' = Append(requests, Req("unsafe", h.unsafe, [c |-> c, f |-> l1[n].f], 0))
      /\ UNCHANGED <<l1Vars, derivationVars, engineVars, inbox>>

(* EXTERNAL: the execution layer restarts and has lost unsafe blocks. *)
LoseBlocks(k) ==
  /\ Up /\ Len(h.safe) <= k /\ k < Len(h.el)
  /\ Take("elFaults")
  /\ h' = [h EXCEPT !.el = SubSeq(h.el, 1, k)]
  /\ UNCHANGED <<l1Vars, derivationVars, e, inbox, requests>>

(* EXTERNAL: it imports late a block whose insertion it answered SYNCING. *)
ImportLate(c) ==
  LET n == Len(h.el) + 1
  IN  /\ Up /\ h.synced /\ h.el = h.unsafe /\ n <= Len(l1)
      /\ Take("elFaults")
      /\ h' = [h EXCEPT !.el = Append(h.el, [c |-> c, f |-> l1[n].f])]
      /\ UNCHANGED <<l1Vars, derivationVars, e, inbox, requests>>

(* The node stops, or its actors have ended, and it starts again.  What it had in
   memory is gone; the execution layer and the database remain.  The validator's
   bootstrap takes the execution layer's head for the unsafe head, and the L1
   watcher reports what it first sees. *)
Restart ==
  /\ Take("restarts")
  /\ d' = NewDerivation /\ pipe' = NewPipeline /\ e' = NewEngine
  /\ inbox' = <<>> /\ requests' = <<>>
  /\ h' = [h EXCEPT !.unsafe = h.el, !.safe = <<>>, !.fin = <<>>,
                    !.synced = FALSE, !.known = FALSE]
  /\ news' = {"head"} \cup {k \in {"finalized"} : finL1 > 0}
  /\ UNCHANGED <<l1, finL1, db>>

-----------------------------------------------------------------------------
(* The derivation actor.  A handler that ends in attempt_derivation leaves the
   actor busy when the state machine is Deriving. *)

Idle == Up /\ ~d.busy /\ ~d.waiting

(* An InvalidTransition is an error of the handler, which ends the actor. *)
Transition(r, update) ==
  IF CanUpdate(r.state, update) THEN [r EXCEPT !.state = Updated(r.state, update)]
  ELSE [r EXCEPT !.alive = FALSE]

Attempting(r) == [r EXCEPT !.busy = (r.alive /\ r.state = "Deriving")]

(* try_finalize_pending: an actor r that has not failed sends the highest
   eligible block. *)
Finalizes(r) == r.alive /\ Eligible(r.awaiting, r.finalized) # {}

AfterFinalizing(r) ==
  IF Finalizes(r) THEN [r EXCEPT !.awaiting = Drained(r.awaiting, r.finalized)] ELSE r

FinalizeRequests(r) ==
  IF Finalizes(r)
  THEN <<Req("finalize", <<>>, NoElement, HighestSafe(r.awaiting, r.finalized))>>
  ELSE <<>>

(* The pipeline after the signal: its stages are reset to the L1 origin of the
   signal's safe head, or drop the channel they are reading. *)
ResetPipeline == [NewPipeline EXCEPT !.anchored = TRUE]

FlushedPipeline == [pipe EXCEPT !.batch = NoBatch]

(* ProcessEngineSignalRequest.  A reset also clears the finalizer and the
   pending inclusion block, and resets the database to the confirmed head.  A
   pipeline that fails the signal, and a database that fails the reset, stay as
   they were: the error is logged, and the signal counts as processed. *)
HandleReset(m) ==
  /\ m.k = "reset"
  /\ \E faults \in SUBSET {"failedSignals", "dbFaults"} :
       /\ Spend(faults)
       /\ db' = IF "dbFaults" \in faults THEN db
                ELSE DbReset(db, Origin(d.confirmed), d.confirmed)
       /\ pipe' = IF "failedSignals" \in faults THEN pipe ELSE ResetPipeline
  /\ d' = [Transition(d, "SignalProcessed") EXCEPT !.awaiting = [l \in {} |-> 0],
                                                   !.pending = 0]
  /\ UNCHANGED requests

HandleFlush(m) ==
  /\ m.k = "flush"
  /\ \E faults \in SUBSET {"failedSignals"} :
       /\ Spend(faults)
       /\ pipe' = IF faults = {} THEN FlushedPipeline ELSE pipe
  /\ d' = Transition(d, "SignalProcessed")
  /\ UNCHANGED <<db, requests>>

(* ProcessFinalizedL1Block: an older block is ignored. *)
HandleFinalized(m) ==
  LET r == [d EXCEPT !.finalized = m.n]
  IN  /\ m.k = "finalized"
      /\ IF m.n < d.finalized THEN UNCHANGED <<d, requests>>
         ELSE d' = AfterFinalizing(r) /\ requests' = requests \o FinalizeRequests(r)
      /\ UNCHANGED <<db, pipe, bounds>>

HandleHead(m) ==
  /\ m.k = "head"
  /\ d' = Attempting(Transition(d, "L1DataReceived"))
  /\ UNCHANGED <<db, pipe, requests, bounds>>

(* A write of the safe head listener.  If it fails, the error is logged and the
   derivation goes on without the entry. *)
DbWrites(written) ==
  \/ db' = written /\ UNCHANGED bounds
  \/ Take("dbFaults") /\ UNCHANGED db

(* Mutant: the entry is keyed by the L1 origin of the new safe head. *)
HandleSafeHeadByOrigin(m) ==
  LET t == [Transition(d, "NewAttributesConfirmed") EXCEPT !.pending = 0]
      r == IF t.alive THEN [t EXCEPT !.confirmed = m.b] ELSE t
  IN  /\ m.k = "safe"
      /\ DbWrites(DbUpdate(db, Origin(m.b), m.b))
      /\ d' = Attempting(AfterFinalizing(r))
      /\ requests' = requests \o FinalizeRequests(r)
      /\ UNCHANGED pipe

(* Mutant: the confirmed head is not stored. *)
HandleSafeHeadStale(m) ==
  LET t == [Transition(d, "NewAttributesConfirmed") EXCEPT !.pending = 0]
  IN  /\ m.k = "safe"
      /\ DbWrites(DbUpdate(db, IF d.pending # 0 THEN d.pending ELSE Origin(m.b), m.b))
      /\ d' = Attempting(AfterFinalizing(t))
      /\ requests' = requests \o FinalizeRequests(t)
      /\ UNCHANGED pipe

(* Mutant: derivation is not attempted again after a confirmation. *)
HandleSafeHeadIdle(m) ==
  LET t == [Transition(d, "NewAttributesConfirmed") EXCEPT !.pending = 0]
      r == IF t.alive THEN [t EXCEPT !.confirmed = m.b] ELSE t
  IN  /\ m.k = "safe"
      /\ DbWrites(DbUpdate(db, IF d.pending # 0 THEN d.pending ELSE Origin(m.b), m.b))
      /\ d' = AfterFinalizing(r)
      /\ requests' = requests \o FinalizeRequests(r)
      /\ UNCHANGED pipe

(* ProcessEngineSafeHeadUpdateRequest: the database entry is keyed by the
   inclusion block of the attributes last derived, if there are any. *)
HandleSafeHead(m) ==
  LET t == [Transition(d, "NewAttributesConfirmed") EXCEPT !.pending = 0]
      r == IF t.alive THEN [t EXCEPT !.confirmed = m.b] ELSE t
  IN  /\ m.k = "safe"
      /\ DbWrites(DbUpdate(db, IF d.pending # 0 THEN d.pending ELSE Origin(m.b), m.b))
      /\ d' = Attempting(AfterFinalizing(r))
      /\ requests' = requests \o FinalizeRequests(r)
      /\ UNCHANGED pipe

HandleSyncCompleted(m) ==
  LET t == Transition(d, "ELSyncCompleted")
  IN  /\ m.k = "synced"
      /\ DbWrites(DbReset(db, Origin(m.b), m.b))
      /\ d' = Attempting(IF t.alive THEN [t EXCEPT !.confirmed = m.b] ELSE t)
      /\ UNCHANGED <<pipe, requests>>

HandleRequest ==
  /\ Idle /\ inbox # <<>>
  /\ inbox' = Tail(inbox)
  /\ LET m == Head(inbox)
     IN  \/ HandleReset(m) \/ HandleFlush(m) \/ HandleFinalized(m)
         \/ HandleHead(m) \/ HandleSafeHead(m) \/ HandleSyncCompleted(m)
  /\ UNCHANGED <<l1Vars, engineVars>>

-----------------------------------------------------------------------------
(* produce_next_attributes: one action per result of pipeline.step. *)

Stepping == Up /\ d.busy /\ ~d.waiting

(* The batch the pipeline holds is for the next block and names the cursor as
   its parent, which it does only if the cursor is on the L1 chain it is on. *)
FollowsCursor ==
  /\ pipe.batch.n = Len(d.confirmed) + 1
  /\ \A i \in DOMAIN d.confirmed : d.confirmed[i].f = pipe.view[i].f

(* Mutant: the actor goes on deriving once it has sent attributes. *)
ProduceAndGoOn ==
  LET n == pipe.batch.n
  IN  /\ Stepping /\ FollowsCursor
      /\ d' = [d EXCEPT !.awaiting = EnqueueForFinalization(d.awaiting, Len(pipe.view), n),
                        !.pending = Len(pipe.view)]
      /\ requests' = Append(requests,
                            Req("attributes", d.confirmed,
                                [c |-> pipe.batch.c, f |-> pipe.view[n].f], 0))
      /\ UNCHANGED <<l1Vars, engineVars, pipe, inbox, db, bounds>>

ProduceAttributes ==
  LET from == Len(pipe.view)
      n    == pipe.batch.n
  IN  /\ Stepping /\ FollowsCursor
      /\ d' = [Transition(d, "NewAttributesDerived") EXCEPT
                 !.awaiting = EnqueueForFinalization(d.awaiting, from, n),
                 !.pending = from, !.busy = FALSE]
      /\ requests' = Append(requests,
                            Req("attributes", d.confirmed,
                                [c |-> pipe.batch.c, f |-> pipe.view[n].f], 0))
      /\ pipe' = [pipe EXCEPT !.batch = NoBatch]
      /\ UNCHANGED <<l1Vars, engineVars, inbox, db, bounds>>

(* Any other batch is dropped: NotEnoughData, the loop continues. *)
DropBatch ==
  /\ Stepping /\ pipe.batch.n # 0 /\ ~FollowsCursor
  /\ pipe' = [pipe EXCEPT !.batch = NoBatch]
  /\ UNCHANGED <<l1Vars, engineVars, d, inbox, requests, db, bounds>>

NeedsData == Stepping /\ pipe.batch.n = 0

(* The block the pipeline is at is the parent of the next L1 block.  A pipeline
   that was never reset is at a block that is not on the L1. *)
OnCanonicalL1 == pipe.anchored /\ IsPrefix(pipe.view, l1)

(* The next L1 block.  On the first block of Holocene the pipeline also drops
   what its stages have buffered: nothing, with one batch to a block. *)
AdvanceOrigin ==
  LET next == Len(pipe.view) + 1
  IN  /\ NeedsData /\ next <= Len(l1) /\ OnCanonicalL1
      /\ pipe' = [pipe EXCEPT !.view = SubSeq(l1, 1, next), !.batch = l1[next]]
      /\ UNCHANGED <<l1Vars, engineVars, d, inbox, requests, db, bounds>>

(* Temporary errors but NotEnoughData: there is no next L1 block yet, or a
   provider failed with L1 data unread.  Either way the actor waits for the next
   L1 head. *)
YieldDerivation ==
  /\ \/ NeedsData /\ Len(pipe.view) >= Len(l1) /\ UNCHANGED bounds
     \/ Stepping /\ Take("yields")
  /\ d' = [Transition(d, "MoreDataNeeded") EXCEPT !.busy = FALSE]
  /\ UNCHANGED <<l1Vars, engineVars, pipe, inbox, requests, db>>

(* Reset errors: the actor asks the engine to reset and awaits its answer.  The
   next L1 block has another parent (ReorgDetected), or the pipeline cannot go on
   for another reason (blobs that are gone, an origin or a parent that does not
   match). *)
RequestReset ==
  /\ \/ NeedsData /\ Len(pipe.view) < Len(l1) /\ ~OnCanonicalL1 /\ UNCHANGED bounds
     \/ Stepping /\ Take("stepErrors")
  /\ d' = [d EXCEPT !.waiting = TRUE]
  /\ requests' = Append(requests, Req("reset", <<>>, NoElement, 0))
  /\ UNCHANGED <<l1Vars, engineVars, pipe, inbox, db>>

(* A critical error, or an activation of Holocene that fails, ends the actor. *)
FailStep ==
  /\ Stepping /\ Take("stepErrors")
  /\ d' = [d EXCEPT !.alive = FALSE]
  /\ UNCHANGED <<l1Vars, engineVars, pipe, inbox, requests, db>>

(* The answer to the reset request: SignalNeeded, then the yield's
   MoreDataNeeded; an error ends the actor. *)
Answered(ok) ==
  IF ok THEN [Transition(Transition(d, "SignalNeeded"), "MoreDataNeeded") EXCEPT
                !.busy = FALSE, !.waiting = FALSE]
  ELSE [d EXCEPT !.alive = FALSE]

-----------------------------------------------------------------------------
(* The engine actor.  What it has to send before its next step is in e.out. *)

Ready == Up /\ e.out = <<>>

(* Mutant: the send does not wait for a slot. *)
SendUnbounded ==
  /\ Up /\ e.out # <<>>
  /\ LET m == Head(e.out)
     IN  \/ /\ m.k \in {"answer", "refusal"}
            /\ d' = Answered(m.k = "answer")
            /\ UNCHANGED inbox
         \/ /\ m.k \notin {"answer", "refusal"}
            /\ inbox' = Append(inbox, m)
            /\ UNCHANGED d
  /\ e' = [e EXCEPT !.out = Tail(@)]
  /\ UNCHANGED <<l1Vars, pipe, db, h, requests, bounds>>

Send ==
  /\ Up /\ e.out # <<>>
  /\ LET m == Head(e.out)
     IN  \/ /\ m.k \in {"answer", "refusal"}
            /\ d' = Answered(m.k = "answer")
            /\ UNCHANGED inbox
         \/ /\ m.k \notin {"answer", "refusal"} /\ Len(inbox) < plan.capacity
            /\ inbox' = Append(inbox, m)
            /\ UNCHANGED d
  /\ e' = [e EXCEPT !.out = Tail(@)]
  /\ UNCHANGED <<l1Vars, pipe, db, h, requests, bounds>>

(* send_derivation_actor_safe_head_if_updated, after the heads became g. *)
SafeHeadIfUpdated(g, sent) ==
  IF g.known /\ sent # {g.safe} THEN <<Msg("safe", g.safe, 0)>> ELSE <<>>

Sent(g) == IF g.known THEN {g.safe} ELSE {}

(* Mutant: the reset sends the signal alone. *)
ResetMessagesSignalOnly(g, sent) == <<Msg("reset", g.safe, 0)>>

(* reset: the tasks are dropped, and derivation is sent the signal and then the
   safe head if that changed. *)
ResetMessages(g, sent) == <<Msg("reset", g.safe, 0)>> \o SafeHeadIfUpdated(g, sent)

(* The end of drain, with the heads at g, the tasks ts left and the messages
   out sent so far: the safe head if updated, and the completion of the initial
   sync, which resets an engine that knows no finalized block. *)
Settle(g, ts, sent, out) ==
  LET told == out \o SafeHeadIfUpdated(g, sent)
      r    == ResetHeads(g, Forks)
      done == [e EXCEPT !.draining = FALSE, !.tasks = ts, !.sent = Sent(g), !.out = told]
  IN  IF e.complete \/ ~g.synced THEN h' = g /\ e' = done
      ELSE IF g.known
      THEN /\ h' = g
           /\ e' = [done EXCEPT !.complete = TRUE, !.out = told \o <<Msg("synced", g.safe, 0)>>]
      ELSE /\ CanReset(g, Forks)
           /\ h' = r
           /\ e' = [done EXCEPT !.complete = TRUE, !.tasks = <<>>, !.sent = Sent(r),
                      !.out = told \o ResetMessages(r, Sent(g)) \o <<Msg("synced", r.safe, 0)>>]

(* EngineTask's order: insert before consolidate before finalize, and in the
   order of arrival within a kind. *)
Priority(t) == CASE t.k = "unsafe" -> 3 [] t.k = "attributes" -> 2 [] t.k = "finalize" -> 1

First(ts) ==
  CHOOSE i \in DOMAIN ts : \A j \in DOMAIN ts :
    Priority(ts[j]) < Priority(ts[i]) \/ (Priority(ts[j]) = Priority(ts[i]) /\ i <= j)

Outcomes(t) ==
  CASE t.k = "unsafe"     -> InsertTask(h, BlockOf(t))
    [] t.k = "attributes" -> ConsolidateTask(h, t)
    [] t.k = "finalize"   -> FinalizeTask(h, t.n)

(* One task of the drain, for each severity of its outcome o. *)
TaskDone(o, rest) ==
  /\ o.severity = "ok"
  /\ IF rest = <<>> THEN Settle(o.h, rest, e.sent, <<>>)
     ELSE h' = o.h /\ e' = [e EXCEPT !.tasks = rest]
  /\ UNCHANGED bounds

TaskFlushed(o, rest) ==
  /\ o.severity = "flush"
  /\ Settle(o.h, rest, e.sent, <<Msg("flush", <<>>, 0)>>)
  /\ UNCHANGED bounds

TaskDeferred(o) ==
  /\ o.severity = "deferred"
  /\ Take("deferrals")
  /\ Settle(o.h, e.tasks, e.sent, <<>>)

TaskReset(o) ==
  LET g == ResetHeads(o.h, Forks)
  IN  /\ o.severity = "reset"
      /\ \/ /\ CanReset(o.h, Forks)
            /\ Settle(g, <<>>, Sent(g), ResetMessages(g, e.sent))
            /\ UNCHANGED bounds
         \/ /\ Take("failedResets")
            /\ e' = [e EXCEPT !.alive = FALSE]
            /\ UNCHANGED h

TaskCritical(o) ==
  /\ o.severity = "critical"
  /\ e' = [e EXCEPT !.alive = FALSE]
  /\ UNCHANGED <<h, bounds>>

RunTask ==
  /\ Ready /\ e.draining
  /\ LET i    == First(e.tasks)
         rest == RemoveAt(e.tasks, i)
     IN  \E o \in Outcomes(e.tasks[i]) :
           \/ TaskDone(o, rest) \/ TaskFlushed(o, rest) \/ TaskDeferred(o)
           \/ TaskReset(o) \/ TaskCritical(o)
  /\ UNCHANGED <<l1Vars, derivationVars, inbox, requests>>

(* A request becomes a task, and the queue is drained. *)
ReceiveTask ==
  /\ Ready /\ ~e.draining /\ requests # <<>> /\ Head(requests).k # "reset"
  /\ e' = [e EXCEPT !.tasks = Append(@, Head(requests)), !.draining = TRUE]
  /\ requests' = Tail(requests)
  /\ UNCHANGED <<l1Vars, derivationVars, h, inbox, bounds>>

(* ResetRequest.  The execution layer has finished its sync: derivation, which
   asks, starts only then.  A reset that fails is answered with an error. *)
ReceiveReset ==
  LET g == ResetHeads(h, Forks)
  IN  /\ Ready /\ ~e.draining /\ requests # <<>> /\ Head(requests).k = "reset"
      /\ requests' = Tail(requests)
      /\ \/ /\ CanReset(h, Forks)
            /\ h' = g
            /\ e' = [e EXCEPT !.tasks = <<>>, !.sent = Sent(g),
                              !.out = ResetMessages(g, e.sent) \o <<Msg("answer", <<>>, 0)>>]
            /\ UNCHANGED bounds
         \/ /\ Take("failedResets")
            /\ e' = [e EXCEPT !.tasks = <<>>, !.out = <<Msg("refusal", <<>>, 0)>>]
            /\ UNCHANGED h
      /\ UNCHANGED <<l1Vars, derivationVars, inbox>>

-----------------------------------------------------------------------------
DerivationStep ==
  \/ HandleRequest \/ ProduceAttributes \/ DropBatch \/ AdvanceOrigin
  \/ YieldDerivation \/ RequestReset \/ FailStep

EngineStep == Send \/ RunTask \/ ReceiveTask \/ ReceiveReset

Watch == NotifyHead \/ NotifyFinalized

Environment ==
  \/ ExtendL1 \/ FurtherL1 \/ FinalizeL1 \/ Restart
  \/ \E k \in 0 .. plan.l1 : ReorgL1(k) \/ LoseBlocks(k)
  \/ \E c \in Good : Gossip(c) \/ ImportLate(c)

Next == DerivationStep \/ EngineStep \/ Watch \/ Environment

Spec == Init /\ [][Next]_vars

FairSpec ==
  /\ Spec
  /\ WF_vars(DerivationStep) /\ WF_vars(EngineStep) /\ WF_vars(Watch)
  /\ WF_vars(ExtendL1 \/ FurtherL1)

-----------------------------------------------------------------------------
(* What the L1 chain determines: each batch for the next L2 block, in L1 order,
   adds that block; a batch that executes to an invalid payload adds a
   deposits-only block, one whose attributes are refused adds none. *)
DeriveFrom(chain) ==
  LET Add(b, k) ==
        IF k.n # Len(b) + 1 \/ k.c = Rejected THEN b
        ELSE Append(b, [c |-> IF k.c = Bad THEN Deposits ELSE k.c, f |-> chain[k.n].f])
  IN  FoldLeft(Add, <<>>, chain)

Awaiting(q) == Cardinality({i \in DOMAIN q : q[i].k = "attributes"})

(* The actors' records stay in their types, the inclusion block a derivation
   remembers is one the L1 has had, and no send overfills the derivation actor's
   inbound channel. *)
TypeOK ==
  /\ d.state \in States /\ d.pending \in 0 .. plan.l1
  /\ Len(inbox) <= plan.capacity /\ finL1 \in 0 .. Len(l1)

(* Whether a bound of the plan has been used. *)
Used(bound) == left[bound] < plan[bound]
Reorged == Used("reorgs")

(* Nothing has made the engine reset or flush derivation, or the pipeline fail,
   since the node started. *)
Undisturbed ==
  /\ plan.batches \subseteq Good
  /\ \A bound \in {"reorgs", "elFaults", "failedResets", "stepErrors", "failedSignals"} :
       ~Used(bound)

(* Undisturbed, neither actor ends: no message arrives in a state whose transition
   is invalid, and no task fails with a critical error, restarts included. *)
ActorsAlive == Undisturbed => Up

(* The block b holds nothing but what L1 batches for its numbers say. *)
FromBatches(b) ==
  \A i \in DOMAIN b : \E k \in DOMAIN l1 :
    l1[k].n = i /\ b[i].c = IF l1[k].c = Bad THEN Deposits ELSE l1[k].c

(* As long as the L1 has not reorged, the engine's safe head is a block the L1
   determines: whatever was gossiped, lost, invalid, failed or restarted, and however
   the messages interleave, it is the chain of the L1's batches.  After a signal the
   pipeline failed to execute the actor goes on as if it had (actor.rs:154-156,263), with
   a pipeline that is past batches it should read again: then the safe head is still made
   of batches on the L1, but no longer of the first ones. *)
SafeDerived ==
  \/ Reorged
  \/ IF Used("failedSignals") THEN FromBatches(h.safe) ELSE IsPrefix(h.safe, DeriveFrom(l1))

(* The finalized head is an ancestor of the safe head, and that one of the unsafe
   head, after every task, reset and answer of the execution layer.  One mishap is
   exempt from the second half: a head notice that falls between a reset signal and the
   safe head after it resumes the derivation on a head the engine has left, and a block
   the execution layer imports late makes its attributes consolidate above the unsafe
   head. *)
HeadsOrdered ==
  /\ IsPrefix(h.fin, h.safe)
  /\ \/ IsPrefix(h.safe, h.unsafe)
     \/ /\ plan.interrupts /\ Used("elFaults")
        /\ \E bound \in {"reorgs", "stepErrors"} : Used(bound)

(* Undisturbed, the finalized head was derived from finalized L1 blocks alone: the
   finalizer releases a block only after the L1 block its batch was included in. *)
FinalizedDerived == Undisturbed => IsPrefix(h.fin, DeriveFrom(SubSeq(l1, 1, finL1)))

(* A reset finds its starting point at any time: the block the execution layer
   has finalized is never on an L1 origin that a reorg has replaced. *)
ResetPossible == CanReset(h, Forks)

(* Undisturbed and before a restart, safe_head_at_l1 answers what the L1 up to that
   block determines, for every L1 block the database covers.  If writes failed, which
   the actor only logs, the answer may be an ancestor of that block, never another. *)
DatabaseRight ==
  Undisturbed /\ ~Used("restarts") =>
    \A l \in DOMAIN l1 :
      HasAnswer(db, l) /\ (\E k \in DOMAIN db : k >= l)
        => LET derived == DeriveFrom(SubSeq(l1, 1, l))
           IN  IF Used("dbFaults") THEN IsPrefix(SafeHeadAtL1(db, l), derived)
               ELSE SafeHeadAtL1(db, l) = derived

(* While the derivation actor steps its pipeline, the safe head it builds on is
   the engine's, unless a notice of the watcher may have fallen between a signal of
   the engine and the safe head that follows it. *)
DerivesFromSafeHead ==
  Undisturbed \/ ~plan.interrupts => (d.busy /\ ~d.waiting => d.confirmed = h.safe)

(* Undisturbed, at most one AttributesWithParent awaits confirmation: no attributes
   are sent to the engine while others are not executed. *)
OneAwaiting == Undisturbed => Awaiting(requests) + Awaiting(e.tasks) <= 1

(* What the node says is derived is what the L1 determines: its safe head, its
   finalized head and the answers of its safe head database. *)
HeadsDerived == SafeDerived /\ FinalizedDerived /\ DatabaseRight

(* The forkchoice state is one the execution layer accepts, and a reset finds one
   to start from at any time. *)
ForkchoiceSound == HeadsOrdered /\ ResetPossible

(* The two actors keep in step: neither ends, at most one AttributesWithParent is
   on its way, and derivation builds on the engine's safe head. *)
ActorsInStep == TypeOK /\ ActorsAlive /\ OneAwaiting /\ DerivesFromSafeHead

(* Finality is kept.  The finalized label the execution layer confirmed never goes
   back; nor does the engine's finalized head, through resets of an L1 reorg and
   flushes of invalid batches, as long as the execution layer confirms it. *)
FinalityKept ==
  [][/\ IsPrefix(h.elFin, h'.elFin)
     /\ IsPrefix(h.fin, h'.fin) \/ Used("elFaults") \/ Used("restarts")']_vars

(* While the L1 goes on, the pipeline of a node that stays up reads all of it: no
   reorg, reset, failed step, failed signal or order of messages leaves derivation
   waiting for ever. *)
ReadsL1 ==
  <>[](Up /\ h.known /\ (plan.endless \/ ~Used("yields")) => pipe.view = l1)

(* On an L1 that does not reorg the safe head reaches all that the L1 determines, as
   long as no signal fails.  Without a further L1 head nothing resumes a derivation
   that yielded on a provider's error (actor.rs:185-196): after one, this needs the L1
   to go on. *)
CatchesUp ==
  <>[](Up /\ h.known /\ ~Reorged /\ ~Used("failedSignals")
          /\ (plan.endless \/ ~Used("yields"))
        => h.safe = DeriveFrom(l1))

(* Derivation goes on for ever. *)
DerivationGoesOn == CatchesUp /\ ReadsL1

=============================================================================
