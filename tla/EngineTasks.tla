----------------------------- MODULE EngineTasks -----------------------------
(***************************************************************************)
(* The tasks of the engine's queue (crates/consensus/engine/src/           *)
(* task_queue): what Insert, Consolidate and Finalize do to the engine's   *)
(* forkchoice heads and to the execution layer behind them, with which     *)
(* severity they fail, and the engine reset.                               *)
(*                                                                         *)
(* An L2 block is the sequence of what its chain holds from the first      *)
(* block after genesis: Len is its number, a prefix is an ancestor, and    *)
(* two blocks are equal exactly when their hashes are.  An element x is    *)
(* the content x.c and the fork x.f of the block's L1 origin, the L1 block *)
(* of the same number.  `h` is a record of *)
(* the engine's unsafe, safe and finalized heads and of the execution      *)
(* layer (external: reth): its canonical chain el and its safe and         *)
(* finalized labels.  A task is mapped to the set of its possible          *)
(* outcomes, each the heads it leaves and the severity it returns.         *)
(***************************************************************************)
EXTENDS Naturals, Sequences, SequencesExt

CONSTANTS
  Good,        \* contents the execution layer accepts
  Bad,         \* attributes it builds into an invalid payload
  Rejected,    \* attributes it refuses to build on
  Deposits     \* the content of a deposits-only block

(* The attributes [parent, x]: build the element x on the block parent. *)
BlockOf(a) == Append(a.parent, a.x)
DepositsOnly(a) == [a EXCEPT !.x.c = Deposits]

Outcome(h, severity) == [h |-> h, severity |-> severity]

(* EXTERNAL: the execution layer's canonical chain has the block b. *)
HasBlock(h, b) == IsPrefix(b, h.el)

(* EXTERNAL: a forkchoice state is consistent when safe and finalized are
   ancestors of the head. *)
Consistent(h, head) == IsPrefix(h.safe, head) /\ IsPrefix(h.fin, head)

(* Mutant: heads that are not known are sent as the genesis block. *)
LabelledAlways(h) == [h EXCEPT !.elSafe = h.safe, !.elFin = h.fin]

(* A forkchoice update sends all three heads: the execution layer that confirms
   it has the labels of h.  Before the first reset the engine knows neither safe
   nor finalized head, and sends hashes of zero, which leave the labels alone. *)
Labelled(h) == IF h.known THEN [h EXCEPT !.elSafe = h.safe, !.elFin = h.fin] ELSE h

Advance(h, b) == Labelled([h EXCEPT !.unsafe = b, !.safe = b, !.el = b])

-----------------------------------------------------------------------------
(* build_and_seal of the attributes a.  An invalid payload is replaced by a
   deposits-only block on the same parent, and flushes derivation. *)
BuildAndSeal(h, a) ==
  IF Len(h.unsafe) < Len(h.fin) THEN {Outcome(h, "critical")}
  ELSE IF ~Consistent(h, a.parent) THEN {Outcome(h, "reset")}
  ELSE IF a.x.c = Rejected THEN {Outcome(h, "flush")}
  ELSE IF a.x.c = Bad
       THEN {Outcome(Advance(h, BlockOf(DepositsOnly(a))), "flush")}
       ELSE {Outcome(Advance(h, BlockOf(a)), "ok")}

(* Mutant: the safe head moves to the block of the attributes' number without
   comparing them. *)
ConsolidateBlind(h, a) ==
  LET b == SubSeq(h.el, 1, Len(a.parent) + 1)
  IN  IF Len(h.el) < Len(b) THEN {Outcome(h, "reset")}
      ELSE {Outcome(Labelled([h EXCEPT !.safe = b]), "ok")}

(* consolidate: the unsafe chain is ahead of the safe head.  The labels of the
   execution layer follow unless the block is not the last of its span batch,
   or the execution layer has lost the unsafe head and answers SYNCING.  A safe
   head above the unsafe head may be refused as an invalid forkchoice state. *)
Consolidate(h, a) ==
  LET b == BlockOf(a)
  IN  IF Len(h.el) < Len(b) THEN {Outcome(h, "reset")}
      ELSE IF ~HasBlock(h, b) THEN BuildAndSeal(h, a)
      ELSE LET g == [h EXCEPT !.safe = b]
           IN  {Outcome(g, "ok")}
                 \cup (IF HasBlock(h, h.unsafe) THEN {Outcome(Labelled(g), "ok")} ELSE {})
                 \cup (IF IsPrefix(b, h.unsafe) THEN {} ELSE {Outcome(h, "reset")})

(* Mutant: a SYNCING answer keeps the safe head in any case. *)
ReconcileAhead(h, a) ==
  LET b == BlockOf(a)
      g == [h EXCEPT !.safe = b]
  IN  IF Len(b) < Len(h.fin) THEN {Outcome(h, "critical")}
      ELSE {Outcome(Labelled([h EXCEPT !.unsafe = b, !.safe = b]), "ok"),
            Outcome(g, IF g.unsafe = b /\ g.safe = b THEN "ok" ELSE "deferred")}

(* reconcile_existing_derived_block: the unsafe chain is not ahead, and the
   execution layer has the block.  If it answers SYNCING, only a safe head not
   ahead of the unsafe head survives, and the task is deferred unless that
   leaves both heads at the block. *)
ReconcileExisting(h, a) ==
  LET b == BlockOf(a)
      g == IF Len(b) < Len(h.unsafe) \/ b = h.unsafe THEN [h EXCEPT !.safe = b] ELSE h
  IN  IF Len(b) < Len(h.fin) THEN {Outcome(h, "critical")}
      ELSE {Outcome(Labelled([h EXCEPT !.unsafe = b, !.safe = b]), "ok"),
            Outcome(g, IF g.unsafe = b /\ g.safe = b THEN "ok" ELSE "deferred")}

ConsolidateTask(h, a) ==
  IF Len(h.safe) < Len(h.unsafe) THEN Consolidate(h, a)
  ELSE IF HasBlock(h, BlockOf(a)) THEN ReconcileExisting(h, a)
  ELSE BuildAndSeal(h, a)

(* FinalizeTask: a stale number is skipped; one above the safe head, or a
   block the execution layer does not have, is critical. *)
FinalizeTask(h, n) ==
  IF n < Len(h.fin) THEN {Outcome(h, "ok")}
  ELSE IF Len(h.safe) < n \/ Len(h.el) < n THEN {Outcome(h, "critical")}
  ELSE LET g == [h EXCEPT !.fin = SubSeq(h.el, 1, n)]
       IN  {Outcome(IF HasBlock(h, h.unsafe) THEN Labelled(g) ELSE g, "ok")}

(* InsertTask of a gossiped unsafe block: one that is not above the unsafe head,
   or is next but does not extend it, is skipped.  The execution layer answers
   SYNCING while it syncs or when it has not the parent (it may have that of a
   block further ahead); its first VALID answer ends the initial sync. *)
Skipped(h, b) ==
  \/ Len(b) <= Len(h.unsafe)
  \/ Len(b) = Len(h.unsafe) + 1 /\ Front(b) # h.unsafe

InsertTask(h, b) ==
  LET ignored == Outcome(h, "ok")
      valid   == Outcome(Labelled([h EXCEPT !.unsafe = b, !.el = b, !.synced = TRUE]),
                         "ok")
  IN  IF Skipped(h, b) THEN {ignored}
      ELSE IF Front(b) # h.unsafe
      THEN {ignored, IF Consistent(h, b) THEN valid ELSE Outcome(h, "reset")}
      ELSE IF ~HasBlock(h, h.unsafe) THEN {ignored}
      ELSE IF h.synced THEN {valid} ELSE {ignored, valid}

-----------------------------------------------------------------------------
(* The engine reset.  find_starting_forkchoice keeps the finalized label, walks
   the head back to the highest block whose L1 origin is on the canonical L1
   chain, whose forks are `forks` (a block beyond it is taken for plausible),
   and from there walks down to the labelled safe or the finalized block,
   whichever comes first, the sequencing window being longer than the chain. *)
Plausible(b, forks) ==
  b = <<>> \/ Len(b) > Len(forks) \/ Last(b).f = forks[Len(b)]

(* Mutant: the walk starts at the parent of the head. *)
StartingUnsafeParent(h, forks) ==
  LET heights == {0} \cup {k \in 0 .. Len(h.el) - 1 : Plausible(SubSeq(h.el, 1, k), forks)}
  IN  SubSeq(h.el, 1, CHOOSE k \in heights : \A j \in heights : j <= k)

StartingUnsafe(h, forks) ==
  LET heights == {k \in 0 .. Len(h.el) : Plausible(SubSeq(h.el, 1, k), forks)}
  IN  SubSeq(h.el, 1, CHOOSE k \in heights : \A j \in heights : j <= k)

(* A finalized block above the walk's end is a fatal error of the reset. *)
CanReset(h, forks) == IsPrefix(h.elFin, StartingUnsafe(h, forks))

(* Mutant: the finalized label is not taken over. *)
ResetHeadsUnfinalized(h, forks) ==
  LET u == StartingUnsafe(h, forks)
      s == IF IsPrefix(h.elSafe, u) /\ Len(h.elSafe) > Len(h.elFin)
           THEN h.elSafe ELSE h.elFin
  IN  [h EXCEPT !.unsafe = u, !.el = u, !.safe = s, !.elSafe = s,
                !.fin = <<>>, !.known = TRUE, !.synced = TRUE]

ResetHeads(h, forks) ==
  LET u == StartingUnsafe(h, forks)
      s == IF IsPrefix(h.elSafe, u) /\ Len(h.elSafe) > Len(h.elFin)
           THEN h.elSafe ELSE h.elFin
  IN  [h EXCEPT !.unsafe = u, !.el = u, !.safe = s, !.elSafe = s,
                !.fin = h.elFin, !.known = TRUE, !.synced = TRUE]

=============================================================================
