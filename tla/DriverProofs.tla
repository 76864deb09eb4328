---------------------------- MODULE DriverProofs ----------------------------
(***************************************************************************)
(* The theorems about BatchDriver.                                         *)
(***************************************************************************)
EXTENDS BatchDriver, EncoderProofs, TLAPS

(* f buffers what e buffers. *)
SameBuffer(e, f) == f.blocks = e.blocks /\ f.tip = e.tip

(***************************************************************************)
(* The buffer of e is a chain that hangs on the safe head, numbered from   *)
(* it, and ends where the source is.  An empty buffer still says on which  *)
(* block it goes on: on its tip, or, without one, where the source is.     *)
(***************************************************************************)
BufferInv(e, safe, at, off) ==
    /\ \A i \in 1..Len(e.blocks) : Number[e.blocks[i]] = Number[safe] + i
    /\ \A i \in 1..(Len(e.blocks) - 1) : Parent[e.blocks[i + 1]] = e.blocks[i]
    /\ e.blocks = <<>> => e.tip = safe \/ (e.tip = None /\ (off \/ at = safe))
    /\ e.blocks # <<>> => /\ ~off
                         /\ Parent[e.blocks[1]] = safe
                         /\ e.blocks[Len(e.blocks)] = at
                         /\ e.tip = at

(* Every lease of e belongs to a transaction of txs that carries what is leased. *)
Backed(e, txs) ==
    \A id \in DOMAIN e.egress.pending :
        \E tx \in txs : tx.id = id /\ e.egress.pending[id] \subseteq tx.artifacts

(* The transactions of txs have different ids, which e has issued. *)
Issued(e, txs) ==
    /\ \A tx \in txs : tx.id \in 0..(e.next_id - 1)
    /\ \A t, u \in txs : t.id = u.id => t = u

-----------------------------------------------------------------------------
(* Closing the tail does not touch the buffer (close_current_channel). *)
LEMMA CloseCurrentChannelBuffer ==
    ASSUME NEW e, DOMAIN e = EncoderFields, NEW finished
    PROVE  LET f == CloseCurrentChannel(e, finished)
           IN  DOMAIN f = EncoderFields /\ SameBuffer(e, f) 
BY DEF CloseCurrentChannel, SameBuffer, EncoderFields, NewEncoder

(* Nor does a step: it only moves the cursor over the buffer. *)
LEMMA StepBuffer ==
    ASSUME NEW e, DOMAIN e = EncoderFields, NEW emitted, NEW fault
    PROVE  SameBuffer(e, Step(e, emitted, fault).encoder)
<1>1. ASSUME NEW w, DOMAIN w = EncoderFields
      PROVE  DOMAIN CloseStep(w, fault).encoder = EncoderFields /\ SameBuffer(w, CloseStep(w, fault).encoder)
  BY <1>1, CloseCurrentChannelBuffer DEF CloseStep, StepOutcome
<1>2. DOMAIN Writable(e) = EncoderFields /\ SameBuffer(e, Writable(e))
  BY DEF Writable, OpenNewChannel, SameBuffer, EncoderFields, NewEncoder
<1>3. ASSUME NEW w, DOMAIN w = EncoderFields
      PROVE  SameBuffer(w, EncodeStep(w, emitted, fault).encoder)
  <2>1. SameBuffer(w, RejectStep(w, fault).encoder)
    BY <1>3, <1>1 DEF RejectStep, StepOutcome, SameBuffer, EncoderFields, NewEncoder
  <2>2. DOMAIN Accept(w, emitted) = EncoderFields /\ SameBuffer(w, Accept(w, emitted))
    BY <1>3 DEF Accept, SameBuffer, EncoderFields, NewEncoder
  <2>3. SameBuffer(w, AcceptStep(w, emitted, fault).encoder)
    BY <1>1, <2>2 DEF AcceptStep, StepOutcome, SameBuffer
  <2> QED
    BY <2>1, <2>3 DEF EncodeStep, StepOutcome, SameBuffer
<1>4. SameBuffer(e, EncodeStep(Writable(e), emitted, fault).encoder)
  BY <1>2, <1>3 DEF SameBuffer
<1> QED
  BY <1>1, <1>4 DEF Step, StepOutcome, SameBuffer, EncoderFields, NewEncoder

(* Framing and leasing do not touch the buffer (next_submission). *)
LEMMA NextSubmissionBuffer ==
    ASSUME NEW e, DOMAIN e = EncoderFields
    PROVE  SameBuffer(e, NextSubmission(e))
<1> DEFINE Like(f) == DOMAIN f = EncoderFields /\ SameBuffer(e, f)
<1>1. ASSUME NEW f, Like(f), NEW plan, NEW blob
      PROVE  Like(Commit(f, plan, blob))
  BY <1>1 DEF Commit, SameBuffer, EncoderFields, NewEncoder
<1>2. ASSUME NEW f, Like(f)
      PROVE  Like(FillBlob(f))
  <2>1. PICK plan : FillBlob(f) = f \/ FillBlob(f) = Commit(f, plan, TRUE)
    BY FillBlobCommits, Zenon
  <2>2. Like(Commit(f, plan, TRUE))
    BY <1>1, <1>2, Zenon
  <2> HIDE DEF Like
  <2> QED
    BY <1>2, <2>1, <2>2, Zenon
<1>3. Like(e)
  BY DEF SameBuffer
<1>4. Like(BuildCalldata(e))
  BY <1>1, <1>3, Zenon DEF BuildCalldata
<1>5. Like(BuildBlobs(e))
  <2> HIDE DEF Like
  <2> QED
    BY <1>2, <1>3 DEF BuildBlobs
<1>6. Like(BuildReadyArtifacts(e, EffectiveDaType(e)))
  BY <1>3, <1>4, <1>5 DEF BuildReadyArtifacts
<1> QED
  BY <1>6 DEF NextSubmission, LeaseReady, SameBuffer, EncoderFields, NewEncoder

(* Receipts, requeues and the blob override do not touch the buffer. *)
LEMMA SettleBuffer ==
    ASSUME NEW e, DOMAIN e = EncoderFields, NEW id, NEW l1, NEW active
    PROVE  /\ SameBuffer(e, Confirm(e, id, l1))
           /\ SameBuffer(e, Requeue(e, id))
           /\ SameBuffer(e, SetBlobOverride(e, active))
BY DEF Confirm, Requeue, SetBlobOverride, SameBuffer, EncoderFields, NewEncoder

(* A replay drops channels and artifacts, and encodes the same buffer again (advance_l1_head). *)
LEMMA AdvanceL1HeadBuffer ==
    ASSUME NEW e, DOMAIN e = EncoderFields, NEW l1, NEW finished
    PROVE  SameBuffer(e, AdvanceL1Head(e, l1, finished))
<1>1. ASSUME NEW f, DOMAIN f = EncoderFields
      PROVE  SameBuffer(f, InvalidateExpiredChannels(f))
  <2>1. ASSUME NEW idx PROVE SameBuffer(f, InvalidateChannel(f, idx))
    BY <1>1 DEF InvalidateChannel, SameBuffer, EncoderFields, NewEncoder
  <2> QED
    BY <2>1 DEF InvalidateExpiredChannels, SameBuffer
<1> DEFINE moved == [e EXCEPT !.l1_head = Max({@, l1})]
           closed == [CloseCurrentChannel(moved, finished)
                            EXCEPT !.deferred_step_error = CloseFails(moved, finished)]
<1>2. DOMAIN moved = EncoderFields /\ SameBuffer(e, moved)
  BY DEF SameBuffer, EncoderFields, NewEncoder
<1>3. DOMAIN closed = EncoderFields /\ SameBuffer(e, closed)
  <2> HIDE DEF moved
  <2>1. DOMAIN CloseCurrentChannel(moved, finished) = EncoderFields
        /\ SameBuffer(e, CloseCurrentChannel(moved, finished))
    BY <1>2, CloseCurrentChannelBuffer DEF SameBuffer
  <2> QED
    BY <2>1 DEF SameBuffer, EncoderFields, NewEncoder
<1>4. \/ AdvanceL1Head(e, l1, finished) = moved
      \/ AdvanceL1Head(e, l1, finished) = InvalidateExpiredChannels(moved)
      \/ AdvanceL1Head(e, l1, finished) = InvalidateExpiredChannels(closed)
  BY DEF AdvanceL1Head
<1> HIDE DEF moved, closed
<1> QED
  BY <1>1, <1>2, <1>3, <1>4 DEF SameBuffer

(* Nor does a flush. *)
LEMMA FlushBuffer ==
    ASSUME NEW e, DOMAIN e = EncoderFields, NEW finished
    PROVE  SameBuffer(e, Flush(e, finished))
<1> DEFINE closed == CloseCurrentChannel(e, finished)
<1>1. DOMAIN closed = EncoderFields /\ SameBuffer(e, closed)
  BY CloseCurrentChannelBuffer
<1>2. \/ Flush(e, finished) = closed
      \/ Flush(e, finished) = [closed EXCEPT !.channels = [i \in DOMAIN @ |-> ReleaseAt(@[i], e.l1_head)]]
  BY DEF Flush
<1> HIDE DEF closed
<1> QED
  BY <1>1, <1>2 DEF SameBuffer, EncoderFields, NewEncoder

-----------------------------------------------------------------------------
(* The buffer and the source. *)

(* A call that does not touch the buffer keeps it anchored. *)
LEMMA SameBufferAnchored ==
    ASSUME NEW e, NEW f, SameBuffer(e, f), NEW safe, NEW at, NEW off,
           BufferInv(e, safe, at, off)
    PROVE  BufferInv(f, safe, at, off)
BY DEF SameBuffer, BufferInv

(* After a reset the encoder goes on where the source does, or is stopped (reset_to_safe_head). *)
LEMMA ResetAnchored ==
    ASSUME NEW e, DOMAIN e = EncoderFields, NEW safe, NEW at, NEW off, off \/ at = safe
    PROVE  BufferInv(Reset(e), safe, at, off)
<1>1. Reset(e).blocks = <<>> /\ Reset(e).tip = None
  BY DEF Reset, EncoderFields, NewEncoder
<1>2. Len(<<>>) = 0
  OBVIOUS
<1> QED
  BY <1>1, <1>2 DEF BufferInv

(* A block that follows the source and is accepted extends the buffer (on_block, add_block). *)
LEMMA AddBlockAnchored ==
    ASSUME NEW e, QueueInv(e), NEW safe \in Block, NEW at \in Block, NEW b \in Block,
           BufferInv(e, safe, at, FALSE),
           Parent[b] = at, Number[b] = Number[at] + 1, ~ParentMismatch(e, b)
    PROVE  BufferInv(AddBlock(e, b), safe, b, FALSE)
<1> DEFINE f == AddBlock(e, b)
           n == Len(e.blocks)
<1>1. e.blocks \in Seq(Block) /\ n \in Nat /\ DOMAIN e = EncoderFields
  BY DEF QueueInv, QueueShape
<1>2. f.blocks = Append(e.blocks, b) /\ f.tip = b
  BY <1>1 DEF AddBlock, EncoderFields, NewEncoder
<1>3. /\ Len(f.blocks) = n + 1
      /\ \A i \in 1..n : f.blocks[i] = e.blocks[i]
      /\ f.blocks[n + 1] = b
      /\ f.blocks # <<>>
  BY <1>1, <1>2
<1>4. Number[safe] \in Nat /\ Number[at] \in Nat /\ None \notin Block
  BY BlockAssumption
<1> HIDE DEF f, n
<1>5. CASE e.blocks = <<>>
  <2>1. n = 0
    BY <1>5 DEF n
  <2>2. at = safe
    BY <1>4, <1>5 DEF BufferInv, ParentMismatch
  <2> QED
    BY <1>2, <1>3, <1>4, <2>1, <2>2 DEF BufferInv, f
<1>6. CASE e.blocks # <<>>
  <2>1. n > 0
    BY <1>1, <1>6 DEF n
  <2>2. e.blocks[n] = at /\ Number[at] = Number[safe] + n /\ Parent[e.blocks[1]] = safe
    BY <1>1, <1>6, <2>1 DEF BufferInv, n
  <2>a. /\ \A i \in 1..n : Number[e.blocks[i]] = Number[safe] + i
        /\ \A i \in 1..(n - 1) : Parent[e.blocks[i + 1]] = e.blocks[i]
    BY DEF BufferInv, n
  <2>3. \A i \in 1..(n + 1) : Number[f.blocks[i]] = Number[safe] + i
    <3> SUFFICES ASSUME NEW i \in 1..(n + 1)
                 PROVE  Number[f.blocks[i]] = Number[safe] + i
      OBVIOUS
    <3>1. CASE i = n + 1
      <4>1. Number[b] = Number[safe] + (n + 1)
        BY <1>1, <1>4, <2>2
      <4> QED
        BY <1>3, <3>1, <4>1
    <3>2. CASE i \in 1..n
      BY <1>3, <2>a, <3>2
    <3> QED
      BY <1>1, <3>1, <3>2
  <2>4. \A i \in 1..n : Parent[f.blocks[i + 1]] = f.blocks[i]
    <3> SUFFICES ASSUME NEW i \in 1..n
                 PROVE  Parent[f.blocks[i + 1]] = f.blocks[i]
      OBVIOUS
    <3>1. CASE i = n
      BY <1>1, <1>3, <2>1, <2>2, <3>1
    <3>2. CASE i < n
      <4>1. i \in 1..(n - 1) /\ i + 1 \in 1..n
        BY <1>1, <3>2
      <4> QED
        BY <1>3, <2>a, <4>1
    <3> QED
      BY <1>1, <3>1, <3>2
  <2> QED
    BY <1>1, <1>2, <1>3, <2>1, <2>2, <2>3, <2>4 DEF BufferInv, f
<1> QED
  BY <1>5, <1>6, Zenon

(* A block at or below the safe head finds the buffer empty, and is skipped (on_block). *)
LEMMA SkipAnchored ==
    ASSUME NEW e, QueueInv(e), NEW safe \in Block, NEW at \in Block, NEW b \in Block,
           BufferInv(e, safe, at, FALSE),
           Number[b] = Number[at] + 1, Number[b] <= Number[safe]
    PROVE  BufferInv(e, safe, b, FALSE)
<1>1. e.blocks \in Seq(Block) /\ Number[safe] \in Nat /\ Number[at] \in Nat
  BY BlockAssumption DEF QueueInv, QueueShape
<1>2. e.blocks = <<>>
  <2> SUFFICES ASSUME e.blocks # <<>>
               PROVE  FALSE
    OBVIOUS
  <2>1. Len(e.blocks) \in 1..Len(e.blocks)
    BY <1>1
  <2>2. Number[at] = Number[safe] + Len(e.blocks)
    BY <2>1 DEF BufferInv
  <2> QED
    BY <1>1, <2>1, <2>2
<1>3. at # safe
  BY <1>1
<1> QED
  BY <1>2, <1>3 DEF BufferInv

(* A safe head that matches the buffer prunes what it covers: the rest hangs on it (prune_safe). *)
LEMMA ReconcileAnchored ==
    ASSUME NEW e, QueueInv(e), NEW safe \in Block, NEW at, NEW off, NEW new \in Block,
           BufferInv(e, safe, at, off), SafeHeadMatches(e, new)
    PROVE  BufferInv(ReconcileDerivation(e, new), new, at, off)
<1> DEFINE f == ReconcileDerivation(e, new)
           n == Len(e.blocks)
           k == PruneCount(e, new)
<1>1. /\ e.blocks \in Seq(Block) /\ n \in Nat /\ DOMAIN e = EncoderFields
      /\ Number[safe] \in Nat /\ Number[new] \in Nat
  BY BlockAssumption DEF QueueInv, QueueShape
<1>2. f = PruneSafe(e, new)
  BY DEF ReconcileDerivation
<1>3. CASE e.blocks = <<>>
  <2>1. f.blocks = <<>> /\ f.tip = new
    BY <1>1, <1>2, <1>3 DEF PruneSafe, EncoderFields, NewEncoder
  <2>2. Len(<<>>) = 0
    OBVIOUS
  <2> QED
    BY <2>1, <2>2 DEF BufferInv
<1>4. CASE e.blocks # <<>> /\ k = 0
  <2>1. f = e
    BY <1>2, <1>4 DEF PruneSafe
  <2>2. Head(e.blocks) = e.blocks[1] /\ 0 \notin DOMAIN e.blocks
    BY <1>1, <1>4
  <2>3. new = safe
    BY <1>4, <2>2 DEF SafeHeadMatches, BufferInv
  <2> QED
    BY <2>1, <2>3
<1>5. CASE e.blocks # <<>> /\ k # 0
  <2>1. k \in 1..n /\ e.blocks[k] = new
    BY <1>1, <1>5 DEF SafeHeadMatches
  <2>2. /\ f.blocks = SubSeq(e.blocks, k + 1, n)
        /\ f.tip = IF f.blocks = <<>> THEN new ELSE e.tip
    BY <1>1, <1>2, <1>5, Zenon DEF PruneSafe, PruneBlocks, EncoderFields, NewEncoder
  <2> HIDE DEF f, k, n
  <2>3. /\ Len(f.blocks) = n - k
        /\ \A i \in 1..(n - k) : f.blocks[i] = e.blocks[k + i]
    <3>1. n = Len(e.blocks)
      BY DEF n
    <3> QED
      BY <1>1, <2>1, <2>2, <3>1
  <2>4. /\ \A i \in 1..n : Number[e.blocks[i]] = Number[safe] + i
        /\ \A i \in 1..(n - 1) : Parent[e.blocks[i + 1]] = e.blocks[i]
        /\ ~off /\ e.blocks[n] = at /\ e.tip = at
    BY <1>5 DEF BufferInv, n
  <2>5. Number[new] = Number[safe] + k
    BY <2>1, <2>4
  <2>6. \A i \in 1..(n - k) : Number[f.blocks[i]] = Number[new] + i
    <3> SUFFICES ASSUME NEW i \in 1..(n - k)
                 PROVE  Number[f.blocks[i]] = Number[new] + i
      OBVIOUS
    <3>1. k + i \in 1..n
      BY <1>1, <2>1
    <3>2. Number[f.blocks[i]] = Number[safe] + (k + i)
      BY <2>3, <2>4, <3>1
    <3> QED
      BY <1>1, <2>1, <2>5, <3>2
  <2>7. \A i \in 1..(n - k - 1) : Parent[f.blocks[i + 1]] = f.blocks[i]
    <3> SUFFICES ASSUME NEW i \in 1..(n - k - 1)
                 PROVE  Parent[f.blocks[i + 1]] = f.blocks[i]
      OBVIOUS
    <3>1. /\ k + i \in 1..(n - 1) /\ i \in 1..(n - k) /\ i + 1 \in 1..(n - k)
          /\ k + (i + 1) = (k + i) + 1
      BY <1>1, <2>1
    <3> QED
      BY <2>3, <2>4, <3>1
  <2>8. CASE k = n
    <3>1. f.blocks = <<>>
      BY <1>1, <2>1, <2>2, <2>8
    <3>2. f.tip = new /\ Len(<<>>) = 0
      BY <2>2, <3>1, Zenon
    <3> QED
      BY <3>1, <3>2 DEF BufferInv, f
  <2>9. CASE k < n
    <3>1. k \in 1..(n - 1) /\ 1 \in 1..(n - k) /\ n - k \in 1..(n - k) /\ k + (n - k) = n
      BY <1>1, <2>1, <2>9
    <3>2. f.blocks # <<>>
      BY <2>3, <3>1
    <3>3. Parent[f.blocks[1]] = new /\ f.blocks[n - k] = at /\ f.tip = at
      BY <2>1, <2>2, <2>3, <2>4, <3>1, <3>2, ZenonT(30)
    <3> QED
      BY <2>3, <2>4, <2>6, <2>7, <3>2, <3>3 DEF BufferInv, f
  <2> QED
    BY <1>1, <2>1, <2>8, <2>9
<1> QED
  BY <1>3, <1>4, <1>5

-----------------------------------------------------------------------------
(* The leases and the transactions in flight. *)

(* From e to f no lease is added and none grows. *)
LeasesShrink(e, f) ==
    /\ f.next_id = e.next_id
    /\ \A id \in DOMAIN f.egress.pending :
          id \in DOMAIN e.egress.pending /\ f.egress.pending[id] \subseteq e.egress.pending[id]

(* Most calls: the ledger is kept, loses artifacts or gains ready ones. *)
LEMMA LedgerShrinks ==
    ASSUME NEW e, NEW f, SameLedger(e, f) \/ LedgerForgets(e, f) \/ LedgerGrows(e, f)
    PROVE  LeasesShrink(e, f)
<1>1. CASE SameLedger(e, f) \/ LedgerGrows(e, f)
  BY <1>1 DEF LeasesShrink, SameLedger, LedgerGrows
<1>2. CASE LedgerForgets(e, f)
  <2>1. PICK gone : Forgets(e.egress, f.egress, gone)
    BY <1>2 DEF LedgerForgets
  <2> QED
    BY <1>2, <2>1, Zenon DEF LeasesShrink, LedgerForgets, Forgets
<1> QED
  BY <1>1, <1>2

(* Two such calls, one after the other (handle_outcome: confirm, then advance_l1_head). *)
LEMMA ShrinkTransitive ==
    ASSUME NEW e, NEW f, NEW h, LeasesShrink(e, f), LeasesShrink(f, h)
    PROVE  LeasesShrink(e, h)
BY DEF LeasesShrink

(* Leases that shrink stay with the transactions that carry them. *)
LEMMA ShrinkKeeps ==
    ASSUME NEW e, NEW f, LeasesShrink(e, f), NEW txs
    PROVE  (Issued(e, txs) => Issued(f, txs)) /\ (Backed(e, txs) => Backed(f, txs))
BY DEF LeasesShrink, Issued, Backed

(* A settled transaction goes, and so does its lease, whichever it still had (handle_outcome). *)
LEMMA SettleKeeps ==
    ASSUME NEW e, NEW f, LeasesShrink(e, f), NEW txs, NEW tx \in txs,
           tx.id \notin DOMAIN f.egress.pending, Issued(e, txs)
    PROVE  Issued(f, txs \ {tx}) /\ (Backed(e, txs) => Backed(f, txs \ {tx}))
BY DEF LeasesShrink, Issued, Backed

(* A submission is in flight under the identifier it uses up (submit_pending). *)
LEMMA SubmitKeeps ==
    ASSUME NEW e, NEW f, LedgerSubmits(e, f), NEW txs, Issued(e, txs), e.next_id \in Nat
    PROVE  LET all == txs \cup {[id |-> e.next_id, artifacts |-> f.egress.pending[e.next_id]]}
           IN  /\ Issued(f, all) /\ Issued(f, txs)
               /\ Backed(e, txs) => Backed(f, all)
<1> DEFINE id == e.next_id
           tx == [id |-> id, artifacts |-> f.egress.pending[id]]
           all == txs \cup {tx}
<1>1. /\ f.next_id = id + 1 /\ DOMAIN f.egress.pending = DOMAIN e.egress.pending \cup {id}
      /\ \A i \in DOMAIN e.egress.pending : f.egress.pending[i] = e.egress.pending[i]
  BY DEF LedgerSubmits
<1>2. tx.id = id /\ tx.artifacts = f.egress.pending[id]
  OBVIOUS
<1> HIDE DEF tx, id
<1>3. \A t \in txs : t.id \in 0..(id - 1) /\ t.id # id
  BY DEF Issued, id
<1>4. id \in Nat
  BY DEF id
<1>5. Issued(f, all) /\ Issued(f, txs)
  BY <1>1, <1>2, <1>3, <1>4 DEF Issued
<1>6. Backed(e, txs) => Backed(f, all)
  BY <1>1, <1>2 DEF Backed
<1> QED
  BY <1>5, <1>6 DEF tx, id

-----------------------------------------------------------------------------
(* The calls of the encoder, as the driver sees them. *)

(* What holds of an encoder and the transactions in flight, in every phase. *)
Books(e, txs) == EncoderInv(e) /\ IsFiniteSet(txs) /\ Issued(e, txs)

(* And what holds of them while the driver runs. *)
Works(e, txs) == AllFilled(e) /\ Backed(e, txs)

(* From e to f the buffer is kept and no lease is added. *)
Keeps(e, f) ==
    /\ EncoderInv(f)
    /\ AllFilled(e) => AllFilled(f)
    /\ LeasesShrink(e, f)
    /\ SameBuffer(e, f)

(* Such a call keeps the books. *)
LEMMA KeepsBooks ==
    ASSUME NEW e, NEW f, Keeps(e, f), NEW txs, Books(e, txs)
    PROVE  Books(f, txs) /\ (Works(e, txs) => Works(f, txs))
BY ShrinkKeeps DEF Books, Works, Keeps

(* An encoder that keeps its invariant has its fields. *)
LEMMA InvFields ==
    ASSUME NEW e, EncoderInv(e)
    PROVE  DOMAIN e = EncoderFields
BY DEF EncoderInv, QueueInv, QueueShape

(* set_blob_override, flush and advance_l1_head are such calls. *)
LEMMA CallsKeep ==
    ASSUME NumberFacts, NEW e, EncoderInv(e), NEW active, NEW l1, NEW finished
    PROVE  /\ Keeps(e, SetBlobOverride(e, active))
           /\ Keeps(e, Flush(e, finished))
           /\ Keeps(e, AdvanceL1Head(e, l1, finished))
<1>1. DOMAIN e = EncoderFields
  BY InvFields
<1>2. Keeps(e, SetBlobOverride(e, active))
  BY <1>1, SetBlobOverrideInv, LedgerShrinks, SettleBuffer DEF Keeps
<1>3. Keeps(e, Flush(e, finished))
  BY <1>1, FlushInv, LedgerShrinks, FlushBuffer DEF Keeps
<1>4. Keeps(e, AdvanceL1Head(e, l1, finished))
  BY <1>1, AdvanceL1HeadInv, LedgerShrinks, AdvanceL1HeadBuffer DEF Keeps
<1> QED
  BY <1>2, <1>3, <1>4

(* What handle_outcome leaves of the encoder. *)
Outcome(e, id, l1, finished) ==
    IF l1 = None THEN Requeue(e, id) ELSE AdvanceL1Head(Confirm(e, id, l1), l1, finished)

(* handle_outcome is such a call too, and ends the lease of its transaction. *)
LEMMA OutcomeKeeps ==
    ASSUME NumberFacts, NEW e, EncoderInv(e), NEW id, NEW l1, NEW finished
    PROVE  LET f == Outcome(e, id, l1, finished)
           IN  Keeps(e, f) /\ id \notin DOMAIN f.egress.pending
<1>1. DOMAIN e = EncoderFields
  BY InvFields
<1>2. ASSUME NEW f, NEW state, LedgerSettles(e, f, id, state)
      PROVE  LeasesShrink(e, f) /\ id \notin DOMAIN f.egress.pending
  <2>1. /\ DOMAIN f.egress.pending = DOMAIN e.egress.pending \ {id}
        /\ \A i \in DOMAIN f.egress.pending : f.egress.pending[i] = e.egress.pending[i]
    BY <1>2 DEF LedgerSettles, Restrict
  <2> QED
    BY <1>2, <2>1, ZenonT(30) DEF LeasesShrink, LedgerSettles
<1>3. LeasesShrink(e, e)
  BY DEF LeasesShrink
<1>4. LET f == Requeue(e, id) IN Keeps(e, f) /\ id \notin DOMAIN f.egress.pending
  BY <1>1, <1>2, <1>3, RequeueInv, SettleBuffer DEF Keeps
<1> DEFINE c == Confirm(e, id, l1)
<1>5. Keeps(e, c) /\ id \notin DOMAIN c.egress.pending
  BY <1>1, <1>2, <1>3, ConfirmInv, SettleBuffer DEF Keeps
<1> HIDE DEF c
<1>6. Keeps(c, AdvanceL1Head(c, l1, finished))
  BY <1>5, CallsKeep, SMTT(30) DEF Keeps
<1>7. LET f == AdvanceL1Head(c, l1, finished)
      IN  Keeps(e, f) /\ id \notin DOMAIN f.egress.pending
  BY <1>5, <1>6, ShrinkTransitive, SMTT(30) DEF Keeps, SameBuffer, LeasesShrink
<1> QED
  BY <1>4, <1>7 DEF Outcome, c

(* The books of a settled transaction are closed (handle_outcome). *)
LEMMA OutcomeBooks ==
    ASSUME NumberFacts, NEW e, NEW txs, Books(e, txs), NEW tx \in txs, NEW l1, NEW finished
    PROVE  LET f == Outcome(e, tx.id, l1, finished)
           IN  /\ Books(f, txs \ {tx}) /\ SameBuffer(e, f)
               /\ Works(e, txs) => Works(f, txs \ {tx})
<1> DEFINE f == Outcome(e, tx.id, l1, finished)
<1>1. Keeps(e, f) /\ tx.id \notin DOMAIN f.egress.pending
  BY OutcomeKeeps DEF Books
<1> HIDE DEF f
<1>2. Issued(f, txs \ {tx}) /\ (Backed(e, txs) => Backed(f, txs \ {tx}))
  BY <1>1, SettleKeeps DEF Keeps, Books
<1>3. IsFiniteSet(txs \ {tx})
  BY Zenon DEF Books, NumberFacts
<1> QED
  BY <1>1, <1>2, <1>3 DEF Keeps, Books, Works, f

(* A step that does not fail is such a call; one that fails keeps all but the fill. *)
LEMMA StepKeeps ==
    ASSUME NEW e, EncoderInv(e), AllFilled(e), NEW emitted, NEW fault
    PROVE  LET o == Step(e, emitted, fault)
           IN  /\ EncoderInv(o.encoder) /\ LeasesShrink(e, o.encoder) /\ SameBuffer(e, o.encoder)
               /\ o.result # "Err" => Keeps(e, o.encoder)
<1>1. DOMAIN e = EncoderFields
  BY InvFields
<1> DEFINE o == Step(e, emitted, fault)
<1>2. SameBuffer(e, o.encoder)
  BY <1>1, StepBuffer
<1>3. EncoderInv(o.encoder) /\ (o.result # "Err" => AllFilled(o.encoder)) /\ SameLedger(e, o.encoder)
  BY StepInv
<1> HIDE DEF o
<1>4. LeasesShrink(e, o.encoder)
  BY <1>3, LedgerShrinks
<1> QED
  BY <1>2, <1>3, <1>4 DEF Keeps, o

(* A reset forgets everything buffered, encoded and leased. *)
LEMMA ResetBooks ==
    ASSUME NEW e, NEW txs, Books(e, txs), Works(e, txs)
    PROVE  Books(Reset(e), txs) /\ Works(Reset(e), txs)
BY ResetInv, LedgerShrinks, ShrinkKeeps DEF Books, Works

(* reconcile_derivation and add_block keep the books. *)
LEMMA ReconcileBooks ==
    ASSUME NumberFacts, NEW e, NEW txs, Books(e, txs), Works(e, txs), NEW b \in Block
    PROVE  /\ Books(ReconcileDerivation(e, b), txs) /\ Works(ReconcileDerivation(e, b), txs)
           /\ Books(AddBlock(e, b), txs) /\ Works(AddBlock(e, b), txs)
<1>1. Books(ReconcileDerivation(e, b), txs) /\ Works(ReconcileDerivation(e, b), txs)
  BY ReconcileDerivationInv, LedgerShrinks, ShrinkKeeps DEF Books, Works
<1>2. Books(AddBlock(e, b), txs) /\ Works(AddBlock(e, b), txs)
  BY AddBlockInv, LedgerShrinks, ShrinkKeeps, SMTT(30) DEF Books, Works
<1> QED
  BY <1>1, <1>2

(* Encoding is done: every block is encoded and no deadline is due. *)
AllEncoded(e) == e.block_cursor = Len(e.blocks) /\ ~TimeoutDue(e)

(* f has the blocks, the cursor, the L1 head, and the deadlines of the open channels of e. *)
SameWork(e, f) ==
    /\ DOMAIN f = EncoderFields
    /\ f.blocks = e.blocks /\ f.block_cursor = e.block_cursor /\ f.l1_head = e.l1_head
    /\ IsSequence(f.channels) /\ Len(f.channels) = Len(e.channels)
    /\ \A i \in 1..Len(e.channels) :
          /\ DOMAIN f.channels[i] = ChannelFields
          /\ f.channels[i].open = e.channels[i].open
          /\ f.channels[i].deadline_l1_block = e.channels[i].deadline_l1_block

(* Taking frames keeps it (commit_blob, commit_calldata). *)
LEMMA CommitSameWork ==
    ASSUME NEW e, NEW f, SameWork(e, f), NEW plan, NEW blob
    PROVE  SameWork(e, Commit(f, plan, blob))
<1> DEFINE n == Len(e.channels)
           h == Commit(f, plan, blob)
<1>1. ASSUME NEW c, DOMAIN c = ChannelFields
      PROVE  LET d == TakeFrames(c, plan)
             IN  /\ DOMAIN d = ChannelFields /\ d.open = c.open
                 /\ d.deadline_l1_block = c.deadline_l1_block
  BY <1>1, Zenon DEF TakeFrames, ChannelFields, NewChannel
<1>2. /\ DOMAIN h = EncoderFields
      /\ h.blocks = f.blocks /\ h.block_cursor = f.block_cursor /\ h.l1_head = f.l1_head
      /\ h.channels = [i \in DOMAIN f.channels |-> TakeFrames(f.channels[i], plan)]
  BY DEF Commit, SameWork, EncoderFields, NewEncoder
<1>3. n \in Nat /\ DOMAIN f.channels = 1..n
  BY SequenceShape DEF SameWork
<1> HIDE DEF h
<1>4. h.channels = [i \in 1..n |-> h.channels[i]]
  BY <1>2, <1>3
<1>5. IsSequence(h.channels) /\ Len(h.channels) = n
  BY <1>3, <1>4, FunctionIsSequence
<1>6. ASSUME NEW i \in 1..n
      PROVE  /\ DOMAIN h.channels[i] = ChannelFields
             /\ h.channels[i].open = e.channels[i].open
             /\ h.channels[i].deadline_l1_block = e.channels[i].deadline_l1_block
  <2>1. h.channels[i] = TakeFrames(f.channels[i], plan)
    BY <1>2, <1>3
  <2>2. /\ DOMAIN f.channels[i] = ChannelFields
        /\ f.channels[i].open = e.channels[i].open
        /\ f.channels[i].deadline_l1_block = e.channels[i].deadline_l1_block
    BY DEF SameWork
  <2> QED
    BY <1>1, <2>1, <2>2
<1> QED
  BY <1>2, <1>5, <1>6, Zenon DEF SameWork, h

(* Framing and leasing leave nothing to encode that was not left before. *)
LEMMA NextSubmissionEncoded ==
    ASSUME NEW e, QueueInv(e), AllEncoded(e)
    PROVE  AllEncoded(NextSubmission(e))
<1> DEFINE b == BuildReadyArtifacts(e, EffectiveDaType(e))
           f == NextSubmission(e)
           n == Len(e.channels)
<1>1. ASSUME NEW h, SameWork(e, h)
      PROVE  SameWork(e, FillBlob(h))
  <2>1. PICK plan : FillBlob(h) = h \/ FillBlob(h) = Commit(h, plan, TRUE)
    BY FillBlobCommits, Zenon
  <2> QED
    BY <1>1, <2>1, CommitSameWork, Zenon
<1>2. SameWork(e, e)
  BY DEF SameWork, QueueInv, QueueShape, ChannelShape
<1>3. SameWork(e, BuildCalldata(e))
  BY <1>2, CommitSameWork, Zenon DEF BuildCalldata
<1>4. SameWork(e, BuildBlobs(e))
  BY <1>1, <1>2 DEF BuildBlobs
<1>5. SameWork(e, b)
  BY <1>2, <1>3, <1>4 DEF BuildReadyArtifacts
<1>6. f = b \/ f = [b EXCEPT !.egress = Lease(@, e.next_id), !.next_id = @ + 1]
  BY DEF NextSubmission, LeaseReady
<1> HIDE DEF b, f
<1>7. SameWork(e, f)
  BY <1>5, <1>6, Zenon DEF SameWork, EncoderFields, NewEncoder
<1>8. TimeoutDue(f) => TimeoutDue(e)
  <2> SUFFICES ASSUME TimeoutDue(f)
               PROVE  TimeoutDue(e)
    OBVIOUS
  <2>1. IsSequence(e.channels) /\ n \in Nat
    BY SequenceShape DEF QueueInv, QueueShape
  <2>2. f.channels # <<>> /\ Last(f.channels) = f.channels[n]
    BY <1>7 DEF SameWork, TimeoutDue, TailOpen, Last
  <2>3. n > 0
    BY <1>7, <2>1, <2>2, EmptySequence DEF SameWork
  <2>4. e.channels # <<>> /\ Last(e.channels) = e.channels[n] /\ n \in 1..n
    BY <2>1, <2>3, EmptySequence DEF Last
  <2> QED
    BY <1>7, <2>2, <2>4 DEF SameWork, TimeoutDue, TailOpen, DeadlineDue
<1> QED
  BY <1>7, <1>8 DEF SameWork, AllEncoded, f

(* A step is idle only when encoding is done, and then it changes nothing. *)
LEMMA StepIdle ==
    ASSUME NEW e, QueueInv(e), NEW emitted, NEW fault, Step(e, emitted, fault).result = "Idle"
    PROVE  Step(e, emitted, fault).encoder = e /\ AllEncoded(e)
<1>1. ASSUME NEW w PROVE CloseStep(w, fault).result # "Idle"
  BY DEF CloseStep, StepOutcome
<1>2. ASSUME NEW w PROVE EncodeStep(w, emitted, fault).result # "Idle"
  BY <1>1 DEF EncodeStep, RejectStep, AcceptStep, StepOutcome
<1>3. ~TimeoutDue(e) /\ e.block_cursor >= Len(e.blocks) /\ Step(e, emitted, fault).encoder = e
  BY <1>1, <1>2 DEF Step, StepOutcome
<1>4. e.block_cursor \in Nat /\ Len(e.blocks) \in Nat /\ e.block_cursor <= Len(e.blocks)
  BY DEF QueueInv, QueueShape, Tiling
<1> QED
  BY <1>3, <1>4 DEF AllEncoded

(* set_blob_override leaves encoding done. *)
LEMMA SetBlobOverrideEncoded ==
    ASSUME NEW e, DOMAIN e = EncoderFields, AllEncoded(e), NEW active
    PROVE  AllEncoded(SetBlobOverride(e, active))
BY DEF AllEncoded, SetBlobOverride, TimeoutDue, TailOpen, EncoderFields, NewEncoder

-----------------------------------------------------------------------------
Running == phase \in {"encode", "submit", "wait"}

(***************************************************************************)
(* The inductive invariant of the driver.  The books hold in every phase,  *)
(* the leases are backed while the driver runs.                            *)
(***************************************************************************)
DriverInv ==
    /\ Books(encoder, in_flight)
    /\ Running => Works(encoder, in_flight)
    /\ derivation \in [safe_l2 : Block, current_l1 : 0..MaxL1]
    /\ source_tip \in Block
    /\ stopped \in BOOLEAN
    /\ BufferInv(encoder, derivation.safe_l2, source_tip, stopped)
    /\ phase \in {"submit", "wait"} => encoding_left \/ AllEncoded(encoder)
    /\ phase = "wait" =>
          Cardinality(in_flight) >= MaxPending \/ NextSubmission(encoder) = encoder

(* The driver starts with empty books, at the safe head. *)
LEMMA DriverInit ==
    ASSUME NumberFacts, Init
    PROVE  DriverInv
<1>1. PICK l1 \in 0..MaxL1 : encoder = AdvanceL1Head(NewEncoder, l1, TRUE)
  BY Zenon DEF Init
<1>2. EncoderInv(NewEncoder) /\ AllFilled(NewEncoder)
  BY NewEncoderInv
<1>3. Keeps(NewEncoder, encoder)
  BY <1>1, <1>2, CallsKeep, Zenon
<1>4. Books(NewEncoder, {}) /\ Works(NewEncoder, {})
  <2>1. DOMAIN NewEncoder.egress.pending = {}
    BY DEF NewEncoder, NewEgress
  <2> QED
    BY <1>2, <2>1 DEF Books, Works, Issued, Backed, NumberFacts
<1>5. Books(encoder, in_flight) /\ Works(encoder, in_flight)
  BY <1>3, <1>4, KeepsBooks DEF Init
<1>6. BufferInv(NewEncoder, Anchor, Anchor, stopped)
  <2>1. NewEncoder.blocks = <<>> /\ NewEncoder.tip = None /\ Len(<<>>) = 0
    BY DEF NewEncoder
  <2> QED
    BY <2>1 DEF BufferInv
<1>7. BufferInv(encoder, Anchor, Anchor, stopped)
  BY <1>3, <1>6, SameBufferAnchored DEF Keeps
<1> QED
  BY <1>5, <1>7, DriverAssumption DEF Init, DriverInv

(* One round of the CPU phase's encoding (drain_encoding). *)
LEMMA EncodeStepInv ==
    ASSUME NumberFacts, DriverInv, Encode
    PROVE  DriverInv'
<1>1. PICK emitted, fault :
          LET outcome == Step(encoder, emitted, fault)
          IN  /\ phase = "encode"
              /\ encoding_left' = (outcome.result \in {"BlockEncoded", "ChannelClosed"})
              /\ \/ /\ outcome.result = "Err"
                    /\ encoder' = outcome.encoder
                    /\ phase' = IF shutting_down THEN "drain" ELSE "failed"
                 \/ /\ outcome.result = "Idle" \/ encoding_left'
                    /\ ApplyThrottle(outcome.encoder)
                 \/ /\ encoding_left'
                    /\ encoder' = outcome.encoder
                    /\ phase' = phase
              /\ UNCHANGED <<in_flight, derivation, source_tip, stopped>>
  BY DEF Encode
<1> DEFINE o == Step(encoder, emitted, fault)
           f == o.encoder
<1>2. Books(encoder, in_flight) /\ Works(encoder, in_flight) /\ EncoderInv(encoder)
  BY <1>1 DEF DriverInv, Running, Books
<1>3. /\ EncoderInv(f) /\ LeasesShrink(encoder, f) /\ SameBuffer(encoder, f)
      /\ o.result # "Err" => Keeps(encoder, f)
  BY <1>2, StepKeeps DEF Works
<1>4. o.result = "Idle" => f = encoder /\ AllEncoded(encoder)
  BY <1>2, StepIdle DEF EncoderInv
<1>5. /\ phase = "encode"
      /\ encoding_left' = (o.result \in {"BlockEncoded", "ChannelClosed"})
      /\ \/ /\ o.result = "Err"
            /\ encoder' = f
            /\ phase' = IF shutting_down THEN "drain" ELSE "failed"
         \/ /\ o.result = "Idle" \/ encoding_left'
            /\ ApplyThrottle(f)
         \/ /\ encoding_left'
            /\ encoder' = f
            /\ phase' = phase
      /\ UNCHANGED <<in_flight, derivation, source_tip, stopped>>
  BY <1>1
<1> HIDE DEF o, f
<1>6. BufferInv(f, derivation.safe_l2, source_tip, stopped)
  BY <1>3, SameBufferAnchored DEF DriverInv
<1>7. CASE o.result = "Err" /\ encoder' = f /\ phase' \in {"drain", "failed"}
  <2>1. Books(f, in_flight)
    BY <1>2, <1>3, ShrinkKeeps DEF Books
  <2> QED
    BY <1>5, <1>6, <1>7, <2>1 DEF DriverInv, Running
<1>8. CASE (o.result = "Idle" \/ encoding_left') /\ o.result # "Err" /\ ApplyThrottle(f)
  <2>1. phase' = "submit" /\ (encoder' = f \/ \E x : encoder' = SetBlobOverride(f, x))
    BY <1>8 DEF ApplyThrottle
  <2>2. LeasesShrink(f, f)
    BY DEF LeasesShrink
  <2>3. Keeps(f, encoder')
    BY <1>3, <2>1, <2>2, CallsKeep DEF Keeps, SameBuffer
  <2>4. Books(encoder', in_flight) /\ Works(encoder', in_flight)
    <3>1. Books(f, in_flight) /\ Works(f, in_flight)
      BY <1>2, <1>3, <1>8, KeepsBooks
    <3> QED
      BY <2>3, <3>1, KeepsBooks
  <2>5. BufferInv(encoder', derivation.safe_l2, source_tip, stopped)
    BY <1>6, <2>3, SameBufferAnchored DEF Keeps
  <2>6. encoding_left' \/ AllEncoded(encoder')
    BY <1>2, <1>4, <1>8, <2>1, SetBlobOverrideEncoded, InvFields, SMTT(30)
  <2> QED
    BY <1>5, <2>1, <2>4, <2>5, <2>6 DEF DriverInv, Running
<1>9. CASE encoding_left' /\ o.result # "Err" /\ encoder' = f /\ phase' = phase
  <2>1. Books(f, in_flight) /\ Works(f, in_flight)
    BY <1>2, <1>3, <1>9, KeepsBooks
  <2> QED
    BY <1>5, <1>6, <1>9, <2>1 DEF DriverInv, Running
<1> QED
  BY <1>5, <1>7, <1>8, <1>9, Zenon

(* One submission, or the end of the CPU phase (submit_pending). *)
LEMMA SubmitStepInv ==
    ASSUME NumberFacts, DriverInv, Submit \/ SubmitFails
    PROVE  DriverInv'
<1> DEFINE f == NextSubmission(encoder)
           id == encoder.next_id
           tx == [id |-> id, artifacts |-> f.egress.pending[id]]
<1>1. phase = "submit" /\ UNCHANGED <<derivation, source_tip, stopped, encoding_left>>
  BY Zenon DEF Submit, SubmitFails
<1>2. Books(encoder, in_flight) /\ Works(encoder, in_flight) /\ EncoderInv(encoder)
  BY <1>1 DEF DriverInv, Running, Books
<1>3. /\ EncoderInv(f) /\ (AllFilled(encoder) => AllFilled(f))
      /\ LedgerSubmits(encoder, f) \/ f = encoder
  BY <1>2, NextSubmissionInv
<1>4. id \in Nat
  BY <1>2 DEF EncoderInv, LedgerInv
<1>5. encoding_left \/ AllEncoded(encoder)
  BY <1>1 DEF DriverInv
<1>6. encoding_left \/ AllEncoded(f)
  BY <1>2, <1>5, NextSubmissionEncoded DEF EncoderInv
<1>7. BufferInv(f, derivation.safe_l2, source_tip, stopped)
  BY <1>2, InvFields, NextSubmissionBuffer, SameBufferAnchored DEF DriverInv
<1> HIDE DEF f
<1>8. f.next_id > id => LedgerSubmits(encoder, f)
  BY <1>3, <1>4, SMTT(30)
<1>9. f.next_id > id => Books(f, in_flight)
  BY <1>2, <1>3, <1>4, <1>8, SubmitKeeps, ZenonT(30) DEF Books
<1>10. f.next_id > id => Books(f, in_flight \cup {tx}) /\ Works(f, in_flight \cup {tx})
  <2> SUFFICES ASSUME f.next_id > id
               PROVE  Books(f, in_flight \cup {tx}) /\ Works(f, in_flight \cup {tx})
    OBVIOUS
  <2>1. Issued(f, in_flight \cup {tx}) /\ Backed(f, in_flight \cup {tx})
    BY <1>2, <1>4, <1>8, SubmitKeeps DEF Books, Works
  <2>2. IsFiniteSet(in_flight \cup {tx})
    BY <1>2, Zenon DEF Books, NumberFacts
  <2> QED
    BY <1>2, <1>3, <2>1, <2>2 DEF Books, Works
<1>11. ~(f.next_id > id) => f = encoder
  <2>1. LedgerSubmits(encoder, f) => f.next_id = id + 1
    BY DEF LedgerSubmits
  <2>2. \A n \in Nat : n + 1 > n
    OBVIOUS
  <2> QED
    BY <1>3, <1>4, <2>1, <2>2
<1>12. Cardinality(in_flight) \in Nat /\ MaxPending \in Nat
  BY <1>2, DriverAssumption DEF Books, NumberFacts
<1>13. CASE Submit
  <2>1. IF Cardinality(in_flight) < MaxPending /\ f.next_id > id
        THEN /\ encoder' = f
             /\ in_flight' = in_flight \cup {tx}
             /\ UNCHANGED phase
        ELSE /\ phase' = IF shutting_down THEN "drain" ELSE "wait"
             /\ UNCHANGED <<encoder, in_flight>>
    BY <1>13, SMTT(30) DEF Submit, f
  <2>2. CASE Cardinality(in_flight) < MaxPending /\ f.next_id > id
    BY <1>1, <1>6, <1>7, <1>10, <2>1, <2>2, SMTT(30) DEF DriverInv, Running
  <2>3. CASE ~(Cardinality(in_flight) < MaxPending /\ f.next_id > id)
    <3>1. Cardinality(in_flight) >= MaxPending \/ NextSubmission(encoder) = encoder
      BY <1>11, <1>12, <2>3 DEF f
    <3>2. /\ phase' = "drain" \/ phase' = "wait"
          /\ encoder' = encoder /\ in_flight' = in_flight
      BY <2>1, <2>3
    <3> QED
      BY <1>1, <1>2, <1>5, <3>1, <3>2 DEF DriverInv, Running
  <2> QED
    BY <2>2, <2>3
<1>14. CASE SubmitFails
  <2>1. /\ f.next_id > id /\ encoder' = f /\ in_flight' = in_flight
        /\ phase' = "drain" \/ phase' = "failed"
    BY <1>14 DEF SubmitFails, f
  <2> QED
    BY <1>1, <1>7, <1>9, <2>1, SMTT(30) DEF DriverInv, Running
<1> QED
  BY <1>13, <1>14, SMTT(30)

(* A derivation status prunes, resets or is ignored (on_derivation_status). *)
LEMMA DerivationStepInv ==
    ASSUME NumberFacts, DriverInv, NEW status \in [safe_l2 : Block, current_l1 : 0..MaxL1],
           OnDerivationStatus(status)
    PROVE  DriverInv'
<1>1. phase = "wait" /\ phase' = "encode" /\ UNCHANGED <<in_flight, stopped>>
  BY DEF OnDerivationStatus, ToWork
<1>2. /\ Books(encoder, in_flight) /\ Works(encoder, in_flight) /\ EncoderInv(encoder)
      /\ derivation.safe_l2 \in Block /\ status.safe_l2 \in Block
  BY <1>1 DEF DriverInv, Running, Books
<1>3. CASE UNCHANGED <<encoder, derivation, source_tip>>
  BY <1>1, <1>2, <1>3 DEF DriverInv, Running
<1>4. CASE derivation' = status /\ ResetToSafeHead(encoder, status)
  <2>1. encoder' = Reset(encoder) /\ source_tip' = status.safe_l2
    BY <1>4 DEF ResetToSafeHead
  <2>2. Books(encoder', in_flight) /\ Works(encoder', in_flight)
    BY <1>2, <2>1, ResetBooks
  <2>3. BufferInv(encoder', status.safe_l2, status.safe_l2, stopped)
    BY <1>2, <2>1, InvFields, ResetAnchored
  <2> QED
    BY <1>1, <1>2, <1>4, <2>1, <2>2, <2>3 DEF DriverInv, Running
<1>5. CASE /\ derivation' = status
           /\ DerivationReconciliation(encoder, status.safe_l2, status.current_l1) = "Consistent"
           /\ encoder' = ReconcileDerivation(encoder, status.safe_l2)
           /\ source_tip' = source_tip
  <2>1. SafeHeadMatches(encoder, status.safe_l2)
    BY <1>5 DEF DerivationReconciliation
  <2>2. Books(encoder', in_flight) /\ Works(encoder', in_flight)
    BY <1>2, <1>5, ReconcileBooks
  <2>3. BufferInv(encoder', status.safe_l2, source_tip, stopped)
    BY <1>2, <1>5, <2>1, ReconcileAnchored DEF DriverInv, EncoderInv
  <2> QED
    BY <1>1, <1>5, <2>2, <2>3 DEF DriverInv, Running
<1> QED
  BY <1>3, <1>4, <1>5 DEF OnDerivationStatus

(* A block extends the buffer, is skipped, or resets it (on_source_event, on_block). *)
LEMMA SourceStepInv ==
    ASSUME NumberFacts, DriverInv, NEW b \in Block, OnSourceEvent(b)
    PROVE  DriverInv'
<1>1. /\ phase = "wait" /\ phase' = "encode" /\ stopped = FALSE
      /\ UNCHANGED <<in_flight, derivation, stopped>>
      /\ Number[b] = Number[source_tip] + 1
  BY DEF OnSourceEvent, ToWork, DriverInv
<1>2. /\ Books(encoder, in_flight) /\ Works(encoder, in_flight) /\ EncoderInv(encoder)
      /\ QueueInv(encoder) /\ derivation.safe_l2 \in Block /\ source_tip \in Block
      /\ BufferInv(encoder, derivation.safe_l2, source_tip, FALSE)
  BY <1>1, Zenon DEF DriverInv, Running, Books, EncoderInv
<1>3. CASE ResetToSafeHead(encoder, derivation)
  <2>1. encoder' = Reset(encoder) /\ source_tip' = derivation.safe_l2
    BY <1>3 DEF ResetToSafeHead
  <2>2. Books(encoder', in_flight) /\ Works(encoder', in_flight)
    BY <1>2, <2>1, ResetBooks
  <2>3. BufferInv(encoder', derivation.safe_l2, source_tip', FALSE)
    BY <1>2, <2>1, InvFields, ResetAnchored, Zenon
  <2> QED
    BY <1>1, <1>2, <2>1, <2>2, <2>3, Zenon DEF DriverInv, Running
<1>4. CASE Number[b] <= Number[derivation.safe_l2] /\ source_tip' = b /\ encoder' = encoder
  <2>1. BufferInv(encoder, derivation.safe_l2, b, FALSE)
    BY <1>1, <1>2, <1>4, SkipAnchored, Zenon
  <2> QED
    BY <1>1, <1>2, <1>4, <2>1, Zenon DEF DriverInv, Running
<1>5. CASE /\ Parent[b] = source_tip /\ ~ParentMismatch(encoder, b)
           /\ source_tip' = b /\ encoder' = AddBlock(encoder, b)
  <2>1. BufferInv(encoder', derivation.safe_l2, b, FALSE)
    BY <1>1, <1>2, <1>5, AddBlockAnchored, Zenon
  <2>2. Books(encoder', in_flight) /\ Works(encoder', in_flight)
    BY <1>2, <1>5, ReconcileBooks
  <2> QED
    BY <1>1, <1>2, <1>5, <2>1, <2>2, ZenonT(30) DEF DriverInv, Running
<1> QED
  BY <1>3, <1>4, <1>5 DEF OnSourceEvent

(* A settled transaction, while the driver runs or drains (handle_outcome). *)
LEMMA SettledStepInv ==
    ASSUME NumberFacts, DriverInv, NEW tx \in in_flight, NEW l1, NEW fault, HandleOutcome(tx, l1, fault),
           UNCHANGED <<derivation, source_tip, stopped>>,
           (phase = "wait" /\ phase' = "encode") \/ (phase = "drain" /\ phase' = "drain")
    PROVE  DriverInv'
<1>1. /\ encoder' = Outcome(encoder, tx.id, l1, fault # "finish")
      /\ in_flight' = in_flight \ {tx}
  BY DEF HandleOutcome, Outcome
<1>2. /\ Books(encoder', in_flight') /\ SameBuffer(encoder, encoder')
      /\ Works(encoder, in_flight) => Works(encoder', in_flight')
  BY <1>1, OutcomeBooks DEF DriverInv
<1>3. BufferInv(encoder', derivation.safe_l2, source_tip, stopped)
  BY <1>2, SameBufferAnchored DEF DriverInv
<1> QED
  BY <1>2, <1>3 DEF DriverInv, Running

(* The other events of the I/O phase: an L1 head, a flush, shutdown. *)
LEMMA KeepingStepInv ==
    ASSUME DriverInv, Keeps(encoder, encoder'), phase = "wait", phase' \in {"encode", "failed"},
           UNCHANGED <<in_flight, derivation, source_tip, stopped>>
    PROVE  DriverInv'
<1>1. Books(encoder', in_flight) /\ Works(encoder', in_flight)
  BY KeepsBooks DEF DriverInv, Running
<1>2. BufferInv(encoder', derivation.safe_l2, source_tip, stopped)
  BY SameBufferAnchored DEF DriverInv, Keeps
<1> QED
  BY <1>1, <1>2 DEF DriverInv, Running

(* Events that leave the encoder alone. *)
LEMMA IdleStepInv ==
    ASSUME DriverInv, UNCHANGED <<encoder, in_flight, derivation, source_tip, stopped>>,
           phase' \in {"failed", "done"} \/ (phase = "wait" /\ phase' = "encode")
    PROVE  DriverInv'
BY DEF DriverInv, Running

(* Stopping empties the buffer; starting sends the source to the safe head. *)
LEMMA AdminStepInv ==
    ASSUME DriverInv, OnAdminStop \/ OnAdminStart
    PROVE  DriverInv'
<1>1. phase = "wait" /\ phase' = "encode" /\ UNCHANGED <<in_flight, derivation>>
  BY DEF OnAdminStop, OnAdminStart, ToWork
<1>2. /\ Books(encoder, in_flight) /\ Works(encoder, in_flight) /\ EncoderInv(encoder)
      /\ derivation.safe_l2 \in Block
  BY <1>1 DEF DriverInv, Running, Books
<1>3. CASE OnAdminStop
  <2>1. stopped' = TRUE /\ encoder' = Reset(encoder) /\ source_tip' = source_tip
    BY <1>3 DEF OnAdminStop
  <2>2. Books(encoder', in_flight) /\ Works(encoder', in_flight)
    BY <1>2, <2>1, ResetBooks
  <2>3. BufferInv(encoder', derivation.safe_l2, source_tip, TRUE)
    BY <1>2, <2>1, InvFields, ResetAnchored, Zenon
  <2> QED
    BY <1>1, <2>1, <2>2, <2>3, Zenon DEF DriverInv, Running
<1>4. CASE OnAdminStart
  <2>1. /\ stopped = TRUE /\ stopped' = FALSE /\ encoder' = encoder
        /\ source_tip' = derivation.safe_l2
    BY <1>4 DEF OnAdminStart, DriverInv
  <2>2. BufferInv(encoder, derivation.safe_l2, derivation.safe_l2, FALSE)
    BY <2>1 DEF DriverInv, BufferInv
  <2> QED
    BY <1>1, <1>2, <2>1, <2>2, Zenon DEF DriverInv, Running
<1> QED
  BY <1>3, <1>4

(* Every step of the driver keeps its invariant. *)
LEMMA DriverStep ==
    ASSUME NumberFacts, DriverInv, [Next]_vars
    PROVE  DriverInv'
<1>0. DriverInv => EncoderInv(encoder)
  BY DEF DriverInv, Books
<1>1. CASE Encode
  BY <1>1, EncodeStepInv
<1>2. CASE Submit \/ SubmitFails
  BY <1>2, SubmitStepInv
<1>3. CASE \E status \in [safe_l2 : Block, current_l1 : 0..MaxL1] : OnDerivationStatus(status)
  BY <1>3, DerivationStepInv
<1>4. CASE StatusSourceClosed \/ Yield \/ OnSetThrottle \/ OnAdminQuery \/ DrainEnds
  BY <1>4, IdleStepInv DEF StatusSourceClosed, Yield, OnSetThrottle, OnAdminQuery, DrainEnds, ToWork
<1>5. CASE \E tx \in in_flight, l1 \in Outcomes, fault \in CompressorFaults : OnSettled(tx, l1, fault)
  BY <1>5, SettledStepInv DEF OnSettled, ToWork
<1>6. CASE \E b \in Block : OnSourceEvent(b)
  BY <1>6, SourceStepInv
<1>7. CASE \E l1 \in 0..MaxL1, fault \in CompressorFaults : OnL1Head(l1, fault)
  BY <1>0, <1>7, CallsKeep, KeepingStepInv DEF OnL1Head, ToWork
<1>8. CASE OnAdminFlush \/ Cancel
  BY <1>0, <1>8, CallsKeep, KeepingStepInv DEF OnAdminFlush, Cancel
<1>9. CASE OnAdminStop \/ OnAdminStart
  BY <1>9, AdminStepInv
<1>10. CASE DrainSettled
  BY <1>10, SettledStepInv DEF DrainSettled
<1>11. CASE UNCHANGED vars
  BY <1>11 DEF vars, DriverInv, Running
<1> QED
  BY <1>1, <1>2, <1>3, <1>4, <1>5, <1>6, <1>7, <1>8, <1>9, <1>10, <1>11 DEF Next

-----------------------------------------------------------------------------
INSTANCE FiniteSetTheorems

(* The facts about numbers and finite sets the lemmas ask for. *)
LEMMA Numbers == NumberFacts
<1>1. ASSUME NEW S \in SUBSET Nat, S # {}
      PROVE  \E n \in S : \A m \in S : n <= m
  <2> DEFINE R == {p \in Nat \X Nat : p[1] < p[2]}
  <2>1. IsWellFoundedOn(R, Nat)
    BY NatLessThanWellFounded, Zenon DEF OpToRel
  <2>2. PICK x \in S : \A y \in S : ~(<<y, x>> \in R)
    <3> HIDE DEF R
    <3> QED  BY <1>1, <2>1, WFMin, Zenon
  <2>3. ASSUME NEW a \in Nat, NEW b \in Nat, a < b
        PROVE  <<a, b>> \in R
    BY <2>3
  <2> HIDE DEF R
  <2>4. \A y \in S : x <= y
    <3> SUFFICES ASSUME NEW y \in S, y < x
                 PROVE  FALSE
      OBVIOUS
    <3>1. <<y, x>> \in R
      BY <2>3
    <3> QED
      BY <2>2, <3>1
  <2> QED
    BY <2>4
<1>2. ASSUME NEW n \in Int, NEW T \in SUBSET (0..n), NEW S \in SUBSET T
      PROVE  Cardinality(S) \in Nat /\ Cardinality(T) \in Nat /\ Cardinality(S) <= Cardinality(T)
  <2>1. IsFiniteSet(0..n)
    BY FS_Interval
  <2>2. IsFiniteSet(T)
    BY <2>1, FS_Subset, Zenon
  <2>3. IsFiniteSet(S) /\ Cardinality(S) <= Cardinality(T)
    BY <2>2, FS_Subset, Zenon
  <2> QED
    BY <2>2, <2>3, FS_CardinalityType
<1>3. IsFiniteSet({}) /\ Cardinality({}) = 0
  BY FS_EmptySet
<1>4. ASSUME NEW S, IsFiniteSet(S)
      PROVE  Cardinality(S) \in Nat
  BY <1>4, FS_CardinalityType
<1>5. ASSUME NEW S, NEW x, IsFiniteSet(S)
      PROVE  IsFiniteSet(S \cup {x}) /\ IsFiniteSet(S \ {x})
  BY <1>5, FS_AddElement, FS_RemoveElement
<1> QED
  BY <1>1, <1>2, <1>3, <1>4, <1>5, Zenon DEF NumberFacts

(* The invariant of the driver holds in every state. *)
LEMMA DriverInvariant == Spec => []DriverInv
<1>1. Init => DriverInv
  BY DriverInit, Numbers
<1>2. DriverInv /\ [Next]_vars => DriverInv'
  BY DriverStep, Numbers
<1> QED
  BY <1>1, <1>2, PTL DEF Spec

(* The driver's own fields; a CPU phase that goes on has steps left. *)
FieldsInv ==
    /\ stopped \in BOOLEAN /\ encoding_left \in BOOLEAN /\ shutting_down \in BOOLEAN
    /\ controller \in Controllers
    /\ phase \in {"encode", "submit", "wait", "drain", "done", "failed"}
    /\ steps \in 0..StepBudget
    /\ phase = "encode" => steps < StepBudget

(* Every step keeps the types of the driver's own fields. *)
LEMMA FieldsStep ==
    ASSUME FieldsInv, [Next]_vars
    PROVE  FieldsInv'
<1>1. StepBudget \in Nat /\ StepBudget > 0 /\ steps \in 0..StepBudget
  BY DriverAssumption DEF FieldsInv
<1>2. CASE Encode
  <2>1. PICK emitted \in Emissions(encoder), fault \in CompressorFaults :
          LET outcome == Step(encoder, emitted, fault)
          IN  /\ phase = "encode" /\ steps' = steps + 1
              /\ encoding_left' = (outcome.result \in {"BlockEncoded", "ChannelClosed"})
              /\ \/ phase' = IF shutting_down THEN "drain" ELSE "failed"
                 \/ phase' = "submit"
                 \/ steps' < StepBudget /\ UNCHANGED phase
              /\ UNCHANGED <<stopped, controller, shutting_down>>
    BY <1>2 DEF Encode, ApplyThrottle
  <2>2. encoding_left' \in BOOLEAN
    <3>1. \A r, b : b = (r \in {"BlockEncoded", "ChannelClosed"}) => b \in BOOLEAN
      OBVIOUS
    <3> QED
      BY <2>1, <3>1
  <2>3. steps' \in 0..StepBudget
    BY <1>1, <2>1 DEF FieldsInv
  <2>4. /\ phase' \in {"encode", "submit", "wait", "drain", "done", "failed"}
        /\ phase' = "encode" => steps' < StepBudget
    BY <2>1
  <2> QED
    BY <2>1, <2>2, <2>3, <2>4 DEF FieldsInv
<1>3. CASE phase = "wait" /\ steps' = 0 /\ phase' \in {"encode", "failed"} /\ UNCHANGED encoding_left
           /\ stopped' \in {stopped, TRUE, FALSE} /\ controller' \in Controllers
           /\ shutting_down' \in {shutting_down, TRUE}
  <2>1. stopped' \in BOOLEAN /\ encoding_left' \in BOOLEAN /\ shutting_down' \in BOOLEAN
    BY <1>3, Zenon DEF FieldsInv
  <2> QED
    BY <1>1, <1>3, <2>1 DEF FieldsInv
<1>4. CASE /\ UNCHANGED <<stopped, controller, steps, encoding_left, shutting_down>>
           /\ \/ UNCHANGED phase
              \/ phase' \in {"drain", "wait", "failed", "done"}
  BY <1>4 DEF FieldsInv
<1>5. CASE Submit \/ SubmitFails \/ StatusSourceClosed \/ DrainSettled \/ DrainEnds \/ UNCHANGED vars
  BY <1>4, <1>5, ZenonT(30) DEF Submit, SubmitFails, StatusSourceClosed, DrainSettled, DrainEnds, vars
<1>6. CASE \E status \in [safe_l2 : Block, current_l1 : 0..MaxL1] : OnDerivationStatus(status)
  BY <1>3, <1>6, SMTT(30) DEF OnDerivationStatus, ToWork, FieldsInv
<1>7. CASE \/ \E tx \in in_flight, l1 \in Outcomes, fault \in CompressorFaults : OnSettled(tx, l1, fault)
           \/ \E b \in Block : OnSourceEvent(b)
           \/ \E l1 \in 0..MaxL1, fault \in CompressorFaults : OnL1Head(l1, fault)
  BY <1>3, <1>7, Zenon DEF OnSettled, OnSourceEvent, OnL1Head, ToWork, FieldsInv
<1>8. CASE \/ Yield \/ OnAdminFlush \/ OnAdminStop \/ OnAdminStart \/ OnSetThrottle
           \/ OnAdminQuery \/ Cancel
  BY <1>3, <1>8, Zenon DEF Yield, OnAdminFlush, OnAdminStop, OnAdminStart, OnSetThrottle, OnAdminQuery,
     Cancel, ToWork, FieldsInv
<1> QED
  BY <1>2, <1>5, <1>6, <1>7, <1>8 DEF Next

(* The types of the driver's own fields hold in every state. *)
LEMMA FieldsInvariant == Spec => []FieldsInv
<1>1. Init => FieldsInv
  <2> SUFFICES ASSUME Init PROVE FieldsInv
    OBVIOUS
  <2>1. stopped \in BOOLEAN /\ encoding_left \in BOOLEAN /\ shutting_down \in BOOLEAN
    BY DriverAssumption, Zenon DEF Init
  <2>2. steps = 0 /\ phase = "encode" /\ controller \in Controllers
    BY DEF Init
  <2>3. StepBudget \in Nat /\ StepBudget > 0
    BY DriverAssumption
  <2> QED
    BY <2>1, <2>2, <2>3 DEF FieldsInv
<1> QED
  BY <1>1, FieldsStep, PTL DEF Spec

(***************************************************************************)
(* Through reorgs on either side, late statuses, stops and starts, the     *)
(* buffer hangs on the safe head and ends where the source is; and every   *)
(* lease of the encoder belongs to a transaction whose outcome the driver  *)
(* still waits for (BatchDriver::run).                                     *)
(***************************************************************************)
THEOREM DriverIsInStep == Spec => []DriverInStep
<1>1. DriverInv /\ FieldsInv => DriverInStep
  <2> SUFFICES ASSUME DriverInv, FieldsInv PROVE DriverInStep
    BY SMTT(30)
  <2>1. LeasesInFlight
    BY ZenonT(30) DEF DriverInv, Running, Works, Books, Backed, Issued, LeasesInFlight
  <2>2. BufferAnchored
    <3> SUFFICES ASSUME encoder.blocks # <<>>
                 PROVE  /\ ~stopped
                        /\ Parent[Head(encoder.blocks)] = derivation.safe_l2
                        /\ Last(encoder.blocks) = source_tip
                        /\ ChainLinked(encoder)
      BY SMTT(30) DEF BufferAnchored
    <3>1. encoder.blocks \in Seq(Block)
      BY DEF DriverInv, Books, EncoderInv, QueueInv, QueueShape
    <3>2. Head(encoder.blocks) = encoder.blocks[1]
      BY <3>1
    <3>3. Last(encoder.blocks) = encoder.blocks[Len(encoder.blocks)]
      BY DEF Last
    <3> QED
      BY <3>2, <3>3, Zenon DEF DriverInv, BufferInv, ChainLinked
  <2>3. TypeOK
    BY DEF DriverInv, FieldsInv, Books, Issued, TypeOK
  <2> QED
    BY <2>1, <2>2, <2>3 DEF DriverInStep
<1> QED
  BY <1>1, DriverInvariant, FieldsInvariant, PTL

(***************************************************************************)
(* When the driver waits, nothing it could do is left: every block is      *)
(* encoded or the next slice is due, and no frame is ready unless the      *)
(* in-flight limit is reached (work, submit_pending).                      *)
(***************************************************************************)
THEOREM NothingIsStranded == Spec => []NothingStranded
<1>1. DriverInv => NothingStranded
  BY DEF DriverInv, NothingStranded, AllEncoded
<1> QED
  BY <1>1, DriverInvariant, PTL
=============================================================================
