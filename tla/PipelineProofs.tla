--------------------------- MODULE PipelineProofs ---------------------------
(***************************************************************************)
(* The theorems about BatchPipeline, for every block tree, configuration,  *)
(* compressor and order of calls.  The work is in EncoderProofs: here each *)
(* call of the trait is one case.                                          *)
(***************************************************************************)
EXTENDS BatchPipeline, EncoderProofs, TLAPS

(* What the client holds of a tracked submission covers what the encoder leases to it. *)
Carried ==
    \A tx \in in_flight :
        /\ tx.id \in 0..(encoder.next_id - 1)
        /\ tx.id \in DOMAIN encoder.egress.pending
              => encoder.egress.pending[tx.id] \subseteq tx.artifacts

(* The inductive invariant. *)
PipelineInv ==
    /\ EncoderInv(encoder)
    /\ halted \in BOOLEAN
    /\ ~halted => AllFilled(encoder)
    /\ Carried

(* How one call may change the ledger, and what the client does with it. *)
LedgerStep ==
    \/ SameLedger(encoder, encoder') /\ in_flight' = in_flight
    \/ LedgerForgets(encoder, encoder') /\ in_flight' = in_flight
    \/ /\ LedgerGrows(encoder, encoder')
       /\ encoder'.egress.next_artifact = encoder.egress.next_artifact
       /\ in_flight' = in_flight
    \/ /\ LedgerSubmits(encoder, encoder')
       /\ in_flight' = in_flight \cup
              {[id |-> encoder.next_id, artifacts |-> encoder'.egress.pending[encoder.next_id]]}
    \/ \E tx \in in_flight :
          /\ in_flight' = in_flight \ {tx}
          /\ \/ encoder' = encoder
             \/ \E state \in {"Ready", "Confirmed"} :
                   LedgerSettles(encoder, encoder', tx.id, state)

-----------------------------------------------------------------------------
(* Every call keeps the encoder's invariant and is one of the ledger's steps. *)
LEMMA CallFactsGiven ==
    ASSUME NumberFacts, PipelineInv, Next
    PROVE  /\ EncoderInv(encoder')
           /\ halted' \in BOOLEAN
           /\ ~halted' => AllFilled(encoder')
           /\ LedgerStep
<1> USE DEF Becomes
<1>0. EncoderInv(encoder) /\ AllFilled(encoder) /\ halted = FALSE
  BY DEF PipelineInv, Next
<1>1. CASE DoAddBlock
  BY <1>0, <1>1, AddBlockInv DEF DoAddBlock, LedgerStep
<1>2. CASE DoStep
  <2>1. PICK emitted, fault : /\ encoder' = Step(encoder, emitted, fault).encoder
                              /\ halted' = (Step(encoder, emitted, fault).result = "Err")
                              /\ in_flight' = in_flight
    BY <1>2 DEF DoStep
  <2> QED
    BY <1>0, <2>1, StepInv DEF LedgerStep
<1>3. CASE DoNextSubmission
  <2>1. /\ encoder' = NextSubmission(encoder) /\ halted' = halted
        /\ in_flight' = in_flight \cup
              {[id |-> id, artifacts |-> encoder'.egress.pending[id]] :
                  id \in encoder.next_id..(encoder'.next_id - 1)}
    BY <1>3 DEF DoNextSubmission
  <2>2. /\ EncoderInv(encoder') /\ AllFilled(encoder')
        /\ \/ LedgerSubmits(encoder, encoder')
           \/ LedgerGrows(encoder, encoder')
              /\ encoder'.egress.next_artifact = encoder.egress.next_artifact
    BY <1>0, <2>1, NextSubmissionInv
  <2>3. encoder.next_id \in Nat
    BY <1>0 DEF EncoderInv, LedgerInv
  <2>4. CASE LedgerSubmits(encoder, encoder')
    <3>1. encoder.next_id..(encoder'.next_id - 1) = {encoder.next_id}
      BY <2>3, <2>4 DEF LedgerSubmits
    <3>2. in_flight' = in_flight \cup
              {[id |-> encoder.next_id, artifacts |-> encoder'.egress.pending[encoder.next_id]]}
      BY <2>1, <3>1
    <3> QED
      BY <1>0, <2>1, <2>2, <2>4, <3>2 DEF LedgerStep
  <2>5. CASE /\ LedgerGrows(encoder, encoder')
             /\ encoder'.egress.next_artifact = encoder.egress.next_artifact
    <3>1. encoder.next_id..(encoder'.next_id - 1) = {}
      BY <2>3, <2>5 DEF LedgerGrows
    <3>2. in_flight' = in_flight
      BY <2>1, <3>1
    <3> QED
      BY <1>0, <2>1, <2>2, <2>5, <3>2 DEF LedgerStep
  <2> QED
    BY <2>2, <2>4, <2>5
<1>4. CASE DoConfirm
  <2>1. PICK tx \in in_flight, l1 \in 0..MaxL1 : /\ encoder' = Confirm(encoder, tx.id, l1)
                                              /\ in_flight' = in_flight \ {tx} /\ halted' = halted
    BY <1>4 DEF DoConfirm
  <2> QED
    BY <1>0, <2>1, ConfirmInv DEF LedgerStep
<1>5. CASE DoRequeue
  <2>1. PICK tx \in in_flight : /\ encoder' = Requeue(encoder, tx.id)
                                /\ in_flight' = in_flight \ {tx} /\ halted' = halted
    BY <1>5 DEF DoRequeue
  <2> QED
    BY <1>0, <2>1, RequeueInv DEF LedgerStep
<1>6. CASE DoAdvanceL1Head
  BY <1>0, <1>6, AdvanceL1HeadInv DEF DoAdvanceL1Head, LedgerStep
<1>7. CASE DoFlush
  <2>1. PICK finished : /\ encoder' = Flush(encoder, finished)
                        /\ halted' = FlushFails(encoder, finished) /\ in_flight' = in_flight
    BY <1>7 DEF DoFlush
  <2>2. FlushFails(encoder, finished) \in BOOLEAN
    BY DEF FlushFails, CloseFails
  <2> QED
    BY <1>0, <2>1, <2>2, FlushInv DEF LedgerStep
<1>8. CASE DoReset
  BY <1>0, <1>8, ResetInv DEF DoReset, LedgerStep
<1>9. CASE DoReconcileDerivation
  BY <1>0, <1>9, ReconcileDerivationInv DEF DoReconcileDerivation, LedgerStep
<1>10. CASE DoSetBlobOverride
  BY <1>0, <1>10, SetBlobOverrideInv DEF DoSetBlobOverride, LedgerStep
<1> QED
  BY <1>1, <1>2, <1>3, <1>4, <1>5, <1>6, <1>7, <1>8, <1>9, <1>10 DEF Next

(* A settled, forgotten or new lease never outgrows what the client holds. *)
LEMMA LedgerStepKeepsCarried ==
    ASSUME PipelineInv, LedgerStep
    PROVE  Carried'
<1> DEFINE held == encoder.egress.pending
           held2 == encoder'.egress.pending
<1>0. encoder.next_id \in Nat /\ Carried
  BY DEF PipelineInv, EncoderInv, LedgerInv
<1>1. CASE SameLedger(encoder, encoder') /\ in_flight' = in_flight
  BY <1>0, <1>1 DEF SameLedger, Carried
<1>2. CASE LedgerForgets(encoder, encoder') /\ in_flight' = in_flight
  <2>1. /\ encoder'.next_id = encoder.next_id
        /\ DOMAIN held2 \subseteq DOMAIN held
        /\ \A id \in DOMAIN held2 : held2[id] \subseteq held[id]
    BY <1>2 DEF LedgerForgets, Forgets
  <2> QED
    BY <1>0, <1>2, <2>1 DEF Carried
<1>3. CASE LedgerGrows(encoder, encoder') /\ in_flight' = in_flight
  BY <1>0, <1>3 DEF LedgerGrows, Carried
<1>4. CASE /\ LedgerSubmits(encoder, encoder')
           /\ in_flight' = in_flight \cup
                  {[id |-> encoder.next_id, artifacts |-> held2[encoder.next_id]]}
  <2>1. /\ encoder'.next_id = encoder.next_id + 1
        /\ DOMAIN held2 = DOMAIN held \cup {encoder.next_id}
        /\ \A id \in DOMAIN held : held2[id] = held[id]
    BY <1>4 DEF LedgerSubmits
  <2> DEFINE sent == [id |-> encoder.next_id, artifacts |-> held2[encoder.next_id]]
  <2>2. sent.id = encoder.next_id /\ sent.artifacts = held2[encoder.next_id]
    OBVIOUS
  <2>3. in_flight' = in_flight \cup {sent}
    BY <1>4
  <2> HIDE DEF sent
  <2>4. ASSUME NEW tx \in in_flight
        PROVE  /\ tx.id \in 0..(encoder'.next_id - 1)
               /\ tx.id \in DOMAIN held2 => held2[tx.id] \subseteq tx.artifacts
    <3>1. tx.id \in 0..(encoder.next_id - 1) /\ tx.id # encoder.next_id
      BY <1>0 DEF Carried
    <3> QED
      BY <1>0, <2>1, <3>1 DEF Carried
  <2>5. sent.id \in 0..(encoder'.next_id - 1)
    BY <1>0, <2>1, <2>2
  <2> QED
    BY <2>2, <2>3, <2>4, <2>5 DEF Carried
<1>5. CASE \E tx \in in_flight :
             /\ in_flight' = in_flight \ {tx}
             /\ \/ encoder' = encoder
                \/ \E state \in {"Ready", "Confirmed"} :
                      LedgerSettles(encoder, encoder', tx.id, state)
  <2>1. /\ encoder'.next_id = encoder.next_id
        /\ DOMAIN held2 \subseteq DOMAIN held
        /\ \A id \in DOMAIN held2 : held2[id] = held[id]
    BY <1>5 DEF LedgerSettles, Restrict
  <2> QED
    BY <1>0, <1>5, <2>1 DEF Carried
<1> QED
  BY <1>1, <1>2, <1>3, <1>4, <1>5 DEF LedgerStep

-----------------------------------------------------------------------------
INSTANCE FiniteSetTheorems

(* The facts about numbers and finite sets the lemmas ask for. *)
LEMMA Numbers == NumberFacts
<1>1. ASSUME NEW S \in SUBSET Nat, S # {}
      PROVE  \E n \in S : \A m \in S : n <= m
  <2> DEFINE R == {p \in Nat \X Nat : p[1] < p[2]}
  <2>1. IsWellFoundedOn(R, Nat)
    BY NatLessThanWellFounded, Zenon DEF OpToRel
  <2>2. PICK x \in S : \A y \in S : ~(<<y, x>> \in R)
    <3> HIDE DEF R
    <3> QED  BY <1>1, <2>1, WFMin
  <2>3. ASSUME NEW a \in Nat, NEW b \in Nat, a < b
        PROVE  <<a, b>> \in R
    BY <2>3
  <2> HIDE DEF R
  <2>4. \A y \in S : x <= y
    <3> SUFFICES ASSUME NEW y \in S, y < x
                 PROVE  FALSE
      OBVIOUS
    <3>1. <<y, x>> \in R
      BY <2>3
    <3> QED
      BY <2>2, <3>1
  <2> QED
    BY <2>4
<1>2. ASSUME NEW n \in Int, NEW T \in SUBSET (0..n), NEW S \in SUBSET T
      PROVE  Cardinality(S) \in Nat /\ Cardinality(T) \in Nat /\ Cardinality(S) <= Cardinality(T)
  <2>1. IsFiniteSet(0..n)
    BY FS_Interval
  <2>2. IsFiniteSet(T)
    BY <2>1, FS_Subset
  <2>3. IsFiniteSet(S) /\ Cardinality(S) <= Cardinality(T)
    BY <2>2, FS_Subset
  <2> QED
    BY <2>2, <2>3, FS_CardinalityType
<1>3. IsFiniteSet({}) /\ Cardinality({}) = 0
  BY FS_EmptySet
<1>4. ASSUME NEW S, IsFiniteSet(S)
      PROVE  Cardinality(S) \in Nat
  BY <1>4, FS_CardinalityType
<1>5. ASSUME NEW S, NEW x, IsFiniteSet(S)
      PROVE  IsFiniteSet(S \cup {x}) /\ IsFiniteSet(S \ {x})
  BY <1>5, FS_AddElement, FS_RemoveElement
<1> QED
  BY <1>1, <1>2, <1>3, <1>4, <1>5, Zenon DEF NumberFacts

(* What every call of the encoder leaves behind, as LedgerStep says. *)
LEMMA CallFacts ==
    ASSUME PipelineInv, Next
    PROVE  /\ EncoderInv(encoder')
           /\ halted' \in BOOLEAN
           /\ ~halted' => AllFilled(encoder')
           /\ LedgerStep
BY CallFactsGiven, Numbers

(* The inductive invariant holds in every state of the pipeline. *)
THEOREM PipelineInvariant == Spec => []PipelineInv
<1>1. Init => PipelineInv
  BY NewEncoderInv DEF Init, PipelineInv, Carried
<1>2. PipelineInv /\ [Next]_vars => PipelineInv'
  <2> SUFFICES ASSUME PipelineInv, [Next]_vars
               PROVE  PipelineInv'
    OBVIOUS
  <2>1. CASE Next
    BY <2>1, CallFacts, LedgerStepKeepsCarried DEF PipelineInv
  <2>2. CASE UNCHANGED vars
    BY <2>2 DEF vars, PipelineInv, Carried
  <2> QED
    BY <2>1, <2>2
<1> QED
  BY <1>1, <1>2, PTL DEF Spec

-----------------------------------------------------------------------------
(***************************************************************************)
(* No buffered block is encoded twice or skipped, and only the tail of the *)
(* channel queue is open: block_cursor and the ranges of the channels stay *)
(* in step through close, replay, prune and reset.                         *)
(***************************************************************************)
THEOREM BlocksAreTiled == Spec => []BlocksTiled
<1>1. PipelineInv => BlocksTiled
  BY DEF PipelineInv, EncoderInv, QueueInv, BlocksTiled
<1> QED
  BY <1>1, PipelineInvariant, PTL

(***************************************************************************)
(* No channel is empty between two calls, so check_channel_timeout's early *)
(* return never makes step spin without closing or encoding anything.      *)
(***************************************************************************)
THEOREM ChannelsAreFilled == Spec => []NoEmptyChannel
<1>1. PipelineInv => NoEmptyChannel
  <2> SUFFICES ASSUME PipelineInv, ~halted, NEW i \in DOMAIN encoder.channels
               PROVE  encoder.channels[i].blocks_added > 0
    BY DEF NoEmptyChannel
  <2>1. DOMAIN encoder.channels = 1..Len(encoder.channels)
    BY SequenceShape DEF PipelineInv, EncoderInv, QueueInv, QueueShape
  <2> QED
    BY <2>1 DEF PipelineInv, AllFilled
<1> QED
  BY <1>1, PipelineInvariant, PTL

(***************************************************************************)
(* An artifact is Pending exactly while one tracked submission leases it:  *)
(* no artifact is stuck Pending after its transaction settled, was pruned  *)
(* or was invalidated, and none is sent in two transactions at once.       *)
(***************************************************************************)
THEOREM LeasesAreExact == Spec => []LeasesMatch
<1>1. PipelineInv => LeasesMatch
  BY DEF PipelineInv, EncoderInv, LedgerInv, EgressInv, LeasesMatch
<1> QED
  BY <1>1, PipelineInvariant, PTL

(***************************************************************************)
(* The encoder's bookkeeping agrees with itself, for every configuration,  *)
(* chain and sequence of calls.                                            *)
(***************************************************************************)
THEOREM BooksAreExact == Spec => []BooksExact
  BY BlocksAreTiled, ChannelsAreFilled, LeasesAreExact, PTL DEF BooksExact

(***************************************************************************)
(* Only the transaction that carries an artifact settles it: confirm and   *)
(* requeue of an identifier issued before a reset or a replay move nothing *)
(* of another transaction, and payloads and confirmations are final.       *)
(***************************************************************************)
THEOREM CarriersSettle == Spec => SettledOnlyByCarrier
<1> DEFINE Settled ==
        \A a \in Retained :
            LET old == encoder.egress.artifacts[a]
                new == encoder'.egress.artifacts[a]
            IN  /\ new.frames = old.frames /\ new.blob = old.blob
                /\ old.state = "Confirmed" => new.state = "Confirmed"
                /\ old.state = "Pending" /\ new.state # "Pending" =>
                      \E tx \in in_flight \ in_flight' : a \in tx.artifacts
<1>1. ASSUME PipelineInv, Next
      PROVE  Settled
  <2> SUFFICES ASSUME NEW a \in Retained
               PROVE  LET old == encoder.egress.artifacts[a]
                          new == encoder'.egress.artifacts[a]
                      IN  /\ new.frames = old.frames /\ new.blob = old.blob
                          /\ old.state = "Confirmed" => new.state = "Confirmed"
                          /\ old.state = "Pending" /\ new.state # "Pending" =>
                                \E tx \in in_flight \ in_flight' : a \in tx.artifacts
    OBVIOUS
  <2> DEFINE old == encoder.egress.artifacts[a]
             new == encoder'.egress.artifacts[a]
  <2>0. a \in DOMAIN encoder.egress.artifacts /\ a \in DOMAIN encoder'.egress.artifacts
    BY DEF Retained
  <2>1. CASE SameLedger(encoder, encoder')
    BY <2>1 DEF SameLedger
  <2>2. CASE LedgerForgets(encoder, encoder')
    BY <2>0, <2>2 DEF LedgerForgets, Forgets
  <2>3. CASE LedgerGrows(encoder, encoder')
    BY <2>0, <2>3 DEF LedgerGrows
  <2>4. CASE LedgerSubmits(encoder, encoder')
    BY <2>0, <2>4 DEF LedgerSubmits
  <2>5. ASSUME NEW tx \in in_flight, in_flight' = in_flight \ {tx},
               NEW state \in {"Ready", "Confirmed"},
               LedgerSettles(encoder, encoder', tx.id, state)
        PROVE  /\ new.frames = old.frames /\ new.blob = old.blob
               /\ old.state = "Confirmed" => new.state = "Confirmed"
               /\ old.state = "Pending" /\ new.state # "Pending" =>
                     \E t \in in_flight \ in_flight' : a \in t.artifacts
    <3>1. /\ new.frames = old.frames /\ new.blob = old.blob
          /\ new.state = IF a \in encoder.egress.pending[tx.id] THEN state ELSE old.state
          /\ tx.id \in DOMAIN encoder.egress.pending
      BY <2>0, <2>5 DEF LedgerSettles
    <3>2. a \in encoder.egress.pending[tx.id] => old.state = "Pending" /\ a \in tx.artifacts
      BY <1>1, <3>1 DEF PipelineInv, Carried, EncoderInv, LedgerInv, EgressInv, LeasesExact,
                  AllPending, InState
    <3> HIDE DEF old, new
    <3>3. tx \in in_flight \ in_flight'
      BY <2>5
    <3> QED
      BY <3>1, <3>2, <3>3
  <2>6. CASE encoder' = encoder
    BY <2>6
  <2> QED
    BY <1>1, <2>1, <2>2, <2>3, <2>4, <2>5, <2>6, CallFacts DEF LedgerStep
<1>2. ASSUME PipelineInv, [Next]_vars
      PROVE  [Settled]_vars
  BY <1>1, <1>2
<1>3. SettledOnlyByCarrier <=> [][Settled]_vars
  BY DEF SettledOnlyByCarrier
<1> HIDE DEF Settled
<1> QED
  BY <1>2, <1>3, PipelineInvariant, PTL DEF Spec

(***************************************************************************)
(* A new transaction takes the oldest ready artifacts, so frames that were *)
(* requeued go out before younger ones (DaArtifacts::lease).               *)
(***************************************************************************)
THEOREM OldestGoFirst == Spec => OldestFirst
<1> DEFINE InOrder ==
        \A tx \in in_flight' \ in_flight :
            \A a \in tx.artifacts, b \in InState(encoder'.egress, "Ready") : a < b
<1>1. ASSUME PipelineInv, Next
      PROVE  InOrder
  <2> SUFFICES ASSUME NEW tx \in in_flight' \ in_flight
               PROVE  \A a \in tx.artifacts, b \in InState(encoder'.egress, "Ready") : a < b
    OBVIOUS
  <2>1. /\ LedgerSubmits(encoder, encoder')
        /\ tx = [id |-> encoder.next_id, artifacts |-> encoder'.egress.pending[encoder.next_id]]
    BY <1>1, CallFacts DEF LedgerStep
  <2>2. tx.artifacts = encoder'.egress.pending[encoder.next_id]
    BY <2>1
  <2> QED
    BY <2>1, <2>2 DEF LedgerSubmits
<1>2. ASSUME PipelineInv, [Next]_vars
      PROVE  [InOrder]_vars
  BY <1>1, <1>2
<1>3. OldestFirst <=> [][InOrder]_vars
  BY DEF OldestFirst
<1> HIDE DEF InOrder
<1> QED
  BY <1>2, <1>3, PipelineInvariant, PTL DEF Spec

-----------------------------------------------------------------------------
(* What DaLedger calls the state of the artifacts of e. *)
StateOf(e) == [a \in DOMAIN e.egress.artifacts |-> e.egress.artifacts[a].state]

(* A step that issues a submission is a Submit of the ledger. *)
LEMMA SubmitsImplementSubmit ==
    ASSUME PipelineInv, LedgerSubmits(encoder, encoder')
    PROVE  Ledger!Submit
<1> DEFINE state == StateOf(encoder)
           state2 == StateOf(encoder')
           sent == encoder'.egress.pending[encoder.next_id]
<1>1. DOMAIN state = DOMAIN encoder.egress.artifacts /\ DOMAIN state2 = DOMAIN encoder'.egress.artifacts
  BY DEF StateOf
<1>2. \A a \in DOMAIN state : state[a] = encoder.egress.artifacts[a].state
  BY DEF StateOf
<1>3. \A a \in DOMAIN state2 : state2[a] = encoder'.egress.artifacts[a].state
  BY DEF StateOf
<1>4. /\ encoder'.egress.next_artifact >= encoder.egress.next_artifact
      /\ encoder'.next_id = encoder.next_id + 1
      /\ DOMAIN state \subseteq DOMAIN state2
      /\ DOMAIN encoder'.egress.pending = DOMAIN encoder.egress.pending \cup {encoder.next_id}
      /\ \A id \in DOMAIN encoder.egress.pending :
            encoder'.egress.pending[id] = encoder.egress.pending[id]
      /\ sent # {} /\ sent \subseteq DOMAIN state2
  BY <1>1 DEF LedgerSubmits
<1>5. ASSUME NEW a \in DOMAIN state2 \ DOMAIN state
      PROVE  /\ a \in encoder.egress.next_artifact..(encoder'.egress.next_artifact - 1)
             /\ state2[a] = IF a \in sent THEN "Pending" ELSE "Ready"
  BY <1>1, <1>3 DEF LedgerSubmits
<1>6. ASSUME NEW a \in DOMAIN state
      PROVE  /\ a \notin sent => state2[a] = state[a]
             /\ a \in sent => state[a] = "Ready" /\ state2[a] = "Pending"
  BY <1>1, <1>2, <1>3 DEF LedgerSubmits
<1>7. /\ StateOf(encoder) = [a \in DOMAIN encoder.egress.artifacts |-> encoder.egress.artifacts[a].state]
      /\ StateOf(encoder') = [a \in DOMAIN encoder'.egress.artifacts |-> encoder'.egress.artifacts[a].state]
  BY DEF StateOf
<1> HIDE DEF state, state2, sent
<1>8. ASSUME NEW a \in DOMAIN state2
      PROVE  /\ a \in DOMAIN state =>
                   state2[a] = state[a] \/ (state[a] = "Ready" /\ state2[a] = "Pending")
             /\ a \notin DOMAIN state => state2[a] \in {"Ready", "Pending"}
             /\ a \in sent <=>
                   state2[a] = "Pending" /\ (a \in DOMAIN state => state[a] = "Ready")
  BY <1>5, <1>6
<1> QED
  BY <1>4, <1>5, <1>7, <1>8 DEF Ledger!Submit, state, state2, sent

(* A settlement is a Settle of the ledger. *)
LEMMA SettlesImplementSettle ==
    ASSUME PipelineInv, NEW id, NEW outcome, LedgerSettles(encoder, encoder', id, outcome)
    PROVE  Ledger!Settle(id, outcome)
<1>1. StateOf(encoder') = [a \in DOMAIN StateOf(encoder) |->
          IF a \in encoder.egress.pending[id] THEN outcome ELSE StateOf(encoder)[a]]
  BY DEF LedgerSettles, StateOf
<1> QED
  BY <1>1 DEF Ledger!Settle, Ledger!Restrict, Restrict, LedgerSettles, StateOf

(* Pruning, invalidating and resetting are Forget steps of the ledger. *)
LEMMA ForgetsImplementForget ==
    ASSUME PipelineInv, NEW gone \in SUBSET DOMAIN encoder.egress.artifacts,
           Forgets(encoder.egress, encoder'.egress, gone), encoder'.next_id = encoder.next_id
    PROVE  Ledger!Forget(gone)
<1>1. DOMAIN StateOf(encoder') = DOMAIN StateOf(encoder) \ gone
  BY DEF Forgets, StateOf
<1>2. StateOf(encoder') = [a \in DOMAIN StateOf(encoder) \ gone |-> StateOf(encoder)[a]]
  BY <1>1 DEF Forgets, StateOf
<1> QED
  BY <1>2 DEF Ledger!Forget, Ledger!Restrict, Forgets, StateOf

(***************************************************************************)
(* The encoder implements the artifact ledger DaLedger: through any order  *)
(* of calls an artifact is created ready under a new identifier, leased to *)
(* one new transaction, settled with its whole transaction, and once       *)
(* forgotten never returns.                                                *)
(***************************************************************************)
THEOREM EncoderImplementsLedger == Spec => ImplementsLedger
<1>1. Init => Ledger!Init
  BY DEF Init, NewEncoder, NewEgress, Ledger!Init
<1>2. ASSUME PipelineInv, [Next]_vars
      PROVE  [Ledger!Next]_Ledger!vars
  <2>1. CASE UNCHANGED vars
    BY <2>1 DEF vars, Ledger!vars
  <2>2. CASE Next
    <3>0. LedgerStep
      BY <1>2, <2>2, CallFacts
    <3>1. CASE SameLedger(encoder, encoder')
      BY <3>1 DEF SameLedger, Ledger!vars
    <3>2. CASE LedgerForgets(encoder, encoder')
      <4>1. PICK gone \in SUBSET DOMAIN encoder.egress.artifacts :
                Forgets(encoder.egress, encoder'.egress, gone)
        BY <3>2 DEF LedgerForgets
      <4>2. Ledger!Forget(gone)
        BY <1>2, <3>2, <4>1, ForgetsImplementForget DEF LedgerForgets
      <4> QED
        BY <4>1, <4>2 DEF Ledger!Next
    <3>3. CASE /\ LedgerGrows(encoder, encoder')
               /\ encoder'.egress.next_artifact = encoder.egress.next_artifact
      <4>1. encoder.egress.next_artifact \in Nat
        BY <1>2 DEF PipelineInv, EncoderInv, LedgerInv, EgressInv, EgressShape
      <4>2. encoder.egress.next_artifact..(encoder.egress.next_artifact - 1) = {}
        BY <4>1
      <4>3. DOMAIN encoder'.egress.artifacts = DOMAIN encoder.egress.artifacts
        BY <3>3, <4>2 DEF LedgerGrows
      <4>4. \A a \in DOMAIN encoder.egress.artifacts :
                encoder'.egress.artifacts[a] = encoder.egress.artifacts[a]
        BY <3>3 DEF LedgerGrows
      <4>5. [a \in DOMAIN encoder'.egress.artifacts |-> encoder'.egress.artifacts[a].state]
              = [a \in DOMAIN encoder.egress.artifacts |-> encoder.egress.artifacts[a].state]
        BY <4>3, <4>4
      <4> QED
        BY <3>3, <4>5 DEF LedgerGrows, Ledger!vars
    <3>4. CASE LedgerSubmits(encoder, encoder')
      BY <1>2, <3>4, SubmitsImplementSubmit DEF Ledger!Next
    <3>5. ASSUME NEW id, NEW outcome \in {"Ready", "Confirmed"},
                 LedgerSettles(encoder, encoder', id, outcome)
          PROVE  Ledger!Next
      <4>1. Ledger!Settle(id, outcome) /\ id \in DOMAIN encoder.egress.pending
        BY <1>2, <3>5, SettlesImplementSettle DEF LedgerSettles
      <4> QED
        BY <4>1 DEF Ledger!Next
    <3>6. CASE encoder' = encoder
      BY <3>6 DEF Ledger!vars
    <3> QED
      BY <3>0, <3>1, <3>2, <3>3, <3>4, <3>5, <3>6 DEF LedgerStep
  <2> QED
    BY <1>2, <2>1, <2>2
<1>3. ImplementsLedger <=> Ledger!Init /\ [][Ledger!Next]_Ledger!vars
  BY DEF ImplementsLedger, Ledger!Spec
<1> QED
  BY <1>1, <1>2, <1>3, PipelineInvariant, PTL DEF Spec
=============================================================================
