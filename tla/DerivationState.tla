--------------------------- MODULE DerivationState ---------------------------
(***************************************************************************)
(* The state machine of the derivation actor and the finalizer it owns:    *)
(* actors/derivation/state_machine.rs and actors/derivation/finalizer.rs.  *)
(* Both are pure: the actor (NodeActors) holds their state.                *)
(***************************************************************************)
EXTENDS Naturals, FiniteSets, FiniteSetsExt, Functions

States == {"AwaitingELSyncCompletion", "AwaitingL1Data",
           "AwaitingSafeHeadConfirmation", "AwaitingSignal",
           "AwaitingUpdateAfterSignal", "Deriving"}

Updates == {"ELSyncCompleted", "L1DataReceived", "MoreDataNeeded",
            "NewAttributesDerived", "NewAttributesConfirmed",
            "SignalNeeded", "SignalProcessed"}

(* Mutant: L1 data that comes while attributes await confirmation is invalid. *)
TransitionsDeaf ==
  LET From(s, ups, t) == {<<s, u, t>> : u \in ups}
  IN  UNION {
        From("AwaitingELSyncCompletion", {"ELSyncCompleted"}, "Deriving"),
        From("AwaitingELSyncCompletion",
             {"NewAttributesConfirmed", "SignalProcessed", "L1DataReceived"},
             "AwaitingELSyncCompletion"),
        From("AwaitingL1Data", {"L1DataReceived"}, "Deriving"),
        From("AwaitingSafeHeadConfirmation", {"NewAttributesConfirmed"}, "Deriving"),
        From("Deriving", {"NewAttributesDerived"}, "AwaitingSafeHeadConfirmation"),
        From("Deriving", {"MoreDataNeeded"}, "AwaitingL1Data")}

(* The valid transitions, as triples <<state, update, next state>>. *)
Transitions ==
  LET From(s, ups, t) == {<<s, u, t>> : u \in ups}
  IN  UNION {
        From("AwaitingELSyncCompletion", {"ELSyncCompleted"}, "Deriving"),
        From("AwaitingELSyncCompletion",
             {"NewAttributesConfirmed", "SignalProcessed", "L1DataReceived"},
             "AwaitingELSyncCompletion"),
        From("AwaitingL1Data", {"L1DataReceived"}, "Deriving"),
        From("AwaitingL1Data", {"SignalProcessed"}, "AwaitingUpdateAfterSignal"),
        From("AwaitingSafeHeadConfirmation", {"NewAttributesConfirmed"}, "Deriving"),
        From("AwaitingSafeHeadConfirmation", {"SignalProcessed"},
             "AwaitingUpdateAfterSignal"),
        From("AwaitingSafeHeadConfirmation", {"L1DataReceived"},
             "AwaitingSafeHeadConfirmation"),
        From("AwaitingSignal", {"SignalProcessed"}, "AwaitingUpdateAfterSignal"),
        From("AwaitingSignal", {"L1DataReceived", "MoreDataNeeded"}, "AwaitingSignal"),
        From("AwaitingUpdateAfterSignal",
             {"L1DataReceived", "NewAttributesConfirmed"}, "Deriving"),
        From("AwaitingUpdateAfterSignal", {"SignalProcessed"},
             "AwaitingUpdateAfterSignal"),
        From("Deriving", {"NewAttributesDerived"}, "AwaitingSafeHeadConfirmation"),
        From("Deriving", {"SignalNeeded"}, "AwaitingSignal"),
        From("Deriving", {"MoreDataNeeded"}, "AwaitingL1Data")}

(* Mutant: L1 data that comes after a signal does not resume the derivation. *)
UpdatedStuck(state, update) ==
  IF state = "AwaitingUpdateAfterSignal" /\ update = "L1DataReceived" THEN state
  ELSE (CHOOSE t \in Transitions : t[1] = state /\ t[2] = update)[3]

(* Every other pair is an InvalidTransition error, which ends the actor. *)
CanUpdate(state, update) == \E t \in Transitions : t[1] = state /\ t[2] = update

Updated(state, update) ==
  (CHOOSE t \in Transitions : t[1] = state /\ t[2] = update)[3]

-----------------------------------------------------------------------------
(* L2Finalizer: awaiting maps an L1 block number to the highest L2 block
   number derived from it; a finalized L1 number of 0 stands for "none seen". *)

EnqueueForFinalization(awaiting, from, number) ==
  [l \in DOMAIN awaiting \cup {from} |->
     IF l # from THEN awaiting[l]
     ELSE Max({number} \cup {awaiting[x] : x \in DOMAIN awaiting \cap {from}})]

(* Mutant: the L1 block after the finalized one is eligible too. *)
EligibleEarly(awaiting, finalized) == {l \in DOMAIN awaiting : l <= finalized + 1}

(* The keys at or below the finalized L1 block, whose entries are drained. *)
Eligible(awaiting, finalized) == {l \in DOMAIN awaiting : l <= finalized}

(* What try_finalize_next returns: the entry of the highest eligible key. *)
HighestSafe(awaiting, finalized) == awaiting[Max(Eligible(awaiting, finalized))]

Drained(awaiting, finalized) ==
  Restrict(awaiting, DOMAIN awaiting \ Eligible(awaiting, finalized))

=============================================================================
