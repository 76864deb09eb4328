------------------------------ MODULE DaLedger ------------------------------
(***************************************************************************)
(* What the encoder promises about submissions: a ledger of immutable      *)
(* artifacts, each ready, leased to one transaction, or confirmed for      *)
(* good.  A transaction settles as a whole.  Artifacts are created ready,  *)
(* and may be forgotten at any time; a forgotten artifact never returns.   *)
(*                                                                         *)
(* The promise is the one the comments of ArtifactState, DaArtifacts and   *)
(* BatchPipeline make; it says nothing of channels, frames or blocks.      *)
(***************************************************************************)
EXTENDS Naturals, FiniteSets, Functions

VARIABLES
    state, \* state[a] of every retained artifact a
    lease, \* lease[id]: what transaction id carries of the retained artifacts
    fresh, \* artifacts from here on were never used
    issued \* transaction identifiers from here on were never used

vars == <<state, lease, fresh, issued>>

States == {"Ready", "Pending", "Confirmed"}

Init ==
    /\ state = <<>>
    /\ lease = <<>>
    /\ fresh = 0
    /\ issued = 0

(* Some artifacts are created, and ready ones, old or new, go out in a new transaction. *)
Submit ==
    /\ fresh' >= fresh
    /\ issued' = issued + 1
    /\ DOMAIN state \subseteq DOMAIN state'
    /\ DOMAIN state' \ DOMAIN state \subseteq fresh..(fresh' - 1)
    /\ DOMAIN lease' = DOMAIN lease \cup {issued}
    /\ \A id \in DOMAIN lease : lease'[id] = lease[id]
    /\ lease'[issued] # {} /\ lease'[issued] \subseteq DOMAIN state'
    /\ \A a \in DOMAIN state' :
          /\ a \in DOMAIN state => state'[a] = state[a] \/ (state[a] = "Ready" /\ state'[a] = "Pending")
          /\ a \notin DOMAIN state => state'[a] \in {"Ready", "Pending"}
          /\ a \in lease'[issued] <=> state'[a] = "Pending" /\ (a \in DOMAIN state => state[a] = "Ready")

(* Transaction id is confirmed, or fails and what it carried is ready again. *)
Settle(id, outcome) ==
    /\ state' = [a \in DOMAIN state |-> IF a \in lease[id] THEN outcome ELSE state[a]]
    /\ lease' = Restrict(lease, DOMAIN lease \ {id})
    /\ UNCHANGED <<fresh, issued>>

(* The artifacts of `gone' are forgotten; a transaction left with nothing is no longer tracked. *)
Forget(gone) ==
    /\ state' = Restrict(state, DOMAIN state \ gone)
    /\ DOMAIN lease' = {id \in DOMAIN lease : ~(lease[id] \subseteq gone)}
    /\ \A id \in DOMAIN lease' : lease'[id] = lease[id] \ gone
    /\ UNCHANGED <<fresh, issued>>

Next ==
    \/ Submit
    \/ \E id \in DOMAIN lease, outcome \in {"Ready", "Confirmed"} : Settle(id, outcome)
    \/ \E gone \in SUBSET DOMAIN state : Forget(gone)

Spec == Init /\ [][Next]_vars
=============================================================================
