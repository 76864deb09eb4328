---------------------------- MODULE MCProofQueue ----------------------------
(* A TEE request may be asked for again with another head; the requests proved on
   the cluster keep theirs. *)
EXTENDS ProofQueue, TLC

CONSTANTS h1, h2

MCBounds ==
  0 :> [heads |-> {h1, h2}, claims |-> 3, forgotten |-> 1]
    @@ 1 :> [heads |-> {h1}, claims |-> 3, forgotten |-> 1]
    @@ 2 :> [heads |-> {h1}, claims |-> 2, forgotten |-> 0]
=============================================================================
