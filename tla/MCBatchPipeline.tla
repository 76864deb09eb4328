--------------------------- MODULE MCBatchPipeline ---------------------------
(***************************************************************************)
(* Small instances of BatchPipeline: the chain g - a1 - a2 with the fork   *)
(* b1.                                                                     *)
(***************************************************************************)
EXTENDS ReplayLoop, TLC

CONSTANTS g, a1, a2, b1

MCBlock == {g, a1, a2, b1}
MCNumber == g :> 0 @@ a1 :> 1 @@ a2 :> 2 @@ b1 :> 1
MCParent == g :> None @@ a1 :> g @@ a2 :> a1 @@ b1 :> g
MCSize == g :> 1 @@ a1 :> 1 @@ a2 :> 2 @@ b1 :> 1
=============================================================================
