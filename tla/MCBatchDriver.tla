---------------------------- MODULE MCBatchDriver ----------------------------
(* Small instances of BatchDriver: the chain g - a1 - a2 with the fork b1. *)
EXTENDS BatchDriver, TLC

CONSTANTS g, a1, a2, b1

MCBlock == {g, a1, a2, b1}
MCNumber == g :> 0 @@ a1 :> 1 @@ a2 :> 2 @@ b1 :> 1
MCParent == g :> None @@ a1 :> g @@ a2 :> a1 @@ b1 :> g
MCSize == [b \in MCBlock |-> 1]

MCController(strategy) ==
    [strategy |-> strategy, start_threshold |-> 1, full_threshold |-> 3, max_intensity |-> 80,
     block_lower |-> 2, block_upper |-> 9, tx_lower |-> 1, tx_upper |-> 4]

MCOff == {MCController("Off")}
MCStep == {MCController("Off"), MCController("Linear")}
=============================================================================
