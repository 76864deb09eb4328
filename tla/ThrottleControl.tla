--------------------------- MODULE ThrottleControl ---------------------------
(***************************************************************************)
(* The DA throttle as the driver uses it: publish_limits in every CPU      *)
(* phase, set_controller between two of them                               *)
(* (crates/batcher/core/src/throttle.rs).                                  *)
(***************************************************************************)
EXTENDS DaThrottle, FiniteSets

CONSTANTS
    Controllers, \* controllers that may be installed
    MaxBacklog   \* largest DA backlog

VARIABLES
    controller, \* the installed controller
    limits,     \* the published limits
    basis       \* the controller and the backlog the limits come from

vars == <<controller, limits, basis>>

Init ==
    /\ controller \in Controllers
    /\ limits = Limits(controller, 0)
    /\ basis = [controller |-> controller, backlog |-> 0]

PublishLimits ==
    \E backlog \in 0..MaxBacklog :
        /\ limits' = Limits(controller, backlog)
        /\ basis' = [controller |-> controller, backlog |-> backlog]
        /\ UNCHANGED controller

SetController ==
    /\ controller' \in Controllers
    /\ UNCHANGED <<limits, basis>>

Next == PublishLimits \/ SetController

Spec == Init /\ [][Next]_vars

-----------------------------------------------------------------------------
(***************************************************************************)
(* What is published stays between the limits of the controller it comes   *)
(* from, whatever the backlog: never 0, which a builder takes for no limit *)
(* (ThrottleConfig::validate).                                             *)
(***************************************************************************)
InRange(ctl, l) ==
    /\ l.max_block_size \in ctl.block_lower..ctl.block_upper
    /\ l.max_tx_size \in ctl.tx_lower..ctl.tx_upper

LimitsInRange == InRange(basis.controller, limits)

(***************************************************************************)
(* Under one controller more backlog never means looser limits, and less   *)
(* never tighter ones, rounding included (compute_limits).                 *)
(***************************************************************************)
NeverLooser ==
    basis'.controller = basis.controller /\ basis'.backlog >= basis.backlog =>
        /\ limits'.max_block_size <= limits.max_block_size
        /\ limits'.max_tx_size <= limits.max_tx_size
=============================================================================
