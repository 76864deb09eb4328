----------------------------- MODULE DaThrottle -----------------------------
(***************************************************************************)
(* The DA throttle (crates/batcher/core/src/throttle.rs): from a backlog   *)
(* to the limits the block builders apply.  A controller is a record of    *)
(* its strategy and its configuration; max_intensity is in per cent.       *)
(* Intensities are fractions here, doubles in the code.                    *)
(***************************************************************************)
EXTENDS Integers

Strategies == {"Off", "Step", "Linear", "Quadratic"}

Valid(ctl) ==
    /\ ctl.full_threshold > ctl.start_threshold
    /\ ctl.max_intensity \in 0..100
    /\ 0 < ctl.block_lower /\ ctl.block_lower <= ctl.block_upper
    /\ 0 < ctl.tx_lower /\ ctl.tx_lower <= ctl.tx_upper

(* Width of the backlog range over which the intensity grows. *)
ThresholdRange(ctl) == ctl.full_threshold - ctl.start_threshold

(* The intensity is Intensity / Scale. *)
Scale(ctl) == ThresholdRange(ctl) * ThresholdRange(ctl) * 100

(* Mutant: the linear factor is not capped at one. *)
UncappedIntensity(ctl, backlog) ==
    LET excess == backlog - ctl.start_threshold
    IN  IF excess < 0 \/ ctl.strategy = "Off" THEN 0
        ELSE IF ctl.strategy = "Step" THEN Scale(ctl)
        ELSE excess * ThresholdRange(ctl) * ctl.max_intensity

Intensity(ctl, backlog) ==
    LET range == ThresholdRange(ctl)
        excess == backlog - ctl.start_threshold
        linear == IF excess > range THEN range ELSE excess
        factor == CASE ctl.strategy = "Off" -> 0
                    [] ctl.strategy = "Step" -> range * range
                    [] ctl.strategy = "Linear" -> linear * range
                    [] ctl.strategy = "Quadratic" -> linear * linear
    IN  IF excess < 0 THEN 0 ELSE factor * ctl.max_intensity

IsThrottling(ctl, backlog) == Intensity(ctl, backlog) > 0

(* Mutant: the limits tighten with what is left of the range. *)
LooseningLimit(ctl, backlog, lower, upper) ==
    LET scale == Scale(ctl)
        scaled == upper * scale - (Scale(ctl) - Intensity(ctl, backlog)) * (upper - lower)
    IN  (2 * scaled + scale) \div (2 * scale)

(* upper - intensity * (upper - lower), rounded half up. *)
Limit(ctl, backlog, lower, upper) ==
    LET scale == Scale(ctl)
        scaled == upper * scale - Intensity(ctl, backlog) * (upper - lower)
    IN  (2 * scaled + scale) \div (2 * scale)

(* compute_limits and limits: the upper limits while not throttling. *)
Limits(ctl, backlog) ==
    [max_tx_size |-> Limit(ctl, backlog, ctl.tx_lower, ctl.tx_upper),
     max_block_size |-> Limit(ctl, backlog, ctl.block_lower, ctl.block_upper)]
=============================================================================
