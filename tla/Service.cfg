SPECIFICATION MCSpec
CONSTANTS
  MaxFaults = 1
  N = 2
  MaxStatus = 3
  SafeL2 <- MCSafeL2
  CurrentL1 <- MCCurrentL1
  MaxEvents = 2
INVARIANTS ReportsTrue ChangesDelivered
PROPERTIES FollowsLeader ProcessEnds
CHECK_DEADLOCK FALSE
