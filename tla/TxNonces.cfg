SPECIFICATION MCSpec
CONSTANTS
  Slot = {a, b}
  Async = {a, b}
  None = None
  MaxAttempts = 2
  PublishRetries = 1
  Leftover = {0, 1}
  MaxNonce = 3
  MaxFaults = 3
  MaxSyncFaults = 1
  Transactions = 5
  MaxPending = 2
  Capacity = 1
INVARIANTS NoncesDistinct NothingLost SyncFreshAfterReset
PROPERTIES SendersServed
CHECK_DEADLOCK FALSE
