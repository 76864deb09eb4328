SPECIFICATION Spec
CONSTANTS
  Slot = {a, b}
  Async = {}
  None = None
  MaxAttempts = 2
  PublishRetries = 0
  Leftover = {}
  MaxNonce = 3
  MaxFaults = 2
INVARIANT NoSharedNonce
CHECK_DEADLOCK FALSE
