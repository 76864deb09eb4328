SPECIFICATION LiveSpec
CONSTANTS
  MaxAttempts = 2
  MaxRetries = 1
  NoHead = NoHead
  Workers = {w1, w2}
  Kinds = {0, 1, 2}
  h1 = h1
  h2 = h2
  Bounds <- MCBounds
  MaxSubmits = 2
  MaxCreates = 1
INVARIANTS WorkBounded StoredRight
PROPERTIES ClaimsRespected EveryRequestEnds
CHECK_DEADLOCK FALSE
