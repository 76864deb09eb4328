SPECIFICATION MCSpec
CONSTANTS
  Block <- MCBlock
  Nonce <- MCNonce
  Depth = 3
  MaxReorgs = 1
  MaxFaults = 1
  MaxHead = 3
  MaxMoves = 3
  MaxHeadDrops = 1
  MaxHeadFaults = 1
  MaxLen = 4
  MaxL1 = 2
  MaxL2Reorgs = 1
  MaxL2Drops = 1
  MaxBacklog = 8
  Builder = {x}
  PushControllers <- MCPushControllers
  PushBacklogs = {0, 3, 8}
  MaxEvents = 3
INVARIANTS ScanCorrect DeliveredInOrder PublishedInRange
PROPERTIES LimitsMonotone EdgesCatchUp
CHECK_DEADLOCK FALSE
