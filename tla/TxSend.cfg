SPECIFICATION FairSpec
CONSTANTS
  MaxVersions = 3
  Confirmations = 2
  Threshold = 2
  Foreign = Foreign
  None = None
  Plans <- MCPlans
INVARIANTS VersionsWatched
PROPERTIES ReceiptCanonical SendEnds
CHECK_DEADLOCK FALSE
