SPECIFICATION Spec
CONSTANTS
  g = g
  a1 = a1
  a2 = a2
  b1 = b1
  None = None
  Block <- MCBlock
  Number <- MCNumber
  Parent <- MCParent
  Size <- MCSize
  Uncomposable = {}
  ChannelDuration = 1
  ChannelTimeout = 1
  MaxChannelInput = 2
  SizeTarget = None
  MaxFrameData = 2
  Overhead = 1
  BlobCapacity = 4
  MaxBlobsPerTx = 2
  ConfiguredDaType = "Calldata"
  Anchor = g
  MaxPending = 1
  StepBudget = 2
  ForceBlobs = TRUE
  Controllers <- MCStep
  StartStopped = TRUE
  MaxL1 = 1
  MaxSubmissions = 2
  MaxChannels = 2
  MaxBuffered = 2
  Faults = {"none", "append", "finish", "build"}
INVARIANTS LimitsCurrent NoTruncatedChannelSent
CHECK_DEADLOCK FALSE
