SPECIFICATION Spec
CONSTANTS
  g = g
  a1 = a1
  a2 = a2
  b1 = b1
  None = None
  Block <- MCBlock
  Number <- MCNumber
  Parent <- MCParent
  Size <- MCSize
  Uncomposable = {}
  ChannelDuration = 1
  ChannelTimeout = 1
  MaxChannelInput = 2
  SizeTarget = None
  MaxFrameData = 1
  Overhead = 1
  BlobCapacity = 2
  MaxBlobsPerTx = 1
  ConfiguredDaType = "Blob"
  Anchor = g
  MaxPending = 2
  StepBudget = 2
  ForceBlobs = FALSE
  Controllers <- MCOff
  StartStopped = FALSE
  MaxL1 = 2
  MaxSubmissions = 3
  MaxChannels = 3
  MaxBuffered = 2
  Faults = {"none", "build"}
INVARIANTS DriverInStep NoExpiredChannel NothingStranded
CHECK_DEADLOCK FALSE
