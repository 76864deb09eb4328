SPECIFICATION MCSpec
CONSTANTS
  g = g
  a1 = a1
  a2 = a2
  b1 = b1
  None = None
  Block <- MCBlock
  Number <- MCNumber
  Parent <- MCParent
  Size <- MCSize
  Uncomposable = {}
  ChannelDuration = 1
  ChannelTimeout = 1
  MaxChannelInput = 3
  SizeTarget = None
  MaxFrameData = 2
  Overhead = 1
  BlobCapacity = 4
  MaxBlobsPerTx = 2
  ConfiguredDaType = "Blob"
  MaxL1 = 2
  MaxSubmissions = 3
  MaxChannels = 3
  MaxBuffered = 2
  Faults = {"none"}
INVARIANTS BooksExact ChannelsExact FramesDelivered ReplayMatchesLoop
PROPERTIES ImplementsLedger SettledOnlyByCarrier OldestFirst
CHECK_DEADLOCK FALSE
