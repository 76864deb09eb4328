SPECIFICATION Spec
CONSTANTS
  g = g
  a1 = a1
  a2 = a2
  b1 = b1
  None = None
  Block <- MCBlock
  Number <- MCNumber
  Parent <- MCParent
  Size <- MCSize
  Uncomposable = {b1}
  ChannelDuration = 1
  ChannelTimeout = 1
  MaxChannelInput = 3
  SizeTarget = 2
  MaxFrameData = 1
  Overhead = 1
  BlobCapacity = 4
  MaxBlobsPerTx = 2
  ConfiguredDaType = "Calldata"
  MaxL1 = 2
  MaxSubmissions = 3
  MaxChannels = 2
  MaxBuffered = 2
  Faults = {"none", "append", "finish"}
INVARIANTS LostTailReported FramesDelivered
CHECK_DEADLOCK FALSE
