CONSTANTS
  p1 = p1
  gm1 = gm1
  Players <- MCPlayers
  Gm = gm1
  Channels <- MCChannels
  MaxChannels = 2
  HdrsCount = 2
  Mixers = {m1}
  Free = free
  NoMutex = nomutex
  NoChannel = nochannel
  BufferPackets = 1
  MaxMissing = 2
  MaxPackets = 2
SPECIFICATION FairSpec
INVARIANTS
  TypeOK
  FillsIdleHeader
  WorksOnOpenChannel
  TableListsOpenChannels
  HeardInOrder
  StuckOnlyByLateCallback
PROPERTIES
  ReleaseReturns
