CONSTANTS
  Streamer = streamer
  Graph = graph
  Nobody = nobody
  MaxSamples = 5
  MaxCalls = 7
SPECIFICATION FairSpec
INVARIANTS
  TypeOK
  StateSettles
  NoSleepingReceive
  OneSampleCues
PROPERTIES
  FlushReturns
  ReceiveReturns
CHECK_DEADLOCK FALSE
