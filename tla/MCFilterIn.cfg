CONSTANTS
  r1 = r1
  vm = vm
  graph = graph
  none = none
  Readers <- MCReaders
  Source <- vm
  Graph <- graph
  Nobody <- none
  ContentSize = 5
  Chunks = {1, 2, 3}
  Bits = 4
  Unknown = 15
  Lens = {1, 3}
  MaxReads = 2
  MaxFlushes = 2
SPECIFICATION FairSpec
INVARIANTS
  TypeOK
  NoSleepingRead
PROPERTIES
  ShortReadExcused
  ReadReturns
  ReadersReleased
CHECK_DEADLOCK FALSE
