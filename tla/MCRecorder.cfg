CONSTANTS
  HdrsCount = 3
  BlockLen = 2
  HeadLen = 1
  Sizes <- MCSizes
  MaxSize = 6
  NoLimit = nolimit
  MaxBlocks = 4
  MaxStray = 1
  MaxKept = 2
  MaxReads = 1
SPECIFICATION Spec
INVARIANTS
  TypeOK
  HeadersAccounted
  LeftBehindOnlyByMerge
  RecordedInOrder
  LimitKept
