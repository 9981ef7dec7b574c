CONSTANTS
  HdrsCount = 2
  BlockLen = 2
  HeadLen = 1
  Sizes <- MCSizes
  MaxSize = 6
  NoLimit = nolimit
  MaxBlocks = 3
  MaxStray = 1
  MaxKept = 2
  MaxReads = 1
SPECIFICATION Spec
PROPERTIES
  CommittedRecordingStays
