CONSTANTS
  MaxEvents = 3
  EventDataSize = 4
  Lens = {1, 3, 5}
  BufLens = {2, 4}
  MaxSends = 5
SPECIFICATION Spec
PROPERTY
  RetryDeliversRefused
CHECK_DEADLOCK FALSE
