CONSTANTS
  text = text
  binary = binary
  wide = wide
  short = short
  plain = plain
  tooLong = tooLong
  Msgs = {text}
  MsgLen <- MCMsgLen
  MsgType <- MCMsgType
  NextZero <- MCNextZero
  DestPort <- MCDestPort
  DataPayload = 122
  SegmPayload = 116
  MaxSegm = 3
  RefSpan = 2
  MaxAsked = 1
SPECIFICATION Spec
INVARIANTS
  HandedUpAsSent
CHECK_DEADLOCK FALSE
