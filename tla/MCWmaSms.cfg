CONSTANTS
  text = text
  binary = binary
  wide = wide
  short = short
  plain = plain
  tooLong = tooLong
  Msgs = {text, binary, wide, short, plain, tooLong}
  MsgLen <- MCMsgLen
  MsgType <- MCMsgType
  NextZero <- MCNextZero
  DestPort <- MCDestPort
  DataPayload = 122
  SegmPayload = 116
  MaxSegm = 3
  RefSpan = 2
  MaxAsked = 3
SPECIFICATION Spec
INVARIANTS
  TypeOK
  NotStranded
  HandedUpWhole
  HandedUpInTurn
CHECK_DEADLOCK FALSE
