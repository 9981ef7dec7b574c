CONSTANTS
  s1 = s1
  s2 = s2
  vm = vm
  none = none
  Senders <- MCSenders
  Receivers <- MCReceivers
  Nobody <- none
  Lens = {0, 3}
  BufLens = {2, 4}
  MaxCalls <- MCMaxCalls
SPECIFICATION FairSpec
INVARIANTS
  TypeOK
  NoLostWakeup
  InOrder
  SendResultTruthful
PROPERTIES
  ImplementsChannel
  TimedReceiveReturns
CHECK_DEADLOCK FALSE
