CONSTANTS
  c1 = c1
  c2 = c2
  l1 = l1
  vm = vm
  jsr = jsr
  other = other
  none = none
  Callers <- MCCallers
  Listeners <- MCListeners
  Closer <- vm
  Subsystems <- MCSubsystems
  MaxCalls = 1
  Nobody <- none
SPECIFICATION Spec
INVARIANTS
  TypeOK
  OneQueuePerSubsystem
  FoundQueueIsRight
  NoLostWakeup
PROPERTY
  NoQueueAfterClose
CHECK_DEADLOCK FALSE
