SPECIFICATION FairSpec
CONSTANTS
  Irqs <- MCIrqs
  Registered <- MCRegistered
  NumListRegs = 2
  QueueLen = 5
  Assumptions <- AllAssumptions
INVARIANTS
  VmmTypeOK
  HeldOnce
  QueueOnlyBehindFullListRegs
  ShadowMatchesHardware
  NoInterruptLost
  AssertionsHold
PROPERTIES
  ImplementsIrqLifecycle
  InterruptsReturn
CHECK_DEADLOCK FALSE
