SPECIFICATION Spec
CONSTANTS
  Irqs <- MCIrqs
  Registered <- MCRegistered
  NumListRegs = 2
  QueueLen = 5
  Assumptions <- BusyReset
INVARIANT MaintenanceFindsItsSlot
CHECK_DEADLOCK FALSE
