\* The fault manager under every interleaving with commandin.
SPECIFICATION Spec
CONSTANTS
  Messages <- MCMessages
  LightctlCodes <- MCLightctlCodes
  MaxErrors = 3
INVARIANTS
  TypeOK
  LifecycleConsistent
  SeverityCoversActiveFaults
  RecoveryWindowBounded
  CountersWithinTotal
  SnapshotNeverUnderstates
  PublicationComplete
  ReadersCurrent
PROPERTIES
  RecoveryDropsOneLevel
  FaultInterruptsRecovery
  ImplementsLifecycle
  PublicationReachesReaders
  RecoveryCompletes
