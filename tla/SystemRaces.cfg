\* Two commands, the second at any moment of the first.
SPECIFICATION SystemSpec
CONSTANTS
  Inputs <- MCRacing
  Messages <- MCRacingMessages
  LightctlCodes = {0, 1}
  StackValues = {0, 2}
  MaxErrors = 4
  MaxCommands = 2
  MaxRaces = 2
INVARIANTS
  SystemTypeOK
  LampsExclusive
  ExecutionMatchesPins
  TargetCurrentAtRest
  PinsShowTargetAtRest
PROPERTIES
  SchedulerReadsItsCommand
  ImplementsFaultMg
  ComesToRest
CHECK_DEADLOCK FALSE
