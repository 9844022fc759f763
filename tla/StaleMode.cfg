\* A plan under way outlives the mode it was built for.
SPECIFICATION SystemSpec
CONSTANTS
  Inputs <- MCHighBeam
  Messages <- MCHighBeamMessages
  LightctlCodes = {1}
  StackValues = {0}
  MaxErrors = 4
  MaxCommands = 4
  MaxRaces = 1
PROPERTIES
  NothingRiskyLitInSafeMode
CHECK_DEADLOCK FALSE
