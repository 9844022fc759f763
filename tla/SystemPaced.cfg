\* Six commands of a console that waits for each result.
SPECIFICATION SystemSpec
CONSTANTS
  Inputs <- MCInputs
  Messages <- MCMessages
  LightctlCodes = {0}
  StackValues = {0}
  MaxErrors = 6
  MaxCommands = 6
  MaxRaces = 0
INVARIANTS
  SafePinsAtRest
  GuardAgreesWithPolicy
  LastCommandTakesEffect
CHECK_DEADLOCK FALSE
