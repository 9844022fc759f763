\* An emergency lights one turn lamp of two.
SPECIFICATION SystemSpec
CONSTANTS
  Inputs <- MCEmergency
  Messages <- MCEmergencyMessages
  LightctlCodes = {1}
  StackValues = {0}
  MaxErrors = 4
  MaxCommands = 1
  MaxRaces = 0
INVARIANTS
  HazardLightsBothTurns
CHECK_DEADLOCK FALSE
