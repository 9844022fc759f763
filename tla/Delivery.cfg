\* Two commands in quick succession: the second one is read twice.
SPECIFICATION DSpec
CONSTANTS
  Messages <- MCMessages
  LightctlCodes = {}
  MaxErrors = 3
INVARIANTS
  SafeModeAfterTwo
CHECK_DEADLOCK FALSE
