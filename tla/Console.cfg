\* A console that types slowly: every documented word but hazard= and brake=.
SPECIFICATION Spec
CONSTANTS
  Words <- MCWords
  LineMax = 6
  MaxWords = 3
  Paced = TRUE
INVARIANTS
  WordsUnderstood
  ConsoleTypeOK
PROPERTIES
  TypedIsRead
CHECK_DEADLOCK FALSE
