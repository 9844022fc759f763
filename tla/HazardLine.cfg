\* The documented lines hazard=1 and brake=1 switch a lamp off instead.
SPECIFICATION Spec
CONSTANTS
  Words <- MCHazardWords
  LineMax = 32
  MaxWords = 1
  Paced = TRUE
INVARIANTS
  WordsUnderstood
CHECK_DEADLOCK FALSE
