\* A fast console loses an interrupt and falls silent.
SPECIFICATION Spec
CONSTANTS
  Words <- MCTwoKeys
  LineMax = 32
  MaxWords = 2
  Paced = FALSE
PROPERTIES
  TypedIsRead
CHECK_DEADLOCK FALSE
