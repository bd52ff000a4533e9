SPECIFICATION Spec
CONSTANTS
  a = a
  b = b
  Name <- MCName
  Paths <- MCOddPaths
  NewModes = {"none", "chr"}
  Modes = {"none", "dir"}
  MaxIno = 3
  MaxNames = 2
  MaxLinks = 2
  MaxHeld = 1
  FirstSurvives = FALSE
INVARIANTS NoForwardReference
CHECK_DEADLOCK FALSE
