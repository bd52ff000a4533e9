SPECIFICATION Spec
CONSTANTS
  a = a
  b = b
  Name <- MCName
  Paths <- MCPaths
  NewModes = {"none", "chr"}
  Modes = {"none", "dir"}
  MaxIno = 4
  MaxNames = 2
  MaxLinks = 2
  MaxHeld = 1
  FirstSurvives = TRUE
SYMMETRY MCSymmetry
INVARIANTS TypeOK NoForwardReference
 
CHECK_DEADLOCK FALSE
