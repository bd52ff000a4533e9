SPECIFICATION CarefulSpec
CONSTANTS
  a = a
  b = b
  Name <- MCName
  Paths <- MCPaths
  NewModes = {"none"}
  Modes = {"none"}
  MaxIno = 5
  MaxNames = 3
  MaxLinks = 3
  MaxHeld = 1
  FirstSurvives = FALSE
SYMMETRY MCSymmetry
INVARIANTS LinkCountExact NamesResolve TreeShape VisitReportsAll ListersAgree
PROPERTIES  ImplementsTree
CHECK_DEADLOCK FALSE
