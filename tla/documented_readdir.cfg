SPECIFICATION StreamSpec
CONSTANTS
  a = a
  b = b
  c = c
  Name <- MCName
  Paths <- MCPaths
  NewModes = {"none"}
  Modes = {"none"}
  MaxIno = 5
  MaxNames = 3
  MaxLinks = 3
  MaxHeld = 0
  FirstSurvives = FALSE
  MaxPassed = 3
CHECK_DEADLOCK FALSE
PROPERTIES ReadsNoFurtherThanTheEnd
