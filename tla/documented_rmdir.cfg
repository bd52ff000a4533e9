SPECIFICATION Spec
CONSTANTS
  a = a
  b = b
  Name <- MCName
  Paths <- MCPaths
  NewModes = {"none"}
  Modes = {"none"}
  MaxIno = 4
  MaxNames = 2
  MaxLinks = 2
  MaxHeld = 1
  FirstSurvives = TRUE
PROPERTIES RmdirRemovesTheName
CHECK_DEADLOCK FALSE
