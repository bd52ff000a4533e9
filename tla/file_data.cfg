SPECIFICATION Spec
CONSTANTS
  x = x
  y = y
  NUL = NUL
  Char <- MCChar
  MaxLen = 5
  MaxBuf = 3
  Word = 256
SYMMETRY MCSymmetry
INVARIANTS TypeOK SizeWithinData ReadLoopComplete
PROPERTIES DirectoryKeepsData WriteIsLocal
