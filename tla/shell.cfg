SPECIFICATION Spec
CONSTANTS
  File = "f"
  Good = "1"
  Bad = "x"
  MaxRecord = 4
INVARIANTS TypeOK ReplayRepeats
PROPERTIES ReplayEnds ExitUnlessUnchecked
