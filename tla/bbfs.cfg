SPECIFICATION Spec
CONSTANTS
  t1 = t1
  t2 = t2
  a = a
  b = b
  h1 = h1
  h2 = h2
  r = r
  d = d
  s = s
  Thread <- MCThread
  Name <- MCName
  Handle <- MCHandle
  Regular = {r}
  Directory = {d}
  Other = {s}
  None = None
  MaxFd = 2
  MaxInodes = 1
  LogErrno = {"ENOSPC"}
  StaleErrno = {"OK", "ENOENT"}
INVARIANTS TypeOK DescriptorsOwned HandleKeepsItsObject AnswersTell
PROPERTIES ImplementsMounted
SYMMETRY MCSymmetry
