SPECIFICATION Spec
CONSTANTS
  file = file
  dangling = dangling
  toLink = toLink
  gone = gone
  Path <- MCPath
  MaxIno = 3
  FileAt <- MCFileAt
  LinkTo <- MCLinkTo
  FirstType <- MCFirstType
  Modes = {"none", "dir", "lnk"}
  Perm = {"r"}
  Owner = {0, 1}
  Times = {0}
  NameLen <- MCNameLen
  ValueLen = {1}
PROPERTIES RemovesTheAttribute
