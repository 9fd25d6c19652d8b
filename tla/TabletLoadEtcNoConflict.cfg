CONSTANTS
  NDirs = 3
  FileName = {n1, n2}
  a = a
  b = b
  MatchString = {a, b}
  MatchArrays <- MCMatchArrays
  NoDevice = NoDevice
SPECIFICATION TabletSpec
INVARIANTS
  EtcNoConflict
CHECK_DEADLOCK FALSE
