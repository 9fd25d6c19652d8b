CONSTANTS
  Null = Null
  Letter = {1}
  MaxKeycodes = 1
  Bad = Bad
  Absent = Absent
  NoButton = NoButton
  StylusGroup <- MCStylus
  Wacom = 1386
  File <- MCFile
  Slot = {s1, s2}
  Node = {n1, n2, n3}
  KernelFlags <- MCFlags
  NoDevice = NoDevice
SPECIFICATION ListSpec
INVARIANT OneOfAKind
CHECK_DEADLOCK FALSE
