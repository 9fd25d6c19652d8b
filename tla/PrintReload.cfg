CONSTANTS
  Null = Null
  Letter = {1, 2, 3, 4, 5}
  MaxKeycodes = 2
  Bad = Bad
  Absent = Absent
  NoButton = NoButton
  StylusGroup <- MCStylus
  Wacom = 1386
  File <- MCFile
SPECIFICATION ReloadSpec
INVARIANTS
  ReadsBack
  AnswersKept
  Settles
CHECK_DEADLOCK FALSE
