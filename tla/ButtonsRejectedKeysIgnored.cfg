CONSTANTS
  Letter = {1, 2, 3}
  ButtonFile <- MCButtonFile
  MaxKeycodes = 2
  Bad = Bad
  Absent = Absent
  NoButton = NoButton
SPECIFICATION ButtonSpec
INVARIANTS
  RejectedKeysIgnored
CHECK_DEADLOCK FALSE
