CONSTANTS
  NDirs = 2
  match1 = match1
  match2 = match2
  aGroup = aGroup
  stylus1 = s1
  tablet1 = n1
  StylusFileName = {s1, s2}
  StylusFiles <- MCStylusFiles
  Vid = {0, 2, 5}
  Tool = {1, 2, 3}
  WacomVid = 2
  NoVid = 0
  Half = 4
  GenericTool = {3}
  GroupName = {aGroup}
  Unset = Unset
  Bad = Bad
  NoStylus = NoStylus
  FileName = {n1, n2}
  MatchString = {match1, match2}
  MatchArrays <- MCMatchArrays
  NoDevice = NoDevice
  StyliLists <- MCStyliLists
SPECIFICATION MCSpec
INVARIANTS
  NoDangling
  StyliCurrent
  ReleasedExact
  LiveExact
  StyliDetermined
  LegacyStyliResolve
  LegacyPairsResolve
  StyliReadBack
  StyliSorted
CHECK_DEADLOCK FALSE
