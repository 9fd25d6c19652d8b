CONSTANTS
  Null = Null
  DeviceFile <- MCDeviceFile
  ProbedFile <- MCProbedFile
  Builder <- MCBuilder
  Piece <- MCPiece
  Slot = {s1, s2}
  NoDevice = NoDevice
  Chain <- MCChain
  NoPath = NoPath
  NoNode = NoNode
SPECIFICATION FairProbeSpec
INVARIANTS
  MatchesDistinct
  FindsBest
  DefaultMatchFits
  RoundTrip
  ErrorTellsFailure
  IdsFromOneSource
  TabletFound
  IntegrationDecided
PROPERTY
  CallEnds
CHECK_DEADLOCK FALSE
