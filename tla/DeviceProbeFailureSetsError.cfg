CONSTANTS
  Null = Null
  DeviceFile <- MCDeviceFile
  ProbedFile <- MCProbedFile
  Builder <- MCBuilder
  Piece <- MCPiece
  Slot = {s1, s2}
  NoDevice = NoDevice
  Chain <- MCChain
  NoPath = NoPath
  NoNode = NoNode
SPECIFICATION ProbeSpec
INVARIANT FailureSetsError
CHECK_DEADLOCK FALSE
