CONSTANTS
  p1 = p1
  p2 = p2
  s1 = s1
  NumPieces = 2
  EndgameFloor = 5
  CancelCap = 1
  Levels <- MCLevels
  Bitfields <- NoBitfields
  SkipMasks <- NoSkips
  Peer = {p1, p2}
  InitialPeers <- TwoPeers
  WebSeed = {}
  Queued <- AllPieces
  Announced <- OnlySeeds
  MaxPeers = 2
  DialSlots = 1
  ResultCap = 1
  PrioritizeFirstLast = FALSE
  Sequential = FALSE
  MaxHaves = 0
SPECIFICATION Spec
INVARIANTS CompleteMeansWritten
CHECK_DEADLOCK FALSE
