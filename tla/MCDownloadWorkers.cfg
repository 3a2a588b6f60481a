CONSTANTS
  p1 = p1
  p2 = p2
  s1 = s1
  NumPieces = 2
  EndgameFloor = 1
  CancelCap = 1
  Levels <- MCLevels
  Bitfields <- NoBitfields
  SkipMasks <- Skips
  Peer = {p1, p2}
  InitialPeers <- TwoPeers
  WebSeed = {}
  Queued <- AllPieces
  Announced <- MixedPeers
  MaxPeers = 2
  DialSlots = 1
  ResultCap = 1
  PrioritizeFirstLast = FALSE
  Sequential = FALSE
  MaxHaves = 1
SPECIFICATION Spec
INVARIANTS ExclusiveBeforeEndgame NoResultLost NoSendAfterClose
CHECK_DEADLOCK FALSE
