CONSTANTS
  NumPieces = 3
  EndgameFloor = 1
  CancelCap = 1
  Levels <- MCLevels
  Bitfields <- MCBitfields
  SkipMasks <- MCSkipMasks
SPECIFICATION QSpec
INVARIANTS BucketsExact DoneIsGone
PROPERTIES RarestFirst
