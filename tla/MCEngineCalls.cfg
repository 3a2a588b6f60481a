CONSTANTS
  t1 = t1
  t2 = t2
  c1 = c1
  Torrent <- OneTorrent
  MaxRuns = 2
  BusCap = 1
  Caller <- OneCall
  Magnet <- NoMagnets
  MaxActive = 1
  NewMaxActive <- AskForNone
  Ops <- AllButRemove
SPECIFICATION FairSpec
INVARIANTS
  CancelIsLive
PROPERTIES
  StopFinishes
CHECK_DEADLOCK FALSE
