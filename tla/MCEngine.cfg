CONSTANTS
  t1 = t1
  t2 = t2
  c1 = c1
  Torrent <- TwoTorrents
  MaxRuns = 2
  BusCap = 14
  Caller <- OneCall
  Magnet <- FirstIsMagnet
  MaxActive = 1
  NewMaxActive <- FixedLimit
  Ops <- RemoveOnly
SPECIFICATION Spec
INVARIANTS
  
  
  NoSlotForgotten
CHECK_DEADLOCK FALSE
