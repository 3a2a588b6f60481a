SPECIFICATION DSpec
CONSTANTS
  Bits = 3
  K = 2
  Alpha = 2
  MaxLookupNodes = 3
  MaxLookupPeers = 2
  Remote <- MCRemote
  V6 = {6}
  Knows <- MCKnows
  Values <- MCValues
  Boot = {4}
  Getter <- MCGetter
  Erring = {3}
  Target = 5
  Txn = {1, 2, 3}
  Tracker = {"t1", "t2"}
  BatchCap = 3
  FetchSlots = 2
  SinkCap = 1
  StallTicks = 2
  Plans <- MCPlans
INVARIANTS DhtSound AttemptSound PrivateSilent StallExact
PROPERTIES LookupEnds  SeedIsListed
CHECK_DEADLOCK FALSE
