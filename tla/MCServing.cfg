SPECIFICATION FairSpec
CONSTANTS
  Peer = {1, 2, 3}
  Piece = {1, 2}
  Slots = 1
  MaxUploaders = 3
  Plans <- MCPlans
  D = 2
  Lengths <- MCLengths
  BlockSize = 2
  Targets = {1, 2}
  maxUnexpectedMessages = 100
  StreamCap = 2
INVARIANTS StoppedIsQuiet Announced ChokeAgrees PipelineExact
PROPERTIES StopEnds NobodyStarves EndsByItself
CHECK_DEADLOCK FALSE
