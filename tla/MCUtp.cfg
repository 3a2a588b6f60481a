SPECIFICATION FairSpec
CONSTANTS
  SeqMod = 8
  MaxRetransmits = 1
  ReorderMax = 1
  RecvCap = 2
  AcceptCap = 1
  MaxSyn = 2
  MaxCwnd = 2
  MaxConns = 2
  NetCap = 2
  FirstSeq = 6
  Plans <- MCPlans
INVARIANTS ConnSound
PROPERTIES ServerStreams BufferDrains
CHECK_DEADLOCK FALSE
