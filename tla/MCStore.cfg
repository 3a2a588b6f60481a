CONSTANTS
  t1 = t1
  t2 = t2
  p1 = p1
  p2 = p2
  Torrent <- TwoTorrents
  Proc <- TwoProcs
  MaxVersion = 3
  Ops <- AllOps
SPECIFICATION FairSpec
INVARIANTS
  NoGhost
  AddedSurvives
PROPERTIES
  SavedInTheEnd
