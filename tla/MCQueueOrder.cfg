CONSTANTS
  t1 = t1
  t2 = t2
  t3 = t3
  t4 = t4
  Torrent <- FourTorrents
  MaxPos = 4
SPECIFICATION Spec

  
PROPERTIES
  StaysDense
  OthersKeepOrder
