CONSTANTS
  t1 = t1
  t2 = t2
  t3 = t3
  topology <- MCTopology
  Tx = {t1, t2, t3}
  Origins <- MCOrigins
  Flooding = {1}
  NumShards = 2
  HashMax = 7
  ShardHash <- MCHash
  OverheadNum = 1
  OverheadDen = 2
  MaxCells = 3
SPECIFICATION FairSpec
INVARIANTS
  NothingLost
  DecoderAligned
  InFlightExact
PROPERTIES
  Spreads
CHECK_DEADLOCK FALSE
