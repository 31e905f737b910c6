CONSTANTS
  Peers = {p, q}
  Local = {l}
  Remote = {r}
  LocalCap = 1
  DecodedCap = 1
  SenderCap = 1
  ReceiverCap = 1
SPECIFICATION FairSpec
INVARIANTS
  RelayExact
  EchoBounded
PROPERTIES
  OnlyWedgeStops
  WedgeIsPermanent
CHECK_DEADLOCK FALSE
