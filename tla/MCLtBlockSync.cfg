CONSTANTS
  topology <- MCTopology
  Modules <- Servers
  Payload <- MCPayload
  Delay <- Delays
  ReportInterval = 8
  Duration = 30
  detectThreshold = 2
  OverheadNum = 2
  OverheadDen = 1
  LossNum = 1
  LossDen = 3
  forceSynchronize <- MCForceSynchronize
  minInterval = 1
  blockArrivalBurst = 3
  Intervals = {1, 3}
  MaxTx = 4
  Degrees = {1, 4}
  MaxCodewords = 3
SPECIFICATION Spec
INVARIANTS
  InFlightExact
  BlockHandshake
  ForwardedOnce
  Paced
CHECK_DEADLOCK FALSE
