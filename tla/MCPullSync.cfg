CONSTANTS
  topology <- MCTopology
  Modules <- Servers
  Payload <- Messages
  Delay <- Delays
  ReportInterval = 4
  Duration = 60
  Flooding = {3}
  blockArrivalBurst = 2
  Intervals = {0, 1, 2, 4}
  MaxTx = 4
SPECIFICATION PullSpec
INVARIANTS
  EventsInTime
  ExchangeOnce
PROPERTIES
  ImplementsLinks
  AllReceived
CHECK_DEADLOCK FALSE
