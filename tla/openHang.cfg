SPECIFICATION FairSpec
CONSTANTS
  ChanSize = 1
  Settings <- OneOpen
  MaxOpens <- OneByClient
  MaxInFlight = 2
CHECK_DEADLOCK FALSE
PROPERTIES
  OpenReturns
