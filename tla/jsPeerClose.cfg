SPECIFICATION FairSpec
CONSTANTS
  Settings <- Numbers
  Window = 2
  MaxPayload = 2
  MaxInFlight = 2
CHECK_DEADLOCK FALSE
PROPERTIES
  ClosedIsClosed
