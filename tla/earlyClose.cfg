SPECIFICATION Spec
CONSTANTS
  ChanSize = 1
  Settings <- ClosesEarly
  MaxOpens <- TwoByClient
  MaxInFlight = 3
CHECK_DEADLOCK FALSE
INVARIANTS
  Routed
