SPECIFICATION Spec
CONSTANTS
  ChanSize = 1
  Settings <- Crossing
  MaxOpens <- OneEach
  MaxInFlight = 3
CHECK_DEADLOCK FALSE
INVARIANTS
  ListInv
  Routed
  NoStray
  OpenAgreed
