SPECIFICATION FairSpec
CONSTANTS
  Settings <- AllSettings
  Window = 2
  MaxPayload = 2
  MaxInFlight = 2
CHECK_DEADLOCK FALSE
INVARIANTS
  ListInv
  OnlyOverrunKills
  Routed
  ReadsInOrder
  EofMeansAll
  NothingAfterClose
PROPERTIES
  EndTellsAll
  CallsReturn
