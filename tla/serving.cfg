SPECIFICATION FairSpec
CONSTANTS
  Settings <- AllSettings
  Clients = {1, 2}
  Loops = {1, 2}
CHECK_DEADLOCK FALSE
INVARIANTS
  TypeOK
  EachOnceInOrder
PROPERTIES
  EveryoneServed
  EveryoneReturns
