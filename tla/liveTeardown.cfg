SPECIFICATION FairSpec
CONSTANTS
  WindowOf <- OneEach
  MaxPacketOf <- OneEach
  Word = 3
  MaxBytes <- OneByte
  MaxInFlight = 2
  MayCloseSession <- OpenerOnly
CHECK_DEADLOCK FALSE
INVARIANTS
  IInv
  EofAfterData
  OnlyLateDataKills
PROPERTIES
  TeardownCompletes
