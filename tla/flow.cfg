SPECIFICATION FairSpec
CONSTANTS
  WindowOf <- NarrowWindow
  MaxPacketOf <- NarrowWindow
  Word = 4
  MaxBytes <- Bulk
  MaxInFlight = 3
  MayCloseSession <- NoOne
CHECK_DEADLOCK FALSE
INVARIANTS
  FlowControl
  InOrder
PROPERTIES
  ImplementsStream
  WriteReturns
  CloseCompletes
  ReaderSeesEnd
