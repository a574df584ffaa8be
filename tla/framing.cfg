SPECIFICATION FairSpec
CONSTANTS
  Kinds <- AllKinds
  Coders <- AllCoders
  Messages <- OneOfEach
  MaxMessages = 2
CHECK_DEADLOCK FALSE
INVARIANTS
  TypeOK
  DecodedAsSent
  StopsOnlyWhen
PROPERTIES
  AllDecoded
