SPECIFICATION FairSpec
CONSTANTS
  Settings <- AllSettings
  Calls = {1}
  MaxRaw = 2
CHECK_DEADLOCK FALSE
INVARIANTS
  TypeOK
  AnswerIsHandlers
  FailsOnlyWhen
  LoopsSurvive
  HijackedOut
PROPERTIES
  HandleReaches
  CallsEnd
