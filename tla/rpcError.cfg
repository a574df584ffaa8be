SPECIFICATION Spec
CONSTANTS
  Settings <- ErrorInGo
  Calls = {1}
  MaxRaw = 2
CHECK_DEADLOCK FALSE
INVARIANTS
  NothingAfterClose
