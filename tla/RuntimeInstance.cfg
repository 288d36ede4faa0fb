CONSTANTS
  Callers = {caller}
  NoOne = NoOne
  MaxOps = 3
  MaxBackground = 1
SPECIFICATION FairSpec
CHECK_DEADLOCK FALSE
INVARIANTS NothingLeftBehind
PROPERTIES StopFreezes EverythingReturns
