CONSTANTS
  Callers = {caller}
  NoOne = NoOne
  MaxOps = 2
  MaxBackground = 0
SPECIFICATION Spec
CHECK_DEADLOCK FALSE
INVARIANT ShutdownDeregisters
