SPECIFICATION Spec
CHECK_DEADLOCK FALSE
CONSTANTS
  a = a
  b = b
  Sessions = {a, b}
  Loads <- MCLoads
INVARIANT CapHolds
