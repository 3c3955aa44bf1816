SPECIFICATION Spec
CONSTANTS
  Conns = {c1, c2}
  MaxSessions = 2
CHECK_DEADLOCK FALSE
INVARIANTS Isolated
