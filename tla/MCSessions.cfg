SPECIFICATION FairSpec
CONSTANTS
  Conns = {c1, c2}
  MaxSessions = 2
CHECK_DEADLOCK FALSE
INVARIANTS
  CapacityHeld
  SessionsSound
PROPERTIES
  EveryoneLeaves
