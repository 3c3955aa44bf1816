SPECIFICATION FairSpec
CONSTANTS
  Conns = {c1, c2, c3}
  MaxSignals = 2
CHECK_DEADLOCK FALSE
INVARIANTS
  TypeOK
  WarmedOnce
  SessionEquipped
PROPERTIES
  EveryoneAnswered
