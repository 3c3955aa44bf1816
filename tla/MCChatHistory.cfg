SPECIFICATION Spec
CONSTANTS
  Size = 2
  Calls = {c1}
  MaxItems = 8
  MaxResets = 1
CHECK_DEADLOCK FALSE
INVARIANTS
  HistorySound
  SplicesFit
PROPERTIES
  LatestTurnKept
  FlagClears
