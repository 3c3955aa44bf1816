SPECIFICATION FairSpec
CHECK_DEADLOCK FALSE
CONSTANTS
  a = a
  b = b
  Sessions = {a, b}
  Loads <- MCLoads
INVARIANTS
  SlotsSound
  AbortsPromptly
PROPERTIES
  SlotGranted
  ImplementsPipelineLife
