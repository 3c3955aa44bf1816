SPECIFICATION MeteringSpec
CONSTANTS
  MaxResponses = 2
  MaxItems = 5
  InterruptModes <- InterruptOn
  Durations = {0, 1}
  MaxUsage = 1
  MaxCalls = 1
CHECK_DEADLOCK FALSE
INVARIANTS
  CountersSound
  ConnCoherent
  StreamWellFormed
  UsageConserved
PROPERTIES
  NothingAfterDone
  ImplementsLifecycle
