SPECIFICATION MeteringSpec
CONSTANTS
  MaxResponses = 2
  MaxItems = 5
  InterruptModes <- InterruptBoth
  Durations = {0}
  MaxUsage = 0
  MaxCalls = 0
CHECK_DEADLOCK FALSE
INVARIANTS
  OneItemPerResponse
