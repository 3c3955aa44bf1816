SPECIFICATION FairSpec
CONSTANTS
  Loads <- BargingIn
  GenModulus = 16
  Endings = {"text", "tools", "silence"}
  TtsMayFail = TRUE
INVARIANTS
  GuardHasSentinel
