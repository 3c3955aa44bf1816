SPECIFICATION FairSpec
CONSTANTS
  Loads <- SmallLoads
  GenModulus = 16
  Endings = {"text", "tools", "silence"}
  TtsMayFail = TRUE
INVARIANTS
  QueuesSound
  SentinelConserved
PROPERTIES
  DeliveredInPlace
  NothingHangs
