SPECIFICATION Spec
CONSTANTS
  Loads <- CancellingTwice
  GenModulus = 16
  Endings = {"text", "tools", "silence"}
  TtsMayFail = TRUE
PROPERTIES
  CancelledStaysSilent
