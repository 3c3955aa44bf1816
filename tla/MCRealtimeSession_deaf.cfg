SPECIFICATION FairSpec
CONSTANTS
  Loads <- Mumbling
  GenModulus = 16
  Endings = {"text", "tools", "silence"}
  TtsMayFail = TRUE
PROPERTIES
  MicAlwaysReopens
