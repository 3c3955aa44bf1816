SPECIFICATION FairSpec
CONSTANTS
  Loads <- AskingAgain
  GenModulus = 16
  Endings = {"text", "tools", "silence"}
  TtsMayFail = TRUE
PROPERTIES
  StaleAudioDropped
