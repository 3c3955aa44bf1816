SPECIFICATION EchoFairSpec
CONSTANTS
  Frame = 5
  SpeexFrame = 8
  MicChunk = 16
  TtsChunk = 10
  FarCap = 30
  AppendSizes = {8, 16}
  SustainMin = 3
  SustainWindow = 2
CHECK_DEADLOCK FALSE
PROPERTY FarFollowsAgent
