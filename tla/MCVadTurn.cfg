SPECIFICATION FairSpec
CONSTANTS
  Pad = 3
  MinSilence = 2
  Pauses = {0, 2}
  MinSpeech = 5
  MaxSpeech = 8
  TurnMax = 14
INVARIANTS
  TypeOK
  TurnsBracketed
  AudioConserved
  ClosedMicIsIdle
PROPERTIES
  TurnEnds
