SPECIFICATION Spec
CHECK_DEADLOCK FALSE
CONSTANTS
  s1 = s1
  s2 = s2
  v1 = v1
  v2 = v2
  i1 = i1
  i2 = i2
  Ids <- MCIds
  Voices <- MCVoices
  Invites <- MCInvites
  Clips <- MCClips
  Loads <- MCLoads
  MaxRequests = 3
  MaxTurns = 2
INVARIANT NeverWrongAttribution
