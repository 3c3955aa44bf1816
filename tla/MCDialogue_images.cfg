SPECIFICATION DialogueSpec
CONSTANTS
  Size = 2
  Calls = {c1}
  MaxItems = 5
  MaxResets = 0
  MaxRequests = 2
CHECK_DEADLOCK FALSE

PROPERTY ImagesSeen
