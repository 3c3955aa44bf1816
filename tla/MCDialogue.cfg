SPECIFICATION DialogueSpec
CONSTANTS
  Size = 2
  Calls = {c1}
  MaxItems = 6
  MaxResets = 0
  MaxRequests = 2
CHECK_DEADLOCK FALSE
INVARIANTS
  PromptSound
PROPERTIES
  ImagesOnce
