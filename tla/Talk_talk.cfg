SPECIFICATION Spec
CONSTANTS
  Convs = {1, 2}
  MaxTurns = 4
  MaxMsgs = 5
INVARIANTS
  TypeOK
  OneConversation
PROPERTIES
  TurnsGoForward
CHECK_DEADLOCK FALSE
