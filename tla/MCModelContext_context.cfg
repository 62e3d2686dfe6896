SPECIFICATION Spec
CONSTANTS
  Messages = 2
  MaxReplies = 3
  MaxTurns = 3
  CompactKeep = 1
  Shapes <- ReplyShapes
INVARIANTS
  ContextReplays
  RequestAccepted
CHECK_DEADLOCK FALSE
