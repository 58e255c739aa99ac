SPECIFICATION Spec
CONSTANTS
  r1 = r1
  r2 = r2
  Stop = Stop
  None = None
  Replies <- TwoReplies
  MaxAttempts = 2
  MaxFaults = 1
CHECK_DEADLOCK FALSE
INVARIANTS Safety
PROPERTIES CancelFreezes EverythingSettles
