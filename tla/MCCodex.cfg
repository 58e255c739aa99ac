SPECIFICATION Codex
CONSTANTS
  MaxAttempts = 2
  MaxFaults = 1
  Windows = {}
  MaxTurns = 2
  MaxReqs = 4
  MaxSlots = 2
  MaxAsks = 2
  MaxMishaps = 1
  MaxWire = 2
  EarlyLimit = 1
  Focus <- Freedoms
INVARIANTS Safety SessionSafety
PROPERTIES AnswersAreCurrent Settles
CHECK_DEADLOCK FALSE
