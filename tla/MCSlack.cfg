SPECIFICATION Slack
CONSTANTS
  m1 = m1
  m2 = m2
  x = x
  Steers = {m1, m2}
  Stops = {x}
  MaxRounds = 2
  MaxChecks = 2
  MaxFaults = 2
  Casts <- Scenes
  MaxPosted = 3
  RootOf <- OneRoot
  KindSets <- Cases
  PageSize = 1
  MaxMishaps = 1
  None = None
  Thread <- OneThread
  Broken = {2}
  Topics = {"accepted", "note"}
  MaxAttempts = 1
  MaxNotes = 1
  MaxSaid = 3
  MaxFailures = 1
  StartAttempts = 3
  MaxAttempt = 3
  MaxDrops = 5
INVARIANTS Safety InSafety
PROPERTIES OrderKept Settles
CHECK_DEADLOCK FALSE
