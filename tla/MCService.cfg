SPECIFICATION Service
CONSTANTS
  MaxRunners = 3
  MaxOps = 2
  MaxFaults = 2
  Windows = {}
  People = {m1, m2}
  Automatic = Automatic
  MaxIds = 4
  MaxGates = 2
  MaxChecks = 1
  MaxTries = 2
  MaxFailures = 2
  f1 = f1
  f2 = f2
  MaxMessages = 3
  Attachments = {f1, f2}
  MessageOf <- Where
  MaxTroubles = 1
  Replied = {2}
  MaxHistory = 1
  Retention = 0
  Tombstones = 1
  MaxTime = 2
  MaxDeaths = 1
INVARIANTS Safety UpkeepSafety HistorySafety
PROPERTIES ServiceKept Settles
CHECK_DEADLOCK FALSE
