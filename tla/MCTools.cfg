SPECIFICATION Tools
CONSTANTS
  None = None
  review1 = review1
  Rounds <- OneRound
  First = None
  Second = None
  MaxRetry = 1
  MaxInput = 2
  MaxGen = 2
  Order <- Feeds
  Final = "status"
  Limit = 4
  ReadMax = 2
  MaxBytes = 6
  MaxCrash = 2
  Bare = Bare
  MaxOps = 2
  MaxFaults = 3
  Brokers = {b1, b2}
  MaxBuilds = 3
  MaxDeaths = 3
  Windows = {}
CHECK_DEADLOCK FALSE
INVARIANTS Safety BesideSafety
PROPERTIES TabKept Settles
