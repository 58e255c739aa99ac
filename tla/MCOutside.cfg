SPECIFICATION Outside
CONSTANTS
  PCs = {"a", "b"}
  Scenes <- Turns
  MaxWork = 1
  MaxFaults = 1
  N = 2
  Promoted = {1}
  Followed = {1}
  Replaces = {1}
  MaxAttempts = 2
  MaxMishaps = 2
INVARIANTS Safety GitHubSafety
PROPERTIES PublicationKept Settles
CHECK_DEADLOCK FALSE
