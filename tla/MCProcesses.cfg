SPECIFICATION Processes
CHECK_DEADLOCK FALSE
CONSTANTS
  p1 = p1
  p2 = p2
  p3 = p3
  i1 = i1
  i2 = i2
  None = None
  Pids <- ThreePids
  Inodes <- TwoInodes
  MaxGenerations = 3
  MaxNonces = 3
  MaxFaults = 1
  Kinds = {"update", "advisor", "host"}
  Windows = {}
  MaxMishaps = 3
  Root = Root
  Others = {p1, p2, p3}
  MaxPasses = 5
INVARIANTS Safety CommandSafety
PROPERTIES UncertaintyIsKept Settles
