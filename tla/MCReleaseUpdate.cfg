SPECIFICATION Spec
CONSTANTS
  u1 = u1
  u2 = u2
  None = None
  Mixed = Mixed
  Updaters = {u1, u2}
  Latest = 2
  MaxRequests = 1
  MaxFaults = 2
INVARIANTS Safety
PROPERTIES NoWorkCutOff DecisionKept SwitchEnds
