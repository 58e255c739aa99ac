SPECIFICATION Spec
CONSTANTS
  j1 = j1
  j2 = j2
  t1 = t1
  t2 = t2
  NoJob = NoJob
  Jobs = {j1, j2}
  ThreadOf <- OneThread
  KindOf <- WriteRead
  MaxFaults = 1
  MaxAttempts = 3
PROPERTIES
  StagedResultSurvives
