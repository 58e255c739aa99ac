SPECIFICATION Spec
CONSTANTS
  j1 = j1
  j2 = j2
  t1 = t1
  t2 = t2
  NoJob = NoJob
  Jobs = {j1, j2}
  ThreadOf <- TwoThreads
  KindOf <- AuditRead
  MaxFaults = 2
  MaxAttempts = 4
INVARIANTS Integrity RecoveryNeverWedges
