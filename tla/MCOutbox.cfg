SPECIFICATION Spec
CONSTANTS
  N = 1
  None = None
  Thread <- OneThread
  Broken <- NoJob
  Kinds <- Talk
  MaxAttempts = 2
  MaxNotes = 1
  MaxSaid = 2
  MaxFaults = 1
CHECK_DEADLOCK FALSE
PROPERTIES ThreadReadsWell NoticesAreLive
