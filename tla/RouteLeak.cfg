SPECIFICATION Spec
CONSTANTS
  Sends = {t1, t2}
  Internal = {}
  Rejects = {t3}
  Inherited = {t3}
  Capacity = 1
  Permits = 1
  TerminalCap = 1
  Retention = 1
  Batch = 1
  MaxNow = 1
  MaxRestarts = 0
INVARIANT FailurePathsRecorded
CHECK_DEADLOCK FALSE
