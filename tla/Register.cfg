SPECIFICATION Spec
CONSTANTS
  NumNames = 2
  Writers = {1, 2}
  Digests = {1}
  MaxTime = 1
  None = none
  Self = 1
  Supervisor = s
  Consumers = {c1}
  MaxAttempts = 2
  Received <- Foreign
  Faults = TRUE
  Retention = 1
  Cap = 1
  MaxRevision = 3
PROPERTIES Refines RemovalIsExact
CHECK_DEADLOCK FALSE
