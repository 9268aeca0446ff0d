SPECIFICATION FairSpec
CONSTANTS
  Clients = {a, b}
  Nobody = Nobody
  Capacity = 1
  WipeRetries = 1
  MaxFaults = 3
  MaxCalls = 3
  MaxTraces = 1
INVARIANT KeyCustody
INVARIANT FormerClusterForgotten
PROPERTY ResumedBeforeServing
PROPERTY EveryCallReturns
CHECK_DEADLOCK FALSE
