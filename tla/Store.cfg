SPECIFICATION FairSpec
CONSTANTS
  Callers = {c1, c2}
  IdentityCallers = {c1}
  Purposes = {p1, p2}
  IdentityPurpose = p1
  MaxTxn = 3
  MaxFaults = 1
  Detached = FALSE
INVARIANTS ExclusiveProviderCall JournalProvesCommit 
PROPERTY EveryCallReturns
CHECK_DEADLOCK FALSE
