SPECIFICATION MCSpec
CONSTANTS
  NumTxns = 4
  Tokens = {a, b}
  Callers = {c1, c2}
  Retention = 1
  MaxTime = 2
  MaxGroups = 2
  Scripts <- Suite
  MaxGeneration = 60
  MaxCount = 9
  MaxWallTime = 1000
SYMMETRY Symmetry
INVARIANTS IndexAgrees ReferencedReceiptIsKept ContractHolds
PROPERTIES IdentityNeverReused
CHECK_DEADLOCK FALSE
