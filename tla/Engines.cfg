SPECIFICATION MCSpec
CONSTANTS
  h1 = h1
  h2 = h2
  t1 = t1
  t2 = t2
  k = k
  c1 = c1
  c2 = c2
  None = None
  Handles <- MCHandles
  Ids <- MCIds
  Keys <- MCKeys
  MaxGenerations = 3
  BarrierMayFail = TRUE
  OrderedLoss = TRUE
  MaxCrashes = 2
SYMMETRY Symmetric
INVARIANTS TablesAreTheLog SchemaIsWhole
PROPERTY JsonImplementsContract
CHECK_DEADLOCK FALSE
