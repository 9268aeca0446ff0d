SPECIFICATION MCSpec
CONSTANTS
  MaxFrameBytes = 2
  MaxPendingFrames = 3
  MaxPendingBytes = 4
  MaxRecords = 5
  a = a
  b = b
INVARIANT LogIsSound
INVARIANT MatrixIsComplete
INVARIANT ArtifactIsSound
 
CHECK_DEADLOCK FALSE
