SPECIFICATION FairSpec
CONSTANTS
  Traces = {t1, t2}
  Unsupported = {t2}
  NumChunks = 2
  QueueMessages = 1
  PendingAdmissions = 1
  StreamChunks = 1
  WireFrames = 1
INVARIANT AckProvesAdmission
 
PROPERTY PendingIsAnswered
PROPERTY DeliveredArrives
CHECK_DEADLOCK FALSE
