SPECIFICATION MCSpec
CONSTANTS
  t1 = t1
  t2 = t2
  t3 = t3
  u1 = u1
  u2 = u2
  a = a
  b = b
  c = c
  d = d
  NoSession = NoSession
  Traces = {t1, t2}
  Ups = {u1, u2}
  Owner <- ReplacedOwner
  Peer <- SamePeer
  Replaces <- Second
  NumChunks <- TwoAndOne
  QueueMessages = 1
  Capacity = 2
  MaxPending = 1
  Members = {a, b, c, d}
  MaxHops = 3
INVARIANT LegInOrder
INVARIANT ClosedLeavesNoHop
INVARIANT PathIsSimple
PROPERTY ObservationKept
CHECK_DEADLOCK FALSE
