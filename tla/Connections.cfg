\* Session tables: crossed and repeated dials, recovery, losses, restarts and disconnects.
CONSTANTS
  Lower = lower
  Higher = higher
  c1 = c1
  c2 = c2
  c3 = c3
  None = none
  Connections = {c1, c2, c3}
  Recovery = TRUE
  MaxCommands = 2
  MaxFaults = 1
SPECIFICATION MCSpec
INVARIANT ServingIsRegistered
PROPERTIES Settles Heals
CHECK_DEADLOCK FALSE
