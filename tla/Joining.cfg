\* Two joiners on two connections; two nodes that authenticate; a limiter with a
\* table for two of three sources.
SPECIFICATION MCSpec
CONSTANTS
  j1 = j1
  j2 = j2
  c1 = c1
  c2 = c2
  Joiners = {j1, j2}
  Connections = {c1, c2}
  MaxGenerations = 2
  MaxFaults = 3
  Builtin = {"core"}
  Session = {"core"}
  Extensions = {"ext"}
  Dependencies <- Depends
  Contracts = {"c1", "c2"}
  Dialer = "a"
  Target = "b"
  Listeners = {"b", "c"}
  Clusters = {"k1", "k2"}
  Credentials = {"g1", "g2"}
  Addresses <- FourAddresses
  Attempts = {1, 2, 3}
  None <- NoAddress
  PendingPerSource = 1
  PendingGlobal = 2
  RatePerSource = 2
  RateGlobal = 4
  BucketLimit = 2
  Window = 1
  Lifetime = 2
INVARIANTS SingleUse AdoptedIsAdmitted ReservedHasHolder Agreement SlotsAreCounted
PROPERTIES AttemptsEnd CompatibleConnect
CHECK_DEADLOCK FALSE
