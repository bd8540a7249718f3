CONSTANTS
  c1 = c1
  Client = {c1}
  MaxEvents = 2
  MaxResumes = 1
  MaxRestarts = 1
  MaxCancels = 1
  MaxFaults = 1
  ReplayLimit = 2
  ClientQueue = 2
  PersistQueue = 2
  Deltas = TRUE
  Strangers = FALSE
SPECIFICATION FairSpec
INVARIANTS NothingVanishes InOrder
PROPERTIES FlushedIsStored LeavesInformed ClientsReleased
CHECK_DEADLOCK FALSE
