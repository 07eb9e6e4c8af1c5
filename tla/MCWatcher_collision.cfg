SPECIFICATION Spec
CONSTANTS
  A = A
  B = B
  Tenants <- MCTenants
  Pool <- PoolSmall
  Keys <- MCKeys
  StateKey <- KeyColliding
  Stamps = {1, 2}
  MaxRows = 2
  Window = 2
  MinEvents = 1
  MaxRunsPerCycle = 1
  SearchLimit = 2
  Ticks = {1}
  MaxTime = 3
  QueriesMayFail = FALSE
  RunsMayFail = FALSE
  StatesMayFail = FALSE
INVARIANT
  CheckpointedNotRepeated
CHECK_DEADLOCK FALSE
