SPECIFICATION Spec
CONSTANTS
  A = A
  B = B
  Tenants <- MCTenants
  Pool <- PoolTies
  Keys <- MCKeys
  StateKey <- KeyDistinct
  Stamps = {1, 2, 3}
  MaxRows = 3
  Window = 2
  MinEvents = 1
  MaxRunsPerCycle = 1
  SearchLimit = 2
  Ticks = {1}
  MaxTime = 3
  QueriesMayFail = FALSE
  RunsMayFail = FALSE
  StatesMayFail = FALSE
INVARIANT
  CheckpointedNotRepeated
CHECK_DEADLOCK FALSE
