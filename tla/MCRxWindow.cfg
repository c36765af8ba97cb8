SPECIFICATION Spec
CONSTANTS
  W = 4
  Counts <- MCCounts
  Iters = 2
  Batch = 2
  Room = 1
INVARIANTS
  TypeOK WindowTracks WaitsOnlyAtLaggard FailsOnlyAfterFullFlush
PROPERTY Termination
CHECK_DEADLOCK FALSE
