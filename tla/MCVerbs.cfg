SPECIFICATION Spec
CONSTANTS
  Node = {0, 1, 2}
  QP = {0, 1}
  MaxFaults = 1
  RxDepth = 2
  Iters = 3
  NumTests = 2
  Programs <- MCPrograms
INVARIANTS
  TypeOK QueuesFit NoLostWakeup NothingDropped FailsOnlyOnFault OneInFlight NoOrphans LeavesNothingElse
PROPERTY Termination
CHECK_DEADLOCK FALSE
