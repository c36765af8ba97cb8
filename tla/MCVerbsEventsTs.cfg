SPECIFICATION Spec
CONSTANTS
  Node = {0, 1, 2}
  QP = {0, 1}
  MaxFaults = 1
  RxDepth = 3
  Iters = 3
  NumTests = 2
  Programs <- MCEventsAndTimestamps
INVARIANT FailsOnlyOnFault
CHECK_DEADLOCK FALSE
