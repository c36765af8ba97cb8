SPECIFICATION Spec
CONSTANTS
  t1 = t1
  t2 = t2
  Thread = {t1, t2}
  Iters = 3
  Configs <- Safe
  MaxSendWr = 5
  SqDepth = 5
  PollBatch = 2
INVARIANTS TypeOK CountersTrack DeallocSafe
PROPERTIES AllJoin
CHECK_DEADLOCK FALSE
