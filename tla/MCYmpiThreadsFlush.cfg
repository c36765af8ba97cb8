SPECIFICATION Spec
CONSTANTS
  t1 = t1
  t2 = t2
  Thread = {t1, t2}
  Iters = 1
  Configs <- Source
  MaxSendWr = 3
  SqDepth = 3
  PollBatch = 2
PROPERTIES FlushCompletes
CHECK_DEADLOCK FALSE
