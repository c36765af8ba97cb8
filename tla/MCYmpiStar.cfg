SPECIFICATION Spec
CONSTANTS
  Proc = {0, 1}
  Peers <- Star
  Vbuf = {v1}
  MaxSendWr = 2
  SqDepth = 2
  RecvCap = 2
  PollBatch = 2
  Kinds = {"send", "write", "read"}
  Load = 3
  MaxSends <- StarLoad
  MaxFaults = 2
INVARIANTS TypeOK CountersExact OverrunsOnlyOverdrawn
PROPERTIES FlushCompletes
CHECK_DEADLOCK FALSE
