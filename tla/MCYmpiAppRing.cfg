SPECIFICATION AppSafety
CONSTANTS
  Proc = {0, 1, 2}
  Peers <- AllPeers
  Vbuf = {v1, v2, v3}
  MaxSendWr = 2
  SqDepth = 2
  RecvCap = 4
  PollBatch = 1
  Kinds = {"send", "write"}
  MaxSends <- Unbounded
  MaxFaults = 0
  Programs <- RingPrograms
VIEW ProgressView
INVARIANTS NeverStuck
CHECK_DEADLOCK FALSE
