SPECIFICATION AppSpec
CONSTANTS
  Proc = {0, 1, 2}
  Peers <- AllPeers
  Vbuf = {1, 2}
  MaxSendWr = 2
  SqDepth = 2
  RecvCap = 4
  PollBatch = 2
  Kinds = {"send", "write"}
  MaxSends <- Unbounded
  MaxFaults = 0
  Programs <- FanInPrograms
PROPERTIES ReceiveReturns
CHECK_DEADLOCK FALSE
