SPECIFICATION Spec
CONSTANTS
  Proc = {0, 1}
  Peers <- Hub
  Vbuf = {v1, v2}
  MaxSendWr = 2
  SqDepth = 2
  RecvCap = 2
  PollBatch = 2
  Kinds = {"send"}
  Load = 3
  MaxSends <- HubLoad
  MaxFaults = 1
SYMMETRY VbufSymmetry
INVARIANTS MessagesConserved VbufsConserved ExitsOnlyOnFault
PROPERTIES PointersStable ChannelSpec
CHECK_DEADLOCK FALSE
