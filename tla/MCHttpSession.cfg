\* Small buffers everywhere, all kinds of requests, alone, pipelined and in parts,
\* and a client that leaves at any time.
CONSTANTS
  Scripts <- Mixed
  ReqCap = 2
  RspCap = 4
  SndCap = 5
  ReadSize = 2
  PageSize = 2
  FileSize = 3
SPECIFICATION FairSpec
INVARIANTS
  NoLostWakeup
  FitsBuffer
  InOrder
PROPERTIES
  Closes
  Answered
CHECK_DEADLOCK FALSE
