\* Finding: an answer of more than the socket takes at once.
CONSTANTS
  Scripts <- Single
  ReqCap = 2
  RspCap = 4
  SndCap = 1
  ReadSize = 2
  PageSize = 2
  FileSize = 4
SPECIFICATION Spec
INVARIANTS
  RestIsSent
CHECK_DEADLOCK FALSE
