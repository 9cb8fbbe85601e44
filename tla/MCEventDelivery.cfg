\* Two sessions and their descriptors, used again for a third connection, one
\* failing accept; the pipe just large enough.
CONSTANTS
  s1 = s1
  s2 = s2
  Sessions <- TwoSessions
  FDs <- TwoFDs
  MaxId = 9
  PipeCap = 6
  ReadSize = 6
  MaxConns = 3
  MaxSends = 2
  MaxErrors = 1
SPECIFICATION FairSpec
INVARIANTS
  RightOwner
  Accounted
  NeverStuckOnPipe
PROPERTIES
  EventuallyServed
CHECK_DEADLOCK FALSE
