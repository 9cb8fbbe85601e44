\* Every fault: missing and broken files, intervals passed over, a database
\* that cannot be reached, a restart; starts at every point of a period.
CONSTANTS
  MAX_HITS_NUM = 3
  FirstJobs = {3, 4, 5}
  Gaps = {1, 2}
  LastJob = 7
  Files <- AllFiles
  Outside <- MCOutside
  Connects = {TRUE, FALSE}
  MaxRestarts = 1
SPECIFICATION Spec
INVARIANTS
  RingInOrder
  CountedOnce
PROPERTIES
  StampIsOldest
  SavedAtPeriodEnd
CHECK_DEADLOCK FALSE
