\* No fault, and a start with the first interval of a period.
CONSTANTS
  MAX_HITS_NUM = 3
  FirstJobs = {3}
  Gaps = {1}
  LastJob = 12
  Files = {"full"}
  Outside <- MCOutside
  Connects = {TRUE}
  MaxRestarts = 0
SPECIFICATION Spec
INVARIANTS
  WholePeriodSaved
CHECK_DEADLOCK FALSE
