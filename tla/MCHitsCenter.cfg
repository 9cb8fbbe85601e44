\* Starts at every point of a period, late wakeups, and one restart.
CONSTANTS
  oxeye_get_interval = 3
  MAX_HITS_NUM = 3
  StartTimes <- MCStartTimes
  SleepTimes <- MCSleepTimes
  MaxNow = 40
  Files = {"full"}
  Outside <- MCOutside
  Connects = {TRUE}
  MaxRestarts = 1
  DownTimes = {0}
SPECIFICATION CenterSpec
INVARIANTS
  SemCountsJobs
  InOrder
  PeriodsSaved
PROPERTIES
  RingSpec
  CatchesUp
CHECK_DEADLOCK FALSE
