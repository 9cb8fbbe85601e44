\* Liveness: a task that asks for timeouts, two threads, one caller.
CONSTANTS
  Tasks = {t1, t2}
  Callers = {c1}
  kKillEvent = kKill
  kIdleEvent = kIdle
  kAlive = kAlive
  Events = {kKill}
  Timed = {t1}
  Pinned = {}
  NumShort = 1
  NumBlocking = 1
  PickerWidth = 1
  NoTask = NoTask
  NoThread = NoThread
SPECIFICATION FairSpec
PROPERTIES
  EventuallyRun
CHECK_DEADLOCK FALSE
