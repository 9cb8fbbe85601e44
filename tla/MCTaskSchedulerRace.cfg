\* One task and everything that can race for it: two callers, two short
\* threads and a blocking one, timeouts and pinned Runs.
CONSTANTS
  Tasks = {t1}
  Callers = {c1, c2}
  kKillEvent = kKill
  kIdleEvent = kIdle
  kAlive = kAlive
  Events = {kKill, kRead}
  Timed = {t1}
  Pinned = {t1}
  NumShort = 2
  NumBlocking = 1
  PickerWidth = 2
  NoTask = NoTask
  NoThread = NoThread
SPECIFICATION Spec
INVARIANTS
  IInv
PROPERTIES
  EventsGoToRun
  PinnedRunsThere
  KeepsPromise
SYMMETRY SymmetryCallers
CHECK_DEADLOCK FALSE
