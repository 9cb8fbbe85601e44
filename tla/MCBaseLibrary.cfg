\* A heap that has to grow, two readers and a writer, short queues and tables.
CONSTANTS
  Elems = {e1, e2, e3, e4}
  Values = {1, 2}
  StartSize = 2
  Nil = Nil
  Readers = {r1, r2}
  Writers = {w1}
  NoThread = NoThread
  QueueElems = {t1, t2, t3}
  TimeoutTasks = {t1, t2}
  Sentinel = Sentinel
  Null = Null
  Second = 2
  kIntervalSeconds = 1
  Timeouts = {0, 2}
  MaxTime = 4
  Entries = {a, b, c}
  Sizes = {1, 2, 3}
  HashKeys = {0, 2, 3}
  BitAnd <- MachineAnd
  Nothing = Nothing
SPECIFICATION LibrarySpec
INVARIANTS
  HeapRight
  LockRight
  NobodyForgotten
  Linked
  ScannedInTime
  TableRight
CHECK_DEADLOCK FALSE
