\* Two idle tasks, delays on both sides of what the clock allows.
CONSTANTS
  Elems = {a, b}
  Values = {0}
  StartSize = 2
  Nil = Nil
  Delays = {1, 3}
  MaxNow = 3
  WordSize = 4
  IdleThread = IdleThread
SPECIFICATION FairSpec
INVARIANTS NeverOversleeps NoneAfterDelete
PROPERTIES EventuallyOff
CHECK_DEADLOCK FALSE
