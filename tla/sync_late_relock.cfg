SPECIFICATION LiveSpec
CONSTANTS
  ta = ta  tb = tb  tc = tc
  Tasks = {ta, tb, tc}
  Priority <- Pri112
  IntMax = 100
  TicksLeft = {0, 1}
  NoteMod = 8
  Uses <- TimedGet
INVARIANTS NegativeMeansWaiters
CHECK_DEADLOCK FALSE
