SPECIFICATION LiveSpec
CONSTANTS
  ta = ta  tb = tb  tc = tc
  Tasks = {ta, tb, tc}
  Priority <- Pri112
  IntMax = 100
  TicksLeft = {1}
  NoteMod = 8
  Uses <- AllUses
INVARIANTS MutualExclusion BarrierRounds ReadersSeeWholeWrites OnceAndBefore NotificationArrives BondsMatchWater
PROPERTIES Progress
CHECK_DEADLOCK FALSE
