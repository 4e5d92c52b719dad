SPECIFICATION LiveSpec
CONSTANTS
  a = a  b = b  c = c  s1 = s1  s2 = s2
  Idle = Idle  TickRecord = TickRecord  Null = Null
  Tasks = {a, b}
  Sems = {s1, s2}
  TickMod = 4
  IsrCalls = {"tick", "post", "trywait"}
  SleepTicks = {1}
  Periods = {}
  Timeouts = {1}
  PostCounts = {2}
  IsrPostCounts = {2}
  MaxCalls = 1
  MaxTick = 2
  MaxIsr = 1
  Priority <- Pri12
  Created <- CreateAB
  SemCount <- ZeroCount
  SemMax <- CondAndMutex
  Calls <- Live
PROPERTIES SyscallsProcessed SleepersWake
CHECK_DEADLOCK FALSE
