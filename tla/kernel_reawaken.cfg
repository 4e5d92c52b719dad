SPECIFICATION Spec
CONSTANTS
  a = a  b = b  c = c  s1 = s1  s2 = s2
  Idle = Idle  TickRecord = TickRecord  Null = Null
  Tasks = {a, b}
  Sems = {s1}
  TickMod = 4
  IsrCalls = {"tick", "post", "trywait"}
  SleepTicks = {1}
  Periods = {}
  Timeouts = {1}
  PostCounts = {1}
  IsrPostCounts = {1}
  MaxCalls = 3
  MaxTick = 1
  MaxIsr = 2
  Priority <- Pri12
  Created <- CreateAB
  SemCount <- ZeroCount
  SemMax <- NoMax
  Calls <- WaitPost
INVARIANTS NoTaskForgotten
CHECK_DEADLOCK FALSE
