SPECIFICATION Spec
CONSTANTS
  a = a  b = b  c = c  s1 = s1  s2 = s2
  Idle = Idle  TickRecord = TickRecord  Null = Null
  Tasks = {a, b, c}
  Sems = {}
  TickMod = 4
  IsrCalls = {"tick", "post", "trywait"}
  SleepTicks = {1, 3}
  Periods = {2}
  Timeouts = {1}
  PostCounts = {1}
  IsrPostCounts = {1}
  MaxCalls = 2
  MaxTick = 5
  MaxIsr = 0
  Priority <- Pri112
  Created <- CreateAB
  SemCount <- ZeroCount
  SemMax <- NoMax
  Calls <- Lifecycle
INVARIANTS OnTime HighestPriorityRuns RunnableTaskRuns
CHECK_DEADLOCK FALSE
