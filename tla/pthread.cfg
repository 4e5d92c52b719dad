SPECIFICATION LiveSpec
CONSTANTS
  a = a  b = b
  Tasks = {a, b}
  Created = {a}
  Idle = Idle  Main = Main  TickRecord = TickRecord  Null = Null
  MaxCalls = 2
  MaxTicks = 2
INVARIANTS OneThreadExecutes NoSpuriousResume RunsBeforeReturn SyscallAfterInterrupts NoSignalAfterStop
PROPERTIES StopReturns RecordsRun
CHECK_DEADLOCK FALSE
