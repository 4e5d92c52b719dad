SPECIFICATION Spec
CONSTANTS
  a = a  b = b  c = c  Nobody = Nobody
  Callers = {a}
  NumElems = 2
  Programs <- PeekThenPop
  Preemptible = {}
  Rank <- Equal
  Busy = {}
INVARIANTS PeekedIsPopped
CHECK_DEADLOCK FALSE
