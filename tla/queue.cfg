SPECIFICATION LiveSpec
CONSTANTS
  a = a  b = b  c = c  Nobody = Nobody
  Callers = {a, b, c}
  NumElems = 2
  Programs <- AllUses
  Preemptible <- ShortUses
  Rank <- Equal
  Busy = {}
INVARIANTS TokensMatchSlots NothingLostOrDoubled OnePusherInOrder
PROPERTIES CompletesAlone
CHECK_DEADLOCK FALSE
