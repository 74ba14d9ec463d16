SPECIFICATION TimersSpec
CONSTANTS
  MaxTimers = 2
  MaxTime = 2
  Delays = {0, 1, 2}
  MaxNest = 2
INVARIANTS
  TimersInv
PROPERTIES
  IntervalSpacing
  ClearedStaysQuiet
  EveryTimeoutFires
