SPECIFICATION Spec
CONSTANTS
  Jobs = {j1, j2}
  Parallelism = 2
  Timers = {t1}
  Events = {e1}
  Orphans = {o1}
  Nobody = Nobody
  MaxDepth = 5
INVARIANTS
  LoopInv
PROPERTIES
  AwaitSettles
  EveryJobCompletes
  AwaitReturns
