SPECIFICATION ThrowSpec
CONSTANTS
  Programs <- MCPrograms
  Jobs = {j1}
  Messages = {m1, m2}
  Thens = {t1}
  Nothing = Nothing
  MaxFrames = 4
  MaxDepth = 4
  MaxTries = 2
  MaxThrows = 2
INVARIANTS
  ThrowInv
PROPERTIES
  CatchesInnermost
  LoopEnds
