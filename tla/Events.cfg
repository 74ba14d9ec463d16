SPECIFICATION EventsSpec
CONSTANTS
  Names = {Error, data}
  Error = Error
  Fns = {f}
  MaxRegs = 3
  MaxClears = 1
  MaxDepth = 2
INVARIANTS
  EventsInv
  ListenersExact
