SPECIFICATION Spec
CONSTANTS
  MaxPromises = 3
  MaxDepth = 3
  Values = {v1, v2}
  Undefined = Undefined
SYMMETRY Symmetry
INVARIANTS
  PromiseInv
  DerivedSettled
  HandlersExactlyOnce
