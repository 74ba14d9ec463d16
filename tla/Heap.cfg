CONSTANTS
  Strings = {s1, s2, s3}
  Arrays = {x1, x2}
  Vars = {a}
  Local = l
  Null = Null
  Unset = Unset
  Letters = {p}
  MaxLen = 2
  MaxItems = 1
  MinThreshold = 1
SYMMETRY Symmetry
SPECIFICATION Spec
INVARIANTS
  HeapInv
  HandlesLive
  ValuesAsWritten
