SPECIFICATION Spec
CONSTANTS
  c1 = c1
  c2 = c2
  c3 = c3
  c4 = c4
  Strings = {s1, s2, s3, s4, s5}
  Contents <- MCContents
  Hash <- MCHash
  Values = {v1, v2}
  None = None
  HASHMAP_INITIAL_CAPACITY = 2
  MaxCapacity = 8
  MaxAppends = 1
SYMMETRY MCSymmetry
INVARIANTS
  TableInv
PROPERTIES
  ImplementsMap
