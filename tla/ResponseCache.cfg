SPECIFICATION Spec
CONSTANTS
  Keys = {k1, k2, k3, k4}
  Values = {v1, v2}
  TTLs = {1, 2}
  MaxSize = 3
INVARIANTS OrderMatchesCache SizeBound
PROPERTY ImplementsLRU
