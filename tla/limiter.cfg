SPECIFICATION Spec
CONSTANTS
  k1 = k1
  k2 = k2
  None = None
  Keys <- TwoKeys
  MaxRequests = 2
  Window = 3
  MaxTime = 7
  MaxLength = 5
INVARIANTS
  WindowLimit
  RefusedOnlyWhenFull
SYMMETRY Interchangeable
