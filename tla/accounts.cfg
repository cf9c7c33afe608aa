SPECIFICATION Spec
CONSTANTS
  n1 = n1
  n2 = n2
  n3 = n3
  r1 = r1
  r2 = r2
  None = None
  Names <- ThreeNames
  Requests <- TwoSlots
  MaxId = 3
  MaxRow = 1
INVARIANTS
  TypeOK
  AccountsBounded
  NothingLeftBehind
PROPERTIES
  JournalKept
  LastAccountNeedsOverlap
SYMMETRY Interchangeable
