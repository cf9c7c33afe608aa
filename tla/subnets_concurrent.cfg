SPECIFICATION Spec
CONSTANTS
  n1 = n1
  n2 = n2
  s1 = s1
  s2 = s2
  r1 = r1
  r2 = r2
  None = None
  Names <- OneName
  Services <- TwoServices
  Nullable <- OneService
  Requests <- Concurrent
  MaxId = 2
  MaxRule = 2
  Answers <- AllEnds
  Crashes = TRUE
INVARIANTS
  TypeOK
  BoundPolicyExists
SYMMETRY Interchangeable
VIEW NoHistory
