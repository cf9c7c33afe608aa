SPECIFICATION Spec
CONSTANTS
  n1 = n1
  n2 = n2
  s1 = s1
  s2 = s2
  r1 = r1
  r2 = r2
  None = None
  Names <- TwoNames
  Services <- NoService
  Nullable <- NoService
  Requests <- Serial
  MaxId = 2
  MaxRule = 1
  Answers <- Acked
  Crashes = FALSE
INVARIANT IsolationInForce
