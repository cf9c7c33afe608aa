SPECIFICATION Spec
CONSTANTS
  u1 = u1
  u2 = u2
  d1 = d1
  d2 = d2
  h1 = h1
  h2 = h2
  r1 = r1
  r2 = r2
  NoDistance = NoDistance
  Absent = Absent
  NoRow = NoRow
  Users <- OneUser
  Admins <- NoAdmin
  Dests <- TwoDests
  Hops <- TwoHops
  Distances <- OneDistance
  Requests <- Serial
  MaxId = 3
  Answers <- Definite
  Crashes = TRUE
INVARIANTS
  TypeOK
  NoOrphanRoute
  MissingOnlyAfterFailure
SYMMETRY PathSymmetry
VIEW NoJournal
