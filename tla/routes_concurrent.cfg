SPECIFICATION Spec
CONSTANTS
  u1 = u1
  u2 = u2
  d1 = d1
  d2 = d2
  h1 = h1
  h2 = h2
  r1 = r1
  r2 = r2
  NoDistance = NoDistance
  Absent = Absent
  NoRow = NoRow
  Users <- TwoUsers
  Admins <- OneAdmin
  Dests <- TwoDests
  Hops <- OneHop
  Distances <- NoDistances
  Requests <- Concurrent
  MaxId = 3
  Answers <- AllEnds
  Crashes = TRUE
PROPERTIES
  OwnerKept
  ImplementsTable
SYMMETRY SlotSymmetry
VIEW NoHistory
