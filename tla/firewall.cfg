SPECIFICATION Spec
CONSTANTS
  u1 = u1
  u2 = u2
  n1 = n1
  n2 = n2
  v1 = v1
  v2 = v2
  r1 = r1
  r2 = r2
  Users <- TwoUsers
  Names <- TwoNames
  Numbers <- OneNumber
  Values <- TwoValues
  Absent = Absent
  None = None
  MaxPolicy = 2
  MaxRule = 2
  Requests <- TwoSlots
  Answers <- AllAnswers
INVARIANTS
  TypeOK
  RulesHavePolicy
  
SYMMETRY Interchangeable
CHECK_DEADLOCK FALSE
