SPECIFICATION ServiceSpec
CONSTANTS
  r1 = r1
  r2 = r2
  q1 = q1
  a1 = a1
  a2 = a2
  b1 = b1
  b2 = b2
  Users <- OneOnly
  Machines <- TwoAs
  PortTypes <- OneOnly
  Limits <- NoneOrOne
  LastPort = 2
  LastNat = 3
  None = None
  MaxQuota = 1
  MaxVm = 2
  MaxRule = 3
  Requests <- TwoSlots
  Answers <- AllAnswers
  Subnets <- TwoBs
  Ips <- TwoAs
  Ports <- OneOnly
  MaxMapping = 2
  Events <- CreateFailure
  Kinds <- TwoAs
  AnyKind = AnyKind
  MaxNotificationRule = 2
  MaxTask = 1
  Removers <- OneRemover
INVARIANTS
  TypesOK
  CollisionNeedsOverlap
  SecondRuleNeedsOverlap
  RulesHaveVm
  FirstOrAllServed
  HistoryOfItsRule
  VpnReply
PROPERTIES
  SubnetKept
SYMMETRY Interchangeable
CHECK_DEADLOCK FALSE
