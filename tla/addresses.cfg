SPECIFICATION Spec
CONSTANTS
  m1 = m1
  m2 = m2
  r1 = r1
  r2 = r2
  None = None
  Template = Template
  Subnets <- OneSubnet
  Patterns <- ThreeRanges
  InitialTemplates <- OneTemplate
  MaxReservation = 2
  Starts <- Zero
  Counts <- JustTwo
  Machines <- TwoMachines
  Hosts <- TwoHosts
  MaxBatch = 2
  MaxCounter = 2
  Requests <- TwoSlots
INVARIANTS
  TypeOK
  CounterUsedOnce
  RangeUsedUp
  LeaseBackedByVm
SYMMETRY Interchangeable
