SPECIFICATION FairSpec
CONSTANTS
  OneOff = OneOff
  MaxId = 2
  Delays <- Now
  Intervals <- OneOrFour
  Patches <- Cancel
  Deletable = TRUE
  PollInterval = 1
  MaxRun = 2
  MaxCrashes = 1
INVARIANTS
  TypeOK
  OneOffRunsOnce
  RecurrenceKept
PROPERTIES
  IntervalRespected
  CancelHolds
  DueTaskServed
