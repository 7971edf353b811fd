SPECIFICATION FairSpec
CHECK_DEADLOCK FALSE
CONSTANTS
  Conns = {c1}
  Policies <- AllPolicies
  Interval = 1
  Burst = 1
  MaxWorkers = 2
  MaxScans = 2
  MaxTime = 1
  MaxCrashes = 1
INVARIANTS
  ResultsAreOwn
  RateBound
PROPERTIES
  ScanEnds
