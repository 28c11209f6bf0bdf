SPECIFICATION FairActiveSpec
CONSTANTS
  MaxU64 = 6
  Backends = {b1}
  MaxSeq = 4
  MaxEpoch = 1
  MaxMirrors = 2
  WireCapacity = 1
  Faults = {"loss"}
INVARIANTS
  ResolvedIsInPlanner
  PlannerAgrees
  

  
CHECK_DEADLOCK FALSE
