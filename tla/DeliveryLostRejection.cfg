SPECIFICATION ActiveSpec
CONSTANTS
  MaxU64 = 5
  Backends = {b1}
  MaxSeq = 3
  MaxEpoch = 1
  MaxMirrors = 2
  WireCapacity = 1
  Faults = {"loss", "rejection"}
INVARIANTS
  PlannerAgrees
CHECK_DEADLOCK FALSE
