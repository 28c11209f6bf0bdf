SPECIFICATION Spec
CONSTANTS
  MaxU64 = 5
  Backends = {b1}
  MaxSeq = 3
  MaxEpoch = 2
  MaxMirrors = 2
  WireCapacity = 2
  Faults = {"loss", "rejection", "expiry", "release", "planner_restart", "backend_restart"}
INVARIANTS
  FinalizedPrefix
  PlannerIsAtMostOneAhead
  SyncedMirrorIsInPlanner
CHECK_DEADLOCK FALSE
