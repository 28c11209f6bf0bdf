SPECIFICATION Spec
CONSTANTS
  MaxU64 = 5
  Backends = {b1, b2}
  MaxSeq = 3
  MaxEpoch = 2
  MaxMirrors = 2
  WireCapacity = 1
  Faults = {"loss", "expiry"}
SYMMETRY Symmetry
INVARIANTS
  TypeOK
  FinalizedPrefix
  PlannerIsAtMostOneAhead
  SyncedMirrorIsInPlanner
PROPERTIES
  OutcomeIsFinal
CHECK_DEADLOCK FALSE
