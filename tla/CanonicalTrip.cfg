SPECIFICATION Spec
CONSTANTS
  Activities = {a, b}
  Proposals = {}
  MaxU64 = 30
  MaxRevision = 4
  MaxSeq = 4
  MaxEpoch = 2
  MaxPendingCanonicalMirror = 2
  MaxPsv = 0
  StreamCapacity = 1
SYMMETRY Symmetry
CHECK_DEADLOCK FALSE
INVARIANTS
  LoadFailsOnlyForStarted
  
