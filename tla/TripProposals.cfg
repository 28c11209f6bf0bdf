SPECIFICATION Spec
CONSTANTS
  Activities = {a}
  Proposals = {p, q}
  MaxU64 = 30
  MaxRevision = 3
  MaxSeq = 3
  MaxEpoch = 2
  MaxPendingCanonicalMirror = 1
  MaxPsv = 1
  StreamCapacity = 1
SYMMETRY Symmetry
CONSTRAINT UntilEnded
CHECK_DEADLOCK FALSE
INVARIANTS
  TripProposalsTypeOK
  PendingProposalIsCurrent
  PlanRevisionIsFree
  
