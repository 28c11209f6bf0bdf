SPECIFICATION FairSpec
CONSTANTS
  MaxU64 = 3
  MaxEpoch = 2
  MaxMutation = 3
  MaxObservation = 2
  Epochs <- MCEpochs
  Mutations <- MCMutations
  Observations <- MCObservations
  Plans = {p1}
  Streams = {s1}
  Slots = {j1, j2}
  LaneCapacity = 1
  Deactivations = FALSE
INVARIANTS
  TypeOK
  ProposalIsCurrent
  PendingIsLatest
  SupersededWorkIsStopped
  OwedReplanIsBacked
PROPERTIES
  UrgencyIsRetained
  
CHECK_DEADLOCK FALSE
