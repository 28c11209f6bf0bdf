SPECIFICATION Spec
CONSTANTS
  MaxU64 = 3
  MaxEpoch = 2
  MaxMutation = 2
  MaxObservation = 1
  Epochs <- MCEpochs
  Mutations <- MCMutations
  Observations <- MCObservations
  Plans = {p1}
  Streams = {s1}
  Slots = {j1, j2}
  LaneCapacity = 1
  Deactivations = TRUE
SYMMETRY Symmetry
INVARIANTS
  
  PendingIsLatest
  

  
CHECK_DEADLOCK FALSE
