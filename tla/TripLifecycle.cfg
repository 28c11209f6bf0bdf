SPECIFICATION FairSpec
CONSTANTS
  MaxU64 = 20
  Trips = {t}
  Items = {x}
  MaxActivities = 1
  MaxRevision = 2
  MaxSeq = 3
  MaxEpoch = 2
  MaxFlights = 2
  MaxTeardowns = 1
  MaxActiveTrips = 1
  MaxMessages = 1
  MaxFaults = 1
CONSTRAINT Unedited
INVARIANTS
  LifecycleTypeOK
  OneLiveFlight
PROPERTIES
  ImplementsExecution
  ActiveIsBootstrapped
  
CHECK_DEADLOCK FALSE
