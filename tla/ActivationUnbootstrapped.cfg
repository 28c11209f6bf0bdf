SPECIFICATION Spec
CONSTANTS
  MaxU64 = 20
  Trips = {t}
  Items = {x}
  MaxActivities = 1
  MaxRevision = 2
  MaxSeq = 3
  MaxEpoch = 2
  MaxFlights = 2
  MaxTeardowns = 2
  MaxActiveTrips = 1
  MaxMessages = 1
  MaxFaults = 0
CONSTRAINT Unedited
PROPERTY
  ActiveIsBootstrapped
CHECK_DEADLOCK FALSE
