SPECIFICATION SavedSpec
CONSTANTS
  Trips = {t, u}
  Items = {x, y, z}
  MaxActivities = 3
  MaxRevision = 4
  MaxSeq = 4
CONSTRAINT Bounds
SYMMETRY Symmetry
INVARIANTS
  SavedTypeOK
  OneExecutingTrip
  OrdinalsAreContiguous
PROPERTY
  SequenceNeverReused
CHECK_DEADLOCK FALSE
