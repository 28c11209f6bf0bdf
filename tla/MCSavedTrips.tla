---------------------------- MODULE MCSavedTrips ----------------------------
(* An instance of SavedTrips.                                               *)
EXTENDS SavedTrips, TLC

(* Trips and activities are interchangeable.                                *)
Symmetry == Permutations(Trips) \cup Permutations(Items)

(* Bound: the plan of a trip that is not alone, or that was executed, has   *)
(* one activity.  No operation looks at the ordinals of two trips, and none *)
(* looks at both the ordinals and the sequence.                             *)
Bounds ==
  \A t \in Trips : Cardinality(DOMAIN saved[t]) > 1 =>
    trips[t].next = 1 /\ \A u \in Trips \ {t} : trips[u] = Absent
=============================================================================
