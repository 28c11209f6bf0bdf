--------------------------- MODULE MCTripLifecycle ---------------------------
(* An instance of TripLifecycle.                                            *)
EXTENDS TripLifecycle

(* Bound: only commands move the revision; SavedTrips has the edits.        *)
Unedited ==
  \A t \in Trips : trips[t].revision <= IF trips[t].finalized >= 2 THEN 2 ELSE 1
=============================================================================
