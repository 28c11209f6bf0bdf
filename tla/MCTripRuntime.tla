---------------------------- MODULE MCTripRuntime ----------------------------
(* Small instances of TripRuntime for TLC. *)
EXTENDS TripRuntime, TLC

CONSTANTS MaxEpoch, MaxMutation, MaxObservation

MCEpochs       == 1 .. MaxEpoch
MCMutations    == 1 .. MaxMutation
MCObservations == 1 .. MaxObservation

(* Streams, plans and slots are interchangeable. *)
Symmetry == Permutations(Streams) \cup Permutations(Plans) \cup Permutations(Slots)
=============================================================================
