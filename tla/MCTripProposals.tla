--------------------------- MODULE MCTripProposals ---------------------------
(* Instances of TripProposals.                                              *)
EXTENDS TripProposals, TLC

Symmetry == Permutations(Activities) \cup Permutations(Proposals)

(* Bound: what the planner publishes after the consumer has ended is not    *)
(* followed any further.                                                    *)
UntilEnded == consuming \/ stream = <<>>
=============================================================================
