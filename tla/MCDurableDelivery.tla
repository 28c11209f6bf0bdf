-------------------------- MODULE MCDurableDelivery --------------------------
(* Small instances of DurableDelivery for TLC. *)
EXTENDS DurableDelivery, TLC

(* Backends are interchangeable. *)
Symmetry == Permutations(Backends)
=============================================================================
