--------------------------- MODULE MCVehicleStore ---------------------------
(* Three POSTs and two DELETEs on one vessel type with two fields. *)
EXTENDS VehicleStore, TLC

Symmetry == Permutations(Posts) \cup Permutations(Deletes)

=============================================================================
