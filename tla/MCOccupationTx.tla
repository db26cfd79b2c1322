--------------------------- MODULE MCOccupationTx ---------------------------
(* A small instance of OccupationTx for TLC. *)
EXTENDS OccupationTx, TLC

CONSTANTS v1, v2, d1, r1, r2

MCSymmetry ==
  Permutations(Vehicles) \cup Permutations(Drivers) \cup Permutations(Requests)

============================================================================
