--------------------------- MODULE MCHousekeeping ---------------------------
(* Instances of Housekeeping for TLC. *)
EXTENDS Housekeeping, TLC

CONSTANTS p1, p2, y1, y2

HousekeepingSymmetry == Permutations(Purgers) \cup Permutations(Exports)
=============================================================================
