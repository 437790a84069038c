---------------------------- MODULE MCOccupancy ----------------------------
(* Occupancy over three numbers, which are all alike. *)
EXTENDS Occupancy, TLC

MCSymmetry == Permutations(Pids)
=============================================================================
