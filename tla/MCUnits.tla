------------------------------ MODULE MCUnits ------------------------------
(***************************************************************************)
(* Model values for Units: two projects and one block, which holds two     *)
(* units of the first project and one of the second.                       *)
(***************************************************************************)
EXTENDS Units, TLC

CONSTANTS p1, p2

Same == Permutations(Units)
Ports == (p1 :> 1) @@ (p2 :> 2)
=============================================================================
