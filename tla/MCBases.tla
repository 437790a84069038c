------------------------------ MODULE MCBases ------------------------------
(* An instance of Bases for TLC: two processes, two keys, one install. *)
EXTENDS Bases, TLC
OneTool == <<"npm">>
Same == Permutations(Procs)
=============================================================================
