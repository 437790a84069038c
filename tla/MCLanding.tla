----------------------------- MODULE MCLanding -----------------------------
(***************************************************************************)
(* Model values for Landing: a unit that merges without a flag, or what is *)
(* committed already, and a second one whose merge only moves the target.  *)
(***************************************************************************)
EXTENDS Landing

CONSTANTS u1, u2

Flags == [u \in Units |-> IF u = u1 THEN {Stages, {"squash", "rebase"}} ELSE {{"commit"}}]
=============================================================================
