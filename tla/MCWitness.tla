----------------------------- MODULE MCWitness -----------------------------
(* The reading of one home on small instances. *)
EXTENDS Witness, TLC

CONSTANTS root, first, second, main, topic

Line == [c \in Commits |-> IF c = root THEN {root} ELSE IF c = first THEN {root, first} ELSE Commits]

Setup(r, c, s) == [relation |-> r, checkout |-> c, clone |-> s]
(* A checkout of the same remote, one that fetches a single branch or is a partial clone,   *)
(* one that is the remote (and a partial clone), one of another remote; and a project with  *)
(* no remote, with every kind of clone beside it.                                           *)
Sound ==
    {Setup("same", "whole", "absent"), Setup("same", "narrow", "absent"),
     Setup("same", "partial", "absent"), Setup("is", "partial", "absent"),
     Setup("is", "whole", "whole"), Setup("unrelated", "whole", "absent"),
     Setup("unrelated", "unreadable", "whole")}
    \cup {Setup("none", "whole", s) : s \in CloneTraits}
    \cup {Setup("none", "shallow", "whole")}
=============================================================================
