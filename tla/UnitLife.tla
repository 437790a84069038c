------------------------------ MODULE UnitLife ------------------------------
(***************************************************************************)
(* What nodal promises of units: one appears at once, with a home that is  *)
(* ready, a name and a branch and ports that are its own; it is finished;  *)
(* it ends and gives everything back.  There is no half-made unit and no   *)
(* unit that loses its home while it lives.                                *)
(***************************************************************************)
CONSTANTS Units, Projects, Ports

VARIABLE life

Nothing == [stage |-> "none"]
Lives == {u \in Units : life[u].stage \in {"open", "review"}}
Others(u, project) == {v \in Lives \ {u} : life[v].project = project}

Init == life = [u \in Units |-> Nothing]

(* The transaction that ends a create or an adoption: what appears is ready, *)
(* and what it is named and granted is nobody else's.                       *)
Appear(u) ==
    /\ life[u] = Nothing /\ life'[u].stage = "open" /\ life'[u].ready
    /\ life'[u].project \in Projects /\ life'[u].ports \subseteq Ports
    /\ \A v \in Others(u, life'[u].project) :
        /\ life[v].slug # life'[u].slug
        /\ life[v].stage = "open" => life[v].branch # life'[u].branch
    /\ \A v \in Lives : life[v].ports \cap life'[u].ports = {}
    /\ life' = [life EXCEPT ![u] = life'[u]]

(* nodal done, nodal merge *)
Finish(u) ==
    /\ life[u].stage = "open"
    /\ life' = [life EXCEPT ![u].stage = "review"]

(* The transaction that ends a reclaim. *)
End(u) ==
    /\ u \in Lives
    /\ life' = [life EXCEPT ![u].stage = "archived", ![u].ports = {}, ![u].ready = FALSE]

Next == \E u \in Units : Appear(u) \/ Finish(u) \/ End(u)

Spec == Init /\ [][Next]_life

-----------------------------------------------------------------------------
(* No two units that live share a port, no two of a project share a name,    *)
(* and no two that are open share a branch (choose_name, allocate,           *)
(* refuse_held_branch).                                                      *)
NothingIsShared ==
    \A u, v \in Lives : u # v =>
        /\ life[u].ports \cap life[v].ports = {}
        /\ life[u].project = life[v].project =>
               /\ life[u].slug # life[v].slug
               /\ life[u].stage = "open" /\ life[v].stage = "open"
                      => life[u].branch # life[v].branch

(* A unit that lives has its home and everything in it. *)
HomesAreReady == \A u \in Lives : life[u].ready
=============================================================================
