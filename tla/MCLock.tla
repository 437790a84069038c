------------------------------- MODULE MCLock -------------------------------
(* An instance of Lock: two agents of one actor name on a machine with a    *)
(* readable process table, and a second actor on one with a table that      *)
(* cannot be read whole, in two sessions: one at work, and one (s4) that    *)
(* may hold the home at first and only ever ends.                           *)
EXTENDS Lock

CONSTANTS a1, a2, b1, ada, bob, s1, s2, s3, s4, box, shut

MCActorOf == [c \in Commands |-> IF c = b1 THEN bob ELSE ada]
MCHostOf == [c \in Commands |-> IF c = b1 THEN shut ELSE box]
MCSessionOf ==
    [c \in Commands |-> CASE c = a1 -> s1 [] c = a2 -> s2 [] OTHER -> s3]

(* Rows older than lineages and actors, and the hold of s4. *)
MCLeft ==
    [host : Hosts, actor : Actors \cup {NoActor}, session : {NoSession}]
        \cup {[host |-> shut, actor |-> bob, session |-> s4]}
=============================================================================
