----------------------------- MODULE MCJournal -----------------------------
(* The journal on small instances. *)
EXTENDS Journal, TLC

CONSTANTS here1, here2, there

(* Two pids on one machine, and one on another that shares the registry. *)
TwoMachines == here1 :> "here" @@ here2 :> "here" @@ there :> "there"
OneMachine == here1 :> "here" @@ here2 :> "here"
=============================================================================
