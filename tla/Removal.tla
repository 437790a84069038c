------------------------------ MODULE Removal ------------------------------
(***************************************************************************)
(* Giving a home back: `nodal reclaim` moves a managed home into the trash *)
(* and `nodal gc` removes it for good once its retention has run out       *)
(* (lifecycle/ops/reclaim.rs, lifecycle/ops/gc.rs, store/trash.rs).  The   *)
(* question both ask is whether the home holds work that exists nowhere    *)
(* else.  Each asks it of a reading of the disk, acts on the answer later, *)
(* and may be killed anywhere in between, while people go on committing,   *)
(* pushing and deleting branches.                                          *)
(*                                                                         *)
(* A commit is outside the homes when the project's checkout or a          *)
(* repository beside it holds it; homes are no witnesses of each other.  A *)
(* reading proves any part of that (a remote or a store may go unread),    *)
(* never more.  The journal's roll-back of a reclaim is one action here,   *)
(* done or failed (Journal.tla models it step by step).  Checkouts adopted *)
(* in place are never moved; the teardown of the unit's own processes and  *)
(* the prune of regenerable directories change nothing this module speaks  *)
(* of.                                                                     *)
(***************************************************************************)
EXTENDS Naturals, FiniteSets

CONSTANTS
    Homes,         \* the managed homes of one project
    Commits,       \* commits somebody may make in one of them
    Reclaimers,    \* processes that run a reclaim (`gc` and `merge --remove` run one too)
    NoPlan,        \* a reclaimer with nothing prepared
    NoRow,         \* no row in the trash table
    NoReading,     \* a sweep that has not read the checkout yet
    NoEntry,       \* a sweep between two entries
    Retention,     \* reclaim.trash_retention, in ticks
    MaxTime,       \* bound on the clock
    MaxFaults      \* bound on kills and failed removals

ASSUME RemovalAssumption ==
    /\ Retention \in Nat
    /\ MaxTime \in Nat
    /\ MaxFaults \in Nat

VARIABLES
    tree,       \* the name each home is under: its own, the trash's, the removing one, none
    work,       \* the commits its refs reach
    paths,      \* whether its working tree holds a path no commit does
    standing,   \* whether something Nodal did not start stands in it
    checkout,   \* the commits the project's checkout reaches
    beside,     \* the commits the repositories beside it reach
    env,        \* the state of the environment's row
    row,        \* its row in the trash table
    failed,     \* the homes with a reclaim that the journal keeps as failed
    clock,
    pc, plan,   \* where each reclaimer is, and what it has prepared
    sweep, queue, cur, seen,   \* where the sweep is, what is left, the entry, its reading
    faults,
    dropped,    \* commits the checkout has lost since the sweep read it
    excused     \* per home, commits that came to it or left the outside since it was judged

repo == <<tree, work, paths, standing>>
outside == <<checkout, beside>>
registry == <<env, row, failed>>
reclaims == <<pc, plan>>
sweeper == <<sweep, queue, cur, seen>>
ghosts == <<dropped, excused>>
vars == <<repo, outside, registry, clock, reclaims, sweeper, faults, ghosts>>

(* What a trashed home's removal rests on, and when it may go. *)
TrashRows == [rested : {"safe", "forced"}, expires : Nat]

(* The plan of a reclaim: the entry it will write, or none for a home that is gone. *)
Plans == [home : Homes, force : BOOLEAN, entry : TrashRows \cup {NoRow}]

(* An expired row as the sweep listed it. *)
Entries == [home : Homes, rested : {"safe", "forced"}]

ASSUME NothingAssumption ==
    NoRow \notin TrashRows /\ NoPlan \notin Plans /\ NoEntry \notin Entries

-----------------------------------------------------------------------------
Init ==
    /\ tree = [h \in Homes |-> "home"]
    /\ work = [h \in Homes |-> {}]
    /\ paths = [h \in Homes |-> FALSE]
    /\ standing = [h \in Homes |-> FALSE]
    /\ checkout = {}
    /\ beside = {}
    /\ env = [h \in Homes |-> "live"]
    /\ row = [h \in Homes |-> NoRow]
    /\ failed = {}
    /\ clock = 0
    /\ pc = [r \in Reclaimers |-> "idle"]
    /\ plan = [r \in Reclaimers |-> NoPlan]
    /\ sweep = "idle"
    /\ queue = {}
    /\ cur = NoEntry
    /\ seen = NoReading
    /\ faults = 0
    /\ dropped = {}
    /\ excused = [h \in Homes |-> {}]

-----------------------------------------------------------------------------
(* People and their tools. *)

(* Somebody works in the home, or was standing in it and works on in the trash. *)
Reached(h) == tree[h] = "home" \/ (tree[h] = "trash" /\ standing[h])

(* The reading that lets the home go has been made. *)
Judged(h) == tree[h] = "removing" \/ (sweep = "cleared" /\ cur.home = h)

MakeCommit(h, c) ==
    /\ Reached(h)
    /\ c \notin work[h]
    /\ work' = [work EXCEPT ![h] = @ \cup {c}]
    /\ paths' = [paths EXCEPT ![h] = FALSE]
    /\ excused' = IF Judged(h) THEN [excused EXCEPT ![h] = @ \cup {c}] ELSE excused
    /\ UNCHANGED <<tree, standing, outside, registry, clock, reclaims, sweeper, faults, dropped>>

WritePath(h) ==
    /\ Reached(h)
    /\ ~paths[h]
    /\ paths' = [paths EXCEPT ![h] = TRUE]
    /\ UNCHANGED <<tree, work, standing, outside, registry, clock, reclaims, sweeper, faults, ghosts>>

(* A shell, an editor or a tmux pane comes or goes. *)
Stand(h) ==
    /\ standing[h] \/ tree[h] \in {"home", "trash"}
    /\ standing' = [standing EXCEPT ![h] = ~@]
    /\ UNCHANGED <<tree, work, paths, outside, registry, clock, reclaims, sweeper, faults, ghosts>>

(* A commit is pushed, fetched or merged into a repository outside. *)
CopyOut(h, c) ==
    /\ Reached(h)
    /\ c \in work[h]
    /\ \/ /\ c \notin checkout
          /\ checkout' = checkout \cup {c}
          /\ UNCHANGED beside
       \/ /\ c \notin beside
          /\ beside' = beside \cup {c}
          /\ UNCHANGED checkout
    /\ UNCHANGED <<repo, registry, clock, reclaims, sweeper, faults, ghosts>>

(* The last branch that held a commit in the checkout, or beside it, is deleted. *)
DropOut(c) ==
    /\ \/ /\ c \in checkout
          /\ checkout' = checkout \ {c}
          /\ dropped' = IF seen = NoReading THEN dropped ELSE dropped \cup {c}
          /\ UNCHANGED beside
       \/ /\ c \in beside
          /\ beside' = beside \ {c}
          /\ UNCHANGED <<checkout, dropped>>
    /\ excused' = [h \in Homes |-> IF Judged(h) THEN excused[h] \cup {c} ELSE excused[h]]
    /\ UNCHANGED <<repo, registry, clock, reclaims, sweeper, faults>>

Tick ==
    /\ clock < MaxTime
    /\ clock' = clock + 1
    /\ UNCHANGED <<repo, outside, registry, reclaims, sweeper, faults, ghosts>>

-----------------------------------------------------------------------------
(* `nodal reclaim`. *)

(* The commits of a home that a reading proves no copy of. *)
Unproven(h, proven) == work[h] \ proven

(* examine's verdict: every commit has a copy, and no path is only here. *)
Safe(h, proven) == Unproven(h, proven) = {} /\ ~paths[h]

(* prepare: the registry, the placement and the uniqueness check.  A home    *)
(* that is not safe is refused, or forced; one that is not there has nothing *)
(* to check and gets no entry.  (A forced snapshot adds a ref and leaves the *)
(* working tree as it was.)                                                  *)
Prepare(r, h) ==
    /\ pc[r] = "idle"
    /\ env[h] # "absent"
    /\ \E force \in BOOLEAN, proven \in SUBSET (checkout \cup beside) :
          /\ tree[h] = "home" => force \/ Safe(h, proven)
          /\ plan' = [plan EXCEPT ![r] =
                [home |-> h, force |-> force,
                 entry |-> IF tree[h] # "home" THEN NoRow
                           ELSE [rested |-> IF Safe(h, proven) THEN "safe" ELSE "forced",
                                 expires |-> clock + Retention]]]
    /\ pc' = [pc EXCEPT ![r] = "prepared"]
    /\ UNCHANGED <<repo, outside, registry, clock, sweeper, faults, ghosts>>

(* A refused reclaim that forgets its plan and stays where it was. *)
GiveUpHalf(r) ==
    /\ pc[r] = "prepared"
    /\ plan' = [plan EXCEPT ![r] = NoPlan]
    /\ UNCHANGED <<pc, repo, outside, registry, clock, sweeper, faults, ghosts>>

(* A hook that refuses: nothing is in the journal yet. *)
GiveUp(r) ==
    /\ pc[r] = "prepared"
    /\ pc' = [pc EXCEPT ![r] = "idle"]
    /\ plan' = [plan EXCEPT ![r] = NoPlan]
    /\ UNCHANGED <<repo, outside, registry, clock, sweeper, faults, ghosts>>

(* The run is in the journal, the unit's processes are stopped and the move  *)
(* is marked as applying: from here the undo of the move is owed.            *)
StartMove(r) ==
    /\ pc[r] = "prepared"
    /\ pc' = [pc EXCEPT ![r] = "moving"]
    /\ UNCHANGED <<repo, outside, registry, clock, plan, sweeper, faults, ghosts>>

(* Occupancy::refuse: a bystander stops the move of a home unless forced. *)
Occupied(r) == plan[r].entry # NoRow /\ ~plan[r].force /\ standing[plan[r].home]

Refused(r) ==
    /\ pc[r] = "moving"
    /\ Occupied(r)
    /\ pc' = [pc EXCEPT ![r] = "interrupted"]
    /\ UNCHANGED <<repo, outside, registry, clock, plan, sweeper, faults, ghosts>>

(* move_tree: a source that is not there is not a failure. *)
MoveTree(h, from, to) == tree' = IF tree[h] = from THEN [tree EXCEPT ![h] = to] ELSE tree

(* The refusal as one more note of the report. *)
MoveNoted(r) ==
    /\ pc[r] = "moving"
    /\ IF plan[r].entry = NoRow \/ Occupied(r)
       THEN UNCHANGED tree ELSE MoveTree(plan[r].home, "home", "trash")
    /\ pc' = [pc EXCEPT ![r] = "moved"]
    /\ UNCHANGED <<work, paths, standing, outside, registry, clock, plan, sweeper, faults, ghosts>>

(* TrashHome; the plan of a home that was gone has no such step. *)
Move(r) ==
    /\ pc[r] = "moving"
    /\ ~Occupied(r)
    /\ IF plan[r].entry = NoRow THEN UNCHANGED tree ELSE MoveTree(plan[r].home, "home", "trash")
    /\ pc' = [pc EXCEPT ![r] = "moved"]
    /\ UNCHANGED <<work, paths, standing, outside, registry, clock, plan, sweeper, faults, ghosts>>

(* commit_of without the row of the trash. *)
CommitUnrecorded(r) ==
    /\ pc[r] = "moved"
    /\ env' = [env EXCEPT ![plan[r].home] = "absent"]
    /\ pc' = [pc EXCEPT ![r] = "idle"]
    /\ plan' = [plan EXCEPT ![r] = NoPlan]
    /\ UNCHANGED <<repo, outside, row, failed, clock, sweeper, faults, ghosts>>

(* commit_of: the registry write that finishes the reclaim. *)
Commit(r) ==
    LET h == plan[r].home
    IN  /\ pc[r] = "moved"
        /\ env' = [env EXCEPT ![h] = "absent"]
        /\ row' = IF plan[r].entry # NoRow THEN [row EXCEPT ![h] = plan[r].entry] ELSE row
        /\ pc' = [pc EXCEPT ![r] = "idle"]
        /\ plan' = [plan EXCEPT ![r] = NoPlan]
        /\ UNCHANGED <<repo, outside, failed, clock, sweeper, faults, ghosts>>

(* A failed step, a refused write or a kill leaves the run to be undone. *)
ReclaimFails(r) ==
    /\ pc[r] \in {"moving", "moved"}
    /\ faults < MaxFaults
    /\ faults' = faults + 1
    /\ pc' = [pc EXCEPT ![r] = "interrupted"]
    /\ UNCHANGED <<repo, outside, registry, clock, plan, sweeper, ghosts>>

(* The undo of TrashHome moves the home back. *)
RollBack(r) ==
    /\ pc[r] = "interrupted"
    /\ IF plan[r].entry = NoRow THEN UNCHANGED tree ELSE MoveTree(plan[r].home, "trash", "home")
    /\ pc' = [pc EXCEPT ![r] = "idle"]
    /\ plan' = [plan EXCEPT ![r] = NoPlan]
    /\ UNCHANGED <<work, paths, standing, outside, registry, clock, sweeper, faults, ghosts>>

(* The home will not move back: the run is closed as failed, and no command  *)
(* takes it up again.                                                        *)
RollBackFails(r) ==
    LET h == plan[r].home
    IN  /\ pc[r] = "interrupted"
        /\ plan[r].entry # NoRow /\ tree[h] = "trash"
        /\ faults < MaxFaults
        /\ faults' = faults + 1
        /\ failed' = failed \cup {h}
        /\ pc' = [pc EXCEPT ![r] = "idle"]
        /\ plan' = [plan EXCEPT ![r] = NoPlan]
        /\ UNCHANGED <<repo, outside, env, row, clock, sweeper, ghosts>>

-----------------------------------------------------------------------------
(* `nodal gc`: the expiry step. *)

(* list_expired. *)
Expired == {h \in Homes : row[h] # NoRow /\ row[h].expires <= clock}

(* collect lists the expired rows once, and nothing has been read yet. *)
SweepStart ==
    /\ sweep = "idle"
    /\ Expired # {}
    /\ sweep' = "next"
    /\ queue' = {[home |-> h, rested |-> row[h].rested] : h \in Expired}
    /\ UNCHANGED <<repo, outside, registry, clock, reclaims, cur, seen, faults, ghosts>>

NextEntry ==
    /\ sweep = "next"
    /\ \E e \in queue : cur' = e /\ queue' = queue \ {e}
    /\ sweep' = "entry"
    /\ UNCHANGED <<repo, outside, registry, clock, reclaims, seen, faults, ghosts>>

(* The readings go with the sweep that made them. *)
SweepEnds ==
    /\ sweep = "next"
    /\ queue = {}
    /\ sweep' = "idle"
    /\ seen' = NoReading
    /\ dropped' = {}
    /\ UNCHANGED <<repo, outside, registry, clock, reclaims, queue, cur, faults, excused>>

(* The record of a reclaim taken for permission to finish it. *)
NeverReasks(e) == FALSE

(* Rested::re_asks. *)
ReAsks(e) == e.rested # "forced"

(* A home read again wherever it has got to. *)
ReadAgainAnywhere(e) == ReAsks(e)

(* read_again: a home that is not under its trash name is not read. *)
ReadAgain(e) == ReAsks(e) /\ tree[e.home] = "trash"

(* On to the next entry; this one is done or left for a later sweep. *)
Leave ==
    /\ sweep' = "next"
    /\ cur' = NoEntry

(* of_project: the checkout is read once, for the first home that needs it. *)
ReadProject ==
    /\ sweep = "entry"
    /\ ReadAgain(cur)
    /\ seen = NoReading
    /\ \E read \in SUBSET checkout : seen' = read
    /\ UNCHANGED <<repo, outside, registry, clock, reclaims, sweep, queue, cur, faults, ghosts>>

(* held_back: a home that could not be read stays, and so does one with a    *)
(* commit that neither the reading of the checkout nor a repository beside   *)
(* it, asked now, proves a copy of.  The paths decide nothing.               *)
HoldBack ==
    /\ sweep = "entry"
    /\ ReadAgain(cur)
    /\ seen # NoReading
    /\ Leave
    /\ UNCHANGED <<repo, outside, registry, clock, reclaims, queue, seen, faults, ghosts>>

Clear ==
    /\ sweep = "entry"
    /\ ReadAgain(cur)
    /\ tree[cur.home] = "trash"
    /\ seen # NoReading
    /\ \E held \in SUBSET beside : Unproven(cur.home, seen \cup held) = {}
    /\ sweep' = "cleared"
    /\ excused' = [excused EXCEPT ![cur.home] = dropped]
    /\ UNCHANGED <<repo, outside, registry, clock, reclaims, queue, cur, seen, faults, dropped>>

(* The entry was let go, or asks no question. *)
MayGo == sweep = "cleared" \/ (sweep = "entry" /\ ~ReadAgain(cur))

(* begin: the home goes under the removing name. *)
Begin ==
    /\ MayGo
    /\ MoveTree(cur.home, "trash", "removing")
    /\ sweep' = "begun"
    /\ UNCHANGED <<work, paths, standing, outside, registry, clock, reclaims>>
    /\ UNCHANGED <<queue, cur, seen, faults, ghosts>>

(* The rename is refused: the home stays under its name, and its row stays. *)
BeginFails ==
    /\ MayGo
    /\ tree[cur.home] = "trash"
    /\ faults < MaxFaults
    /\ faults' = faults + 1
    /\ Leave
    /\ UNCHANGED <<repo, outside, registry, clock, reclaims, queue, seen, ghosts>>

(* remove: the tree goes.  One that is not there is already gone; one that   *)
(* will not go whole loses a part of what it held and its row stays.         *)
RemoveTree ==
    LET h == cur.home
        there == tree[h] = "removing"
    IN  /\ sweep = "begun"
        /\ work' = IF there THEN [work EXCEPT ![h] = {}] ELSE work
        /\ paths' = IF there THEN [paths EXCEPT ![h] = FALSE] ELSE paths
        /\ \/ /\ MoveTree(h, "removing", "none")
              /\ sweep' = "removed"
              /\ standing' = [standing EXCEPT ![h] = @ /\ ~there]
              /\ excused' = [excused EXCEPT ![h] = {}]
              /\ UNCHANGED <<cur, faults>>
           \/ /\ there
              /\ faults < MaxFaults
              /\ faults' = faults + 1
              /\ Leave
              /\ UNCHANGED <<tree, standing, excused>>
        /\ UNCHANGED <<outside, registry, clock, reclaims, queue, seen, dropped>>

(* trash::remove. *)
Forget ==
    /\ sweep = "removed"
    /\ row' = [row EXCEPT ![cur.home] = NoRow]
    /\ Leave
    /\ UNCHANGED <<repo, outside, env, failed, clock, reclaims, queue, seen, faults, ghosts>>

(* The sweep is killed; what it had done stays. *)
SweepDies ==
    /\ sweep # "idle"
    /\ faults < MaxFaults
    /\ faults' = faults + 1
    /\ sweep' = "idle"
    /\ queue' = {}
    /\ cur' = NoEntry
    /\ seen' = NoReading
    /\ dropped' = {}
    /\ UNCHANGED <<repo, outside, registry, clock, reclaims, excused>>

-----------------------------------------------------------------------------
Reclaim(r) ==
    \/ \E h \in Homes : Prepare(r, h)
    \/ GiveUp(r) \/ StartMove(r) \/ Refused(r) \/ Move(r) \/ Commit(r)
    \/ ReclaimFails(r) \/ RollBack(r) \/ RollBackFails(r)

Sweep ==
    NextEntry \/ SweepEnds \/ ReadProject \/ HoldBack \/ Clear \/ Begin \/ RemoveTree \/ Forget

Next ==
    \/ \E h \in Homes, c \in Commits : MakeCommit(h, c) \/ CopyOut(h, c)
    \/ \E h \in Homes : WritePath(h) \/ Stand(h)
    \/ \E c \in Commits : DropOut(c)
    \/ \E r \in Reclaimers : Reclaim(r)
    \/ SweepStart \/ Sweep \/ BeginFails \/ SweepDies
    \/ Tick

Spec == Init /\ [][Next]_vars

(* `nodal gc` is run again and again, and a sweep that is not killed goes on. *)
FairSpec == Spec /\ WF_vars(SweepStart) /\ WF_vars(Sweep)

-----------------------------------------------------------------------------
(* Every variable keeps its type; a reclaimer that is anywhere past prepare  *)
(* has a plan, and a sweep that is inside an entry has one (reclaim, sweep). *)
TypeOK ==
    /\ tree \in [Homes -> {"home", "trash", "removing", "none"}]
    /\ work \in [Homes -> SUBSET Commits]
    /\ paths \in [Homes -> BOOLEAN]
    /\ standing \in [Homes -> BOOLEAN]
    /\ checkout \in SUBSET Commits
    /\ beside \in SUBSET Commits
    /\ env \in [Homes -> {"live", "absent"}]
    /\ row \in [Homes -> TrashRows \cup {NoRow}]
    /\ failed \in SUBSET Homes
    /\ clock \in Nat
    /\ pc \in [Reclaimers -> {"idle", "prepared", "moving", "moved", "interrupted"}]
    /\ plan \in [Reclaimers -> Plans \cup {NoPlan}]
    /\ \A r \in Reclaimers : pc[r] # "idle" => plan[r] # NoPlan
    /\ sweep \in {"idle", "next", "entry", "cleared", "begun", "removed"}
    /\ queue \in SUBSET Entries
    /\ cur \in Entries \cup {NoEntry}
    /\ sweep \notin {"idle", "next"} => cur # NoEntry
    /\ seen \in (SUBSET Commits) \cup {NoReading}
    /\ faults \in Nat
    /\ dropped \in SUBSET Commits
    /\ excused \in [Homes -> SUBSET Commits]

(* The step that takes the tree of h apart. *)
Destroys(h) ==
    /\ sweep = "begun" /\ sweep' \in {"removed", "next"}
    /\ cur # NoEntry /\ cur.home = h
    /\ tree[h] = "removing"

(* gc removes a home whose reclaim was not forced only when each of its      *)
(* commits is outside at that moment, or left the outside, or came to the    *)
(* home, after the reading that let it go: whatever happened in the          *)
(* fortnight in between, and however often a sweep was killed                *)
(* (gc.rs read_again, held_back, only_here).                                 *)
CommitsSurvive ==
    [][\A h \in Homes :
          Destroys(h) /\ cur.rested # "forced" =>
              work[h] \subseteq checkout \cup beside \cup excused[h]]_vars

(* A home that has left its own name and is not gone is named by a row of     *)
(* the trash or by the journal: by a reclaim that is not over, or by one whose *)
(* undo failed, which is all that is left of that home (a later reclaim finds  *)
(* it gone from its place and writes no row)                                   *)
(* (store/trash.rs, reclaim.rs commit_of, TrashHome::undo).                    *)
TrashedIsAccounted ==
    \A h \in Homes : tree[h] \in {"trash", "removing"} =>
        \/ row[h] # NoRow
        \/ \E r \in Reclaimers : pc[r] # "idle" /\ plan[r].home = h /\ plan[r].entry # NoRow
        \/ h \in failed

(* A home the registry has given up is not under its own name, where no      *)
(* command would ever look at it again: a reclaim that was undone left its   *)
(* row as it found it (reclaim.rs commit_of, TrashHome::undo, latest).       *)
AbsentIsGone == \A h \in Homes : env[h] = "absent" => tree[h] # "home"

(* A removal that has begun is finished, tree and row, by this sweep or by a *)
(* later one, wherever the first was killed (gc.rs begin, read_again).       *)
RemovalIsFinished ==
    \A h \in Homes : tree[h] = "removing" ~> tree[h] = "none" /\ row[h] = NoRow
=============================================================================
