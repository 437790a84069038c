----------------------------- MODULE Occupancy -----------------------------
(***************************************************************************)
(* Who stands in a home that is about to go: the reading of the process    *)
(* table (runtime/processes.rs), its sorting into the unit's own processes *)
(* and the strangers (lifecycle/assess.rs), and the step that moves a home *)
(* or prunes a checkout over the answer (Occupancy, TrashHome and          *)
(* HomePrune of lifecycle/ops/reclaim.rs).                                 *)
(*                                                                         *)
(* The table is read in one step and judged in a later one, and the        *)
(* judging asks the machine again: who has ended, who is in which group,   *)
(* who started whom.  Processes start, fork, change directory, open files, *)
(* become another account's and end between any two of those steps, and a  *)
(* number that has come free is given again.  A stranger that is given the *)
(* number of a recorded group is mistaken for one of the unit, with        *)
(* whatever started it and what that has started: `kin` keeps their names. *)
(* How a group is signalled is in Sessions; here the teardown is one step  *)
(* that ends what it may end.                                              *)
(* Its names are its own, so that Removal, which goes on where a reclaim is *)
(* not refused, can be taken beside it.                                    *)
(***************************************************************************)
EXTENDS Naturals, FiniteSets

CONSTANTS
    Pids,        \* the numbers the system gives to processes
    None,        \* no number: a process that is not there, or a terminal nowhere near
    First,       \* the number of the first process of the host
    LINEAGE,     \* how many parents are walked
    MaxStarts,   \* bound on the processes ever started
    MaxTurns     \* bound on what processes do beside starting and ending

ASSUME OccupancyAssumption ==
    /\ None \notin Pids /\ First \notin Pids /\ None # First
    /\ LINEAGE \in Nat \ {0} /\ MaxStarts \in Nat /\ MaxTurns \in Nat

VARIABLES
    table,     \* what wears each number
    starts,    \* processes ever started, the clock they are dated by
    turns,     \* what they have done since
    tethers,   \* the groups of the unit's open session rows
    step,      \* where the reclaim is
    force,     \* whether --force was given
    caller,    \* the process the command was typed into, or None
    carried,   \* what the journal carries: the groups, and the `nodal run` of each
    tended,    \* history: the `nodal run` of each group that ran when the plan was made
    running,   \* the reading of the table
    named      \* the processes a refusal names

world == <<table, starts, turns, tethers>>
reclaim == <<step, force, caller, carried, tended, running, named>>
occupancy == <<world, reclaim>>

Free == [parent |-> None, grp |-> None, inside |-> FALSE, writes |-> FALSE, id |-> FALSE,
         hidden |-> FALSE, kin |-> "nobody", born |-> 0]

(* A process: what started it, its group, whether its directory is in the   *)
(* home and whether it holds a file there for writing, whether it carries   *)
(* the unit's NODAL_ID and belongs to another account, what it really is to *)
(* the unit (a `mistaken` one is a stranger for which a recorded number     *)
(* speaks), and when it started.                                            *)
Processes ==
    [parent : Pids \cup {None, First}, grp : Pids \cup {None}, inside : BOOLEAN, writes : BOOLEAN,
     id : BOOLEAN, hidden : BOOLEAN, born : Nat,
     kin : {"nobody", "stranger", "mistaken", "wrapper", "git", "child"}]
Tables == [Pids -> Processes]

Holding == [pid : Pids, started_at : Nat]

Empty == [p \in Pids |-> Free]
NothingCarried == [groups |-> {}, wrappers |-> {}]

OccupancyInit ==
    /\ table = Empty
    /\ starts = 0
    /\ turns = 0
    /\ tethers = {}
    /\ step = "idle"
    /\ force = FALSE
    /\ caller = None
    /\ carried = NothingCarried
    /\ tended = {}
    /\ running = Empty
    /\ named = {}

-----------------------------------------------------------------------------
(* The machine. *)

Runs(t, p) == t[p] # Free

(* Nothing is asked of the machine any more. *)
Over == step \in {"gone", "refused"} \/ force

(* A number is given to nothing while a group still wears it. *)
Unworn(t, n) == ~Runs(t, n) /\ \A p \in Pids : t[p].grp # n

(* A number the unit's rows or the journal record as a group's.  When it is  *)
(* given again, it speaks for what wears it, for what started that, and for  *)
(* what else that one has started.                                           *)
Recorded == tethers \cup carried.groups

Given(n, kin) == IF n \in Recorded /\ kin = "stranger" THEN "mistaken" ELSE kin

Mistaken(t, p) ==
    [q \in Pids |-> IF t[q].kin = "stranger" /\ p \in {q, t[q].parent}
                    THEN [t[q] EXCEPT !.kin = "mistaken"] ELSE t[q]]

(* parent_of, group_of and started_at: readings of the machine now. *)
ParentOf(p) == table[p].parent
GroupOf(p) == table[p].grp
StartedAt(p) == table[p].born

Turn ==
    /\ ~Over
    /\ turns < MaxTurns
    /\ turns' = turns + 1
    /\ UNCHANGED <<starts, tethers, reclaim>>

(* A terminal somebody opens, in the home or elsewhere. *)
Open(n, inside) ==
    /\ ~Over /\ starts < MaxStarts
    /\ Unworn(table, n)
    /\ starts' = starts + 1
    /\ table' = [table EXCEPT ![n] =
           [Free EXCEPT !.parent = First, !.grp = n, !.inside = inside,
                        !.kin = Given(n, "stranger"), !.born = starts + 1]]
    /\ UNCHANGED <<turns, tethers, reclaim>>

(* `nodal run --tether` in the home: w waits for n, the leader of a group of its own. *)
StartRun(w, n) ==
    /\ ~Over /\ starts + 2 <= MaxStarts
    /\ w # n /\ Unworn(table, w) /\ Unworn(table, n)
    /\ starts' = starts + 2
    /\ table' = [table EXCEPT
           ![w] = [Free EXCEPT !.parent = First, !.grp = w, !.inside = TRUE, !.kin = "wrapper",
                               !.born = starts + 1],
           ![n] = [Free EXCEPT !.parent = w, !.grp = n, !.inside = TRUE, !.id = TRUE,
                               !.kin = "child", !.born = starts + 2]]
    /\ tethers' = tethers \cup {n}
    /\ UNCHANGED <<turns, reclaim>>

(* A process starts another where it stands, in its group or in a new one. *)
Born(p, n, leads, keeps) ==
    [table[p] EXCEPT !.parent = p, !.grp = IF leads THEN n ELSE @, !.writes = FALSE,
                     !.id = @ /\ keeps, !.born = starts + 1, !.kin = Given(n, @)]

Fork(p, n, leads, keeps) ==
    /\ ~Over /\ starts < MaxStarts
    /\ Runs(table, p) /\ table[p].kin # "wrapper"
    /\ Unworn(table, n)
    /\ starts' = starts + 1
    /\ LET t == IF n \in Recorded THEN Mistaken(table, p) ELSE table
       IN  table' = [t EXCEPT ![n] = Born(p, n, leads, keeps)]
    /\ UNCHANGED <<turns, tethers, reclaim>>

(* A `nodal run` whose command has gone closes the row of a group that is     *)
(* empty, and then starts git, in its own group and where it stands.          *)
Held == {g \in tethers : \E q \in Pids : table[q].grp = g}

RecordRun(w, n) ==
    /\ ~Over /\ starts < MaxStarts
    /\ table[w].kin = "wrapper"
    /\ \A p \in Pids : table[p].parent = w => table[p].kin # "child"
    /\ Unworn(table, n)
    /\ starts' = starts + 1
    /\ table' = [table EXCEPT ![n] =
           [Free EXCEPT !.parent = w, !.grp = table[w].grp, !.inside = TRUE,
                        !.hidden = table[w].hidden, !.kin = "git", !.born = starts + 1]]
    /\ tethers' = Held
    /\ UNCHANGED <<turns, reclaim>>

(* What a process leaves behind is the first process's. *)
Orphaned(t, gone) ==
    [p \in Pids |-> IF p \in gone THEN Free
                    ELSE IF t[p].parent \in gone THEN [t[p] EXCEPT !.parent = First] ELSE t[p]]

(* Nor does it end before it has closed its row. *)
End(p) ==
    /\ ~Over
    /\ Runs(table, p)
    /\ table' = Orphaned(table, {p})
    /\ tethers' = IF table[p].kin = "wrapper" THEN Held ELSE tethers
    /\ UNCHANGED <<starts, turns, reclaim>>

ChangeDirectory(p) ==
    /\ Turn
    /\ Runs(table, p)
    /\ table' = [table EXCEPT ![p].inside = ~@]

(* It opens a file of the home for writing, or closes it. *)
Write(p) ==
    /\ Turn
    /\ Runs(table, p)
    /\ table' = [table EXCEPT ![p].writes = ~@]

(* sudo: the process is another account's, and shows nothing but where it came from. *)
Sudo(p) ==
    /\ Turn
    /\ Runs(table, p) /\ ~table[p].hidden
    /\ table' = [table EXCEPT ![p].hidden = TRUE]

-----------------------------------------------------------------------------
(* What a reading says of one process. *)

(* `read`: of another account's process, only its lineage. *)
Read(t) ==
    [p \in Pids |->
        IF t[p].hidden THEN [t[p] EXCEPT !.inside = FALSE, !.writes = FALSE, !.id = FALSE]
        ELSE t[p]]

(* owns: it carries the unit's identifier. *)
Owns(p) == running[p].id

InOneOf(p) == running[p].inside
HeldInside(p) == running[p].writes

IsStillByNumber(p, w) == p = w.pid /\ p \in Pids   \* mutant: a number is taken for a process
IsStill(p, w) == p = w.pid /\ Runs(table, p) /\ StartedAt(p) = w.started_at

Wrappers(groups) ==
    {[pid |-> ParentOf(g), started_at |-> StartedAt(ParentOf(g))] :
        g \in {g \in groups : Runs(table, g) /\ ParentOf(g) \in Pids}}

VouchedLate(p) ==   \* mutant: the relation is read after the groups were stopped
    LET wrappers == Wrappers(carried.groups) IN
    \/ GroupOf(p) \in carried.groups
    \/ \E g \in carried.groups : ParentOf(g) = p
    \/ \E w \in wrappers : IsStill(p, w) \/ IsStill(ParentOf(p), w)

(* vouched_for_by_a_group: it is in a recorded group, or is the `nodal run` of one. *)
Vouched(p) ==
    \/ GroupOf(p) \in carried.groups
    \/ \E g \in carried.groups : ParentOf(g) = p
    \/ \E w \in carried.wrappers : IsStill(p, w) \/ IsStill(ParentOf(p), w)

(* spared: this command, and what started it. *)
Spared == {caller}

HasEnded(p) == ~Runs(table, p)

BystanderByDirectory(p) ==   \* mutant: only the working directory is read
    ~Owns(p) /\ p \notin Spared /\ InOneOf(p) /\ ~Vouched(p)
Bystander(p) ==
    ~Owns(p) /\ p \notin Spared /\ (InOneOf(p) \/ HeldInside(p)) /\ ~Vouched(p)

Standing == {p \in Pids : Runs(running, p) /\ Bystander(p) /\ ~HasEnded(p)}

(* descends_from: a group led from inside the home, or a start from inside it. *)
DescendsFrom(p, inside, byCwd) ==
    LET up[k \in 1 .. LINEAGE] ==
            IF k = 1 THEN running[p].parent
            ELSE IF up[k - 1] \in Pids THEN running[up[k - 1]].parent ELSE None
    IN  \/ running[p].grp \in byCwd
        \/ \E k \in 1 .. LINEAGE : up[k] \in inside

(* withheld_in: another account's processes that came from something that stands here. *)
WithheldIn(standing) ==
    {p \in Pids : /\ standing # {}
                  /\ running[p].hidden /\ p \notin Spared /\ ~HasEnded(p)
                  /\ DescendsFrom(p, standing, {q \in standing : InOneOf(q)})}

-----------------------------------------------------------------------------
(* The reclaim. *)

(* The `nodal run` of each group whose leader it started runs. *)
Tended ==
    {[pid |-> table[g].parent, started_at |-> table[table[g].parent].born] :
        g \in {g \in tethers : \E w \in Pids : table[g].parent = w /\ table[w].kin = "wrapper"}}

(* refuse_unread before the hook; then the groups and their wrappers, for the journal. *)
Plan(c, forced, unread) ==
    /\ step = "idle"
    /\ c \in {None} \cup {p \in Pids : table[p].kin \in {"stranger", "mistaken", "child"}
                                        /\ ~table[p].hidden}
    /\ caller' = c
    /\ force' = forced
    /\ IF unread /\ ~forced THEN step' = "refused" /\ UNCHANGED <<carried, tended>>
       ELSE /\ step' = "planned"
            /\ carried' = [groups |-> tethers, wrappers |-> Wrappers(tethers)]
            /\ tended' = Tended
    /\ UNCHANGED <<world, running, named>>

(* StopRuntime: the groups and what carries the identifier, but never the command, what *)
(* started it, or the group that is in. *)
Teardown ==
    /\ step = "planned"
    /\ LET near == IF caller \in Pids THEN GroupOf(caller) ELSE None
           ended == {p \in Pids : /\ Runs(table, p) /\ ~table[p].hidden
                                  /\ p # caller /\ GroupOf(p) # near
                                  /\ GroupOf(p) \in carried.groups \/ table[p].id}
       IN table' = Orphaned(table, ended)
    /\ step' = "stopped"
    /\ UNCHANGED <<starts, turns, tethers, force, caller, carried, tended, running, named>>

(* TrashHome::apply and HomePrune::apply under --force ask nothing. *)
Forced ==
    /\ step = "stopped" /\ force
    /\ step' = "gone"
    /\ UNCHANGED <<world, force, caller, carried, tended, running, named>>

(* Processes::scan, or a table that cannot be listed. *)
Scan(unread) ==
    /\ step = "stopped" /\ ~force
    /\ IF unread THEN step' = "refused" /\ UNCHANGED running
       ELSE step' = "read" /\ running' = Read(table)
    /\ UNCHANGED <<world, force, caller, carried, tended, named>>

(* Table::sort and unmovable. *)
Refuse ==
    /\ step = "read"
    /\ IF Standing = {} THEN step' = "clear" /\ UNCHANGED named
       ELSE step' = "refused" /\ named' = Standing \cup WithheldIn(Standing)
    /\ UNCHANGED <<world, force, caller, carried, tended, running>>

(* move_tree, or the sweep of a checkout that stays. *)
MoveHome ==
    /\ step = "clear"
    /\ step' = "gone"
    /\ UNCHANGED <<world, force, caller, carried, tended, running, named>>

-----------------------------------------------------------------------------
OccupancyNext ==
    \/ \E n \in Pids, inside \in BOOLEAN : Open(n, inside)
    \/ \E w, n \in Pids : StartRun(w, n)
    \/ \E p, n \in Pids, leads, keeps \in BOOLEAN : Fork(p, n, leads, keeps)
    \/ \E w, n \in Pids : RecordRun(w, n)
    \/ \E p \in Pids : End(p) \/ ChangeDirectory(p) \/ Write(p) \/ Sudo(p)
    \/ \E c \in Pids \cup {None}, forced, unread \in BOOLEAN : Plan(c, forced, unread)
    \/ Teardown
    \/ Forced
    \/ \E unread \in BOOLEAN : Scan(unread)
    \/ Refuse
    \/ MoveHome

OccupancySpec == OccupancyInit /\ [][OccupancyNext]_occupancy
-----------------------------------------------------------------------------
(* The types of the variables. *)
OccupancyTypeOK ==
    /\ table \in Tables
    /\ starts \in Nat
    /\ turns \in Nat
    /\ tethers \in SUBSET Pids
    /\ step \in {"idle", "planned", "stopped", "read", "clear", "gone", "refused"}
    /\ force \in BOOLEAN
    /\ caller \in Pids \cup {None}
    /\ carried \in [groups : SUBSET Pids, wrappers : SUBSET Holding]
    /\ tended \in SUBSET Holding
    /\ running \in Tables
    /\ named \in SUBSET Pids

(* Nothing Nodal did not start has a home moved from under it.  A process that   *)
(* stood in the home when the table was read, and stands there still, is no      *)
(* stranger: it is the command's own, or it belongs to what the unit recorded.   *)
(* A wrapper's number given to a stranger vouches for nobody (`is_still`).  The  *)
(* number of a recorded group does, though "the number alone proves nothing"     *)
(* (assess.rs, vouched_for_by_a_group, Own): of the strangers, those it speaks   *)
(* for when it is given again are excepted by name, as `mistaken`.               *)
MovedUnderNobody ==
    [][MoveHome => \A p \in Pids :
           /\ Runs(table, p) /\ table[p].born = running[p].born
           /\ ~table[p].hidden /\ ~running[p].hidden
           /\ table[p].inside \/ table[p].writes
           /\ running[p].inside \/ running[p].writes
           => table[p].kin # "stranger" \/ p \in Spared]_occupancy

(* "The relation can no longer be read after the groups were stopped": the       *)
(* `nodal run` of a group that was running when the plan was made is never what  *)
(* a reclaim of the unit is refused over, nor is the git it starts to record the *)
(* run and that was read, whether its group has ended by then or has not         *)
(* (`wrappers_of`, carried by the journal).                                      *)
OwnRunNeverBlocks ==
    [][Refuse => \A p \in named' :
           LET w == IF table[p].kin = "git" THEN table[p].parent ELSE p
           IN  ~(/\ \/ table[p].kin = "wrapper"
                    \/ table[p].kin = "git" /\ running[p].born = table[p].born
                 /\ ~table[p].hidden
                 /\ w \in Pids /\ [pid |-> w, started_at |-> table[w].born] \in tended)]_occupancy
=============================================================================
