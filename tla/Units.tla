------------------------------- MODULE Units -------------------------------
(***************************************************************************)
(* How a unit comes to be: nodal new and the two forms of nodal adopt      *)
(* (lifecycle/ops/new.rs, lifecycle/ops/adopt.rs), with the names and the  *)
(* ports they take (store/units.rs, services/ports.rs), the hooks they run *)
(* (lifecycle/hooks.rs), the work they carry (git/carry.rs), and the end   *)
(* of a unit as far as its row, its ports and its directory go.            *)
(*                                                                         *)
(* A unit's identifier is drawn when its command starts, so the command of *)
(* a unit is named by the unit.  A plan runs on the journal (Journal): its *)
(* steps act in order, a failure undoes the one in flight and those before *)
(* it, and a kill leaves the same work to the next command.  A commit is a *)
(* number; the checkout's branches reach a set of them.                    *)
(***************************************************************************)
EXTENDS Integers, FiniteSets, Sequences

CONSTANTS
    Units,       \* identifiers commands draw
    NoUnit,      \* no unit
    Kinds,       \* bound: the commands given, of "new", "adopt" and "place"
    Worktrees,   \* worktrees of the project's repository that may be adopted
    Names,       \* the names people ask for
    Projects,    \* the projects
    Blocks,      \* how many blocks the range holds (RANGE_FIRST, RANGE_LAST)
    Span,        \* ports in a block (BLOCK_SPAN)
    Services,    \* ports a unit of each project is granted
    Attempts,    \* SLUG_ATTEMPTS
    MaxEvents    \* bound: moves of the checkout, edits of its work, of the hooks and
                 \* of the approvals, kills, failing steps, groups that will not stop

AllKinds == {"new", "adopt", "place"}

ASSUME UnitsAssumption ==
    /\ Kinds \subseteq AllKinds /\ Units \cap Worktrees = {} /\ NoUnit \notin Units
    /\ Services \in [Projects -> Nat]
    /\ Blocks \in Nat /\ Span \in Nat /\ Attempts \in Nat \ {0}
    /\ MaxEvents \in Nat

VARIABLES
    row,       \* the unit row
    env,       \* environment.state, "none" before there is a row
    granted,   \* environment.ports
    alloc,     \* the port_allocation rows: who holds a port
    block,     \* the port_block row of each project, 0 before there is one
    hold,      \* units with a write lock row
    disk,      \* the directories: homes and worktrees
    exclude,   \* whether the repository's info/exclude has Nodal's lines
    base,      \* whether the base the homes are cloned from is there
    head, line, work,     \* the checkout: its commit, what it reaches, its changes
    declared, approved,   \* the hook the recipe declares, the one approved
    groups,    \* process groups that hooks left running
    sessions,  \* the groups that have a session row
    op,        \* the command that makes each unit
    crossed,   \* history: units whose worktree two commands had at once
    lost,      \* history: groups that would not stop, or whose command was killed
    events

registry == <<row, env, granted, alloc, hold>>
checkout == <<head, line, work>>
hooks == <<declared, approved>>
processes == <<groups, sessions, lost>>
vars == <<registry, block, disk, exclude, base, checkout, hooks, processes, op, crossed, events>>

Slugs == Names \X (1..Attempts)
Statuses == {"open", "review", "archived"}
Phases == {"pre", "post"}
AllPorts == 1..(Blocks * Span)
PortsOf(b) == ((b - 1) * Span + 1)..(b * Span)
NoRow == [status |-> "none"]
Made == {u \in Units : row[u] # NoRow}
Live == {u \in Made : env[u] = "stopped"}

(* A directory: its tree, what has been done to it, its branch and marker. *)
Empty == [tree |-> "none", done |-> {}, start |-> 0, anchor |-> 0, marker |-> NoUnit]
Standing == [Empty EXCEPT !.tree = "whole"]
Deeds == {"relocate", "scrub", "refresh", "fetch", "install", "hide", "activate", "carry"}
Directories == Units \cup Worktrees
DirOf(u) == op[u].dir
ProjectOf(u) == op[u].project
PortNames(u) == 1..Services[ProjectOf(u)]

(***************************************************************************)
(* The plans.                                                              *)
(***************************************************************************)
(* plan, of a create and of the two forms of adoption *)
PlanOf(kind, carry) ==
    IF kind = "place" THEN <<"hide", "marker", "activate">>
    ELSE IF kind = "adopt"
    THEN <<"materialize", "relocate", "scrub", "fetch", "branch", "hide", "marker", "activate">>
    ELSE IF carry
    THEN <<"materialize", "relocate", "scrub", "refresh", "branch", "install", "hide", "marker",
           "activate", "carry">>
    ELSE <<"materialize", "relocate", "scrub", "refresh", "branch", "install", "hide", "marker",
           "activate">>

Idle == [phase |-> "idle", kind |-> "new", carry |-> FALSE, dir |-> NoUnit, project |-> NoUnit, name |-> <<>>,
         slug |-> <<>>, start |-> 0, block |-> 0, declared |-> 0, approved |-> 0,
         work |-> 0, at |-> 0, based |-> FALSE, answer |-> "none"]
Steps(u) == PlanOf(op[u].kind, op[u].carry)
Prepares == {"project", "block", "name", "base"}
Runs == {"run", "carrying", "undo", "dead"}

TypeOK ==
    /\ \A u \in Units :
        /\ u \in Made => /\ row[u].slug \in Slugs /\ row[u].branch \in Names
                         /\ row[u].status \in Statuses /\ row[u].base \in 0..(MaxEvents + 1)
        /\ op[u].phase \in {"idle", "pre", "post", "attach", "closed"} \cup Prepares \cup Runs
        /\ op[u].at \in 0..Len(Steps(u))
        /\ u \in Made => DOMAIN granted[u] = PortNames(u)
        /\ \A i \in DOMAIN granted[u] : granted[u][i] \in AllPorts
    /\ env \in [Units -> {"none", "stopped", "absent"}]
    /\ alloc \in [AllPorts -> Units \cup {NoUnit}] /\ block \in [Projects -> 0..Blocks]
    /\ hold \subseteq Units
    /\ \A d \in Directories :
        /\ disk[d].tree \in {"none", "part", "whole"} /\ disk[d].done \subseteq Deeds
        /\ disk[d].marker \in Units \cup {NoUnit}
    /\ exclude \in BOOLEAN /\ base \in BOOLEAN
    /\ head \in line /\ line \subseteq 1..(MaxEvents + 1) /\ work \in 0..(MaxEvents + 1)
    /\ declared \in 0..2 /\ approved \in 0..2
    /\ groups \subseteq Units \X Phases /\ sessions \subseteq Units \X Phases
    /\ events \in 0..MaxEvents

Init ==
    /\ row = [u \in Units |-> NoRow] /\ env = [u \in Units |-> "none"]
    /\ granted = [u \in Units |-> <<>>] /\ alloc = [p \in AllPorts |-> NoUnit]
    /\ block = [p \in Projects |-> 0] /\ hold = {}
    /\ disk = [d \in Directories |-> IF d \in Worktrees THEN Standing ELSE Empty]
    /\ exclude = FALSE /\ base = FALSE
    /\ head = 1 /\ line = {1} /\ work = 1
    /\ declared = 1 /\ approved = 1
    /\ groups = {} /\ sessions = {} /\ op = [u \in Units |-> Idle]
    /\ crossed = {} /\ lost = {} /\ events = 0

(***************************************************************************)
(* People and other commands.                                              *)
(***************************************************************************)
(* A person commits in the checkout, amends its commit, or edits a file. *)
MoveCheckout ==
    /\ events < MaxEvents /\ events' = events + 1
    /\ \/ head' = events + 2 /\ line' = line \cup {head'} /\ work' = 0
       \/ head' = events + 2 /\ line' = (line \ {head}) \cup {head'} /\ UNCHANGED work
       \/ work' = events + 2 /\ UNCHANGED <<head, line>>
    /\ UNCHANGED <<registry, block, disk, exclude, base, hooks, processes, op, crossed>>

(* A person edits the hook in the recipe, and nodal init approves what is declared. *)
EditHook ==
    /\ events < MaxEvents /\ events' = events + 1
    /\ declared' \in 0..2 /\ approved' \in {approved, declared'}
    /\ UNCHANGED <<registry, block, disk, exclude, base, checkout, processes, op, crossed>>

(* gc takes the base away when no environment row names it: the row of a    *)
(* home is kept when its unit ends, and a command under way has none yet.   *)
PruneBase ==
    /\ base /\ \A u \in Made : op[u].kind = "place"
    /\ base' = FALSE
    /\ op' = [u \in Units |-> [op[u] EXCEPT !.based = FALSE]]
    /\ UNCHANGED <<registry, block, disk, exclude, checkout, hooks, processes, crossed, events>>

(***************************************************************************)
(* Preparing: reads, refusals, and the block of the project.               *)
(***************************************************************************)
Turn(u, phase) == op' = [op EXCEPT ![u].phase = phase]
Close(u, answer) ==
    op' = [op EXCEPT ![u] = [Idle EXCEPT !.phase = "closed", !.answer = answer, !.kind = op[u].kind,
                                         !.carry = op[u].carry, !.dir = op[u].dir,
                                         !.project = op[u].project]]
Active(u) == op[u].phase \notin {"idle", "closed"}

(* What another command has done to a unit's directory, row or name is read *)
(* here once: refuse_uncarryable, the recipe and its hooks.                 *)
Begin(u, project, kind, carry, name, dir) ==
    /\ op[u].phase = "idle" /\ \A v \in Units : op[v].phase # "dead"
    /\ carry => kind = "new"
    /\ dir \in IF kind = "place" THEN Worktrees ELSE {u}
    /\ op' = [op EXCEPT ![u] = [Idle EXCEPT !.phase = "project", !.kind = kind, !.carry = carry,
                                            !.dir = dir, !.project = project, !.name = name,
                                            !.declared = declared]]
    /\ LET others == {v \in Units \ {u} : Active(v) /\ op[v].dir = dir}
       IN  crossed' = IF others = {} THEN crossed ELSE crossed \cup others \cup {u}
    /\ UNCHANGED <<registry, block, disk, exclude, base, checkout, hooks, processes, events>>

(* adoption: one directory has one owner; placement's paths are always fresh *)
Adoptable(u) ==
    \/ op[u].kind # "place"
    \/ /\ disk[DirOf(u)].marker = NoUnit
       /\ \A v \in Live : op[v].dir # DirOf(u)

(* ensure_project, guard::adoption and the first reading of ensure_block *)
EnsureProject(u) ==
    /\ op[u].phase = "project"
    /\ IF ~Adoptable(u) THEN Close(u, "refused")
       ELSE op' = [op EXCEPT ![u].block = block[ProjectOf(u)],
                             ![u].phase = IF block[ProjectOf(u)] = 0 THEN "block" ELSE "name"]
    /\ UNCHANGED <<registry, block, disk, exclude, base, checkout, hooks, processes, crossed, events>>

(* free_block: the lowest block no project holds *)
Taken == {block[p] : p \in Projects}
FreeBlocks == (1..Blocks) \ Taken
FreeBlock == CHOOSE b \in FreeBlocks : \A c \in FreeBlocks : b <= c

(* ensure_block: the transaction reads the row again before it writes one *)
EnsureBlock(u) ==
    /\ op[u].phase = "block"
    /\ \/ /\ block[ProjectOf(u)] # 0 /\ UNCHANGED block
          /\ op' = [op EXCEPT ![u].phase = "name", ![u].block = block[ProjectOf(u)]]
       \/ /\ block[ProjectOf(u)] = 0 /\ FreeBlocks # {}
          /\ block' = [block EXCEPT ![ProjectOf(u)] = FreeBlock]
          /\ op' = [op EXCEPT ![u].phase = "name", ![u].block = FreeBlock]
       \/ /\ block[ProjectOf(u)] = 0 /\ FreeBlocks = {} /\ UNCHANGED block
          /\ Close(u, "refused")
    /\ UNCHANGED <<registry, disk, exclude, base, checkout, hooks, processes, crossed, events>>

Peers(u) == {v \in Made : ProjectOf(v) = ProjectOf(u)}

(* held: an archived unit holds no slug *)
HeldSlug(u, slug) == \E v \in Peers(u) : row[v].slug = slug /\ row[v].status # "archived"

(* find_open_by_branch *)
HeldBranch(u, branch) == \E v \in Peers(u) : row[v].branch = branch /\ row[v].status = "open"

(* choose_name: the name itself, or the first number after it that is free *)
FreeSlugs(u) == {i \in 1..Attempts : ~HeldSlug(u, <<op[u].name, i>>)}
ChosenSlug(u) == <<op[u].name, CHOOSE i \in FreeSlugs(u) : \A j \in FreeSlugs(u) : i <= j>>

(* Hooks a command would run, as its RUNS says. *)
RunsHook(u, phase) ==
    /\ op[u].declared # 0
    /\ \/ op[u].kind = "new"
       \/ op[u].kind = "adopt" /\ phase = "post"

(* runnable: the declared command is the approved one *)
Runnable(u) == op[u].declared = op[u].approved

(* choose_name, refuse_held_branch, fork_point, hooks_of and refuse_unrunnable. *)
(* An adoption chooses before ensure_block: neither reads what the other writes. *)
ChooseName(u) ==
    /\ op[u].phase = "name"
    /\ \/ (FreeSlugs(u) = {} \/ HeldBranch(u, op[u].name)) /\ Close(u, "refused")
       \/ /\ FreeSlugs(u) # {} /\ ~HeldBranch(u, op[u].name)
          /\ \E p \in Phases : RunsHook(u, p)
          /\ op[u].declared # approved /\ Close(u, "not_approved")
       \/ /\ FreeSlugs(u) # {} /\ ~HeldBranch(u, op[u].name)
          /\ (\E p \in Phases : RunsHook(u, p)) => op[u].declared = approved
          /\ op' = [op EXCEPT ![u].phase = IF op[u].kind = "place" THEN "run" ELSE "base",
                              ![u].slug = ChosenSlug(u), ![u].approved = approved,
                              ![u].start = IF op[u].kind = "new" THEN head ELSE 0]
    /\ UNCHANGED <<registry, block, disk, exclude, base, checkout, hooks, processes, crossed, events>>

(* substrate::ensure, last because it is the one long step of preparing *)
EnsureBase(u) ==
    /\ op[u].phase = "base"
    /\ base' = TRUE
    /\ op' = [op EXCEPT ![u].based = TRUE, ![u].phase = IF RunsHook(u, "pre") THEN "pre" ELSE "run"]
    /\ UNCHANGED <<registry, block, disk, exclude, checkout, hooks, processes, crossed, events>>

(***************************************************************************)
(* Hooks.                                                                  *)
(***************************************************************************)
HookOf(u) == IF row[u] = NoRow THEN "pre" ELSE "post"
After(u) == IF HookOf(u) = "pre" THEN Turn(u, "run") ELSE Close(u, "made")

(* Runner::run: the refusal of a hook is decided by what was read before *)
Allowed(u) == Runnable(u)

(* stop_group: the ladder of stop, which a group may outlast *)
StopGroup(g) ==
    \/ groups' = groups \ {g} /\ UNCHANGED <<lost, events>>
    \/ /\ events < MaxEvents /\ events' = events + 1
       /\ groups' = groups \cup {g} /\ lost' = lost \cup {g}

(* Mutant: what a failed hook left is let be *)
HookExitsLeaving(u) ==
    /\ op[u].phase \in Phases
    /\ \/ ~Allowed(u) /\ Close(u, "not_approved") /\ UNCHANGED <<groups, lost, events>>
       \/ Allowed(u) /\ After(u) /\ UNCHANGED <<groups, lost, events>>
       \/ /\ Allowed(u) /\ groups' = groups \cup {<<u, HookOf(u)>>} /\ Turn(u, "attach")
          /\ UNCHANGED <<lost, events>>
       \/ /\ Allowed(u) /\ groups' = groups \cup {<<u, HookOf(u)>>} /\ Close(u, "hook_failed")
          /\ UNCHANGED <<lost, events>>
    /\ UNCHANGED <<registry, block, disk, exclude, base, checkout, hooks, sessions, crossed>>

(* execute: the shell has ended, and left a group behind or not *)
HookExits(u) ==
    /\ op[u].phase \in Phases
    /\ \/ ~Allowed(u) /\ Close(u, "not_approved") /\ UNCHANGED <<groups, lost, events>>
       \/ Allowed(u) /\ After(u) /\ UNCHANGED <<groups, lost, events>>
       \/ /\ Allowed(u) /\ groups' = groups \cup {<<u, HookOf(u)>>} /\ Turn(u, "attach")
          /\ UNCHANGED <<lost, events>>
       \/ Allowed(u) /\ StopGroup(<<u, HookOf(u)>>) /\ Close(u, "hook_failed")
    /\ UNCHANGED <<registry, block, disk, exclude, base, checkout, hooks, sessions, crossed>>

(* attach: a session row after the rows are written, nowhere before them *)
Attach(u) ==
    /\ op[u].phase = "attach"
    /\ \/ /\ HookOf(u) = "post" /\ sessions' = sessions \cup {<<u, "post">>}
          /\ After(u) /\ UNCHANGED <<groups, lost, events>>
       \/ /\ HookOf(u) = "pre" /\ StopGroup(<<u, "pre">>)
          /\ Close(u, "hook_failed") /\ UNCHANGED sessions
    /\ UNCHANGED <<registry, block, disk, exclude, base, checkout, hooks, crossed>>

(***************************************************************************)
(* The steps.                                                              *)
(***************************************************************************)
NextStep(u) == Steps(u)[op[u].at + 1]
Doing(u, step) == op[u].phase = "run" /\ op[u].at < Len(Steps(u)) /\ NextStep(u) = step
Acted(u) == op' = [op EXCEPT ![u].at = @ + 1]
Fails(u) == op' = [op EXCEPT ![u].at = @ + 1, ![u].phase = "undo"]
World(u, entry) == disk' = [disk EXCEPT ![DirOf(u)] = entry]
Did(u, deed) == World(u, [disk[DirOf(u)] EXCEPT !.done = @ \cup {deed}])
rest == <<registry, block, base, checkout, hooks, processes, crossed, events>>

(* Materialize::apply: a clone of the base, which may be gone by now *)
Materialize(u) ==
    /\ Doing(u, "materialize")
    /\ \/ op[u].based /\ World(u, [Empty EXCEPT !.tree = "whole"]) /\ Acted(u)
       \/ ~op[u].based /\ World(u, [Empty EXCEPT !.tree = "part"]) /\ Fails(u)
    /\ UNCHANGED <<exclude, rest>>

(* Relocate::apply, Scrub::apply and InstallDependencies::apply work inside the home. *)
Relocate(u) == Doing(u, "relocate") /\ Did(u, "relocate") /\ Acted(u) /\ UNCHANGED <<exclude, rest>>
Scrub(u) == Doing(u, "scrub") /\ Did(u, "scrub") /\ Acted(u) /\ UNCHANGED <<exclude, rest>>
InstallDependencies(u) ==
    /\ Doing(u, "install") /\ Did(u, "install") /\ Acted(u) /\ UNCHANGED <<exclude, rest>>

(* RefreshRefs::apply brings in what the checkout's branches reach now. *)
RefreshRefs(u) ==
    /\ Doing(u, "refresh")
    /\ World(u, [disk[DirOf(u)] EXCEPT !.done = @ \cup {"refresh"},
                    !.start = IF op[u].start \in line THEN op[u].start ELSE 0])
    /\ Acted(u) /\ UNCHANGED <<exclude, rest>>

(* FetchBranch::apply takes the branch where the checkout has it. *)
FetchBranch(u) ==
    /\ Doing(u, "fetch")
    /\ World(u, [disk[DirOf(u)] EXCEPT !.done = @ \cup {"fetch"}, !.start = head])
    /\ Acted(u) /\ UNCHANGED <<exclude, rest>>

(* TakeBranch::apply: at the commit the row will name, or not at all.  A branch *)
(* of the unit's name that the clone brought with it, to which the code switches *)
(* wherever it is, is outside the model: names here are new to the clone.       *)
TakeBranch(u) ==
    /\ Doing(u, "branch")
    /\ IF disk[DirOf(u)].start # 0 THEN Acted(u) ELSE Fails(u)
    /\ UNCHANGED <<disk, exclude, rest>>

(* Hide::apply: the home's own repository, or the one all its worktrees share *)
Hide(u) ==
    /\ Doing(u, "hide") /\ Did(u, "hide") /\ Acted(u)
    /\ exclude' = (exclude \/ op[u].kind = "place")
    /\ UNCHANGED rest

(* WriteMarker::apply *)
WriteMarker(u) ==
    /\ Doing(u, "marker") /\ World(u, [disk[DirOf(u)] EXCEPT !.marker = u]) /\ Acted(u)
    /\ UNCHANGED <<exclude, rest>>

(* Activate::apply *)
Activate(u) ==
    /\ Doing(u, "activate") /\ Did(u, "activate") /\ Acted(u) /\ UNCHANGED <<exclude, rest>>

(* Mutant: whatever commit the checkout is at *)
ReadCarryAnywhere(u) ==
    /\ Doing(u, "carry")
    /\ op' = [op EXCEPT ![u].phase = "carrying", ![u].work = work]
    /\ World(u, [disk[DirOf(u)] EXCEPT !.anchor = head])
    /\ UNCHANGED <<exclude, rest>>

(* Carry::apply and carry::read: the patches, and the commit they are against *)
ReadCarry(u) ==
    /\ Doing(u, "carry")
    /\ \/ /\ head = op[u].start
          /\ op' = [op EXCEPT ![u].phase = "carrying", ![u].work = work]
          /\ World(u, [disk[DirOf(u)] EXCEPT !.anchor = head])
       \/ head # op[u].start /\ Fails(u) /\ UNCHANGED disk
    /\ UNCHANGED <<exclude, rest>>

(* carry::reproduce: the patches as read, the untracked files as they are now *)
Reproduce(u) ==
    /\ op[u].phase = "carrying"
    /\ \/ op[u].work # 0 /\ work = 0 /\ Fails(u) /\ UNCHANGED disk
       \/ /\ op[u].work = 0 \/ work # 0
          /\ op' = [op EXCEPT ![u].phase = "run", ![u].at = @ + 1] /\ Did(u, "carry")
    /\ UNCHANGED <<exclude, rest>>

(* A step fails for a reason of its own; a clone fails half-made. *)
StepFails(u) ==
    /\ op[u].phase \in {"run", "carrying"} /\ op[u].at < Len(Steps(u)) /\ events < MaxEvents
    /\ events' = events + 1
    /\ Fails(u)
    /\ IF NextStep(u) = "materialize" THEN World(u, [Empty EXCEPT !.tree = "part"]) ELSE UNCHANGED disk
    /\ UNCHANGED <<registry, block, exclude, base, checkout, hooks, processes, crossed>>

(***************************************************************************)
(* The commit.                                                             *)
(***************************************************************************)
FreePorts(b) == {p \in PortsOf(b) : alloc[p] = NoUnit}

(* allocate: for each name in turn, the lowest port of the block nobody holds *)
Grant(u, b) ==
    [i \in PortNames(u) |->
        CHOOSE p \in FreePorts(b) : Cardinality({q \in FreePorts(b) : q < p}) = i - 1]

(* Mutant: the indexes of the unit table are not there *)
AcceptedUnread(u) == Cardinality(FreePorts(op[u].block)) >= Services[ProjectOf(u)]

(* The unique indexes unit_slug and unit_open_branch, the foreign key of   *)
(* environment.base_id, and PortBlockFull                                  *)
Accepted(u) ==
    /\ op[u].based \/ op[u].kind = "place"
    /\ ~HeldSlug(u, op[u].slug) /\ ~HeldBranch(u, op[u].name)
    /\ Cardinality(FreePorts(op[u].block)) >= Services[ProjectOf(u)]

(* commit_of: the rows, the ports and the hold, in one transaction *)
Insert(u) ==
    /\ row' = [row EXCEPT ![u] = [slug |-> op[u].slug, branch |-> op[u].name, status |-> "open",
                                  base |-> op[u].start]]
    /\ env' = [env EXCEPT ![u] = "stopped"]
    /\ LET grant == Grant(u, op[u].block)
       IN  /\ granted' = [granted EXCEPT ![u] = grant]
           /\ alloc' = [p \in AllPorts |-> IF \E i \in PortNames(u) : grant[i] = p THEN u ELSE alloc[p]]
    /\ hold' = hold \cup {u}

Commit(u) ==
    /\ op[u].phase = "run" /\ op[u].at = Len(Steps(u))
    /\ \/ /\ Accepted(u) /\ Insert(u)
          /\ IF RunsHook(u, "post") THEN Turn(u, "post") ELSE Close(u, "made")
       \/ /\ ~Accepted(u) /\ Turn(u, "undo") /\ UNCHANGED registry
    /\ UNCHANGED <<block, disk, exclude, base, checkout, hooks, processes, crossed, events>>

(***************************************************************************)
(* Undoing.                                                                *)
(***************************************************************************)
(* Mutant: the home is left for the next create to find *)
TakenBackButHome(u, step, d) == IF step = "marker" THEN [d EXCEPT !.marker = NoUnit] ELSE d

(* What the undo of each step leaves of the directory. *)
TakenBack(u, step, d) ==
    IF step = "materialize" THEN Empty
    ELSE IF step = "marker" THEN [d EXCEPT !.marker = NoUnit]
    ELSE IF step \in {"hide", "activate"} THEN [d EXCEPT !.done = @ \ {step}]
    ELSE d

(* undo_steps: the last step that may have acted is taken back *)
Undo(u) ==
    /\ op[u].phase = "undo" /\ op[u].at > 0
    /\ LET step == Steps(u)[op[u].at]
       IN  /\ World(u, TakenBack(u, step, disk[DirOf(u)]))
           /\ exclude' = (exclude /\ ~(step = "hide" /\ op[u].kind = "place"))
    /\ op' = [op EXCEPT ![u].at = @ - 1]
    /\ UNCHANGED <<registry, block, base, checkout, hooks, processes, crossed, events>>

UndoFails(u) ==
    /\ op[u].phase = "undo" /\ op[u].at > 0 /\ events < MaxEvents
    /\ events' = events + 1
    /\ Close(u, "stuck")
    /\ UNCHANGED <<registry, block, disk, exclude, base, checkout, hooks, processes, crossed>>

Undone(u) ==
    /\ op[u].phase = "undo" /\ op[u].at = 0
    /\ Close(u, "rolled_back")
    /\ UNCHANGED <<registry, block, disk, exclude, base, checkout, hooks, processes, crossed, events>>

(* A kill: what the journal knows of is left to the next command. *)
Kill(u) ==
    /\ Active(u) /\ op[u].phase # "dead" /\ events < MaxEvents
    /\ events' = events + 1
    /\ IF op[u].phase \in Runs THEN Turn(u, "dead") ELSE Close(u, "killed")
    /\ lost' = IF op[u].phase = "attach" THEN lost \cup {<<u, HookOf(u)>>} ELSE lost
    /\ UNCHANGED <<registry, block, disk, exclude, base, checkout, hooks, groups, sessions, crossed>>

(* resolve: the next command rolls back the run of one that is gone *)
TakeOver(u) ==
    /\ op[u].phase = "dead" /\ Turn(u, "undo")
    /\ UNCHANGED <<registry, block, disk, exclude, base, checkout, hooks, processes, crossed, events>>

(***************************************************************************)
(* The end of a unit.                                                      *)
(***************************************************************************)
(* nodal done and nodal merge write the status alone: the branch is free again. *)
Finish(u) ==
    /\ u \in Live /\ ~Active(u) /\ row[u].status = "open"
    /\ row' = [row EXCEPT ![u].status = "review"]
    /\ UNCHANGED <<env, granted, alloc, hold, block, disk, exclude, base, checkout, hooks, processes,
                   op, crossed, events>>

(* release *)
Release(u) == alloc' = [p \in AllPorts |-> IF alloc[p] = u THEN NoUnit ELSE alloc[p]]

(* A reclaim: the groups are stopped, the directory is moved or let go of, the *)
(* rows are closed in one transaction.  Removal has what comes in between.     *)
Reclaim(u) ==
    /\ u \in Live /\ ~Active(u) /\ disk[DirOf(u)].marker = u
    /\ groups' = groups \ {g \in sessions : g[1] = u}
    /\ sessions' = {g \in sessions : g[1] # u}
    /\ World(u, IF op[u].kind = "place" THEN Standing ELSE Empty)
    /\ exclude' = (exclude /\ op[u].kind # "place")
    /\ row' = [row EXCEPT ![u].status = "archived"]
    /\ env' = [env EXCEPT ![u] = "absent"]
    /\ granted' = granted /\ Release(u) /\ hold' = hold \ {u}
    /\ UNCHANGED <<block, base, checkout, hooks, lost, op, crossed, events>>

Progress(u) ==
    \/ EnsureProject(u) \/ EnsureBlock(u) \/ ChooseName(u) \/ EnsureBase(u)
    \/ HookExits(u) \/ Attach(u)
    \/ Materialize(u) \/ Relocate(u) \/ Scrub(u) \/ RefreshRefs(u) \/ FetchBranch(u)
    \/ TakeBranch(u) \/ InstallDependencies(u) \/ Hide(u) \/ WriteMarker(u) \/ Activate(u)
    \/ ReadCarry(u) \/ Reproduce(u) \/ Commit(u)
    \/ Undo(u) \/ Undone(u) \/ TakeOver(u)

Next ==
    \/ MoveCheckout \/ EditHook \/ PruneBase
    \/ \E u \in Units :
        \/ \E project \in Projects, kind \in Kinds, carry \in BOOLEAN, name \in Names, dir \in Directories :
              Begin(u, project, kind, carry, name, dir)
        \/ Progress(u) \/ StepFails(u) \/ UndoFails(u) \/ Kill(u)
        \/ Finish(u) \/ Reclaim(u)

Spec == Init /\ [][Next]_vars

(***************************************************************************)
(* Properties.                                                             *)
(***************************************************************************)
(* Everything a plan makes is in the directory of a unit that has a row.   *)
Whole(u) ==
    /\ disk[DirOf(u)].tree = "whole" /\ disk[DirOf(u)].marker = u
    /\ {Steps(u)[i] : i \in DOMAIN Steps(u)} \cap Deeds \subseteq disk[DirOf(u)].done
    /\ u \in hold
    /\ op[u].kind = "new" => disk[DirOf(u)].start = row[u].base

(* A command that made no unit has left nothing: no directory of its own,  *)
(* no marker, no port and no hold (Materialize::undo, WriteMarker::undo).  *)
NothingLeft ==
    \A u \in Units :
        (op[u].phase = "closed" /\ u \notin Made /\ op[u].answer # "stuck")
        => /\ disk[u] = Empty /\ \A d \in Directories : disk[d].marker # u
           /\ u \notin hold /\ \A p \in AllPorts : alloc[p] # u

(* A process group a hook left running has a session row that reclaim and  *)
(* gc read, unless it would not stop or its command was killed (execute).  *)
GroupsAreOwned ==
    \A g \in groups : g \in sessions \cup lost \/ op[g[1]].phase = "attach"

(* Work that is carried into a home was read against the commit the home   *)
(* branched from (Carry::apply).                                           *)
CarriedIsAnchored ==
    \A u \in Live : "carry" \in disk[DirOf(u)].done => disk[DirOf(u)].anchor = row[u].base

(* The commands implement the life of a unit: a unit appears in one step,  *)
(* with a whole home and names and ports of its own, however its command   *)
(* was interleaved, killed or taken over, and its home is ready until it   *)
(* ends (commit_of, reclaim's commit).                                     *)
LifeOf(u) ==
    IF u \notin Made THEN [stage |-> "none"]
    ELSE [stage |-> row[u].status, project |-> ProjectOf(u), slug |-> row[u].slug,
          branch |-> row[u].branch, ports |-> {p \in AllPorts : alloc[p] = u},
          ready |-> u \in Live /\ (u \in crossed \/ Whole(u))]
Life == INSTANCE UnitLife WITH Ports <- AllPorts,
                               life <- [u \in Units |-> LifeOf(u)]
ImplementsLife == Life!Spec
=============================================================================
