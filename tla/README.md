# Nodal in TLA+

Nodal gives every piece of work on a repository (a *unit*) a directory of its own
(its *home*, a copy-on-write clone), with ports, services, environment files and a
write lock, and takes the home back when the work is over. There is no daemon: every
`nodal` command is a short-lived process, and many of them - people, agents, prompt
hooks, `nodal gc` in a cron job - share one SQLite registry and one disk. Each may be
killed between any two statements. The modules here model the parts in which that
matters, TLC checks them on small instances and TLAPS proves the main results for
every size.

Paths below are under `src/crates/nodal-core/src/`.

## The system

| component | state it keeps | operations | what makes it correct | module |
|---|---|---|---|---|
| operation runner and journal (`lifecycle/{mod,journal,step,owner}.rs`) | `operation` and `operation_step` rows; what the steps did to the world | `run`, `retry`, `resume`, `roll_back`, `resolve` | an operation is wholly done or wholly not, whoever drove it and wherever it was killed; every open run is closed in the end | `Journal` |
| write lock (`runtime/lock.rs`, `store/locks.rs`, `model/lock.rs`) | one row per unit: host, actor, lineage, two clocks | `enter`, `touch`, `--take`, the claim of a reclaim, release | two lineages are never both told they hold a home; a hold is given up only on proof | `Lock` |
| reclaim and trash (`lifecycle/ops/reclaim.rs`, `store/trash.rs`) | the home's name on disk, the environment row, the trash row | `prepare`, move, registry write, undo | nothing that exists only here is lost unasked; nothing in the trash is forgotten | `Removal`, `Occupancy` |
| garbage collection (`lifecycle/ops/gc.rs`) | the expired rows, one reading per sweep | list, read again, rename, remove, forget; stop what outlived a reclaim | what goes has a copy *now*; what was begun is finished | `Removal`, `Sessions` |
| uniqueness kernel (`lifecycle/{kernel,assess,witness,uniqueness,complete}.rs`, `git/{fetched,outside}.rs`, `doctor/unique.rs`) | none; readings of repositories it does not own | `Checkout::read`, `elsewhere`, `history`, `judge` | a home is called safe only when another store holds its work, on evidence not older than the work | `Witness` |
| new and adopt (`lifecycle/ops/{new,adopt}.rs`, `git/carry.rs`) | unit and environment rows, homes, markers | step plans on the journal | a unit appears whole, once, with names and ports nobody else has, or leaves nothing | `Units` over `UnitLife` |
| merge, done, unit states (`lifecycle/ops/{merge,done}.rs`, `git/merge.rs`, `lifecycle/states.rs`) | branches, the target, the premerge ref, `unit.status` | stages of a merge, abort, push, settle | what is recorded as merged is on the target; a rollback restores; no work is lost | `Landing` |
| hooks (`lifecycle/hooks.rs`) | approvals, process groups, their rows | refuse, run, stop, attach | what a hook leaves running has an owner | `Units` |
| ports and leases (`services/ports.rs`, `store/{port_blocks,port_allocations}.rs`) | blocks and allocations | allocate, release | no port belongs to two units | `Units` |
| bases (`substrate/*.rs`, `store/bases.rs`) | warm trees, their marks and rows, the journal of a build | build, retry, resume, clone, evict, gc | what a home is cloned from is finished for its key; no directory is forgotten | `Bases` |
| processes, sessions, stop (`runtime/{sessions,run,stop}.rs`) | session rows, the process table | tether, observe, signal, close | only processes of the unit are signalled; a row outlives its group | `Sessions` |
| who stands in a home (`runtime/processes.rs`, `lifecycle/assess.rs`) | one reading of the process table | scan, sort, vouch, refuse | no home moves from under a stranger; its own processes never block it | `Occupancy` |
| workspace trees (`workspace/*.rs`) | the tree being made | walk, claim, put, link, finish, remove | a finished clone is its source; a failed one leaves nothing | `Trees` |
| env files, recipes, fingerprints, context files, doctor, output, git wrappers, adapters, setup, command line | files they write | text processing and calls of other programs | - | - |

How they interact: every mutating command first resolves the journal, then enters the
home's lock, then runs a plan on the journal whose last act is one registry
transaction. A create clones a base with the tree copier, runs hooks whose groups become
session rows, and takes ports. A reclaim reads the witnesses, stops the sessions, sorts
who is left, and moves the home. `gc` retires units by running reclaims, and removes what
reclaims left in the trash. Nothing sends messages; everything that is shared is a row, a
directory, a ref or the process table, and the hard part is always that one of them was
read a moment ago.

What is hard to test here (`hazards` in PROJECT.json has each at its line): a list of
open runs, of processes or of bases that is stale when it is acted on; a kill between a
side effect and the mark that records it; a pid, a process group or a port that is given
to something else; a lock row that changes between the reading of the process table and
the write; a copy deleted during the fortnight a home spends in the trash; a sweep or an
eviction killed inside a removal; a target branch that moves under a merge; a conflict
that a step reports as success; a name, a branch or a base taken between its check and
its row; a base copied from a neighbour whose installs are already there; a group whose
leader has ended; workers that fail in any order.

## Modules

| module | models | used by |
|---|---|---|
| `Journal` | the runner, the journal and resolve | `MCJournal`, `JournalProofs` |
| `Lock` | the write lock of one unit | `MCLock`, `LockProofs` |
| `Removal` | reclaim, the trash and the expiry step of gc | `Removal.cfg`, `OccupancyProofs` |
| `Witness` | the reading and the verdict a reclaim rests on, for one home | `MCWitness`, `WitnessProofs` |
| `Landing` | merge, done, and the status of a unit | `MCLanding`, `LandingProofs` |
| `UnitLife` | what a unit's life looks like from outside: the abstract specification | `Units` |
| `Units` | new, the two forms of adopt, hooks, ports, carried work | `MCUnits`, `UnitsProofs` |
| `Bases` | the base cache and everything that builds or takes bases | `MCBases`, `BasesProofs` |
| `Sessions` | session rows and the ladder of signals | `Sessions.cfg`, `SessionsProofs` |
| `Occupancy` | the reading of the process table a reclaim moves a home over | `MCOccupancy`, `OccupancyProofs` |
| `Trees` | the tree copier and the removal that undoes it | `MCTrees` |

Every module but the first three keeps a `TypeOK` that states the types of its variables for
the reader (and, in `Witness`, `Landing`, `Sessions` and `Occupancy`, for the prover); it is
not among the properties of its run. Bounds (`Max...` constants) stand in guards and are
named where they are declared; variables that only record what happened, for a property to
speak of, are marked "history" there.

### Journal

`state`, `owner`, `rowState` and `rowOutput` are the columns of the two tables;
`world` is what each step has made outside the registry (absent, partial, done);
`written` and `handed` are the rows of the operation and the outputs its commit was
given. `pc`, `mode`, `cur`, `done`, `heard`, `acted` and `todo` are the locals of the
functions a process is inside. Every SQL statement is one action, every `apply` and
`undo` is at least two (it can be seen half-done), and `Die` may come anywhere.
`Procs` are process *identifiers*, reused once free, on one or two machines (`HostOf`).
`Retry` carries the condition of a base build that can be carried on
(`substrate/build.rs` `unfinished`, `substrate/bases.rs` `failing_step`), the only plan
with `Recovery::Resume`.

### Lock

One unit's row. `Enter` reads it, then `Take`, `Lost`, `Settle`, `Refresh`,
`Contested` and `HandOver` are the statements of `enter` with the reading of the
process table in `Settle`; other commands run in between, because entries use a plain
connection. A reclaim takes the hold inside a transaction (`ReclaimClaim` is all of
`enter` at once) and releases it with the registry write. A command of the model is a
lineage: an actor in a POSIX session on a host. `Blind` hosts have a process table this
account cannot read whole, and `Left` is what an earlier command may have left in the row:
nothing, a hold of before lineages or actors, or that of a session without a command of its
own. `standing` is a history variable: who was told it holds the home and was not displaced
since by `--take`, by the end of its session or by that of its lease. A proof of death
displaces nobody, so it takes nobody out of `standing`; where its hand-over, or a refresh on
a blind host, writes over a row that has been replaced since it was settled on (`Replaced`),
those who stood are `overtaken`, which is what `OneWriter` excepts.

### Removal

`tree` is the name a home is under (its own, the trash's, `.removing`, none), `work` the
commits its refs reach, `checkout` and `beside` what the repositories outside reach, `env`
and `row` the registry. `Prepare`, `StartMove`, `Move`/`Refused`, `Commit` and `RollBack` are
a reclaim; `SweepStart`, `NextEntry`, `ReadProject`, `Clear`/`HoldBack`,
`Begin`/`BeginFails`, `RemoveTree` and `Forget` the expiry step. The checkout is read once
per sweep and stays as it was read, repositories beside it are asked per home, as in
`Readings::of_project` and `only_here`. A reading proves any subset of what is there, which
stands for every way in which a store may go unread. `RollBackFails` is the undo that cannot
move the home back: the journal closes the run as failed, and keeps it (`failed`). `dropped`
and `excused` are history variables: what has left the outside, or come to the home, since
the reading that decided.

Left out of `Removal`: checkouts adopted in place (never moved), refs deleted on the
remote, the prune of regenerable directories, the teardown of the unit's own
processes, and the snapshot ref of a forced reclaim (it adds a ref inside the home).

### Witness

One home, the remote it was cloned from, the project's checkout and one repository
beside the checkout. `work` is the home's own refs, `sent` and `wrote` its refs under
`origin` and the reflog dates of their last moves; `server` the remote; `heads`,
`track` and `fetched` the checkout's branches, its refs under `origin` and its
`FETCH_HEAD`; `beside` the clone's refs; `objs` and `whole` the commits a store has and
those whose trees and blobs it has too. `setup` fixes how the project is laid out: the
relation of the home's `origin` to the checkout (`Relation`, and no remote at all), and
what is peculiar about either store (`complete.rs`'s `Lacking`, a narrow refspec). A
checkout may itself be a partial clone: what its own refs keep it has as commits and not
always as content, and `PartialHas` is the exception the properties make for it.

`ReadCheckout` is `Checkout::read`, and `rd` what it keeps: the tips, which of them are
the checkout's own, the branches it tracks, and the tips its store really holds. `Judge`
is everything after it (`elsewhere`, `observed`, `believed`, `holdings`, `history`,
`local_copies`, `judge`), as operators over `rd` and over the disk as it is by then; the
working tree and the process table give it any answer they may. `MaxRace` commands may
come between the two. `examine` and gc's `only_here` both take this path; in `Removal` it
is one step that proves some subset of what is outside.

The other actions are people at a Git prompt, and external: commit and push in the home,
branches dropped, rewound and merged on the server, fetches of everything, of one branch, of
another remote, with and without `--prune`, branches made and deleted, copies taken with and
without a name, `git gc`, and a store that loses objects. Each is one step. `since` is a
history variable: what the home pushed after the last fetch. `rd.kept` and `rd.durable` are
history too: what the checkout had under a ref, and under one of its own, when it was read.

Left out of `Witness`: an adopted checkout that is handed its own path as a sibling,
submodules, which kinds of ref a home counts as its own work, a Git command that fails in
the middle of a judgement (each such failure ends in a refusal), and `nodal doctor`'s
survey of many clones.

### Landing

A commit is its history, the sequence of the trees on the way to it, so that
`is_ancestor` is a prefix, `merge_base` a common prefix, and a squash or a rebase another
sequence; a tree is the set of the changes it holds. `op` is the merge of each unit and
how far its journal is; each step of `merge.rs`'s plan (`FetchTarget`, `CommitWork`,
`RecordPremerge`, `SquashBranch`, `RebaseBranch`, `Forward`) and each undo is an action,
after `Prepare` (what the plan is built from) and `Start` (the ref of the home as it is
then, made after the `pre_merge` hook). People edit, commit in the home and on the target,
and resolve paths in between. `Push` and `RecordDone` are `nodal done`, `ReadList` and
`Settle` the settling of a listed unit, `Reclaim` as much of a reclaim as writes the
status. `landed` is what a unit was recorded as merged with; `unwound` what an undone merge
of another unit took off the target. `StageSets` are the flags each unit may be merged with,
and `Finished` the units that people also push, list and reclaim.

### Units and UnitLife

`Units` is three commands. `EnsureProject`, `EnsureBlock`, `ChooseName` and `EnsureBase` are
the checks before a plan exists (the project, its block of ports, the name and the branch
with the hooks that are declared and approved, the base), each a reading of the registry, in
one order for all commands (an adoption chooses the name first, `adopt.rs:325-346`); then one
action per step of the plan, with its undo, on a journal; then `Commit`, which writes all
rows in one transaction and checks the branch again; then the hooks of the second phase.
Another unit may commit, finish or be reclaimed between any two of these. The checkout's
`head`, what it reaches and its uncommitted `work` change too, as do the hook the recipe
declares, its approval, and the base the home is cloned from.

`UnitLife` is what a user may rely on: a unit appears in one step with a ready home and
with ports, a name and an open branch nobody else has; it is finished; it ends. `Units`
refines it (`ImplementsLife`): the mapping takes a unit's stage from its row, its ports
from the allocations and its readiness from the directory itself, so a unit that got its
row before its home was whole, or shared a port for one state, would not be a step of it.
`crossed` excuses one window, below.

### Bases

A base is a row, a directory and a mark beside the directory that says it is not finished
(`marked`). `Begin`, `TakeOver`, `Resolved` and `Warm` are a command up to `ensure`;
`BuildOne` opens the journal of a build, whose steps (`StartClone`, `MarkClone`, `MoveClone`,
`Checkout`, one `Tool` per install, `Promote`) run, are resumed after a kill (`Pass`,
`Settle`) or retried after a failure. A build that a command began itself and whose commit is
refused is undone in reverse, a step and its mark at a time (`Undo`, `Unmake`, `Unmade`,
`UndoPass`, `MarkUndone`), to `CloseUndone` or `UndoFails`; `CloneHome` and `CommitHome` are
the clone of a home and the row that pins the base; `EvictOne`, `StartRemove`, `EndRemove`
and `Forget` the removal in its order, for `base evict` and `base gc`. `Tools` are the
installs, `excl` those whose output the recipe keeps out of the clone, and `has` which key
each install in a directory ran for, which is what tells a finished base from one that
inherited an install from the neighbour it was copied from. The tree an earlier release left
is one of the initial states.

### Sessions

`table` is what wears each number: a process group, the `NODAL_ID` it carries, whose it
really is (`own`), and whether its number was written down for something else before it
started (`late`), which is the one way a number can deceive and is excused by name. `rows`
are the session rows. Starting, forking, leaving a group, dropping the variable and ending
are one action each. `nodal run --tether` (`StartTether`, `RecordTether`, `CloseTether`), an
observer (`Scan`, `ReadOpen`, `Reconcile`), the ladder of `stop.rs` for its two callers
(`ListReclaim` or `ListGone`, `BeginStop`, `Send`, `Settle`), and what they close in the end
(`Commit`, `CloseEmpty`) are cut at every reading of the table. Signalling is not the end of
a process: what it honours is its own affair.

### Occupancy

`table` as above, with parents and with writers. `Plan` is what a reclaim puts in the journal
(the groups of the unit, the `nodal run` of each), `Teardown` the stop, in one step (its
rungs are in `Sessions`), `Scan` the reading, `Refuse` the sorting (`bystander`,
`vouched_for_by_a_group`, `is_still`, `has_ended`, `withheld_in`), which asks the machine
again, and `MoveHome` the rename or prune. `kin` is what a process really is to the unit,
which no part of the code can read; the properties are about it.

A number may be given again as soon as no process wears it and no group has it, also while
a row or the journal still records it. A process that is given a recorded number, what
started it, and what else that one starts are then spoken for (`vouched_for_by_a_group` asks
the machine whose group or parent a number is *now*): `Mistaken` marks such strangers, and
`MovedUnderNobody` excepts them, and no others, by name. A `nodal run` that has seen its
group end closes the row and starts the git that records the run (`RecordRun`), and no other
process; `tended` is a history variable: the `nodal run`s of the groups that ran when the
reclaim was planned, which is what `OwnRunNeverBlocks` is about.

### Trees

The walk that fixes the order of the entries; the directories, made on one thread; a pool of
workers that claim directories and put their files, entry by entry, each of which may refuse;
a second pass for the further names of linked files; the finishing of directories; and the
removal. `Check` reads the stop flag before `Claim` and `Each`, which is relaxed: a worker
may still read it as unset. `made` has an inode, a mode and times per entry, because putting
a child changes its directory and a read-only directory takes no child.

## Runs

| run | instance | shows |
|---|---|---|
| `journal_shared` | two operations (one rolls back, one resumes) of two steps, three pids on two machines, two alive at a time, two faults | registry and journal agree; nothing unjournalled on disk; a rolled-back run left nothing; a running operation has one driver; a resumed run is whole |
| `journal_crash` | the same on one machine, one process at a time, three faults, fair | a committed run is whole, and every open run is closed in the end |
| `lock` | two agents of one actor name on a machine with a readable process table, a second actor on one without, a session there that may hold the home at first, `Window` 1, clock to 3 | one writer per home, but for those overtaken; nothing unread is taken for dead |
| `removal` | one home, two commits, one reclaimer beside one sweep, `Retention` 1, clock to 2, two faults (a kill, a removal or an undo that fails), fair | commits survive, nothing in the trash is unaccounted for, a closed row means a home off its name, a begun removal is finished |
| `witness` | a home's commit over a shared one, two branches, fifteen set-ups, two seconds, one race, one loss of objects | a safe home has its work in another store; what rests on the remote was seen there by a fetch no older than the push; a later push is not forgotten; work that was fetched does not refuse |
| `landing` | two units, two merges, three sets of stages, two changes, one fault | what is recorded as merged is on the target, but for what the undo of the other's merge took off; a rollback restores the home; no work is lost |
| `units` | two units in two projects that share one block of two ports, all three commands, one worktree, one name with two spellings, one event | the commands implement `UnitLife`; a command that made no unit left nothing; a hook's group has an owner; carried work is on the commit it was read against |
| `bases` | two processes, two keys, two bases, one install, `Keep` 1, three commands, two events | a base without the mark is finished for its key; no directory is forgotten; a home is cloned from a finished base and has every install, but for bases being taken away or built twice and for exclusions edited since |
| `sessions` | one unit, two numbers, three starts, one row, two of scan, reclaim and sweep | a signal reaches the unit's processes only, and not the caller; a stop says truly what it left; a row outlives its group, but for the three a reclaim commits over |
| `occupancy` | three numbers, four starts, one turn, sixteen parents | no home is moved from under a stranger who was read there, but for those a reused number speaks for; the unit's own wrapper and its git never block it |
| `trees` | 270 trees of seven names, three workers, one kill, fair | a finished clone is its source with the same report, but for two attributes the code leaves; a failure names the entry one thread would have named; every clone ends whole or leaves nothing |
| `journal_stale_list` | one operation, two pids, no fault | **violation** of `CommittedIsWhole` |

`journal_stale_list` is the one finding: `resolve` acts on a list of open runs read
earlier, and undoes an operation whose owner has committed and exited in between, against
`lifecycle/mod.rs:12-14` ("either wholly done or wholly not"). The other places where the
code was found to do something else than a comment or a doc says of it have no run of their
own: a property states what is promised, names the exception in its formula, and its comment
quotes the line (`overtaken`, `failed`, `PartialHas`, `unwound`, `CommitsOver`, `mistaken`,
the exclusions in `HomeIsReady`, the two attributes in `CopyIsWhole`). So each passes for
everything but that exception, and a change of the code that closes the window is a change of
the model after which the exception can go.

Bounds. Two operations of two steps are the least in which order, a first and a last step,
and a run behind another exist; three faults allow a kill of the process that repairs what a
kill left. Two lineages of one name and a stranger are the least in which "same actor" and
"same holder" differ; on the host that cannot be read whole, a second session is what a
reading is decisive about; the clock of `lock` passes the idle window and the absolute one.
One home is enough for TLC in `removal` because homes meet only in the sweep's one reading,
which goes stale between its two actions just as between two homes; the proofs are for any
number. In `witness` one commit of the home's own over one shared, a second branch beside the
main one, and two seconds are the least in which a history, a branch that comes and goes, and
"same second" exist; the set-ups are chosen so that each relation and each trait occurs with
a checkout or a clone that can matter. In `landing` the second merge is the other unit's, or
a second run of the first over what that left; two changes are a squash of a commit and an
edit, or one beside a foreign commit; the unit that only moves the target has one set of
stages, because it is there for its undo. `RollbackRestores` and `WorkKept`, which a longer
history could break, are proved for every bound. In `units` the block holds two units of one
project or one of the other, so that it can run out, and one name with two spellings makes
both units want the same slug and branch; one event is one kill, failing step, edit, or
pruned base, at any point of either command. In `bases` two identifiers over two keys are a
base and its neighbour or a base and its replacement, and two events a kill and a kill of
what repairs it. In `sessions` and `occupancy` more processes start than there are numbers,
so that every number is given again. In `trees` seven names are two directories, one nested,
with links across them; three workers are one more than there are directories that hold files
at first.

Deadlock is not checked in `Lock`, `Removal`, `Witness`, `Landing`, `Units`, `Bases`,
`Sessions`, `Occupancy` and `Trees`: a machine on which nobody works any more, a command
that has ended, or a home that has gone, has stopped.

Fairness. A process that is not killed goes on (weak fairness of `Progress`, of a sweep, of
each worker of a copy): the code has no wait that depends on another process, SQLite's busy
timeout being an error like any other. `journal_crash` also assumes that people go on giving
commands from every pid that becomes free, and `removal` that `nodal gc` is run again and
again; `trees` that somebody resolves a clone that was killed. None of the three is a promise
of the code, and without them nothing can be promised, since there is no daemon. Kills are
bounded, so a command is not killed for ever. The other modules state safety only, and no
fairness.

## Proofs

| module | theorems | assumption |
|---|---|---|
| `JournalProofs` | `InvariantHolds`, `TypesHold`, `RegistryAgrees`, `NothingIsUnjournalled`, `RollBackCleans`, `RunIsAlone`, `AnswersReach`, `ClosedStays`, `ResumeIsWhole`, `CommittedIsWholeAlone` | that of the constants; `CommittedIsWholeAlone`: one process lives at a time, and no plan that resumes is refused its write |
| `LockProofs` | `LockTypesHold`, `TheDeadAreDead`, `OneWriterHolds` | `OneWriterHolds`: every command states a session (`Stated`) |
| `OccupancyProofs` | `InvariantHolds`, `OccupancyTypesHold`, `MovedUnderNobodyHolds`, `OwnRunNeverBlocksHolds` | that of the constants |
| `OccupancyProofs`, of `Removal` | `RemovalTypesHold`, `AbsentIsGoneHolds`, `TrashedIsAccountedHolds`, `CommitsSurviveHolds` | the last three: one reclaim at a time (`Alone`) |
| `SessionsProofs` | `InvariantHolds`, `SessionsTypesHold`, `StopIsTrueHolds`, `OnlyTheUnitIsSignalledHolds`, `RowsOutliveGroupsHolds` | that of the constants; numbers and environments are finite |
| `UnitsProofs` | `ImplementsLifeHolds`, `NothingLeftHolds`, `CarriedIsAnchoredHolds`, `GroupsAreOwnedHolds`, `LivingShareNothing`, `LivingHaveHomes` | that of the constants |
| `BasesProofs` | `BasesInvariant`, `NothingForgottenHolds`, `BuiltIsFinishedHolds`, `HomeIsReadyHolds` | that of the constants |
| `WitnessProofs` | `WitnessTypesHold`, `SafeIsOutsideHolds`, `RestsOnACurrentReadingHolds`, `PushIsNotForgottenHolds`, `FetchedWorkGoesHolds` | that of the constants |
| `LandingProofs` | `LandingInvariant`, `LandingTypesHold`, `WorkKeptHolds`, `RollbackRestoresHolds` | that of the constants |

`OccupancyProofs` takes the two sides of a reclaim together: whom it is refused over, and
what it and the sweep make of a home where it is not. It extends both modules, which is why
`Occupancy`'s names are prefixed; the theorems of one speak of nothing of the other, and no
step ties them (the plan has the refinement that would tie `Witness` to `Removal`).

`Journal`'s inductive invariant `IInv` adds to the properties: where a process is says
which of the four drivers it is inside (`ModeFits`); a process inside `run` holds an
open row with its own pid and every list that names the run names that pid
(`RunIsHeld`) - this is what makes a live run unreachable to `resolve`; a process
inside a step has the row open; one that undoes knows every step that is still there
(`UndoKnowsAll`), without which `RolledBackIsClean` is not inductive when two
processes undo the same run; and applied rows keep their answers.

`CommittedIsWhole` is false of two processes (`journal_stale_list`), so its theorem says what
makes it true of one. While one process lives, what it has read of the open runs is still so
(`OneAtATime`): each entry of its list is an open run it has yet to take, named once. Then
what a run counts as done is done (`Tallies`) and stays so, since the only run that is undone
is an open one, and a plan that rolls back is whole when it commits (`AloneIsWhole`); the
plans that resume are `ResumedIsWhole`, whatever runs beside them. Both hypotheses are
needed: two commands at once resume and undo one run, and a plan that resumes, is refused its
write and killed between an undo and its mark is resumed over the missing step (see the known
windows).

`Lock`'s one says that every command about to write still has grounds to: what it has
read either is the row, or the row is one that its statement will not match. It needs
`Tick`'s bound (an entry is shorter than an idle window): an entry suspended for a
whole window could refresh a row that has lapsed and been taken. For a hand-over to displace
nobody, `Alive` says that whoever is inside an entry or stands has a session that lives, so
that a row whose session has ended names none of them (`DeadNamesNobody`); where the row is
no longer the one that was proved dead, whoever it names is `overtaken`. Both need `Stated`:
a command without a session, on a row that has none, may be any lineage of its name.

`Removal`'s one ties the plan to the home (`PlanFits`), the row to the name on disk
(`LiveIsReclaimed`, `RowIsAbsent`, `AbsentHasRow`), the sweep's list to the rows
(`SweepFits`), and says what a judgement rests on (`Rests`): the reading is within the
checkout and what it has lost since, and a cleared or removing unforced home holds only
commits that are outside or excused. `Alone` cannot be dropped: with two reclaimers, the
second begun while the first is alive, the undo of one brings a home back under a row the
other has closed (the first of the known windows of reclaim). `FailedStays` says where a home
is whose undo failed: in the trash or further on, with no plan that could bring it back.

`Witness`'s one says that a checkout that may be read has the content and the history of
every commit in it (`CheckoutIsWhole`), that this was so of every reading
(`ReadingIsWhole`), and that a checkout that is no clone of the remote has no refs under
it (`OnlyClonesTrack`). From it, every tip of `elsewhere` reaches only what the checkout
kept at the reading or keeps now, and a safe verdict leaves nothing between those tips
and the stores that vouch (`SafeIsCovered`). `PushIsNotForgotten` needs the two dates
instead (`DatesAgree`). `FetchedWorkGoes`, the opposite of the three, rests on its own
(`FetchInv`): what a store fetched came from the remote and the remote from the home
(`WorkIsAll`); a store that lost nothing holds what its refs name (`RefsAreHeld`), and in a
clone of the remote those under `origin` are where the last fetch saw the branch
(`TracksAreSeen`); a reading nothing has overtaken is the checkout as it is
(`ReadingIsNow`). `CheckoutIsWhole` and `ReadingIsWhole` except a checkout that is a partial
clone, which has the history of its commits and not their content; that is all that is left
of the two theorems there (`PartialHas`, and the known windows).

`Landing`'s one is in three parts. `NothingLost` says where each change written in a home
is to be found: in a record, or in a home that no merge is at work in; a home enters a merge
only by `Start`, which records it, and `WorkKept` follows. `MergeFits` is about the home a
merge is watching: one that nobody has touched since the merge was planned, with the squash
in its plan and no premerge ref or stopped rebase from before. Until the premerge ref is
there only the commit has moved the branch (`Unrecorded`); from then on the ref is the tip
the squash began with, and the tree is either the one the merge found, or that of a branch
whose rebase began with everything committed (`Recorded`, `Tried`), so that moving the tree
with the branch gives back what was there. `PlanFits` is what the plan must look like for
that: the record is taken immediately before the squash, and the rebase comes after. The
third part is `TypeOK`, which is not routine: every history begins with the tree the project
began with, so any two have a merge base (`MergeBaseIs`), a squash keeps the tree of the tip
(`SquashIs`), and a rebase, which is a recursive function over the commits since the base,
gives a history again (`RebasedIs`, on the least commit it could fail at).

`Occupancy`'s one says how what a process really is can be read off what started it, its
group and its identifier (`Lineages`): a stranger's parent is a stranger or nobody, and its
group is not one of the unit's. `HeldIsOurs` says that a process of the plan, known by number
*and* start, is the unit's if it is still there, and `TendedIsCarried` that the plan has all
of those it should; `ReadIsSame` and `HeldWasRead` carry both
across the reading, with the start as the proof that a number has not been given again; and
`ClearOfStrangers` is the verdict. A number of a recorded group that is given to a stranger
would break `Lineages`; what it then speaks for is `mistaken`, a kind of its own, and
`Lineages` says that no recorded number leads to any other stranger (`StartsOne`,
`Kindred`).

`Sessions`' one follows three names of a group through every step of the machine: the open
row (`RowsAreOurs`), what a reclaim or a sweep holds of it (`HeldIsOurs`) and the number the
`nodal run` keeps by waiting for its child (`WrapperFits`). What wears the number is the
unit's or is `late`, because a fork stays in the group of its parent and a number that is
written down makes its next wearer late. `TargetsAreOurs` says the same of the ladder, less
the caller, and `LadderFits` that a target which is on no list of the ladder has gone, is out
of the signal's reach or is late (`Done`), which no later step undoes while it is written
down. The machine's steps are one lemma (`ContinuedKeeps`), and the steps of nodal another,
over rows that are only ever ended (`RowsKept`).

`Units`' one says what each phase of a command has made of the directory it works in. A
command was given what it was given (`Given`) and is as far as its plan goes (`Reached`);
the rows of a unit are written together (`Registered`); a home no command has got to, or
that one gave up, is empty (`HomeFits`), and a marker is that of a unit or of a command that
has yet to take it back (`MarkFits`). What the steps of a plan have done is still so when
the next one acts (`RunFits`, `CarryFits`), which is what makes a home whole when the row
appears (`LiveFits`). None of this is inductive without a word on who may be in the same
directory: in-place adoptions of one worktree meet, and `Apart` says that two commands under
way, two units that live, or one of each, have the same directory only once the meeting is
on record (`crossed`), except for a command that has not yet looked whether it is free. The
same invariant gives `NothingLeft` and `CarriedIsAnchored`; groups need one more
(`GroupInv`): a group has a row, or is `lost`, or is that of the hook about to be given one.
For the refinement, every action is shown to change the mapped life by `Appear`, `Finish`,
`End` or not at all, one lemma per action; the hard ones are `Commit`, where the readings
of the names and of the branch are checked again in the transaction and the ports come from
a block no other project has, and the steps after it, which must leave whole a home that
already has a row.

`LivingShareNothing` and `LivingHaveHomes` are what `UnitLife` promises, carried to the
commands through the refinement: the three steps of a life are shown to keep both
(`AppearsKeeps`, `EndsKeeps`), and the commands take no others.

`Bases`' one is in two halves. The first is about the journal and the names on the disk, of
every build that two processes have not driven at once (`crossed`). A run that a process
began or reopened is its own, and one it resumes is nobody's (`OwnerFits`), so a build has
one driver unless it is on record that it had two (`Alone`). The journal has a prefix of
the plan as applied (`Prefix`); a process that goes ahead has every step behind it on
record and none ahead, and one that goes back the other way round (`StepsFit`). From this,
the tree of an earlier release and the scratch directory of a clone each belong to a build
that is open (`LegacyFits`, `ScratchFits`), and what is rolled back, or has lost its row, has
no directory (`GoneFits`); `NothingForgotten` follows. The second half is also about what
is in the directory, of the builds nobody has begun to take away either (`torn`): a step
that is on record has been made (`Did`, `DidFits`), unless its undo is under way or has
failed. A build that commits has every step of its plan on record, so its directory is
finished (`AllMakesFinished`), which `BuiltIsFinished` needs of every directory without a
mark, and `FoundFits` carries to the home that is cloned from it. `DidFits` is why the
steps of an undo are actions of their own: while the directory is half gone, the steps it
held are on record still, and the mark is what keeps it from being read as a base
(`ActFits`).

Listed in PROJECT.json without a property of a run: the type theorems of `Witness`,
`Landing`, `Occupancy` and `Sessions`, `LandingInvariant`, `BasesInvariant`, and
`AnswersReach`, `ClosedStays`, `LivingShareNothing` and `LivingHaveHomes`, which the runs do
not repeat.

Only model-checked: `MergedIsOnTarget`, every property of `Trees`, and the liveness
properties `InterruptedRunIsResolved`, `RemovalIsFinished` and `EveryCloneEnds`, since
liveness under fairness is beyond this prover. What `Rebased` or the walk of a tree computes
for every input is induction over data, and is checked on the instances of its run only: of a
rebase the proofs know that it is a history, not which changes it holds. The inductions in
the proofs (a block that is free has a least one, in `UnitsProofs`; the least commit a rebase
or a merge base could fail at, in `LandingProofs`) are on sets of numbers, by the order of
`Nat`.

## Known windows

Met while modelling. Each is a behaviour of the code that the models excuse by name or
leave outside their bounds, and that has no run of its own.

Journal
- A resumed step that fails every time ends `resolve` before the runs behind it are cleaned
  up (`mod.rs:451`; the comment at 380-382 says otherwise).
- A resumable run whose commit was refused, killed between an undo and its mark, is resumed
  over the missing step.
- `keep` stores the text of a failure as the output of its step, and COALESCE leaves it on
  the row when the step succeeds silently later.

Lock
- A hold past its idle window and short of the absolute clock still refuses others: the
  statement is handed the deadline of the new claim (`lock.rs:177`; `store/locks.rs:46-48`).
- `take_over` writes with the unconditional `hand_over` (`lock.rs:416`, `store/locks.rs:99`):
  a hold taken while another entry was proving the old holder dead is displaced, and its
  lineage is told nothing, although a hold moves "on three grounds and no others" of which
  each prints its line (`lock.rs:267-269`), and only `--take` takes one from an actor who
  still has it (`locks.rs:93-95`). `overtaken` excepts it. A kill between it and its note
  (`lock.rs:417`) leaves a hold that moved with nothing written down.
- On a host with a table that cannot be read whole, a refresh whose own deadline has passed
  writes over a row taken since (`overtaken` too), and two lineages of one name may both
  enter: the code refuses to take silence for death, and treats the other as itself.
- An entry in flight while the home is reclaimed puts its row back (`locks.rs:52`).
- Displacement is two statements: between `--take` and the next entry of the displaced agent,
  that agent goes on writing.

Reclaim and gc
- An undo that cannot move a home back (`reclaim.rs:929-931`) closes the run as failed
  (`lifecycle/mod.rs:425-428`, 528-531): the home is in the trash, the registry says it
  lives, no row of the trash names it, and a later reclaim finds it gone from its place. The
  failed run in the journal is all that names it, and `TrashedIsAccounted` counts that.
- Two reclaims of one home, the second begun while the first is alive: the undo of one brings
  the home back under a row the other has closed (`reclaim.rs:929`). `Alone` excuses it.
- A path written between `prepare` and the move of an unforced reclaim is trashed, and gc
  asks about commits only (`gc.rs:689`), so it goes with the home after the retention.
- A commit made inside the trash, by a process that stood in the home, after the sweep's
  reading (`gc.rs:558`). `CommitsSurvive` excuses it.
- Two homes that are each other's second copy, judged in one sweep (`kernel.rs:443`): not
  modelled.

Witnesses
- `git fetch origin main`, after a push of a branch the checkout never tracked, is read as
  the remote not having that branch (`witness.rs:481`; `git/fetched.rs:28-30`). It errs on
  the refusing side.
- A checkout that is a partial clone vouches with a branch of its own for commits it has no
  content of (`witness.rs:305-331`), although a store is to be asked what it holds before it
  vouches (`complete.rs:9-18`): `complete::admits` is asked of the checkout in `local_copies`
  only, and by then `elsewhere` has taken the commits out of the question. `PartialHas`
  excepts the content, not the commits.

Merging
- The target moves after `FetchTarget` has looked at it: the undo of `Forward` puts it back
  at the plan's commit and takes another's commit off (`merge.rs:622-626`), against "moved by
  fast-forward or not at all" (`merge.rs:20-24`, `git/merge.rs:9-15`). The other unit stays
  recorded as merged. `MergedIsOnTarget` excepts what went that way (`unwound`).
- A merge with `--no-squash` records no premerge ref, so its rollback does not restore the
  branch; `RollbackRestores` is about merges that squash. A premerge ref left by an earlier
  merge is what a later one goes back to.
- `RecordDone` and `Settle` write the status they decided on earlier: an archived unit may
  become `review` or `merged` again (`store/units.rs:130`).

Units
- Two in-place adoptions of one worktree are each told it is free; the second marker wins
  (`crossed`).
- A command killed between the exit of a hook and the attaching of its group loses the group
  (`lost`).
- `unhide` takes Nodal's lines out of `info/exclude` while another worktree of the repository
  still has its own files (`reclaim.rs:1074`, `env/files.rs:476-512`).
- Untracked files of the checkout are copied when the carry runs, not when it is read.
- `new` switches to a branch of the name that exists already without asking where it is
  (`new.rs:920-923`); the names of the model are new to the clone.

Bases
- A build killed between an undo and its mark leaves its steps on record over a directory
  that has lost them; a resume takes them for done (`torn`).
- A base whose undo failed is kept by a `failed` run without a step in flight, which no retry
  is offered for (`bases.rs:239`; `stuck`).
- A scratch directory that an orphaned git still writes to is not counted.
- An eviction killed inside `remove_dir_all` leaves a directory without a mark under a row,
  which the next command clones a home from (`torn`).
- Two processes may resume one interrupted build (`crossed`).
- A base that has gone by the time of a retry is answered as a conflict, and leaves the
  operation running (`bases.rs:287`; 271-275).
- `evict` counts the pins, removes the tree and then the row (`bases.rs:461-482`): a create
  that found the base before may clone a part of it and have its row accepted, also when
  nothing is killed (`torn`).
- A base that a home has ever named stays pinned by its row (`lru.rs:9-11`); one sweep of
  `base gc` ends at the first refusal.
- A recipe whose exclusions changed after its base was planned gives a home without that
  install, although base and home "cannot disagree" (`pin.rs:225-226`). `HomeIsReady` excepts
  an install the base left out and the home does not run, and no other.

Sessions and processes
- The commit of a reclaim closes the rows of the unit, also of a group that was spared, is
  another account's, or was recorded after the listing, while `reclaim.rs:604-609` says that
  only a group that was signalled and stands keeps a reclaim from it ("closing the row of a
  group that is still running would throw away the only record of it"). `RowsOutliveGroups`
  names the three (`CommitsOver`).
- A number reused while it is written down, for a group or as a process of the unit, is
  signalled (`late`; `gc.rs:802-804`, `sessions.rs:150-152`).
- The number of a recorded group, given to a stranger after the group has ended, vouches for
  it, for what started it and for what else that starts, and the home is moved from under
  them, although "the number alone proves nothing" (`assess.rs:1340-1348`, 1404-1408).
  `MovedUnderNobody` excepts them by name (`mistaken`).
- The sorting asks of a process it names whether its number still runs, and not whether it is
  the one that was read (`assess.rs:1320`): a refusal may name another in its place.
- A reconcile from an old scan may end a row that is fresh, and two observers may write two
  rows of one group.
- Another account's process that stands in a home with nobody beside it is not seen, and the
  home is moved; so is one that enters between the sorting and the rename.

Trees
- `finish` gives the root no times (`tree.rs:289-301` says it does), and extended attributes
  of directories below the root are not copied (`xattr.rs:8-10` says callers copy those of
  files and directories). `CopyIsWhole` asks for everything else, and marks both in the
  formula.

## Not modelled

The map covers about a seventh of the implementation. Most of the rest computes text from
text or calls another program: the command line, output, doctor and the reports (about a
third of the source), recipes and their inference, fingerprints, env files, context files,
the git and docker wrappers, the adapters, setup, and the messages of errors. One process
does these with data of its own; what a model could say of them is what their tests say.
Inside the components that are modelled, the same goes for the preview and the wording of
refusals, sizes, parsing of `/proc` and of git's output, and tests that share a file with
the code. The registry's transactions are the atomic steps of every module; its
migrations run before anything else.

Fixed ports and their leases have no claimant outside tests; checkouts adopted in place are
never moved by a reclaim, so `Removal` leaves them out; refs deleted on a remote are
external to it.

Left out of the modelled components: of `Removal` and `Witness`, what their sections say; of
garbage collection, forgetting old records and lapsed leases; of workspace trees, the choice
of a backend that shares blocks, relocation and the exclusion table.

## Plan

Done: journal, lock, removal, witness, landing, units over an abstract life, bases, sessions,
occupancy and trees; proofs of all but trees. Next:

1. The placing of one file in `Trees`, proved.
2. `Removal` over `Witness`: one home's readings as the abstraction of the judgement, shown
   by refinement; homes that are each other's second copy; the survey of `doctor` (`prove`,
   `trusted`, `freshest`).
3. `Removal` over `Occupancy` and `Sessions`: the teardown and the move as one plan.
4. The exceptions the properties make (see Runs), one at a time as the code closes them: the
   condition of `hand_over`, the undo of `Forward`, a checkout's own completeness, the rows a
   reclaim commits over.
