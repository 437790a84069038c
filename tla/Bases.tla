------------------------------- MODULE Bases -------------------------------
(***************************************************************************)
(* The base cache (substrate/): the trees that homes are cloned from, one  *)
(* for each workspace key.  A command resolves what dead commands left     *)
(* (lifecycle::resolve), finds or builds the base of its key               *)
(* (substrate/bases.rs ensure, substrate/build.rs), and clones a home from *)
(* it (lifecycle/ops/new.rs); base evict and base gc take bases away, and  *)
(* a person clears the disk or edits the recipe at any time.               *)
(*                                                                         *)
(* A base is a row, a directory and a mark beside it that says the         *)
(* directory is not a base yet.  The three change one at a time.           *)
(***************************************************************************)
EXTENDS Integers, Sequences, FiniteSets

CONSTANTS
    Procs,        \* processes that run nodal
    Keys,         \* workspace keys; their difference stands for the distance of commits
    NoKey,        \* no key
    Tools,        \* the installs of the recipe, in its order
    MaxBases,     \* bound: identifiers drawn
    Keep,         \* idle bases that gc keeps (DEFAULT_KEEP)
    MaxCommands,  \* bound: commands given
    MaxEvents     \* bound: kills, failing steps, edits, cleared directories

ASSUME BasesAssumption ==
    /\ "gone" \notin Procs
    /\ Tools \in Seq({Tools[i] : i \in DOMAIN Tools})
    /\ {Tools[i] : i \in DOMAIN Tools} \cap {"clone", "checkout", "promote"} = {}
    /\ Keys \subseteq Nat /\ NoKey \notin Keys
    /\ MaxBases \in Nat \ {0} /\ Keep \in Nat
    /\ MaxCommands \in Nat /\ MaxEvents \in Nat

VARIABLES
    row,      \* the base rows: the key each base is warm for
    used,     \* base.last_used; time is the number of commands given
    disk,     \* the directory of each base
    marked,   \* bases with the mark beside their directory that says it is not a base yet
    scratch,  \* directories that attempts assemble a clone in
    job,      \* the journal's record of each build
    homes,    \* the environment rows: each home and the base it names
    excl,     \* installs whose output the recipe's base.exclude leaves out
    proc,     \* what each process is doing
    drawn, commands, events,
    crossed,  \* history: builds two processes drove at once
    torn      \* history: bases an eviction, a person or a killed undo began to take away

world == <<disk, marked, scratch>>
bounds == <<drawn, commands, events>>
vars == <<row, used, world, job, homes, excl, proc, bounds, crossed, torn>>

Ids == 1..MaxBases
NoBase == 0
Installs == {Tools[i] : i \in DOMAIN Tools}

(* A directory: at its own name, or at the name an earlier release used. *)
NoTree == [place |-> "none", at |-> NoKey, has |-> [m \in Installs |-> NoKey]]
NoJob == [state |-> "none", applied |-> {}, owner |-> "gone", key |-> NoKey, excl |-> {}, from |-> NoBase]
Idle == [phase |-> "idle", key |-> NoKey, base |-> NoBase, mode |-> "none", at |-> 1, skip |-> {},
         list |-> {}, excl |-> {}, home |-> NoTree.has, whole |-> FALSE, answer |-> "none"]

(* is_dir and is_built *)
IsDir(b) == disk[b].place \in {"here", "part"}
IsBuilt(b) == IsDir(b) /\ b \notin marked

(* unfinished *)
Unfinished(b) == disk[b].place = "legacy" \/ (IsDir(b) /\ b \in marked)

(* plan: clone, check out, every install, take the mark off; an install whose *)
(* output is excluded is no step of this plan                                *)
Steps == <<"clone", "checkout">> \o Tools \o <<"promote">>
Last == Len(Steps)
LeftOut(x) == {i \in 1..Last : Steps[i] \in x}
Plan(b) == 1..Last \ LeftOut(job[b].excl)

TypeOK ==
    /\ row \in [Ids -> Keys \cup {NoKey}] /\ used \in [Ids -> 0..MaxCommands]
    /\ \A b \in Ids :
        /\ disk[b].place \in {"none", "legacy", "here", "part"}
        /\ disk[b].at \in Keys \cup {NoKey} /\ disk[b].has \in [Installs -> Keys \cup {NoKey}]
        /\ job[b].state \in {"none", "running", "failed", "committed", "rolled_back", "stuck"}
        /\ job[b].applied \subseteq Plan(b) /\ job[b].owner \in Procs \cup {"gone"}
        /\ job[b].excl \subseteq Installs
    /\ marked \subseteq Ids /\ scratch \subseteq Ids \X Procs
    /\ \A p \in Procs :
        /\ proc[p].base \in Ids \cup {NoBase} /\ proc[p].list \subseteq Ids
        /\ proc[p].mode \in {"none", "run", "resume", "retry"}
        /\ proc[p].phase \in {"idle", "resolve", "ensure", "attempt", "build", "drive", "cloning",
                              "marked", "acted", "undo", "unmaking", "undone", "found", "home", "evict", "remove",
                              "removing", "removed"}
    /\ excl \subseteq Installs /\ drawn \in 0..MaxBases

(* An earlier release may have failed at the first install of the base 1 of *)
(* a key and left its tree under the other name, with its journal entry.    *)
Init ==
    /\ row = [b \in Ids |-> NoKey] /\ used = [b \in Ids |-> 0]
    /\ marked = {} /\ scratch = {} /\ homes = {} /\ excl = {}
    /\ \/ /\ disk = [b \in Ids |-> NoTree] /\ job = [b \in Ids |-> NoJob] /\ drawn = 0
       \/ \E k \in Keys :
            /\ disk = [b \in Ids |-> IF b = 1 THEN [NoTree EXCEPT !.place = "legacy", !.at = k] ELSE NoTree]
            /\ job = [b \in Ids |-> IF b = 1 THEN [NoJob EXCEPT !.state = "failed", !.key = k,
                                                               !.applied = {1, 2}] ELSE NoJob]
            /\ drawn = 1
    /\ proc = [p \in Procs |-> Idle]
    /\ commands = 0 /\ events = 0 /\ crossed = {} /\ torn = {}

(***************************************************************************)
(* People.                                                                 *)
(***************************************************************************)
Event == events < MaxEvents /\ events' = events + 1

(* A person edits base.exclude. *)
EditRecipe ==
    /\ Event /\ excl' \in SUBSET Installs \ {excl}
    /\ UNCHANGED <<row, used, world, job, homes, proc, drawn, commands, crossed, torn>>

(* A person clears a disk. *)
ClearDisk(b) ==
    /\ Event /\ IsDir(b)
    /\ disk' = [disk EXCEPT ![b].place = "none", ![b].at = NoKey, ![b].has = NoTree.has]
    /\ torn' = torn \cup {b}
    /\ UNCHANGED <<row, used, marked, scratch, job, homes, excl, proc, drawn, commands, crossed>>

(***************************************************************************)
(* A command, and what dead commands left.                                 *)
(***************************************************************************)
Go(p, phase) == proc' = [proc EXCEPT ![p].phase = phase]
Stop(p, answer) == proc' = [proc EXCEPT ![p] = [Idle EXCEPT !.answer = answer]]

(* Every command begins with resolve, which lists the unfinished runs once. *)
Begin(p) ==
    /\ proc[p].phase = "idle" /\ commands < MaxCommands
    /\ commands' = commands + 1
    /\ \E k \in Keys :
          proc' = [proc EXCEPT ![p] = [Idle EXCEPT !.phase = "resolve", !.key = k, !.excl = excl,
                                       !.list = {b \in Ids : job[b].state = "running"}]]
    /\ UNCHANGED <<row, used, world, job, homes, excl, drawn, events, crossed, torn>>

(* The steps a build is not driven through: done, or not of its plan. *)
Passed(b) == job[b].applied \cup LeftOut(job[b].excl)

(* Another process drives the build as well. *)
Driven(b) == \E q \in Procs : proc[q].base = b /\ proc[q].mode # "none"
Cross(b) == crossed' = IF Driven(b) THEN crossed \cup {b} ELSE crossed

(* take_over: a run whose owner is gone is resumed, any other is left *)
TakeOver(p) ==
    /\ proc[p].phase = "resolve"
    /\ \E b \in proc[p].list :
        /\ \A c \in proc[p].list : b <= c
        /\ IF job[b].owner = "gone"
           THEN /\ Cross(b)
                /\ proc' = [proc EXCEPT ![p].list = @ \ {b}, ![p].phase = "drive", ![p].base = b,
                                        ![p].mode = "resume", ![p].at = 1, ![p].skip = Passed(b)]
           ELSE /\ proc' = [proc EXCEPT ![p].list = @ \ {b}] /\ UNCHANGED crossed
    /\ UNCHANGED <<row, used, world, job, homes, excl, bounds, torn>>

(* The command goes on: a create or base build, base evict, or base gc. *)
Pins(b) == {h \in homes : h.base = b}

(* evictable: the idle bases past the ones kept, least recently used first *)
Older(a, b) == used[a] < used[b] \/ (used[a] = used[b] /\ a < b)
Idles == {b \in Ids : row[b] # NoKey /\ Pins(b) = {}}
Evictable == {b \in Idles : Cardinality({c \in Idles : Older(b, c)}) >= Keep}

Resolved(p) ==
    /\ proc[p].phase = "resolve" /\ proc[p].list = {}
    /\ \/ Go(p, "ensure")
       \/ \E b \in Ids : row[b] # NoKey /\ proc' = [proc EXCEPT ![p].phase = "evict", ![p].list = {b}]
       \/ Evictable # {} /\ proc' = [proc EXCEPT ![p].phase = "evict", ![p].list = Evictable]
    /\ UNCHANGED <<row, used, world, job, homes, excl, bounds, crossed, torn>>

(***************************************************************************)
(* ensure.                                                                 *)
(***************************************************************************)
(* warm: a base whose directory has gone is forgotten, one that is marked  *)
(* is passed over, any other is used; a base an environment row names      *)
(* cannot be forgotten                                                     *)
Warm(p) ==
    /\ proc[p].phase = "ensure"
    /\ \/ /\ \A b \in Ids : row[b] # proc[p].key
          /\ Go(p, "attempt") /\ UNCHANGED <<row, used>>
       \/ \E b \in Ids :
            /\ row[b] = proc[p].key
            /\ \/ /\ ~IsDir(b) /\ Pins(b) = {}
                  /\ row' = [row EXCEPT ![b] = NoKey] /\ Go(p, "attempt") /\ UNCHANGED used
               \/ /\ ~IsDir(b) /\ Pins(b) # {}
                  /\ Stop(p, "conflict") /\ UNCHANGED <<row, used>>
               \/ /\ IsDir(b) /\ ~IsBuilt(b)
                  /\ Go(p, "attempt") /\ UNCHANGED <<row, used>>
               \/ /\ IsBuilt(b)
                  /\ used' = [used EXCEPT ![b] = commands] /\ UNCHANGED row
                  /\ proc' = [proc EXCEPT ![p].phase = "found", ![p].base = b]
    /\ UNCHANGED <<world, job, homes, excl, bounds, crossed, torn>>

(* stopped_at: the newest failed build of the key whose work is on the disk *)
Stopped(p) == {b \in Ids : job[b].state = "failed" /\ job[b].key = proc[p].key /\ Unfinished(b)}

(* pin::installs: a host that cannot run the recipe is told so before there *)
(* is a directory                                                           *)
PinRefuses(p) ==
    /\ proc[p].phase = "attempt" /\ Event /\ Stop(p, "refused")
    /\ UNCHANGED <<row, used, world, job, homes, excl, drawn, commands, crossed, torn>>

(* carried_on: the person agrees to a retry (reopen), or would rather begin *)
(* again                                                                    *)
CarriedOn(p) ==
    /\ proc[p].phase = "attempt"
    /\ \/ Go(p, "build") /\ UNCHANGED job
       \/ \E b \in Stopped(p) :
            /\ \A c \in Stopped(p) : c <= b
            /\ job' = [job EXCEPT ![b].state = "running", ![b].owner = p]
            /\ proc' = [proc EXCEPT ![p].phase = "drive", ![p].base = b, ![p].mode = "retry",
                                    ![p].at = 1, ![p].skip = Passed(b)]
    /\ UNCHANGED <<row, used, world, homes, excl, bounds, crossed, torn>>

(* origin_for: the nearest finished base of the project, or a fresh clone *)
Distance(a, k) == IF row[a] > k THEN row[a] - k ELSE k - row[a]
Nearer(a, b, k) ==
    \/ Distance(a, k) < Distance(b, k)
    \/ Distance(a, k) = Distance(b, k) /\ (used[a] > used[b] \/ (used[a] = used[b] /\ a < b))
Candidates == {b \in Ids : row[b] # NoKey /\ IsBuilt(b)}
Origin(k) ==
    IF Candidates = {} THEN NoBase
    ELSE CHOOSE b \in Candidates : \A c \in Candidates \ {b} : Nearer(b, c, k)

(* build_one and the start of lifecycle::run *)
BuildOne(p) ==
    /\ proc[p].phase = "build" /\ drawn < MaxBases
    /\ LET b == drawn + 1
       IN  /\ drawn' = b
           /\ job' = [job EXCEPT ![b] = [state |-> "running", applied |-> {}, owner |-> p,
                                         key |-> proc[p].key, excl |-> proc[p].excl,
                                         from |-> Origin(proc[p].key)]]
           /\ proc' = [proc EXCEPT ![p].phase = "drive", ![p].base = b, ![p].mode = "run",
                                   ![p].at = 1, ![p].skip = LeftOut(proc[p].excl)]
    /\ UNCHANGED <<row, used, world, homes, excl, commands, events, crossed, torn>>

(***************************************************************************)
(* The build.                                                              *)
(***************************************************************************)
Base(p) == proc[p].base
Step(p) == Steps[proc[p].at]
Driving(p) == proc[p].phase = "drive" /\ proc[p].at <= Last
Facing(p, steps) == Driving(p) /\ proc[p].at \notin proc[p].skip /\ Step(p) \in steps
Applying(p) == job' = [job EXCEPT ![Base(p)].applied = @ \ {proc[p].at}]

(* A step fails: keep closes the run for a retry, resume leaves it as it is *)
Fails(p) ==
    /\ job' = [job EXCEPT ![Base(p)].applied = @ \ {proc[p].at},
                          ![Base(p)].state = IF proc[p].mode # "resume" /\ @ = "running"
                                             THEN "failed" ELSE @]
    /\ Stop(p, "error")
kept == <<row, used, homes, excl, bounds, crossed, torn>>

(* A step the journal has as applied, or that is not of the plan, is passed over. *)
Pass(p) ==
    /\ Driving(p) /\ proc[p].at \in proc[p].skip
    /\ proc' = [proc EXCEPT ![p].at = @ + 1]
    /\ UNCHANGED <<world, job, kept>>

(* Mutant: the tree moves before the mark is written *)
SettleUnmarked(p) ==
    /\ Facing(p, {Step(p)}) /\ disk[Base(p)].place = "legacy"
    /\ disk' = [disk EXCEPT ![Base(p)].place = "here"]
    /\ UNCHANGED <<marked, scratch, job, proc, kept>>

(* settle, at the top of every step: the mark first, then the tree *)
Settle(p) ==
    /\ Facing(p, {Step(p)}) /\ disk[Base(p)].place = "legacy"
    /\ marked' = marked \cup {Base(p)}
    /\ disk' = IF Base(p) \in marked THEN [disk EXCEPT ![Base(p)].place = "here"] ELSE disk
    /\ UNCHANGED <<scratch, job, proc, kept>>

(* Materialise::apply: a directory that is there is carried on with; if not, *)
(* sweep, and a scratch directory of this attempt's own                      *)
StartClone(p) ==
    /\ Facing(p, {"clone"}) /\ disk[Base(p)].place # "legacy" /\ Applying(p)
    /\ \/ IsDir(Base(p)) /\ Go(p, "acted") /\ UNCHANGED scratch
       \/ /\ ~IsDir(Base(p)) /\ Go(p, "cloning")
          /\ scratch' = {s \in scratch : s[1] # Base(p)} \cup {<<Base(p), p>>}
    /\ UNCHANGED <<disk, marked, kept>>

(* The clone or the copy is whole, and scrubbed: the mark is written. *)
MarkClone(p) ==
    /\ proc[p].phase = "cloning"
    /\ \/ /\ <<Base(p), p>> \in scratch /\ Go(p, "marked") /\ UNCHANGED job
          /\ marked' = marked \cup {Base(p)}
       \/ <<Base(p), p>> \notin scratch /\ Fails(p) /\ UNCHANGED marked
    /\ UNCHANGED <<disk, scratch, kept>>

(* What a copy of the neighbour brings: its installs, less the excluded. *)
Inherited(b) ==
    LET from == job[b].from
    IN  [m \in Installs |-> IF from = NoBase \/ m \in job[b].excl THEN NoKey ELSE disk[from].has[m]]

(* The rename, which fails where a directory stands. *)
MoveClone(p) ==
    /\ proc[p].phase = "marked"
    /\ \/ /\ <<Base(p), p>> \in scratch /\ ~IsDir(Base(p))
          /\ disk' = [disk EXCEPT ![Base(p)].place = "here", ![Base(p)].has = Inherited(Base(p))]
          /\ scratch' = scratch \ {<<Base(p), p>>} /\ Go(p, "acted") /\ UNCHANGED job
       \/ /\ <<Base(p), p>> \notin scratch \/ IsDir(Base(p))
          /\ Fails(p) /\ UNCHANGED <<disk, scratch>>
    /\ UNCHANGED <<marked, kept>>

(* Checkout::apply *)
Checkout(p) ==
    /\ Facing(p, {"checkout"}) /\ disk[Base(p)].place # "legacy"
    /\ \/ /\ IsDir(Base(p)) /\ Applying(p) /\ Go(p, "acted")
          /\ disk' = [disk EXCEPT ![Base(p)].at = job[Base(p)].key]
       \/ ~IsDir(Base(p)) /\ Fails(p) /\ UNCHANGED disk
    /\ UNCHANGED <<marked, scratch, kept>>

(* Mutant: an output that is there is taken for this key's *)
ToolOnce(p) ==
    /\ Facing(p, Installs) /\ disk[Base(p)].place # "legacy"
    /\ \/ /\ IsDir(Base(p)) /\ Applying(p) /\ Go(p, "acted")
          /\ disk' = [disk EXCEPT ![Base(p)].has[Step(p)] = IF @ = NoKey THEN job[Base(p)].key ELSE @]
       \/ ~IsDir(Base(p)) /\ Fails(p) /\ UNCHANGED disk
    /\ UNCHANGED <<marked, scratch, kept>>

(* Tool::apply *)
Tool(p) ==
    /\ Facing(p, Installs) /\ disk[Base(p)].place # "legacy"
    /\ \/ /\ IsDir(Base(p)) /\ Applying(p) /\ Go(p, "acted")
          /\ disk' = [disk EXCEPT ![Base(p)].has[Step(p)] = job[Base(p)].key]
       \/ ~IsDir(Base(p)) /\ Fails(p) /\ UNCHANGED disk
    /\ UNCHANGED <<marked, scratch, kept>>

(* Promote::apply asks about the tree before the mark. *)
Promote(p) ==
    /\ Facing(p, {"promote"}) /\ disk[Base(p)].place # "legacy"
    /\ \/ /\ IsDir(Base(p)) /\ Applying(p) /\ Go(p, "acted")
          /\ marked' = marked \ {Base(p)}
       \/ ~IsDir(Base(p)) /\ Fails(p) /\ UNCHANGED marked
    /\ UNCHANGED <<disk, scratch, kept>>

(* A clone, a fetch or a tool fails: LockfileMismatch, InstallWroteTracked *)
StepFails(p) ==
    /\ \/ proc[p].phase = "cloning"
       \/ Facing(p, {"checkout"} \cup Installs) /\ disk[Base(p)].place # "legacy"
    /\ Event /\ Fails(p)
    /\ UNCHANGED <<row, used, world, homes, excl, drawn, commands, crossed, torn>>

(* The step is marked applied. *)
Record(p) ==
    /\ proc[p].phase = "acted"
    /\ job' = [job EXCEPT ![Base(p)].applied = @ \cup {proc[p].at}]
    /\ proc' = [proc EXCEPT ![p].phase = "drive", ![p].at = @ + 1]
    /\ UNCHANGED <<world, kept>>

(* insert: one base for each key; close: the run is still running *)
Insertable(b) ==
    /\ job[b].state = "running" /\ row[b] = NoKey
    /\ \A c \in Ids : row[c] # job[b].key

(* commit: the row and the end of the run in one transaction *)
Commit(p) ==
    /\ proc[p].phase = "drive" /\ proc[p].at > Last
    /\ \/ /\ Insertable(Base(p))
          /\ row' = [row EXCEPT ![Base(p)] = job[Base(p)].key]
          /\ used' = [used EXCEPT ![Base(p)] = commands]
          /\ job' = [job EXCEPT ![Base(p)].state = "committed"]
          /\ proc' = [proc EXCEPT ![p].mode = "none",
                                  ![p].base = IF proc[p].mode = "resume" THEN NoBase ELSE @,
                                  ![p].phase = IF proc[p].mode = "resume" THEN "resolve" ELSE "found"]
       \/ /\ ~Insertable(Base(p)) /\ UNCHANGED <<row, used>>
          /\ IF proc[p].mode = "run"
             THEN proc' = [proc EXCEPT ![p].phase = "undo", ![p].at = @ - 1] /\ UNCHANGED job
             ELSE Stop(p, "error") /\ job' = [job EXCEPT ![Base(p)].owner = "gone"]
    /\ UNCHANGED <<world, homes, excl, bounds, crossed, torn>>

(* undo_steps: in reverse, a step that may have acted is taken back, and then *)
(* marked so.  Promote::undo puts the mark back; a checkout and an install    *)
(* have nothing smaller to take back than the directory.                     *)
Undoing(p) == proc[p].phase = "undo" /\ proc[p].at > 0
Undo(p) ==
    /\ Undoing(p) /\ proc[p].at \in job[Base(p)].applied /\ Step(p) # "clone"
    /\ Go(p, "undone")
    /\ marked' = IF Step(p) = "promote" /\ IsDir(Base(p)) THEN marked \cup {Base(p)} ELSE marked
    /\ UNCHANGED <<disk, scratch, job, kept>>
UndoPass(p) ==
    /\ Undoing(p) /\ proc[p].at \notin job[Base(p)].applied
    /\ proc' = [proc EXCEPT ![p].at = @ - 1]
    /\ UNCHANGED <<world, job, kept>>

(* Materialise::undo sweeps and removes every name the build used, the mark last. *)
Unmake(p) ==
    /\ Undoing(p) /\ proc[p].at \in job[Base(p)].applied /\ Step(p) = "clone"
    /\ Go(p, "unmaking")
    /\ scratch' = {s \in scratch : s[1] # Base(p)}
    /\ disk' = IF IsDir(Base(p)) THEN [disk EXCEPT ![Base(p)].place = "part"] ELSE disk
    /\ UNCHANGED <<marked, job, kept>>
Unmade(p) ==
    /\ proc[p].phase = "unmaking" /\ Go(p, "undone")
    /\ disk' = [disk EXCEPT ![Base(p)] = NoTree] /\ marked' = marked \ {Base(p)}
    /\ UNCHANGED <<scratch, job, kept>>

MarkUndone(p) ==
    /\ proc[p].phase = "undone"
    /\ job' = [job EXCEPT ![Base(p)].applied = @ \ {proc[p].at}]
    /\ proc' = [proc EXCEPT ![p].phase = "undo", ![p].at = @ - 1]
    /\ UNCHANGED <<world, kept>>

(* close *)
CloseUndone(p) ==
    /\ proc[p].phase = "undo" /\ proc[p].at = 0
    /\ job' = [job EXCEPT ![Base(p)].state = "rolled_back"]
    /\ Stop(p, "error")
    /\ UNCHANGED <<world, kept>>

(* The mark or the removal fails: the run is closed with no step in flight, *)
(* which is not offered for a retry (failing_step).                         *)
UndoFails(p) ==
    /\ \/ Undoing(p) /\ proc[p].at \in job[Base(p)].applied /\ Step(p) \in {"clone", "promote"}
       \/ proc[p].phase = "unmaking"
    /\ Event /\ Stop(p, "error")
    /\ job' = [job EXCEPT ![Base(p)].state = "stuck"]
    /\ UNCHANGED <<row, used, world, homes, excl, drawn, commands, crossed, torn>>

(***************************************************************************)
(* A home.                                                                 *)
(***************************************************************************)
(* Mutant: a create runs no install of its own *)
HomeHasBaseOnly(p) ==
    [m \in Installs |-> IF m \in proc[p].excl THEN NoKey ELSE disk[Base(p)].has[m]]

(* The clone leaves out what the recipe excludes, and in_the_home runs it. *)
HomeHas(p) ==
    [m \in Installs |-> IF m \in proc[p].excl THEN proc[p].key ELSE disk[Base(p)].has[m]]

(* Materialize::apply and InstallDependencies::apply of a create *)
CloneHome(p) ==
    /\ proc[p].phase = "found"
    /\ IF IsDir(Base(p))
       THEN proc' = [proc EXCEPT ![p].phase = "home", ![p].home = HomeHas(p),
                                 ![p].whole = disk[Base(p)].place = "here" /\ Base(p) \notin marked]
       ELSE Stop(p, "error")
    /\ UNCHANGED <<row, used, world, job, homes, excl, bounds, crossed, torn>>

(* commit_of: the foreign key of environment.base_id *)
CommitHome(p) ==
    /\ proc[p].phase = "home"
    /\ \/ /\ row[Base(p)] # NoKey /\ Stop(p, "made")
          /\ homes' = homes \cup {[base |-> Base(p), key |-> proc[p].key, has |-> proc[p].home,
                                   whole |-> proc[p].whole, excl |-> proc[p].excl]}
       \/ row[Base(p)] = NoKey /\ Stop(p, "refused") /\ UNCHANGED homes
    /\ UNCHANGED <<row, used, world, job, excl, bounds, crossed, torn>>

(***************************************************************************)
(* Eviction.                                                               *)
(***************************************************************************)
(* evict: a row that is gone or a base that is pinned ends the command *)
EvictOne(p) ==
    /\ proc[p].phase = "evict"
    /\ \/ proc[p].list = {} /\ Stop(p, "evicted")
       \/ \E b \in proc[p].list :
            /\ \A c \in proc[p].list \ {b} : Older(b, c)
            /\ IF row[b] = NoKey \/ Pins(b) # {} THEN Stop(p, "refused")
               ELSE proc' = [proc EXCEPT ![p].list = @ \ {b}, ![p].base = b, ![p].phase = "remove"]
    /\ UNCHANGED <<row, used, world, job, homes, excl, bounds, crossed, torn>>

(* Mutant: the row goes first *)
ForgetFirst(p) ==
    /\ proc[p].phase = "remove" /\ Go(p, "removing") /\ torn' = torn \cup {Base(p)}
    /\ row' = [row EXCEPT ![Base(p)] = NoKey]
    /\ UNCHANGED <<used, world, job, homes, excl, bounds, crossed>>

(* remove: the tree goes a file at a time *)
StartRemove(p) ==
    /\ proc[p].phase = "remove" /\ Go(p, "removing") /\ torn' = torn \cup {Base(p)}
    /\ disk' = IF IsDir(Base(p)) THEN [disk EXCEPT ![Base(p)].place = "part"] ELSE disk
    /\ UNCHANGED <<row, used, marked, scratch, job, homes, excl, bounds, crossed>>

EndRemove(p) ==
    /\ proc[p].phase = "removing" /\ Go(p, "removed")
    /\ disk' = [disk EXCEPT ![Base(p)].place = IF @ = "legacy" THEN @ ELSE "none",
                            ![Base(p)].at = NoKey, ![Base(p)].has = NoTree.has]
    /\ UNCHANGED <<row, used, marked, scratch, job, homes, excl, bounds, crossed, torn>>

(* delete, which the foreign key refuses when a home was made meanwhile *)
Forget(p) ==
    /\ proc[p].phase = "removed"
    /\ IF Pins(Base(p)) = {}
       THEN /\ row' = [row EXCEPT ![Base(p)] = NoKey]
            /\ proc' = [proc EXCEPT ![p].phase = "evict", ![p].base = NoBase]
       ELSE Stop(p, "conflict") /\ UNCHANGED row
    /\ UNCHANGED <<used, world, job, homes, excl, bounds, crossed, torn>>

(* A kill leaves the journal, the rows and the disk as they are, also between *)
(* an undo and its mark.                                                      *)
Kill(p) ==
    /\ proc[p].phase # "idle" /\ Event
    /\ Stop(p, "killed")
    /\ torn' = IF proc[p].phase \in {"unmaking", "undone"} THEN torn \cup {Base(p)} ELSE torn
    /\ job' = [b \in Ids |-> IF job[b].owner = p /\ job[b].state = "running"
                             THEN [job[b] EXCEPT !.owner = "gone"] ELSE job[b]]
    /\ UNCHANGED <<row, used, world, homes, excl, drawn, commands, crossed>>

Progress(p) ==
    \/ TakeOver(p) \/ Resolved(p) \/ Warm(p) \/ CarriedOn(p) \/ BuildOne(p)
    \/ Pass(p) \/ Settle(p) \/ StartClone(p) \/ MarkClone(p) \/ MoveClone(p) \/ Checkout(p)
    \/ Tool(p) \/ Promote(p) \/ Record(p) \/ Commit(p)
    \/ Undo(p) \/ UndoPass(p) \/ Unmake(p) \/ Unmade(p) \/ MarkUndone(p) \/ CloseUndone(p)
    \/ CloneHome(p) \/ CommitHome(p)
    \/ EvictOne(p) \/ StartRemove(p) \/ EndRemove(p) \/ Forget(p)

Next ==
    \/ EditRecipe \/ \E b \in Ids : ClearDisk(b)
    \/ \E p \in Procs : Begin(p) \/ Progress(p) \/ PinRefuses(p) \/ StepFails(p) \/ UndoFails(p) \/ Kill(p)

Spec == Init /\ [][Next]_vars

(***************************************************************************)
(* Properties.                                                             *)
(***************************************************************************)
(* A directory without the mark is a finished base, and so is every base   *)
(* that has a row: it stands at the commit of its key, with every install  *)
(* of its plan run for this key and none taken over from a neighbour,      *)
(* whatever was killed, failed, retried or left by an earlier release      *)
(* (mark_of, settle, Promote, resume).  Excused: what an eviction, a       *)
(* person or a killed undo is taking away, and a build that two processes  *)
(* resumed at once.                                                        *)
BuiltIsFinished ==
    \A b \in Ids \ (crossed \cup torn) : IsBuilt(b) \/ row[b] # NoKey =>
        /\ disk[b].place = "here" /\ b \notin marked /\ disk[b].at = job[b].key
        /\ \A m \in Installs \ job[b].excl : disk[b].has[m] = job[b].key

(* Nothing that holds disk is forgotten: every directory of a base is      *)
(* named by its row, or by a run of the journal that is running, kept for  *)
(* a retry, or closed over an undo that failed (evict's order,             *)
(* Materialise::undo).                                                     *)
NothingForgotten ==
    \A b \in Ids \ crossed :
        (disk[b].place # "none" \/ \E p \in Procs : <<b, p>> \in scratch)
        => row[b] # NoKey \/ job[b].state \in {"running", "failed", "stuck"}

(* A home is cloned from a finished base, and each install it reads ran    *)
(* for its key, in the base or, when the recipe keeps the output out of    *)
(* the clone, in the home (where_it_runs).  Excepted are                   *)
(*   - a base that an eviction, killed or still at work, a person or a     *)
(*     killed undo has begun to take away: `evict` counts the pins, then   *)
(*     removes the tree, then the row, so a create that found the base     *)
(*     before may clone a part of it and still have its row accepted;      *)
(*   - a base whose build two processes resumed at once;                   *)
(*   - an install the base left out and the home does not run, because the *)
(*     recipe's exclusions were edited between the plan of the base and    *)
(*     the create: pin.rs says the base and the home "cannot disagree".    *)
HomeIsReady ==
    \A h \in homes : h.base \notin crossed \cup torn =>
        /\ h.whole
        /\ \A m \in Installs \ (job[h.base].excl \ h.excl) : h.has[m] = h.key

=============================================================================
