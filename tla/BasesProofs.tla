---------------------------- MODULE BasesProofs ----------------------------
(***************************************************************************)
(* No directory of a base is forgotten, what stands for a base is finished *)
(* and homes are cloned from finished bases, for any processes, keys,      *)
(* installs and bounds.  What is inductive says who drives a build, how    *)
(* far, and what each step that is on record has made of the directory.    *)
(***************************************************************************)
EXTENDS Bases, SequenceTheorems, TLAPS

TreeFields == {"place", "at", "has"}
JobFields == {"state", "applied", "owner", "key", "excl", "from"}
ProcFields == {"phase", "key", "base", "mode", "at", "skip", "list", "excl", "home", "whole",
               "answer"}

Ahead == {"drive", "cloning", "marked", "acted"}
Back == {"undo", "unmaking", "undone"}
Evicting == {"remove", "removing", "removed"}
Places == {"none", "legacy", "here", "part"}
JobStates == {"none", "running", "failed", "committed", "rolled_back", "stuck"}

(* The fields are there. *)
TreeFits(b) ==
    DOMAIN disk[b] = TreeFields /\ disk[b].place \in Places /\ DOMAIN disk[b].has = Installs
JobFits(b) ==
    /\ DOMAIN job[b] = JobFields /\ job[b].state \in JobStates
    /\ job[b].applied \subseteq 1..Last /\ job[b].excl \subseteq Installs
ProcFits(p) ==
    /\ DOMAIN proc[p] = ProcFields /\ proc[p].skip \subseteq 1..Last /\ proc[p].at \in 0..Last + 1
    /\ proc[p].excl \subseteq Installs /\ proc[p].list \subseteq Ids
Shapes ==
    /\ DOMAIN row = Ids /\ DOMAIN disk = Ids /\ DOMAIN job = Ids /\ DOMAIN proc = Procs
    /\ \A b \in Ids : TreeFits(b) /\ JobFits(b)
    /\ \A p \in Procs : ProcFits(p)
    /\ excl \subseteq Installs /\ drawn \in 0..MaxBases

(* Which mode a process is in, at each phase. *)
Drives(p) == proc[p].mode # "none"
ModeFits(p) ==
    /\ proc[p].mode \in {"none", "run", "resume", "retry"}
    /\ proc[p].phase # "idle" => proc[p].key # NoKey
    /\ Drives(p) <=> proc[p].phase \in Ahead \cup Back
    /\ proc[p].phase \in Back => proc[p].mode = "run"
    /\ Drives(p) \/ proc[p].phase \in {"found", "home"} \cup Evicting => Base(p) \in Ids

(* The run a process drives is its own, or one whose owner has gone. *)
OwnerFits(p) ==
    /\ proc[p].mode \in {"run", "retry"} =>
        /\ job[Base(p)].state = "running" /\ job[Base(p)].owner = p
        /\ job[Base(p)].key = proc[p].key
    /\ proc[p].mode = "resume" =>
        job[Base(p)].state \in {"running", "committed"} /\ job[Base(p)].owner = "gone"

(* What resolve has listed and not yet come to. *)
Resolving(p) == proc[p].phase = "resolve" \/ proc[p].mode = "resume"
ListFits(p) ==
    Resolving(p) => \A b \in proc[p].list :
        /\ job[b].state # "none"
        /\ job[b].owner = "gone" => job[b].state \in {"running", "committed"}

(* Two processes that drive one build have met. *)
Alone ==
    \A p, q \in Procs :
        p # q /\ Drives(p) /\ Drives(q) /\ Base(p) = Base(q) => Base(p) \in crossed

(* A base has a row only once its build is committed, for the key of the build. *)
RowFits(b) ==
    /\ row[b] # NoKey => job[b].state = "committed" /\ row[b] = job[b].key
    /\ job[b].state = "none" => disk[b].place = "none"
    /\ job[b].key = NoKey => job[b].state = "none"
    /\ drawn < b => job[b].state = "none"

(* What a process uses or removes was committed. *)
UseFits(p) ==
    /\ proc[p].phase \in {"found", "home"} \cup Evicting => job[Base(p)].state = "committed"
    /\ proc[p].phase \in {"removing", "removed"} => Base(p) \in torn

(* How far a process is in the plan. *)
PlaceFits(p) ==
    /\ proc[p].phase \in Ahead \cup {"unmaking", "undone"} => proc[p].at >= 1
    /\ proc[p].phase \in Back \cup {"cloning", "marked", "acted"} => proc[p].at <= Last
    /\ proc[p].phase \in {"cloning", "marked", "unmaking"} => proc[p].at = 1
    /\ proc[p].phase \in {"cloning", "marked", "acted"} => proc[p].at \notin proc[p].skip

-----------------------------------------------------------------------------
(* Of a build that two processes have not driven at once.                    *)

(* The journal has a prefix of the plan as applied. *)
Covered(b, i) == i \in Passed(b)
Prefix(b) == \A i \in job[b].applied, j \in 1..Last : j < i => Covered(b, j)

(* A process that goes ahead has every step behind it on record, and one that *)
(* goes back has none ahead of it.                                           *)
StepsFit(p) ==
    /\ proc[p].phase \in Ahead =>
        /\ \A i \in 1..Last : i < proc[p].at \/ i \in proc[p].skip => Covered(Base(p), i)
        /\ \A i \in job[Base(p)].applied : i < proc[p].at \/ i \in proc[p].skip
    /\ proc[p].phase \in Back =>
        /\ \A i \in 1..Last : i <= proc[p].at => Covered(Base(p), i)
        /\ \A i \in job[Base(p)].applied : i <= proc[p].at

(* The tree of an earlier release is one that the build has yet to move. *)
LegacyFits(b) ==
    disk[b].place = "legacy" =>
        /\ job[b].state \in {"failed", "running"} /\ Last \notin job[b].applied
        /\ \A p \in Procs : Drives(p) /\ Base(p) = b =>
               proc[p].phase = "drive" /\ proc[p].at <= Last /\ Last \notin proc[p].skip

(* A scratch directory is that of a clone that has yet to be made. *)
ScratchFits(b) ==
    /\ (\E s \in scratch : s[1] = b) =>
        /\ job[b].state \in {"failed", "running"} /\ disk[b].place = "none"
        /\ 1 \notin job[b].applied
        /\ \A p \in Procs : Drives(p) /\ Base(p) = b =>
               /\ proc[p].phase \in {"drive", "cloning", "marked"}
               /\ proc[p].at = 1 /\ 1 \notin proc[p].skip
    /\ \A p \in Procs : proc[p].phase \in {"cloning", "marked"} /\ Base(p) = b =>
           \A s \in scratch : s[1] = b => s = <<b, p>>

(* What is rolled back is not there, nor what was committed and has no row. *)
GoneFits(b) ==
    /\ job[b].state = "rolled_back" => disk[b].place = "none"
    /\ \A p \in Procs : Base(p) = b =>
        /\ proc[p].phase = "undo" /\ proc[p].at = 0 => disk[b].place = "none"
        /\ proc[p].phase = "undone" /\ proc[p].at = 1 => disk[b].place = "none"
        /\ proc[p].phase = "removed" => disk[b].place = "none"
    /\ job[b].state = "committed" =>
        /\ row[b] = NoKey => disk[b].place = "none"
        /\ \A i \in 1..Last : Covered(b, i)
        /\ \A p \in Procs : Drives(p) /\ Base(p) = b =>
               proc[p].phase = "drive" /\ 1..Last \subseteq proc[p].skip

Kept(b) == Prefix(b) /\ LegacyFits(b) /\ ScratchFits(b) /\ GoneFits(b)

KeepInv ==
    /\ Shapes /\ Alone
    /\ \A p \in Procs : ModeFits(p) /\ OwnerFits(p) /\ ListFits(p) /\ UseFits(p) /\ PlaceFits(p)
    /\ \A b \in Ids : RowFits(b)
    /\ \A b \in Ids \ crossed : Kept(b)
    /\ \A p \in Procs : Base(p) \notin crossed => StepsFit(p)

-----------------------------------------------------------------------------
(* Of a base that nobody has begun to take away either.                      *)

(* What a step of the plan has made. *)
Did(b, i) ==
    /\ i = 1 => disk[b].place \in {"here", "legacy"}
    /\ i = 2 => disk[b].at = job[b].key
    /\ i \in 3..Last - 1 => disk[b].has[Steps[i]] = job[b].key
    /\ i = Last => disk[b].place = "here" /\ b \notin marked

Finished(b) ==
    /\ disk[b].place = "here" /\ b \notin marked /\ disk[b].at = job[b].key
    /\ \A m \in Installs \ job[b].excl : disk[b].has[m] = job[b].key

(* A step that is on record has been made, unless it is just being undone or *)
(* its undo failed.                                                          *)
DidFits(b) ==
    \A i \in job[b].applied :
        \/ Did(b, i) \/ job[b].state = "stuck"
        \/ \E p \in Procs : Base(p) = b /\ proc[p].phase \in {"unmaking", "undone"} /\ proc[p].at = i

ActFits(p) ==
    /\ proc[p].phase = "acted" => Did(Base(p), proc[p].at)
    /\ proc[p].phase = "marked" => Base(p) \in marked
    /\ proc[p].phase \in Back /\ IsDir(Base(p)) =>
           Base(p) \in marked \/ (proc[p].phase = "undo" /\ proc[p].at = Last)

BuiltFits(b) ==
    /\ IsBuilt(b) => Finished(b)
    /\ row[b] # NoKey => IsBuilt(b)
    /\ disk[b].place = "part" => job[b].state = "stuck"
           \/ \E p \in Procs : Base(p) = b /\ proc[p].phase = "unmaking"

FoundFits(p) ==
    /\ proc[p].phase \in {"found", "home"} => job[Base(p)].key = proc[p].key
    /\ Base(p) \notin crossed \cup torn =>
        /\ proc[p].phase = "found" => IsBuilt(Base(p))
        /\ proc[p].phase = "home" =>
            /\ proc[p].whole
            /\ \A m \in Installs \ (job[Base(p)].excl \ proc[p].excl) : proc[p].home[m] = proc[p].key

HomesFit ==
    /\ \A h \in homes : h.base \in Ids /\ job[h.base].state = "committed"
    /\ HomeIsReady

DoneInv ==
    /\ \A b \in Ids \ (crossed \cup torn) : DidFits(b) /\ BuiltFits(b)
    /\ \A p \in Procs : Base(p) \notin crossed \cup torn => ActFits(p)
    /\ \A p \in Procs : FoundFits(p)
    /\ HomesFit

IInv == KeepInv /\ DoneInv

-----------------------------------------------------------------------------
(* The steps of a plan: clone, check out, the installs, take the mark off.   *)
LEMMA StepsAre ==
    /\ Last \in Nat /\ Last >= 3
    /\ Steps[1] = "clone" /\ Steps[2] = "checkout" /\ Steps[Last] = "promote"
    /\ \A i \in 3..Last - 1 : Steps[i] \in Installs
    /\ \A m \in Installs : \E i \in 3..Last - 1 : Steps[i] = m
<1> DEFINE S == Installs \cup {"clone", "checkout", "promote"}
           T == <<"clone", "checkout">> \o Tools
<1>1. Tools \in Seq(S) /\ <<"clone", "checkout">> \in Seq(S) /\ <<"promote">> \in Seq(S)
  <2>1. Tools \in Seq(Installs)
    BY BasesAssumption DEF Installs
  <2> QED
    BY <2>1
<1>2. /\ T \in Seq(S) /\ Len(T) = 2 + Len(Tools)
      /\ \A i \in 1..2 + Len(Tools) : T[i] = IF i <= 2 THEN <<"clone", "checkout">>[i] ELSE Tools[i - 2]
  BY <1>1, ConcatProperties, Len(<<"clone", "checkout">>) = 2
<1>3. /\ Len(Steps) = Len(T) + 1
      /\ \A i \in 1..Len(T) + 1 : Steps[i] = IF i <= Len(T) THEN T[i] ELSE <<"promote">>[i - Len(T)]
  BY <1>1, <1>2, ConcatProperties, Len(<<"promote">>) = 1 DEF Steps
<1>4. Len(Tools) \in Nat /\ Last = Len(Tools) + 3 /\ DOMAIN Tools = 1..Len(Tools)
  BY <1>3 DEF Last
<1>5. \A i \in 3..Last - 1 : Steps[i] = Tools[i - 2] /\ i - 2 \in DOMAIN Tools
  <2> HIDE DEF T
  <2> QED
    BY <1>2, <1>3, <1>4
<1>6. Steps[1] = "clone" /\ Steps[2] = "checkout" /\ Steps[Last] = "promote"
  <2>1. T[1] = <<"clone", "checkout">>[1] /\ T[2] = <<"clone", "checkout">>[2]
    OBVIOUS
  <2>2. Steps[1] = T[1] /\ Steps[2] = T[2] /\ Steps[Last] = <<"promote">>[1]
    <3> HIDE DEF T
    <3> QED
      BY <1>2, <1>3, <1>4
  <2> QED
    BY <2>2
<1>7. ASSUME NEW i \in DOMAIN Tools PROVE i + 2 \in 3..Last - 1 /\ Steps[i + 2] = Tools[i]
  BY <1>4, <1>5
<1> QED
  BY <1>4, <1>5, <1>6, <1>7 DEF Installs

(* A plan has at least three steps. *)
LEMMA LastIs == Last \in Nat /\ Last >= 3
BY StepsAre

(* What kind of step each one is, and which may be left out of a plan. *)
LEMMA StepKinds ==
    ASSUME NEW i \in 1..Last
    PROVE  /\ Steps[i] = "clone" <=> i = 1
           /\ Steps[i] = "checkout" <=> i = 2
           /\ Steps[i] = "promote" <=> i = Last
           /\ Steps[i] \in Installs <=> i \in 3..Last - 1
<1>1. {"clone", "checkout", "promote"} \cap Installs = {}
  BY BasesAssumption DEF Installs
<1> QED
  BY <1>1, StepsAre

(* Only installs are left out of a plan. *)
LEMMA LeftOutAre ==
    ASSUME NEW x \in SUBSET Installs
    PROVE  LeftOut(x) \subseteq 3..Last - 1
BY StepKinds DEF LeftOut

-----------------------------------------------------------------------------
(* What the actions are built from does.                                     *)
OnlyProc(p) ==
    /\ DOMAIN proc' = Procs /\ DOMAIN proc'[p] = ProcFields
    /\ \A q \in Procs \ {p} : proc'[q] = proc[q]
Moved(p, phase, at) ==
    /\ OnlyProc(p) /\ proc'[p].phase = phase /\ proc'[p].at = at
    /\ proc'[p].key = proc[p].key /\ proc'[p].base = proc[p].base /\ proc'[p].mode = proc[p].mode
    /\ proc'[p].skip = proc[p].skip /\ proc'[p].list = proc[p].list /\ proc'[p].excl = proc[p].excl
Ended(p) ==
    /\ OnlyProc(p) /\ proc'[p].phase = "idle" /\ proc'[p].at = 1 /\ proc'[p].base = NoBase
    /\ proc'[p].mode = "none" /\ proc'[p].skip = {} /\ proc'[p].list = {} /\ proc'[p].excl = {}
OnlyJob(b) ==
    /\ DOMAIN job' = Ids /\ DOMAIN job'[b] = JobFields
    /\ \A c \in Ids \ {b} : job'[c] = job[c]
    /\ job'[b].key = job[b].key /\ job'[b].excl = job[b].excl
OnlyTree(b) ==
    /\ DOMAIN disk' = Ids /\ DOMAIN disk'[b] = TreeFields
    /\ \A c \in Ids \ {b} : disk'[c] = disk[c]
(* The install a process runs is made for the key of the build. *)
Fitted(p, b) ==
    \A m \in Installs : disk'[b].has[m] = IF m = Steps[proc[p].at] THEN job[b].key ELSE disk[b].has[m]

(* One part of a record or of a directory is set. *)
SetApplied(b, x) == job' = [job EXCEPT ![b].applied = x]
SetState(b, x) == job' = [job EXCEPT ![b].state = x]
SetOwner(b, x) == job' = [job EXCEPT ![b].owner = x]
SetPlace(b, x) == disk' = [disk EXCEPT ![b].place = x]

(* A process goes on to another phase. *)
LEMMA GoDoes ==
    ASSUME Shapes, NEW p \in Procs, NEW phase, Go(p, phase)
    PROVE  Moved(p, phase, proc[p].at)
<1>1. PICK w : proc' = [proc EXCEPT ![p] = w] /\ w = [proc[p] EXCEPT !.phase = phase]
  BY DEF Go
<1> QED
  BY <1>1 DEF Shapes, ProcFits, Moved, OnlyProc

(* A process goes on to another phase and step. *)
LEMMA MoveDoes ==
    ASSUME Shapes, NEW p \in Procs, NEW phase, NEW at,
           proc' = [proc EXCEPT ![p].phase = phase, ![p].at = at]
    PROVE  Moved(p, phase, at)
<1>1. PICK w : /\ proc' = [proc EXCEPT ![p] = w]
               /\ w = [[proc[p] EXCEPT !.phase = phase] EXCEPT !.at = at]
  BY DEF Shapes
<1> QED
  BY DEF Shapes, ProcFits, Moved, OnlyProc

(* A process goes on to another step. *)
LEMMA PassDoes ==
    ASSUME Shapes, NEW p \in Procs, NEW at, proc' = [proc EXCEPT ![p].at = at]
    PROVE  Moved(p, proc[p].phase, at)
<1>1. PICK w : proc' = [proc EXCEPT ![p] = w] /\ w = [proc[p] EXCEPT !.at = at]
  BY DEF Shapes
<1> QED
  BY DEF Shapes, ProcFits, Moved, OnlyProc

(* A command ends. *)
LEMMA StopDoes ==
    ASSUME Shapes, NEW p \in Procs, NEW answer, Stop(p, answer)
    PROVE  Ended(p)
<1>1. PICK w : proc' = [proc EXCEPT ![p] = w] /\ w = [Idle EXCEPT !.answer = answer]
  BY DEF Stop
<1>2. /\ DOMAIN w = ProcFields /\ w.phase = "idle" /\ w.mode = "none" /\ w.base = NoBase
      /\ w.list = {} /\ w.skip = {} /\ w.at = 1 /\ w.excl = {}
  BY <1>1 DEF Idle, ProcFields
<1> QED
  BY <1>1, <1>2 DEF Shapes, Ended, OnlyProc

(* The record of the steps of a run changes. *)
LEMMA AppliedDoes ==
    ASSUME Shapes, NEW b \in Ids, NEW x, SetApplied(b, x)
    PROVE  /\ OnlyJob(b) /\ job'[b].applied = x
           /\ job'[b].state = job[b].state /\ job'[b].owner = job[b].owner
BY DEF SetApplied, Shapes, JobFits, OnlyJob

(* The state of a run changes. *)
LEMMA StateDoes ==
    ASSUME Shapes, NEW b \in Ids, NEW x, SetState(b, x)
    PROVE  /\ OnlyJob(b) /\ job'[b].state = x
           /\ job'[b].applied = job[b].applied /\ job'[b].owner = job[b].owner
BY DEF SetState, Shapes, JobFits, OnlyJob

(* The owner of a run changes. *)
LEMMA OwnerDoes ==
    ASSUME Shapes, NEW b \in Ids, NEW x, SetOwner(b, x)
    PROVE  /\ OnlyJob(b) /\ job'[b].owner = x
           /\ job'[b].applied = job[b].applied /\ job'[b].state = job[b].state
BY DEF SetOwner, Shapes, JobFits, OnlyJob

(* A directory is moved. *)
LEMMA PlaceDoes ==
    ASSUME Shapes, NEW b \in Ids, NEW x, SetPlace(b, x)
    PROVE  /\ OnlyTree(b) /\ disk'[b].place = x
           /\ disk'[b].at = disk[b].at /\ disk'[b].has = disk[b].has
BY DEF SetPlace, Shapes, TreeFits, OnlyTree

(* A step that fails takes its mark back, and leaves the run or closes it. *)
LEMMA FailsDoes ==
    ASSUME Shapes, NEW p \in Procs, NEW b \in Ids, b = Base(p), Fails(p)
    PROVE  /\ Ended(p)
           /\ OnlyJob(b) /\ job'[b].owner = job[b].owner
           /\ job'[b].applied = job[b].applied \ {proc[p].at}
           /\ \/ job'[b].state = job[b].state
              \/ proc[p].mode # "resume" /\ job[b].state = "running" /\ job'[b].state = "failed"
<1>1. PICK w, x : /\ job' = [job EXCEPT ![b] = w]
                  /\ w = [[job[b] EXCEPT !.applied = job[b].applied \ {proc[p].at}] EXCEPT !.state = x]
                  /\ x = IF proc[p].mode # "resume" /\ job[b].state = "running"
                         THEN "failed" ELSE job[b].state
  BY DEF Fails, Shapes
<1>2. /\ DOMAIN w = JobFields /\ w.applied = job[b].applied \ {proc[p].at} /\ w.state = x
      /\ w.owner = job[b].owner /\ w.key = job[b].key /\ w.excl = job[b].excl
  BY <1>1 DEF Shapes, JobFits
<1>3. Ended(p)
  BY StopDoes DEF Fails
<1> QED
  BY <1>1, <1>2, <1>3 DEF Shapes, OnlyJob

-----------------------------------------------------------------------------
(* What is so of a build that a process drives.                              *)
LEMMA AtWork ==
    ASSUME KeepInv, NEW p \in Procs, Drives(p), NEW b, b = Base(p)
    PROVE  /\ b \in Ids /\ job[b].state \in {"running", "committed"}
           /\ proc[p].mode = "run" => job[b].state = "running"
           /\ \A q \in Procs \ {p} : Drives(q) /\ Base(q) = b => b \in crossed
BY DEF KeepInv, ModeFits, OwnerFits, Alone, Drives

(* A step that is not passed over is not on record. *)
LEMMA NotYet ==
    ASSUME KeepInv, NEW p \in Procs, proc[p].phase \in Ahead, proc[p].at \notin proc[p].skip,
           Base(p) \notin crossed
    PROVE  /\ proc[p].at \notin job[Base(p)].applied
           /\ proc[p].at \in 1..Last => job[Base(p)].state = "running"
<1>1. StepsFit(p) /\ Drives(p) /\ Base(p) \in Ids /\ Kept(Base(p)) /\ proc[p].at \in 0..Last + 1
  BY DEF KeepInv, ModeFits, Shapes, ProcFits
<1>2. proc[p].at \notin job[Base(p)].applied
  BY <1>1 DEF StepsFit
<1>3. CASE job[Base(p)].state = "committed"
  BY <1>1, <1>2, <1>3 DEF Kept, GoneFits
<1>4. CASE job[Base(p)].state = "running"
  BY <1>2, <1>4
<1> QED
  BY <1>1, <1>3, <1>4, AtWork

(* The parts of the invariant. *)
LEMMA Parts ==
    ASSUME IInv
    PROVE  /\ KeepInv /\ Shapes /\ Alone
           /\ \A q \in Procs : /\ ModeFits(q) /\ OwnerFits(q) /\ ListFits(q) /\ UseFits(q)
                               /\ PlaceFits(q) /\ FoundFits(q)
           /\ \A c \in Ids : RowFits(c)
           /\ \A c \in Ids \ crossed : Prefix(c) /\ LegacyFits(c) /\ ScratchFits(c) /\ GoneFits(c)
           /\ \A q \in Procs : Base(q) \notin crossed => StepsFit(q)
           /\ \A c \in Ids \ (crossed \cup torn) : DidFits(c) /\ BuiltFits(c)
           /\ \A q \in Procs : Base(q) \notin crossed \cup torn => ActFits(q)
           /\ HomesFit
BY DEF IInv, KeepInv, DoneInv, Kept

(* A step of one process about one base leaves every other one be. *)
Elsewhere(p, b) ==
    /\ OnlyProc(p) /\ crossed' = crossed /\ torn' = torn
    /\ \A c \in Ids \ {b} :
           job'[c] = job[c] /\ disk'[c] = disk[c] /\ (c \in marked' <=> c \in marked)
    /\ \A q \in Procs \ {p} : Drives(q) /\ Base(q) = b => b \in crossed

(* What is on record and made for the other processes stays so. *)
LEMMA OthersFit ==
    ASSUME IInv, NEW p \in Procs, NEW b, Elsewhere(p, b), NEW q \in Procs \ {p}
    PROVE  /\ (Base(q) \notin crossed)' => StepsFit(q)'
           /\ (Base(q) \notin crossed \cup torn)' => ActFits(q)'
<1>1. proc'[q] = proc[q] /\ crossed' = crossed /\ torn' = torn
  BY DEF Elsewhere, OnlyProc
<1>2. CASE ~Drives(q)
  BY Parts, <1>1, <1>2 DEF StepsFit, ActFits, ModeFits, Drives, Ahead, Back
<1>3. CASE Drives(q) /\ Base(q) = b
  BY <1>1, <1>3 DEF Elsewhere, Base
<1>4. CASE Drives(q) /\ Base(q) # b
  <2> PICK c : c = proc[q].base
    OBVIOUS
  <2>1. c \in Ids \ {b}
    BY Parts, <1>4 DEF ModeFits, Base
  <2>2. job'[c] = job[c] /\ disk'[c] = disk[c] /\ (c \in marked' <=> c \in marked)
    BY <2>1 DEF Elsewhere
  <2>3. c \notin crossed => StepsFit(q)'
    BY Parts, <1>1, <2>2 DEF StepsFit, Covered, Passed, Base
  <2>4. c \notin crossed \cup torn => ActFits(q)'
    BY Parts, <1>1, <2>2 DEF ActFits, Did, IsDir, Base
  <2> QED
    BY <1>1, <2>3, <2>4 DEF Base
<1> QED
  BY <1>2, <1>3, <1>4

(* While a process goes ahead with a build, every step on record has been made. *)
LEMMA AllDid ==
    ASSUME IInv, NEW p \in Procs, NEW b, b = Base(p), proc[p].phase \in Ahead,
           b \notin crossed \cup torn, job[b].state # "stuck"
    PROVE  b \in Ids /\ \A i \in job[b].applied : Did(b, i)
<1>1. Drives(p) /\ b \in Ids
  BY Parts DEF ModeFits
<1>2. ASSUME NEW q \in Procs, Base(q) = b PROVE proc[q].phase \notin {"unmaking", "undone"}
  BY Parts, <1>2, AtWork DEF ModeFits, Back, Ahead
<1> QED
  BY Parts, <1>1, <1>2 DEF DidFits

(* The owner of a run that has gone is no process. *)
LEMMA GoneIsNobody == \A p \in Procs : p # "gone"
BY BasesAssumption

(* A key is a key. *)
LEMMA NoKeyIsNone == \A k \in Keys : k # NoKey
BY BasesAssumption

(* There is an identifier to draw. *)
LEMMA BoundIsNat == MaxBases \in Nat \ {0}
BY BasesAssumption

(* What is so of the directory and the journal of a build at a step of its plan. *)
LEMMA AtStep ==
    ASSUME IInv, NEW p \in Procs, NEW b, b = Base(p), proc[p].phase \in Ahead,
           proc[p].at \notin proc[p].skip, proc[p].at \in 1..Last
    PROVE  /\ b \in Ids /\ job[b].state \in {"running", "committed"}
           /\ \A q \in Procs \ {p} : Drives(q) /\ Base(q) = b => b \in crossed
           /\ b \notin crossed => /\ job[b].state = "running" /\ row[b] = NoKey
                                  /\ proc[p].at \notin job[b].applied
                                  /\ \A i \in job[b].applied : i < proc[p].at \/ i \in proc[p].skip
                                  /\ \A i \in 1..Last : i < proc[p].at \/ i \in proc[p].skip => Covered(b, i)
           /\ b \notin crossed \cup torn => disk[b].place # "part"
<1>1. Drives(p) /\ b \in Ids /\ job[b].state \in {"running", "committed"}
  BY Parts, AtWork DEF ModeFits
<1>2. \A q \in Procs \ {p} : Drives(q) /\ Base(q) = b => b \in crossed
  BY Parts, <1>1, AtWork
<1>3. ASSUME b \notin crossed
      PROVE  job[b].state = "running" /\ row[b] = NoKey /\ proc[p].at \notin job[b].applied
  BY Parts, <1>1, <1>3, NotYet DEF RowFits
<1>4. ASSUME b \notin crossed
      PROVE  /\ \A i \in job[b].applied : i < proc[p].at \/ i \in proc[p].skip
             /\ \A i \in 1..Last : i < proc[p].at \/ i \in proc[p].skip => Covered(b, i)
  BY Parts, <1>4 DEF StepsFit
<1>5. ASSUME b \notin crossed \cup torn PROVE disk[b].place # "part"
  <2>1. ASSUME NEW q \in Procs, Base(q) = b, proc[q].phase = "unmaking" PROVE FALSE
    BY Parts, <1>2, <1>5, <2>1 DEF ModeFits, Back, Ahead
  <2> QED
    BY Parts, <1>1, <1>5, <2>1 DEF BuiltFits
<1> QED
  BY <1>1, <1>2, <1>3, <1>4, <1>5

(* What has no clone has no step on record. *)
LEMMA NoneDid ==
    ASSUME IInv, NEW b \in Ids, b \notin crossed, 1 \notin job[b].applied
    PROVE  job[b].applied = {}
<1>1. 1 \notin LeftOut(job[b].excl)
  BY Parts, LeftOutAre DEF Shapes, JobFits
<1>2. ASSUME NEW i \in job[b].applied PROVE FALSE
  BY Parts, <1>1, StepsAre DEF Prefix, Covered, Passed, Shapes, JobFits
<1> QED
  BY <1>2

(* What is so of the directory and the journal of a build that is being undone. *)
LEMMA AtUndo ==
    ASSUME IInv, NEW p \in Procs, NEW b, b = Base(p), proc[p].phase \in Back
    PROVE  /\ b \in Ids /\ proc[p].mode = "run" /\ row[b] = NoKey /\ proc[p].at \in 0..Last
           /\ job[b].state = "running" /\ job[b].owner = p
           /\ \A q \in Procs \ {p} : Drives(q) /\ Base(q) = b => b \in crossed
           /\ \A q \in Procs \ {p} : Drives(q) /\ Base(q) = b => proc[q].mode # "resume" /\ q = p
           /\ \A q \in Procs : proc[q].phase \in {"found", "home"} \cup Evicting => Base(q) # b
           /\ b \notin crossed =>
                  /\ disk[b].place # "legacy" /\ \A s \in scratch : s[1] # b
                  /\ \A i \in job[b].applied : i \in 1..Last /\ i <= proc[p].at
                  /\ \A i \in 1..Last : i <= proc[p].at => Covered(b, i)
<1>1. /\ Drives(p) /\ b \in Ids /\ proc[p].mode = "run" /\ job[b].state = "running" /\ job[b].owner = p
      /\ row[b] = NoKey
  BY Parts DEF ModeFits, OwnerFits, RowFits
<1>2. proc[p].at \in 0..Last
  BY Parts DEF PlaceFits, Shapes, ProcFits
<1>3. \A q \in Procs \ {p} : Drives(q) /\ Base(q) = b => b \in crossed
  BY Parts, <1>1, AtWork
<1>4. \A q \in Procs \ {p} : Drives(q) /\ Base(q) = b => proc[q].mode # "resume" /\ q = p
  BY Parts, GoneIsNobody DEF OwnerFits, ModeFits, Drives
<1>5. \A q \in Procs : proc[q].phase \in {"found", "home"} \cup Evicting => Base(q) # b
  BY Parts, <1>1 DEF UseFits
<1>6. ASSUME b \notin crossed
      PROVE  /\ disk[b].place # "legacy" /\ \A s \in scratch : s[1] # b
             /\ \A i \in job[b].applied : i \in 1..Last /\ i <= proc[p].at
             /\ \A i \in 1..Last : i <= proc[p].at => Covered(b, i)
  <2>1. disk[b].place # "legacy"
    BY Parts, <1>1, <1>6 DEF LegacyFits, Back
  <2>2. \A s \in scratch : s[1] # b
    BY Parts, <1>1, <1>6 DEF ScratchFits, Back
  <2>3. \A i \in job[b].applied : i \in 1..Last /\ i <= proc[p].at
    BY Parts, <1>1, <1>6 DEF StepsFit, Shapes, JobFits
  <2>4. \A i \in 1..Last : i <= proc[p].at => Covered(b, i)
    BY Parts, <1>6 DEF StepsFit
  <2> QED
    BY <2>1, <2>2, <2>3, <2>4
<1> QED
  BY <1>1, <1>2, <1>4, <1>5, <1>6

(* The tree of an earlier release is marked, and then moved. *)
LEMMA SettleKeeps ==
    ASSUME IInv, NEW p \in Procs, Settle(p)
    PROVE  IInv'
<1> USE DEF Base, Drives
<1>m. /\ proc[p].phase = "drive" /\ proc[p].mode # "none" /\ proc[p].at \in 1..Last
      /\ proc[p].at \notin proc[p].skip
  BY Parts DEF Settle, Facing, Driving, ModeFits, PlaceFits, Shapes, ProcFits, Ahead
<1> PICK b \in Ids : b = proc[p].base
  BY <1>m, AtStep DEF Ahead
<1>o. /\ job[b].state \in {"running", "committed"}
      /\ \A q \in Procs \ {p} : proc[q].mode # "none" /\ proc[q].base = b => b \in crossed
      /\ b \notin crossed => /\ job[b].state = "running" /\ row[b] = NoKey
                             /\ proc[p].at \notin job[b].applied
      /\ b \notin crossed \cup torn => disk[b].place # "part"
  BY <1>m, AtStep DEF Ahead
<1>k. b \notin crossed =>
          /\ \A i \in job[b].applied : i < proc[p].at \/ i \in proc[p].skip
          /\ \A i \in 1..Last : i < proc[p].at \/ i \in proc[p].skip => Covered(b, i)
  BY <1>m, AtStep DEF Ahead

<1>e. /\ UNCHANGED <<row, job, proc, scratch, drawn, crossed, torn, excl, homes>>
      /\ disk[b].place = "legacy" /\ marked' = marked \cup {b}
      /\ OnlyTree(b) /\ disk'[b].has = disk[b].has /\ disk'[b].at = disk[b].at
      /\ disk'[b].place \in {"legacy", "here"}
  <2>1. CASE b \in marked
    <3>1. SetPlace(b, "here")
      BY <2>1 DEF SetPlace, Settle
    <3>2. /\ OnlyTree(b) /\ disk'[b].place = "here"
          /\ disk'[b].at = disk[b].at /\ disk'[b].has = disk[b].has
      BY Parts, <3>1, PlaceDoes
    <3> QED
      BY <2>1, <3>2 DEF Settle, world, kept, bounds
  <2>2. CASE b \notin marked
    BY Parts DEF Settle, kept, bounds, OnlyTree, Shapes, TreeFits
  <2> QED
    BY <2>1, <2>2
<1>w. Elsewhere(p, b)
  BY Parts, <1>o, <1>e DEF Elsewhere, Shapes, ProcFits, OnlyTree, OnlyProc
<1>1. Shapes'
  <2>1. ASSUME NEW c \in Ids PROVE TreeFits(c)'
    BY Parts, <1>e DEF Shapes, TreeFits, Places, OnlyTree
  <2>2. ASSUME NEW c \in Ids PROVE JobFits(c)'
    BY Parts, <1>e DEF Shapes, JobFits
  <2>3. ASSUME NEW q \in Procs PROVE ProcFits(q)'
    BY Parts, <1>e DEF Shapes, ProcFits
  <2> QED
    BY Parts, <1>e, <2>1, <2>2, <2>3 DEF Shapes, OnlyTree
<1>2. Alone'
  BY Parts, <1>e DEF Alone
<1>3. ASSUME NEW q \in Procs
      PROVE  (ModeFits(q) /\ OwnerFits(q) /\ ListFits(q) /\ UseFits(q) /\ PlaceFits(q) /\ FoundFits(q))'
  <2>1. ModeFits(q)'
    BY Parts, <1>e DEF ModeFits
  <2>2. OwnerFits(q)'
    BY Parts, <1>e DEF OwnerFits
  <2>3. ListFits(q)'
    BY Parts, <1>e DEF ListFits, Resolving
  <2>4. UseFits(q)'
    BY Parts, <1>e DEF UseFits
  <2>5. PlaceFits(q)'
    BY Parts, <1>e DEF PlaceFits
  <2>6. FoundFits(q)'
    BY Parts, <1>e DEF FoundFits, ModeFits, IsBuilt, IsDir, OnlyTree
  <2> QED
    BY <2>1, <2>2, <2>3, <2>4, <2>5, <2>6
<1>4. ASSUME NEW c \in Ids PROVE RowFits(c)'
  BY Parts, <1>e DEF RowFits, OnlyTree
<1>5. ASSUME NEW c \in Ids, c \notin crossed'
      PROVE  (Prefix(c) /\ LegacyFits(c) /\ ScratchFits(c) /\ GoneFits(c))'
  <2>1. Prefix(c)'
    BY Parts, <1>e, <1>5 DEF Prefix, Covered, Passed
  <2>2. LegacyFits(c)'
    BY Parts, <1>e, <1>5 DEF LegacyFits, OnlyTree
  <2>3. ScratchFits(c)'
    BY Parts, <1>e, <1>5 DEF ScratchFits, OnlyTree
  <2>4. GoneFits(c)'
    BY Parts, <1>e, <1>5 DEF GoneFits, Covered, Passed, OnlyTree
  <2> QED
    BY <2>1, <2>2, <2>3, <2>4
<1>6. ASSUME NEW q \in Procs, Base(q)' \notin crossed' PROVE StepsFit(q)'
  BY Parts, <1>m, <1>o, <1>e, <1>6, <1>k DEF StepsFit, ModeFits, Covered, Passed, Ahead, Back
<1>7. ASSUME NEW c \in Ids, c \notin (crossed \cup torn)' PROVE (DidFits(c) /\ BuiltFits(c))'
  <2>1. DidFits(c)'
    BY Parts, <1>e, <1>7 DEF DidFits, Did, OnlyTree
  <2>2. BuiltFits(c)'
    BY Parts, <1>e, <1>7 DEF BuiltFits, Finished, IsBuilt, IsDir, OnlyTree
  <2> QED
    BY <2>1, <2>2
<1>8. ASSUME NEW q \in Procs, (Base(q) \notin crossed \cup torn)' PROVE ActFits(q)'
  <2>1. CASE q # p
    BY <1>w, <1>8, <2>1, OthersFit
  <2>2. CASE q = p
    BY <1>m, <1>o, <1>e, <2>2 DEF ActFits
  <2> QED
    BY <2>1, <2>2
<1>9. HomesFit'
  BY Parts, <1>e DEF HomesFit, HomeIsReady
<1> QED
  BY <1>1, <1>2, <1>3, <1>4, <1>5, <1>6, <1>7, <1>8, <1>9 DEF IInv, KeepInv, DoneInv, Kept

(* A step that is done, or not of the plan, is passed over. *)
LEMMA PassKeeps ==
    ASSUME IInv, NEW p \in Procs, Pass(p)
    PROVE  IInv'
<1> USE DEF Base, Drives
<1>m. /\ proc[p].phase = "drive" /\ proc[p].mode # "none" /\ proc[p].at \in 1..Last
      /\ proc[p].at \in proc[p].skip /\ proc[p].base \in Ids
  BY Parts DEF Pass, Driving, ModeFits, Shapes, ProcFits, Ahead
<1>e. /\ UNCHANGED <<row, disk, marked, job, scratch, drawn, crossed, torn, excl, homes>>
      /\ Moved(p, "drive", proc[p].at + 1)
  <2>1. proc' = [proc EXCEPT ![p].at = proc[p].at + 1]
    BY DEF Pass
  <2> QED
    BY Parts, <1>m, <2>1, PassDoes DEF Pass, world, kept, bounds
<1>1. Shapes'
  <2>1. ASSUME NEW c \in Ids PROVE TreeFits(c)'
    BY Parts, <1>e DEF Shapes, TreeFits
  <2>2. ASSUME NEW c \in Ids PROVE JobFits(c)'
    BY Parts, <1>e DEF Shapes, JobFits
  <2>3. ASSUME NEW q \in Procs PROVE ProcFits(q)'
    BY Parts, LastIs, <1>m, <1>e DEF Shapes, ProcFits, Moved, OnlyProc
  <2> QED
    BY Parts, <1>e, <2>1, <2>2, <2>3 DEF Shapes, Moved, OnlyProc
<1>2. Alone'
  BY Parts, <1>e DEF Alone, Moved, OnlyProc
<1>3. ASSUME NEW q \in Procs
      PROVE  (ModeFits(q) /\ OwnerFits(q) /\ ListFits(q) /\ UseFits(q) /\ PlaceFits(q) /\ FoundFits(q))'
  <2>1. ModeFits(q)'
    BY Parts, <1>m, <1>e DEF ModeFits, Moved, OnlyProc
  <2>2. OwnerFits(q)'
    BY Parts, <1>e DEF OwnerFits, Moved, OnlyProc
  <2>3. ListFits(q)'
    BY Parts, <1>e DEF ListFits, Resolving, Moved, OnlyProc
  <2>4. UseFits(q)'
    BY Parts, <1>e DEF UseFits, Evicting, Moved, OnlyProc
  <2>5. PlaceFits(q)'
    BY Parts, <1>m, <1>e DEF PlaceFits, Back, Moved, OnlyProc
  <2>6. FoundFits(q)'
    BY Parts, <1>e DEF FoundFits, IsBuilt, IsDir, Moved, OnlyProc
  <2> QED
    BY <2>1, <2>2, <2>3, <2>4, <2>5, <2>6
<1>4. ASSUME NEW c \in Ids PROVE RowFits(c)'
  BY Parts, <1>e DEF RowFits
<1>5. ASSUME NEW c \in Ids, c \notin crossed'
      PROVE  (Prefix(c) /\ LegacyFits(c) /\ ScratchFits(c) /\ GoneFits(c))'
  <2>1. Prefix(c)'
    BY Parts, <1>e, <1>5 DEF Prefix, Covered, Passed
  <2>2. LegacyFits(c)'
    BY Parts, LastIs, <1>m, <1>e, <1>5 DEF LegacyFits, Moved, OnlyProc
  <2>3. ScratchFits(c)'
    BY Parts, <1>m, <1>e, <1>5 DEF ScratchFits, Moved, OnlyProc
  <2>4. GoneFits(c)'
    BY Parts, <1>e, <1>5 DEF GoneFits, Covered, Passed, Moved, OnlyProc
  <2> QED
    BY <2>1, <2>2, <2>3, <2>4
<1>6. ASSUME NEW q \in Procs, Base(q)' \notin crossed' PROVE StepsFit(q)'
  <2>1. CASE q # p
    BY Parts, <1>e, <1>6, <2>1 DEF StepsFit, Covered, Passed, Moved, OnlyProc
  <2>2. CASE q = p
    <3>1. /\ \A i \in 1..Last : i < proc[p].at \/ i \in proc[p].skip => Covered(Base(p), i)
          /\ \A i \in job[Base(p)].applied : i < proc[p].at \/ i \in proc[p].skip
      BY Parts, <1>m, <1>e, <1>6, <2>2 DEF StepsFit, Ahead, Moved
    <3>2. \A i \in 1..Last : i < proc[p].at + 1 => i < proc[p].at \/ i = proc[p].at
      BY <1>m
    <3>3. \A i \in job[Base(p)].applied : i < proc[p].at => i < proc[p].at + 1
      BY Parts, <1>m DEF Shapes, JobFits
    <3> QED
      BY <1>m, <1>e, <2>2, <3>1, <3>3 DEF StepsFit, Covered, Passed, Moved, Back
  <2> QED
    BY <2>1, <2>2
<1>7. ASSUME NEW c \in Ids, c \notin (crossed \cup torn)' PROVE (DidFits(c) /\ BuiltFits(c))'
  <2>1. DidFits(c)'
    BY Parts, <1>m, <1>e, <1>7 DEF DidFits, Did, Moved, OnlyProc
  <2>2. BuiltFits(c)'
    BY Parts, <1>m, <1>e, <1>7 DEF BuiltFits, Finished, IsBuilt, IsDir, Moved, OnlyProc
  <2> QED
    BY <2>1, <2>2
<1>8. ASSUME NEW q \in Procs, (Base(q) \notin crossed \cup torn)' PROVE ActFits(q)'
  BY Parts, LastIs, <1>m, <1>e, <1>8 DEF ActFits, Did, IsDir, Moved, OnlyProc
<1>9. HomesFit'
  BY Parts, <1>e DEF HomesFit, HomeIsReady
<1> QED
  BY <1>1, <1>2, <1>3, <1>4, <1>5, <1>6, <1>7, <1>8, <1>9 DEF IInv, KeepInv, DoneInv, Kept

(* A directory that is there is carried on with; if not, a clone is begun. *)
LEMMA StartCloneKeeps ==
    ASSUME IInv, NEW p \in Procs, StartClone(p)
    PROVE  IInv'
<1> USE DEF Base, Drives
<1>m. /\ proc[p].phase = "drive" /\ proc[p].mode # "none" /\ proc[p].at \in 1..Last
      /\ proc[p].at \notin proc[p].skip
  BY Parts DEF StartClone, Facing, Driving, ModeFits, PlaceFits, Shapes, ProcFits, Ahead
<1> PICK b \in Ids : b = proc[p].base
  BY <1>m, AtStep DEF Ahead
<1>o. /\ job[b].state \in {"running", "committed"}
      /\ \A q \in Procs \ {p} : proc[q].mode # "none" /\ proc[q].base = b => b \in crossed
      /\ b \notin crossed => /\ job[b].state = "running" /\ row[b] = NoKey
                             /\ proc[p].at \notin job[b].applied
      /\ b \notin crossed \cup torn => disk[b].place # "part"
  BY <1>m, AtStep DEF Ahead
<1>k. b \notin crossed =>
          /\ \A i \in job[b].applied : i < proc[p].at \/ i \in proc[p].skip
          /\ \A i \in 1..Last : i < proc[p].at \/ i \in proc[p].skip => Covered(b, i)
  BY <1>m, AtStep DEF Ahead

<1>s. proc[p].at = 1
  BY <1>m, StepKinds DEF StartClone, Facing, Step
<1>j. /\ OnlyJob(b) /\ job'[b].state = job[b].state /\ job'[b].owner = job[b].owner
      /\ job'[b].applied = job[b].applied \ {proc[p].at}
      /\ b \notin crossed => job'[b].applied = job[b].applied
  <2>1. SetApplied(b, job[b].applied \ {proc[p].at})
    BY DEF SetApplied, StartClone, Applying
  <2>2. b \notin crossed => job[b].applied \ {proc[p].at} = job[b].applied
    BY <1>o
  <2>3. OnlyJob(b) /\ job'[b].state = job[b].state /\ job'[b].owner = job[b].owner
        /\ job'[b].applied = job[b].applied \ {proc[p].at}
    BY Parts, <2>1, AppliedDoes
  <2> QED
    BY <2>2, <2>3

<1>e. /\ UNCHANGED <<row, disk, marked, drawn, crossed, torn, excl, homes>>
      /\ disk[b].place # "legacy"
      /\ \/ Moved(p, "acted", 1) /\ scratch' = scratch /\ IsDir(b)
         \/ /\ Moved(p, "cloning", 1) /\ ~IsDir(b)
            /\ scratch' = {s \in scratch : s[1] # b} \cup {<<b, p>>}
  BY Parts, <1>s, GoDoes DEF StartClone, kept, bounds
<1>w. Elsewhere(p, b)
  BY <1>o, <1>j, <1>e DEF Elsewhere, Moved, OnlyJob
<1>1. Shapes'
  <2>1. ASSUME NEW c \in Ids PROVE TreeFits(c)'
    BY Parts, <1>e DEF Shapes, TreeFits
  <2>2. ASSUME NEW c \in Ids PROVE JobFits(c)'
    BY Parts, <1>j DEF Shapes, JobFits, OnlyJob
  <2>3. ASSUME NEW q \in Procs PROVE ProcFits(q)'
    BY Parts, <1>s, <1>e DEF Shapes, ProcFits, Moved, OnlyProc
  <2> QED
    BY Parts, <1>j, <1>e, <2>1, <2>2, <2>3 DEF Shapes, Moved, OnlyJob, OnlyProc
<1>2. Alone'
  BY Parts, <1>e DEF Alone, Moved, OnlyProc
<1>3. ASSUME NEW q \in Procs
      PROVE  (ModeFits(q) /\ OwnerFits(q) /\ ListFits(q) /\ UseFits(q) /\ PlaceFits(q) /\ FoundFits(q))'
  <2>1. ModeFits(q)'
    BY Parts, LastIs, <1>m, <1>o, <1>s, <1>e DEF ModeFits, Ahead, Back, Moved, OnlyProc
  <2>2. OwnerFits(q)'
    BY Parts, <1>j, <1>e DEF OwnerFits, ModeFits, Moved, OnlyJob, OnlyProc
  <2>3. ListFits(q)'
    BY Parts, <1>m, <1>j, <1>e DEF ListFits, Resolving, Shapes, ProcFits, Moved, OnlyJob, OnlyProc
  <2>4. UseFits(q)'
    BY Parts, <1>j, <1>e DEF UseFits, ModeFits, Evicting, Moved, OnlyJob, OnlyProc
  <2>5. PlaceFits(q)'
    BY Parts, LastIs, <1>m, <1>s, <1>e DEF PlaceFits, Moved, OnlyProc
  <2>6. FoundFits(q)'
    BY Parts, <1>j, <1>e DEF FoundFits, ModeFits, IsBuilt, IsDir, Moved, OnlyJob, OnlyProc
  <2> QED
    BY <2>1, <2>2, <2>3, <2>4, <2>5, <2>6
<1>4. ASSUME NEW c \in Ids PROVE RowFits(c)'
  BY Parts, LastIs, <1>m, <1>o, <1>s, <1>j, <1>e DEF RowFits, OnlyJob
<1>5. ASSUME NEW c \in Ids, c \notin crossed'
      PROVE  (Prefix(c) /\ LegacyFits(c) /\ ScratchFits(c) /\ GoneFits(c))'
  <2>1. Prefix(c)'
    BY Parts, <1>j, <1>e, <1>5 DEF Prefix, Covered, Passed, OnlyJob
  <2>2. LegacyFits(c)'
    BY Parts, <1>j, <1>e, <1>5 DEF LegacyFits, Moved, OnlyJob, OnlyProc
  <2>3. ScratchFits(c)'
    <3>1. CASE c # b
      BY Parts, <1>j, <1>e, <1>5, <3>1 DEF ScratchFits, Moved, OnlyJob, OnlyProc
    <3>2. CASE c = b
      <4>1. b \notin crossed
        BY <1>e, <1>5, <3>2
      <4>2. /\ job'[b].state = "running" /\ 1 \notin job'[b].applied
            /\ \A q \in Procs : Drives(q)' /\ Base(q)' = b => q = p
        BY <1>o, <1>s, <1>j, <1>e, <4>1 DEF Moved, OnlyProc
      <4>3. CASE proc'[p].phase = "acted"
        <5>1. scratch' = scratch /\ IsDir(b)
          BY <1>e, <4>3 DEF Moved
        <5>2. \A s \in scratch : s[1] # b
          BY Parts, <4>1, <5>1 DEF ScratchFits, IsDir
        <5> QED
          BY <3>2, <5>1, <5>2 DEF ScratchFits
      <4>4. CASE proc'[p].phase = "cloning"
        <5>1. /\ ~IsDir(b) /\ scratch' = {s \in scratch : s[1] # b} \cup {<<b, p>>}
              /\ Moved(p, "cloning", 1)
          BY <1>e, <4>4 DEF Moved
        <5>2. \A s \in scratch' : s[1] = b => s = <<b, p>>
          BY <5>1
        <5>3. disk'[b].place = "none"
          BY Parts, <1>e, <5>1 DEF IsDir, Shapes, TreeFits, Places
        <5>4. \A q \in Procs : proc'[q].phase \in {"cloning", "marked"} /\ proc'[q].base = b => q = p
          BY Parts, <4>2, <5>1 DEF ModeFits, Ahead, Moved, OnlyProc
        <5> QED
          BY <1>s, <1>m, <3>2, <4>2, <5>1, <5>3, <5>4 DEF ScratchFits, Moved
      <4> QED
        BY <1>e, <4>3, <4>4 DEF Moved
    <3> QED
      BY <3>1, <3>2
  <2>4. GoneFits(c)'
    BY Parts, <1>m, <1>j, <1>e, <1>5 DEF GoneFits, Covered, Passed, Moved, OnlyJob, OnlyProc
  <2> QED
    BY <2>1, <2>2, <2>3, <2>4
<1>6. ASSUME NEW q \in Procs, Base(q)' \notin crossed' PROVE StepsFit(q)'
  <2>1. CASE q # p
    BY <1>w, <1>6, <2>1, OthersFit
  <2>2. CASE q = p
    BY <1>m, <1>k, <1>s, <1>j, <1>e, <1>6, <2>2 DEF StepsFit, Covered, Passed, Back, Moved,
       OnlyJob
  <2> QED
    BY <2>1, <2>2
<1>7. ASSUME NEW c \in Ids, c \notin (crossed \cup torn)' PROVE (DidFits(c) /\ BuiltFits(c))'
  <2>1. DidFits(c)'
    BY Parts, <1>m, <1>j, <1>e, <1>7 DEF DidFits, Did, Moved, OnlyJob, OnlyProc
  <2>2. BuiltFits(c)'
    BY Parts, <1>m, <1>j, <1>e, <1>7 DEF BuiltFits, Finished, IsBuilt, IsDir, Moved, OnlyJob,
       OnlyProc
  <2> QED
    BY <2>1, <2>2
<1>8. ASSUME NEW q \in Procs, (Base(q) \notin crossed \cup torn)' PROVE ActFits(q)'
  <2>1. CASE q # p
    BY <1>w, <1>8, <2>1, OthersFit
  <2>2. CASE q = p
    BY LastIs, <1>o, <1>e, <1>8, <2>2 DEF ActFits, Did, IsDir, Back, Moved
  <2> QED
    BY <2>1, <2>2
<1>9. HomesFit'
  BY Parts, LastIs, <1>o, <1>s, <1>j, <1>e DEF HomesFit, HomeIsReady, OnlyJob
<1> QED
  BY <1>1, <1>2, <1>3, <1>4, <1>5, <1>6, <1>7, <1>8, <1>9 DEF IInv, KeepInv, DoneInv, Kept

(* A step that has acted is marked applied. *)
LEMMA RecordKeeps ==
    ASSUME IInv, NEW p \in Procs, Record(p)
    PROVE  IInv'
<1> USE DEF Base, Drives
<1>m. /\ proc[p].phase = "acted" /\ proc[p].mode # "none" /\ proc[p].at \in 1..Last
      /\ proc[p].at \notin proc[p].skip
  BY Parts DEF Record, ModeFits, PlaceFits, Shapes, ProcFits, Ahead
<1> PICK b \in Ids : b = proc[p].base
  BY <1>m, AtStep DEF Ahead
<1>o. /\ job[b].state \in {"running", "committed"}
      /\ \A q \in Procs \ {p} : proc[q].mode # "none" /\ proc[q].base = b => b \in crossed
      /\ b \notin crossed => /\ job[b].state = "running" /\ row[b] = NoKey
                             /\ proc[p].at \notin job[b].applied
      /\ b \notin crossed \cup torn => disk[b].place # "part"
  BY <1>m, AtStep DEF Ahead
<1>k. b \notin crossed =>
          /\ \A i \in job[b].applied : i < proc[p].at \/ i \in proc[p].skip
          /\ \A i \in 1..Last : i < proc[p].at \/ i \in proc[p].skip => Covered(b, i)
  BY <1>m, AtStep DEF Ahead

<1>e. /\ UNCHANGED <<row, disk, marked, scratch, drawn, crossed, torn, excl, homes>>
      /\ OnlyJob(b) /\ job'[b].state = job[b].state /\ job'[b].owner = job[b].owner
      /\ job'[b].applied = job[b].applied \cup {proc[p].at}
      /\ Moved(p, "drive", proc[p].at + 1)
  <2>1. /\ SetApplied(b, job[b].applied \cup {proc[p].at})
        /\ proc' = [proc EXCEPT ![p].phase = "drive", ![p].at = proc[p].at + 1]
    BY DEF SetApplied, Record
  <2>2. OnlyJob(b) /\ job'[b].state = job[b].state /\ job'[b].owner = job[b].owner
        /\ job'[b].applied = job[b].applied \cup {proc[p].at}
    BY Parts, <2>1, AppliedDoes
  <2>3. Moved(p, "drive", proc[p].at + 1)
    BY Parts, <2>1, MoveDoes
  <2> QED
    BY <2>2, <2>3 DEF Record, world, kept, bounds
<1>w. Elsewhere(p, b)
  BY <1>o, <1>e DEF Elsewhere, Moved, OnlyJob
<1>1. Shapes'
  <2>1. ASSUME NEW c \in Ids PROVE TreeFits(c)'
    BY Parts, <1>e DEF Shapes, TreeFits
  <2>2. ASSUME NEW c \in Ids PROVE JobFits(c)'
    BY Parts, <1>m, <1>e DEF Shapes, JobFits, OnlyJob
  <2>3. ASSUME NEW q \in Procs PROVE ProcFits(q)'
    BY Parts, LastIs, <1>m, <1>e DEF Shapes, ProcFits, Moved, OnlyProc
  <2> QED
    BY Parts, <1>e, <2>1, <2>2, <2>3 DEF Shapes, Moved, OnlyJob, OnlyProc
<1>2. Alone'
  BY Parts, <1>e DEF Alone, Moved, OnlyProc
<1>3. ASSUME NEW q \in Procs
      PROVE  (ModeFits(q) /\ OwnerFits(q) /\ ListFits(q) /\ UseFits(q) /\ PlaceFits(q) /\ FoundFits(q))'
  <2>1. ModeFits(q)'
    BY Parts, <1>m, <1>e DEF ModeFits, Ahead, Back, Moved, OnlyProc
  <2>2. OwnerFits(q)'
    BY Parts, <1>e DEF OwnerFits, ModeFits, Moved, OnlyJob, OnlyProc
  <2>3. ListFits(q)'
    BY Parts, <1>e DEF ListFits, Resolving, Shapes, ProcFits, Moved, OnlyJob, OnlyProc
  <2>4. UseFits(q)'
    BY Parts, <1>e DEF UseFits, ModeFits, Evicting, Moved, OnlyJob, OnlyProc
  <2>5. PlaceFits(q)'
    BY Parts, <1>m, <1>e DEF PlaceFits, Back, Moved, OnlyProc
  <2>6. FoundFits(q)'
    BY Parts, <1>e DEF FoundFits, ModeFits, IsBuilt, IsDir, Moved, OnlyJob, OnlyProc
  <2> QED
    BY <2>1, <2>2, <2>3, <2>4, <2>5, <2>6
<1>4. ASSUME NEW c \in Ids PROVE RowFits(c)'
  BY Parts, <1>e DEF RowFits, OnlyJob
<1>5. ASSUME NEW c \in Ids, c \notin crossed'
      PROVE  (Prefix(c) /\ LegacyFits(c) /\ ScratchFits(c) /\ GoneFits(c))'
  <2>1. Prefix(c)'
    BY Parts, <1>e, <1>5, <1>k DEF Prefix, Covered, Passed, OnlyJob
  <2>2. LegacyFits(c)'
    BY Parts, <1>m, <1>e, <1>5 DEF LegacyFits, Moved, OnlyJob, OnlyProc
  <2>3. ScratchFits(c)'
    BY Parts, <1>m, <1>e, <1>5 DEF ScratchFits, Moved, OnlyJob, OnlyProc
  <2>4. GoneFits(c)'
    BY Parts, <1>e, <1>5 DEF GoneFits, Covered, Passed, Moved, OnlyJob, OnlyProc
  <2> QED
    BY <2>1, <2>2, <2>3, <2>4
<1>6. ASSUME NEW q \in Procs, Base(q)' \notin crossed' PROVE StepsFit(q)'
  <2>1. CASE q # p /\ Base(q) # b
    BY Parts, <1>e, <1>6, <2>1 DEF StepsFit, ModeFits, Covered, Passed, Moved, OnlyProc, OnlyJob
  <2>2. CASE q # p /\ Base(q) = b
    BY Parts, <1>o, <1>e, <1>6, <2>2 DEF StepsFit, ModeFits, Moved, OnlyProc
  <2>3. CASE q = p
    <3>1. b \notin crossed
      BY <1>e, <1>6, <2>3 DEF Moved
    <3>2. \A i \in 1..Last : i < proc[p].at + 1 => i < proc[p].at \/ i = proc[p].at
      BY <1>m
    <3>3. \A i \in job'[b].applied : i < proc[p].at \/ i \in proc[p].skip => i < proc[p].at + 1 \/ i \in proc[p].skip
      BY Parts, <1>m, <1>e DEF Shapes, JobFits
    <3>4. \A i \in 1..Last : Covered(b, i) \/ i = proc[p].at => Covered(b, i)'
      BY <1>e DEF Covered, Passed, OnlyJob
    <3>5. proc[p].at < proc[p].at + 1
      BY <1>m
    <3> QED
      BY <1>k, <1>e, <2>3, <3>1, <3>2, <3>3, <3>4, <3>5 DEF StepsFit, Moved, Back
  <2> QED
    BY <2>1, <2>2, <2>3
<1>7. ASSUME NEW c \in Ids, c \notin (crossed \cup torn)' PROVE (DidFits(c) /\ BuiltFits(c))'
  <2>1. DidFits(c)'
    <3>1. CASE c # b
      BY Parts, <1>e, <1>7, <3>1 DEF DidFits, Did, Moved, OnlyJob, OnlyProc
    <3>2. CASE c = b
      <4>1. b \notin crossed \cup torn /\ job[b].state # "stuck"
        BY <1>o, <1>e, <1>7, <3>2
      <4>2. \A i \in job[b].applied : Did(b, i)
        BY <1>m, <4>1, AllDid DEF Ahead
      <4>3. Did(b, proc[p].at)
        BY Parts, <1>m, <4>1 DEF ActFits
      <4>4. \A i \in job'[b].applied : Did(b, i) => Did(b, i)'
        BY <1>e DEF Did, OnlyJob
      <4> QED
        BY <1>e, <3>2, <4>2, <4>3, <4>4 DEF DidFits
    <3> QED
      BY <3>1, <3>2
  <2>2. BuiltFits(c)'
    BY Parts, <1>m, <1>e, <1>7 DEF BuiltFits, Finished, IsBuilt, IsDir, Moved, OnlyJob, OnlyProc
  <2> QED
    BY <2>1, <2>2
<1>8. ASSUME NEW q \in Procs, (Base(q) \notin crossed \cup torn)' PROVE ActFits(q)'
  <2>1. CASE q # p
    BY <1>w, <1>8, <2>1, OthersFit
  <2>2. CASE q = p
    BY <1>e, <2>2 DEF ActFits, Back, Moved
  <2> QED
    BY <2>1, <2>2
<1>9. HomesFit'
  BY Parts, <1>e DEF HomesFit, HomeIsReady, OnlyJob
<1> QED
  BY <1>1, <1>2, <1>3, <1>4, <1>5, <1>6, <1>7, <1>8, <1>9 DEF IInv, KeepInv, DoneInv, Kept

(* A step fails. *)
LEMMA FailKeeps ==
    ASSUME IInv, NEW p \in Procs, Fails(p), proc[p].phase \in Ahead, proc[p].at \in 1..Last,
           proc[p].at \notin proc[p].skip, UNCHANGED <<row, disk, marked, scratch, drawn, crossed, torn, excl, homes>>
    PROVE  IInv'
<1> USE DEF Base, Drives
<1>m. proc[p].mode # "none" /\ proc[p].phase \in Ahead
  BY Parts DEF ModeFits
<1> PICK b \in Ids : b = proc[p].base
  BY AtStep
<1>o. /\ job[b].state \in {"running", "committed"}
      /\ \A q \in Procs \ {p} : proc[q].mode # "none" /\ proc[q].base = b => b \in crossed
      /\ b \notin crossed => /\ job[b].state = "running" /\ row[b] = NoKey
                             /\ proc[p].at \notin job[b].applied
      /\ b \notin crossed \cup torn => disk[b].place # "part"
  BY AtStep
<1>k. b \notin crossed =>
          /\ \A i \in job[b].applied : i < proc[p].at \/ i \in proc[p].skip
          /\ \A i \in 1..Last : i < proc[p].at \/ i \in proc[p].skip => Covered(b, i)
  BY AtStep

<1>e. /\ UNCHANGED <<row, disk, marked, scratch, drawn, crossed, torn, excl, homes>>
      /\ Ended(p)
      /\ OnlyJob(b) /\ job'[b].owner = job[b].owner
      /\ job'[b].applied = job[b].applied \ {proc[p].at}
      /\ b \notin crossed => job'[b].applied = job[b].applied
      /\ \/ job'[b].state = job[b].state
         \/ proc[p].mode # "resume" /\ job[b].state = "running" /\ job'[b].state = "failed"
  <2>1. b \notin crossed => job[b].applied \ {proc[p].at} = job[b].applied
    BY <1>o
  <2> QED
    BY Parts, <2>1, FailsDoes
<1>w. Elsewhere(p, b)
  BY <1>o, <1>e DEF Elsewhere, Ended, OnlyJob
<1>1. Shapes'
  <2>1. ASSUME NEW c \in Ids PROVE TreeFits(c)'
    BY Parts DEF Shapes, TreeFits
  <2>2. ASSUME NEW c \in Ids PROVE JobFits(c)'
    BY Parts, <1>e DEF Shapes, JobFits, JobStates, OnlyJob
  <2>3. ASSUME NEW q \in Procs PROVE ProcFits(q)'
    BY Parts, LastIs, <1>e DEF Shapes, ProcFits, Ended, OnlyProc
  <2> QED
    BY Parts, <1>e, <2>1, <2>2, <2>3 DEF Shapes, Ended, OnlyJob, OnlyProc
<1>2. Alone'
  BY Parts, <1>e DEF Alone, Ended, OnlyProc
<1>3. ASSUME NEW q \in Procs
      PROVE  (ModeFits(q) /\ OwnerFits(q) /\ ListFits(q) /\ UseFits(q) /\ PlaceFits(q) /\ FoundFits(q))'
  <2>1. ModeFits(q)'
    BY Parts, <1>e DEF ModeFits, Ahead, Back, Evicting, Ended, OnlyProc
  <2>2. OwnerFits(q)'
    <3>1. CASE q # p /\ Base(q) # b
      BY Parts, <1>e, <3>1 DEF OwnerFits, ModeFits, Ended, OnlyJob, OnlyProc
    <3>2. CASE q # p /\ Base(q) = b
      BY Parts, <1>e, GoneIsNobody, <3>2 DEF OwnerFits, ModeFits, Ended, OnlyProc
    <3>3. CASE q = p
      BY LastIs, <1>m, <1>o, <1>e, GoneIsNobody, <3>3 DEF OwnerFits, ModeFits, Ended, OnlyJob,
         OnlyProc
    <3> QED
      BY <3>1, <3>2, <3>3
  <2>3. ListFits(q)'
    <3>1. job[b].owner = "gone" => job'[b].state = job[b].state
      BY Parts, <1>e, GoneIsNobody DEF OwnerFits, ModeFits
    <3>2. ASSUME NEW c \in proc[q].list, q # p, Resolving(q)
          PROVE  /\ job'[c].state # "none"
                 /\ job'[c].owner = "gone" => job'[c].state \in {"running", "committed"}
      <4>1. /\ c \in Ids /\ job[c].state # "none"
            /\ job[c].owner = "gone" => job[c].state \in {"running", "committed"}
        BY Parts, <3>2 DEF ListFits, Shapes, ProcFits
      <4>2. CASE c = b
        BY <1>e, <3>1, <4>1, <4>2
      <4>3. CASE c # b
        BY <1>e, <4>1, <4>3 DEF OnlyJob
      <4> QED
        BY <4>2, <4>3
    <3> QED
      BY <1>e, <3>2 DEF ListFits, Resolving, Ended, OnlyProc
  <2>4. UseFits(q)'
    BY Parts, <1>e DEF UseFits, ModeFits, Evicting, Ended, OnlyJob, OnlyProc
  <2>5. PlaceFits(q)'
    BY Parts, <1>e DEF PlaceFits, Back, Ended, OnlyProc
  <2>6. FoundFits(q)'
    BY Parts, <1>e DEF FoundFits, ModeFits, IsBuilt, IsDir, Ended, OnlyJob, OnlyProc
  <2> QED
    BY <2>1, <2>2, <2>3, <2>4, <2>5, <2>6
<1>4. ASSUME NEW c \in Ids PROVE RowFits(c)'
  BY Parts, LastIs, <1>m, <1>o, <1>e DEF RowFits, OnlyJob
<1>5. ASSUME NEW c \in Ids, c \notin crossed'
      PROVE  (Prefix(c) /\ LegacyFits(c) /\ ScratchFits(c) /\ GoneFits(c))'
  <2>1. Prefix(c)'
    BY Parts, <1>e, <1>5 DEF Prefix, Covered, Passed, OnlyJob
  <2>2. LegacyFits(c)'
    BY Parts, <1>e, <1>5 DEF LegacyFits, Ended, OnlyJob, OnlyProc
  <2>3. ScratchFits(c)'
    BY Parts, <1>e, <1>5 DEF ScratchFits, Ended, OnlyJob, OnlyProc
  <2>4. GoneFits(c)'
    BY Parts, <1>m, <1>o, <1>e, <1>5 DEF GoneFits, Covered, Passed, UseFits, Evicting, Ended,
       OnlyJob, OnlyProc
  <2> QED
    BY <2>1, <2>2, <2>3, <2>4
<1>6. ASSUME NEW q \in Procs, Base(q)' \notin crossed' PROVE StepsFit(q)'
  <2>1. CASE q # p
    BY <1>w, <1>6, <2>1, OthersFit
  <2>2. CASE q = p
    BY <1>e, <2>2 DEF StepsFit, Ahead, Back, Ended
  <2> QED
    BY <2>1, <2>2
<1>7. ASSUME NEW c \in Ids, c \notin (crossed \cup torn)' PROVE (DidFits(c) /\ BuiltFits(c))'
  <2>1. DidFits(c)'
    BY Parts, <1>e, <1>7 DEF DidFits, Did, Ended, OnlyJob, OnlyProc
  <2>2. BuiltFits(c)'
    BY Parts, <1>o, <1>e, <1>7 DEF BuiltFits, Finished, IsBuilt, IsDir, Ended, OnlyJob, OnlyProc
  <2> QED
    BY <2>1, <2>2
<1>8. ASSUME NEW q \in Procs, (Base(q) \notin crossed \cup torn)' PROVE ActFits(q)'
  <2>1. CASE q # p
    BY <1>w, <1>8, <2>1, OthersFit
  <2>2. CASE q = p
    BY <1>e, <2>2 DEF ActFits, Back, Ended
  <2> QED
    BY <2>1, <2>2
<1>9. HomesFit'
  BY Parts, <1>e DEF HomesFit, HomeIsReady, OnlyJob
<1> QED
  BY <1>1, <1>2, <1>3, <1>4, <1>5, <1>6, <1>7, <1>8, <1>9 DEF IInv, KeepInv, DoneInv, Kept

(* The clone is whole, and marked. *)
LEMMA MarkCloneKeeps ==
    ASSUME IInv, NEW p \in Procs, MarkClone(p)
    PROVE  IInv'
<1> USE DEF Base, Drives
<1>m. /\ proc[p].phase = "cloning" /\ proc[p].mode # "none" /\ proc[p].at \in 1..Last
      /\ proc[p].at \notin proc[p].skip /\ proc[p].at = 1
  BY Parts DEF MarkClone, ModeFits, PlaceFits, Ahead
<1> SUFFICES ASSUME ~(Fails(p) /\ UNCHANGED <<row, disk, marked, scratch, drawn, crossed, torn, excl, homes>>)
             PROVE  IInv'
  BY <1>m, FailKeeps DEF Ahead
<1> PICK b \in Ids : b = proc[p].base
  BY <1>m, AtStep DEF Ahead
<1>o. /\ job[b].state \in {"running", "committed"}
      /\ \A q \in Procs \ {p} : proc[q].mode # "none" /\ proc[q].base = b => b \in crossed
      /\ b \notin crossed => /\ job[b].state = "running" /\ row[b] = NoKey
                             /\ proc[p].at \notin job[b].applied
      /\ b \notin crossed \cup torn => disk[b].place # "part"
  BY <1>m, AtStep DEF Ahead
<1>k. b \notin crossed =>
          /\ \A i \in job[b].applied : i < proc[p].at \/ i \in proc[p].skip
          /\ \A i \in 1..Last : i < proc[p].at \/ i \in proc[p].skip => Covered(b, i)
  BY <1>m, AtStep DEF Ahead

<1>e. /\ UNCHANGED <<row, disk, job, scratch, drawn, crossed, torn, excl, homes>>
      /\ marked' = marked \cup {b} /\ <<b, p>> \in scratch
      /\ Moved(p, "marked", 1)
  <2>1. /\ UNCHANGED <<row, disk, job, scratch, drawn, crossed, torn, excl, homes>>
        /\ marked' = marked \cup {b} /\ <<b, p>> \in scratch /\ Go(p, "marked")
    BY DEF MarkClone, kept, bounds
  <2> QED
    BY Parts, <1>m, <2>1, GoDoes
<1>a. b \notin crossed => job[b].applied = {}
  BY <1>m, <1>o, NoneDid
<1>1. Shapes'
  <2>1. ASSUME NEW c \in Ids PROVE TreeFits(c)'
    BY Parts, <1>e DEF Shapes, TreeFits
  <2>2. ASSUME NEW c \in Ids PROVE JobFits(c)'
    BY Parts, <1>e DEF Shapes, JobFits
  <2>3. ASSUME NEW q \in Procs PROVE ProcFits(q)'
    BY Parts, <1>m, <1>e DEF Shapes, ProcFits, Moved, OnlyProc
  <2> QED
    BY Parts, <1>e, <2>1, <2>2, <2>3 DEF Shapes, Moved, OnlyProc
<1>2. Alone'
  BY Parts, <1>e DEF Alone, Moved, OnlyProc
<1>3. ASSUME NEW q \in Procs
      PROVE  (ModeFits(q) /\ OwnerFits(q) /\ ListFits(q) /\ UseFits(q) /\ PlaceFits(q) /\ FoundFits(q))'
  <2>1. ModeFits(q)'
    BY Parts, <1>m, <1>e DEF ModeFits, Ahead, Back, Moved, OnlyProc
  <2>2. OwnerFits(q)'
    BY Parts, <1>e DEF OwnerFits, Moved, OnlyProc
  <2>3. ListFits(q)'
    BY Parts, <1>e DEF ListFits, Resolving, Moved, OnlyProc
  <2>4. UseFits(q)'
    BY Parts, <1>e DEF UseFits, Evicting, Moved, OnlyProc
  <2>5. PlaceFits(q)'
    BY Parts, <1>m, <1>e DEF PlaceFits, Moved, OnlyProc
  <2>6. FoundFits(q)'
    BY Parts, <1>o, <1>e DEF FoundFits, IsBuilt, IsDir, UseFits, Moved, OnlyProc
  <2> QED
    BY <2>1, <2>2, <2>3, <2>4, <2>5, <2>6
<1>4. ASSUME NEW c \in Ids PROVE RowFits(c)'
  BY Parts, <1>e DEF RowFits
<1>5. ASSUME NEW c \in Ids, c \notin crossed'
      PROVE  (Prefix(c) /\ LegacyFits(c) /\ ScratchFits(c) /\ GoneFits(c))'
  <2>1. Prefix(c)'
    BY Parts, <1>e, <1>5 DEF Prefix, Covered, Passed
  <2>2. LegacyFits(c)'
    BY Parts, <1>m, <1>e, <1>5 DEF LegacyFits, Moved, OnlyProc
  <2>3. ScratchFits(c)'
    BY Parts, <1>m, <1>e, <1>5 DEF ScratchFits, Moved, OnlyProc
  <2>4. GoneFits(c)'
    BY Parts, <1>m, <1>e, <1>5 DEF GoneFits, Covered, Passed, Moved, OnlyProc
  <2> QED
    BY <2>1, <2>2, <2>3, <2>4
<1>6. ASSUME NEW q \in Procs, Base(q)' \notin crossed' PROVE StepsFit(q)'
  BY Parts, <1>m, <1>e, <1>6 DEF StepsFit, Covered, Passed, Ahead, Back, Moved, OnlyProc
<1>7. ASSUME NEW c \in Ids, c \notin (crossed \cup torn)' PROVE (DidFits(c) /\ BuiltFits(c))'
  <2>1. DidFits(c)'
    BY Parts, <1>e, <1>a, <1>7 DEF DidFits, Did, Moved, OnlyProc
  <2>2. BuiltFits(c)'
    BY Parts, <1>o, <1>e, <1>7 DEF BuiltFits, Finished, IsBuilt, IsDir, Moved, OnlyProc
  <2> QED
    BY <2>1, <2>2
<1>8. ASSUME NEW q \in Procs, (Base(q) \notin crossed \cup torn)' PROVE ActFits(q)'
  BY Parts, <1>o, <1>e, <1>8 DEF ActFits, ModeFits, Did, IsDir, Ahead, Moved, OnlyProc
<1>9. HomesFit'
  BY Parts, <1>e DEF HomesFit, HomeIsReady
<1> QED
  BY <1>1, <1>2, <1>3, <1>4, <1>5, <1>6, <1>7, <1>8, <1>9 DEF IInv, KeepInv, DoneInv, Kept

(* The clone is moved to its name. *)
LEMMA MoveCloneKeeps ==
    ASSUME IInv, NEW p \in Procs, MoveClone(p)
    PROVE  IInv'
<1> USE DEF Base, Drives
<1>m. /\ proc[p].phase = "marked" /\ proc[p].mode # "none" /\ proc[p].at \in 1..Last
      /\ proc[p].at \notin proc[p].skip /\ proc[p].at = 1
  BY Parts DEF MoveClone, ModeFits, PlaceFits, Ahead
<1> SUFFICES ASSUME ~(Fails(p) /\ UNCHANGED <<row, disk, marked, scratch, drawn, crossed, torn, excl, homes>>)
             PROVE  IInv'
  BY <1>m, FailKeeps DEF Ahead
<1> PICK b \in Ids : b = proc[p].base
  BY <1>m, AtStep DEF Ahead
<1>o. /\ job[b].state \in {"running", "committed"}
      /\ \A q \in Procs \ {p} : proc[q].mode # "none" /\ proc[q].base = b => b \in crossed
      /\ b \notin crossed => /\ job[b].state = "running" /\ row[b] = NoKey
                             /\ proc[p].at \notin job[b].applied
      /\ b \notin crossed \cup torn => disk[b].place # "part"
  BY <1>m, AtStep DEF Ahead
<1>k. b \notin crossed =>
          /\ \A i \in job[b].applied : i < proc[p].at \/ i \in proc[p].skip
          /\ \A i \in 1..Last : i < proc[p].at \/ i \in proc[p].skip => Covered(b, i)
  BY <1>m, AtStep DEF Ahead

<1>e. /\ UNCHANGED <<row, marked, job, drawn, crossed, torn, excl, homes>>
      /\ scratch' = scratch \ {<<b, p>>} /\ <<b, p>> \in scratch /\ ~IsDir(b)
      /\ OnlyTree(b) /\ disk'[b].place = "here" /\ DOMAIN disk'[b].has = Installs
      /\ Moved(p, "acted", 1)
  <2>d. /\ UNCHANGED <<row, marked, job, drawn, crossed, torn, excl, homes>>
        /\ scratch' = scratch \ {<<b, p>>} /\ <<b, p>> \in scratch /\ ~IsDir(b)
        /\ disk' = [disk EXCEPT ![b].place = "here", ![b].has = Inherited(b)] /\ Go(p, "acted")
    BY DEF MoveClone, kept, bounds
  <2>0. DOMAIN Inherited(b) = Installs
    BY DEF Inherited
  <2>1. PICK x : /\ disk' = [disk EXCEPT ![b].place = "here", ![b].has = x]
                 /\ DOMAIN x = Installs
    BY <2>d, <2>0
  <2>2. PICK w : /\ disk' = [disk EXCEPT ![b] = w]
                 /\ w = [[disk[b] EXCEPT !.place = "here"] EXCEPT !.has = x]
    BY Parts, <2>1 DEF Shapes
  <2>3. OnlyTree(b) /\ disk'[b].place = "here" /\ DOMAIN disk'[b].has = Installs
    BY Parts, <2>1 DEF Shapes, TreeFits, OnlyTree
  <2>4. Moved(p, "acted", 1)
    BY Parts, <1>m, <2>d, GoDoes
  <2> QED
    BY <2>3, <2>4, <2>d
<1>a. b \notin crossed => job[b].applied = {}
  BY <1>m, <1>o, NoneDid
<1>1. Shapes'
  <2>1. ASSUME NEW c \in Ids PROVE TreeFits(c)'
    BY Parts, <1>e DEF Shapes, TreeFits, Places, OnlyTree
  <2>2. ASSUME NEW c \in Ids PROVE JobFits(c)'
    BY Parts, <1>e DEF Shapes, JobFits
  <2>3. ASSUME NEW q \in Procs PROVE ProcFits(q)'
    BY Parts, <1>m, <1>e DEF Shapes, ProcFits, Moved, OnlyProc
  <2> QED
    BY Parts, <1>e, <2>1, <2>2, <2>3 DEF Shapes, Moved, OnlyTree, OnlyProc
<1>2. Alone'
  BY Parts, <1>e DEF Alone, Moved, OnlyProc
<1>3. ASSUME NEW q \in Procs
      PROVE  (ModeFits(q) /\ OwnerFits(q) /\ ListFits(q) /\ UseFits(q) /\ PlaceFits(q) /\ FoundFits(q))'
  <2>1. ModeFits(q)'
    BY Parts, <1>m, <1>e DEF ModeFits, Ahead, Back, Moved, OnlyProc
  <2>2. OwnerFits(q)'
    BY Parts, <1>e DEF OwnerFits, Moved, OnlyProc
  <2>3. ListFits(q)'
    BY Parts, <1>e DEF ListFits, Resolving, Moved, OnlyProc
  <2>4. UseFits(q)'
    BY Parts, <1>e DEF UseFits, Evicting, Moved, OnlyProc
  <2>5. PlaceFits(q)'
    BY Parts, <1>m, <1>e DEF PlaceFits, Moved, OnlyProc
  <2>6. FoundFits(q)'
    BY Parts, <1>e DEF FoundFits, ModeFits, IsBuilt, IsDir, Moved, OnlyTree, OnlyProc
  <2> QED
    BY <2>1, <2>2, <2>3, <2>4, <2>5, <2>6
<1>4. ASSUME NEW c \in Ids PROVE RowFits(c)'
  BY Parts, <1>o, <1>e DEF RowFits, OnlyTree
<1>5. ASSUME NEW c \in Ids, c \notin crossed'
      PROVE  (Prefix(c) /\ LegacyFits(c) /\ ScratchFits(c) /\ GoneFits(c))'
  <2>1. Prefix(c)'
    BY Parts, <1>e, <1>5 DEF Prefix, Covered, Passed
  <2>2. LegacyFits(c)'
    BY Parts, <1>e, <1>5 DEF LegacyFits, Moved, OnlyTree, OnlyProc
  <2>3. ScratchFits(c)'
    BY Parts, <1>m, <1>e, <1>5 DEF ScratchFits, Moved, OnlyTree, OnlyProc
  <2>4. GoneFits(c)'
    <3>1. CASE c # b
      BY Parts, <1>e, <1>5, <3>1 DEF GoneFits, Covered, Passed, Moved, OnlyTree, OnlyProc
    <3>2. CASE c = b
      BY Parts, <1>o, <1>e, <1>5, <3>2 DEF GoneFits, UseFits, Evicting, ModeFits, Back, Moved,
         OnlyProc
    <3> QED
      BY <3>1, <3>2
  <2> QED
    BY <2>1, <2>2, <2>3, <2>4
<1>6. ASSUME NEW q \in Procs, Base(q)' \notin crossed' PROVE StepsFit(q)'
  BY Parts, <1>m, <1>e, <1>6 DEF StepsFit, Covered, Passed, Ahead, Back, Moved, OnlyProc
<1>7. ASSUME NEW c \in Ids, c \notin (crossed \cup torn)' PROVE (DidFits(c) /\ BuiltFits(c))'
  <2>1. DidFits(c)'
    BY Parts, <1>e, <1>a, <1>7 DEF DidFits, Did, Moved, OnlyTree, OnlyProc
  <2>2. BuiltFits(c)'
    <3>1. CASE c # b
      BY Parts, <1>e, <1>7, <3>1 DEF BuiltFits, Finished, IsBuilt, IsDir, Moved, OnlyTree,
         OnlyProc
    <3>2. CASE c = b
      BY Parts, <1>m, <1>e, <1>7, <3>2 DEF BuiltFits, IsBuilt, ActFits
    <3> QED
      BY <3>1, <3>2
  <2> QED
    BY <2>1, <2>2
<1>8. ASSUME NEW q \in Procs, (Base(q) \notin crossed \cup torn)' PROVE ActFits(q)'
  BY Parts, LastIs, <1>o, <1>e, <1>8 DEF ActFits, ModeFits, Did, IsDir, Ahead, Back, Moved,
     OnlyTree, OnlyProc
<1>9. HomesFit'
  BY Parts, <1>e DEF HomesFit, HomeIsReady
<1> QED
  BY <1>1, <1>2, <1>3, <1>4, <1>5, <1>6, <1>7, <1>8, <1>9 DEF IInv, KeepInv, DoneInv, Kept

(* The commit of the key is checked out. *)
LEMMA CheckoutKeeps ==
    ASSUME IInv, NEW p \in Procs, Checkout(p)
    PROVE  IInv'
<1> USE DEF Base, Drives
<1>m. /\ proc[p].phase = "drive" /\ proc[p].mode # "none" /\ proc[p].at \in 1..Last
      /\ proc[p].at \notin proc[p].skip
  BY Parts, StepsAre DEF Checkout, Facing, Driving, ModeFits, PlaceFits, Shapes, ProcFits, Ahead
<1> SUFFICES ASSUME ~(Fails(p) /\ UNCHANGED <<row, disk, marked, scratch, drawn, crossed, torn, excl, homes>>)
             PROVE  IInv'
  BY <1>m, FailKeeps DEF Ahead
<1> PICK b \in Ids : b = proc[p].base
  BY Parts, <1>m, AtStep DEF Ahead
<1>o. /\ job[b].state \in {"running", "committed"}
      /\ \A q \in Procs \ {p} : proc[q].mode # "none" /\ proc[q].base = b => b \in crossed
      /\ b \notin crossed => /\ job[b].state = "running" /\ row[b] = NoKey
                             /\ proc[p].at \notin job[b].applied
      /\ b \notin crossed \cup torn => disk[b].place # "part"
  BY Parts, <1>m, AtStep DEF Ahead
<1>k. b \notin crossed =>
          /\ \A i \in job[b].applied : i < proc[p].at \/ i \in proc[p].skip
          /\ \A i \in 1..Last : i < proc[p].at \/ i \in proc[p].skip => Covered(b, i)
  BY Parts, <1>m, AtStep DEF Ahead

<1>s. proc[p].at = 2
  BY <1>m, StepKinds DEF Checkout, Facing, Step
<1>j. /\ OnlyJob(b) /\ job'[b].state = job[b].state /\ job'[b].owner = job[b].owner
      /\ job'[b].applied = job[b].applied \ {proc[p].at}
      /\ b \notin crossed => job'[b].applied = job[b].applied
  <2>1. SetApplied(b, job[b].applied \ {proc[p].at})
    BY DEF SetApplied, Checkout, Applying, world, kept, bounds
  <2>2. b \notin crossed => job[b].applied \ {proc[p].at} = job[b].applied
    BY <1>o
  <2>3. OnlyJob(b) /\ job'[b].state = job[b].state /\ job'[b].owner = job[b].owner
        /\ job'[b].applied = job[b].applied \ {proc[p].at}
    BY Parts, <2>1, AppliedDoes
  <2> QED
    BY <2>2, <2>3

<1>e. /\ UNCHANGED <<row, marked, scratch, drawn, crossed, torn, excl, homes>>
      /\ IsDir(b) /\ OnlyTree(b) /\ disk'[b].at = job[b].key
      /\ disk'[b].place = disk[b].place /\ disk'[b].has = disk[b].has
      /\ Moved(p, "acted", 2)
  <2>1. disk' = [disk EXCEPT ![b].at = job[b].key]
    BY DEF Checkout, kept, bounds
  <2>2. /\ OnlyTree(b) /\ disk'[b].at = job[b].key
        /\ disk'[b].place = disk[b].place /\ disk'[b].has = disk[b].has
    BY Parts, <2>1 DEF Shapes, TreeFits, TreeFields, OnlyTree
  <2>3. Moved(p, "acted", 2)
    BY Parts, <1>s, GoDoes DEF Checkout, kept, bounds
  <2> QED
    BY <2>2, <2>3 DEF Checkout, kept, bounds
<1>w. Elsewhere(p, b)
  BY <1>o, <1>j, <1>e DEF Elsewhere, Moved, OnlyJob, OnlyTree
<1>1. Shapes'
  <2>1. ASSUME NEW c \in Ids PROVE TreeFits(c)'
    BY Parts, <1>e DEF Shapes, TreeFits, OnlyTree
  <2>2. ASSUME NEW c \in Ids PROVE JobFits(c)'
    BY Parts, <1>j DEF Shapes, JobFits, OnlyJob
  <2>3. ASSUME NEW q \in Procs PROVE ProcFits(q)'
    BY Parts, LastIs, <1>e DEF Shapes, ProcFits, Moved, OnlyProc
  <2> QED
    BY Parts, <1>j, <1>e, <2>1, <2>2, <2>3 DEF Shapes, Moved, OnlyJob, OnlyTree, OnlyProc
<1>2. Alone'
  BY Parts, <1>e DEF Alone, Moved, OnlyProc
<1>3. ASSUME NEW q \in Procs
      PROVE  (ModeFits(q) /\ OwnerFits(q) /\ ListFits(q) /\ UseFits(q) /\ PlaceFits(q) /\ FoundFits(q))'
  <2>1. ModeFits(q)'
    BY Parts, <1>m, <1>e DEF ModeFits, Ahead, Back, Moved, OnlyProc
  <2>2. OwnerFits(q)'
    BY Parts, <1>j, <1>e DEF OwnerFits, ModeFits, Moved, OnlyJob, OnlyProc
  <2>3. ListFits(q)'
    BY Parts, <1>j, <1>e DEF ListFits, Resolving, Shapes, ProcFits, Moved, OnlyJob, OnlyProc
  <2>4. UseFits(q)'
    BY Parts, <1>j, <1>e DEF UseFits, ModeFits, Evicting, Moved, OnlyJob, OnlyProc
  <2>5. PlaceFits(q)'
    BY Parts, <1>m, <1>s, <1>e DEF PlaceFits, Moved, OnlyProc
  <2>6. FoundFits(q)'
    BY Parts, <1>j, <1>e DEF FoundFits, ModeFits, IsBuilt, IsDir, Moved, OnlyJob, OnlyTree,
       OnlyProc
  <2> QED
    BY <2>1, <2>2, <2>3, <2>4, <2>5, <2>6
<1>4. ASSUME NEW c \in Ids PROVE RowFits(c)'
  BY Parts, <1>j, <1>e DEF RowFits, OnlyJob, OnlyTree
<1>5. ASSUME NEW c \in Ids, c \notin crossed'
      PROVE  (Prefix(c) /\ LegacyFits(c) /\ ScratchFits(c) /\ GoneFits(c))'
  <2>1. Prefix(c)'
    BY Parts, <1>j, <1>e, <1>5 DEF Prefix, Covered, Passed, OnlyJob
  <2>2. LegacyFits(c)'
    BY Parts, <1>j, <1>e, <1>5 DEF LegacyFits, IsDir, Moved, OnlyJob, OnlyTree, OnlyProc
  <2>3. ScratchFits(c)'
    BY Parts, <1>s, <1>j, <1>e, <1>5 DEF ScratchFits, Moved, OnlyJob, OnlyTree, OnlyProc
  <2>4. GoneFits(c)'
    BY Parts, <1>m, <1>j, <1>e, <1>5 DEF GoneFits, Covered, Passed, Moved, OnlyJob, OnlyTree,
       OnlyProc
  <2> QED
    BY <2>1, <2>2, <2>3, <2>4
<1>6. ASSUME NEW q \in Procs, Base(q)' \notin crossed' PROVE StepsFit(q)'
  <2>1. CASE q # p
    BY <1>w, <1>6, <2>1, OthersFit
  <2>2. CASE q = p
    <3>1. b \notin crossed
      BY <1>e, <1>6, <2>2 DEF Moved
    <3>2. \A i \in 1..Last : Covered(b, i) => Covered(b, i)'
      BY <1>j, <3>1 DEF Covered, Passed, OnlyJob
    <3> QED
      BY <1>k, <1>j, <1>s, <1>e, <2>2, <3>1, <3>2 DEF StepsFit, Back, Moved
  <2> QED
    BY <2>1, <2>2
<1>7. ASSUME NEW c \in Ids, c \notin (crossed \cup torn)' PROVE (DidFits(c) /\ BuiltFits(c))'
  <2>1. DidFits(c)'
    BY Parts, <1>j, <1>e, <1>7 DEF DidFits, Did, Moved, OnlyJob, OnlyTree, OnlyProc
  <2>2. BuiltFits(c)'
    BY Parts, <1>m, <1>j, <1>e, <1>7 DEF BuiltFits, Finished, IsBuilt, IsDir, Moved, OnlyJob,
       OnlyTree, OnlyProc
  <2> QED
    BY <2>1, <2>2
<1>8. ASSUME NEW q \in Procs, (Base(q) \notin crossed \cup torn)' PROVE ActFits(q)'
  <2>1. CASE q # p
    BY <1>w, <1>8, <2>1, OthersFit
  <2>2. CASE q = p
    BY LastIs, <1>s, <1>j, <1>e, <2>2 DEF ActFits, Did, Back, Moved, OnlyJob
  <2> QED
    BY <2>1, <2>2
<1>9. HomesFit'
  BY Parts, <1>j, <1>e DEF HomesFit, HomeIsReady, OnlyJob
<1> QED
  BY <1>1, <1>2, <1>3, <1>4, <1>5, <1>6, <1>7, <1>8, <1>9 DEF IInv, KeepInv, DoneInv, Kept

(* An install runs. *)
LEMMA ToolKeeps ==
    ASSUME IInv, NEW p \in Procs, Tool(p)
    PROVE  IInv'
<1> USE DEF Base, Drives
<1>m. /\ proc[p].phase = "drive" /\ proc[p].mode # "none" /\ proc[p].at \in 1..Last
      /\ proc[p].at \notin proc[p].skip
  BY Parts, StepsAre DEF Tool, Facing, Driving, ModeFits, PlaceFits, Shapes, ProcFits, Ahead
<1> SUFFICES ASSUME ~(Fails(p) /\ UNCHANGED <<row, disk, marked, scratch, drawn, crossed, torn, excl, homes>>)
             PROVE  IInv'
  BY <1>m, FailKeeps DEF Ahead
<1> PICK b \in Ids : b = proc[p].base
  BY Parts, <1>m, AtStep DEF Ahead
<1>o. /\ job[b].state \in {"running", "committed"}
      /\ \A q \in Procs \ {p} : proc[q].mode # "none" /\ proc[q].base = b => b \in crossed
      /\ b \notin crossed => /\ job[b].state = "running" /\ row[b] = NoKey
                             /\ proc[p].at \notin job[b].applied
      /\ b \notin crossed \cup torn => disk[b].place # "part"
  BY Parts, <1>m, AtStep DEF Ahead
<1>k. b \notin crossed =>
          /\ \A i \in job[b].applied : i < proc[p].at \/ i \in proc[p].skip
          /\ \A i \in 1..Last : i < proc[p].at \/ i \in proc[p].skip => Covered(b, i)
  BY Parts, <1>m, AtStep DEF Ahead

<1>s. proc[p].at \in 3..Last - 1
  BY <1>m, StepKinds DEF Tool, Facing, Step
<1>j. /\ OnlyJob(b) /\ job'[b].state = job[b].state /\ job'[b].owner = job[b].owner
      /\ job'[b].applied = job[b].applied \ {proc[p].at}
      /\ b \notin crossed => job'[b].applied = job[b].applied
  <2>1. SetApplied(b, job[b].applied \ {proc[p].at})
    BY DEF SetApplied, Tool, Applying, world, kept, bounds
  <2>2. b \notin crossed => job[b].applied \ {proc[p].at} = job[b].applied
    BY <1>o
  <2>3. OnlyJob(b) /\ job'[b].state = job[b].state /\ job'[b].owner = job[b].owner
        /\ job'[b].applied = job[b].applied \ {proc[p].at}
    BY Parts, <2>1, AppliedDoes
  <2> QED
    BY <2>2, <2>3

<1>e. /\ UNCHANGED <<row, marked, scratch, drawn, crossed, torn, excl, homes>>
      /\ IsDir(b) /\ OnlyTree(b) /\ disk'[b].at = disk[b].at /\ disk'[b].place = disk[b].place
      /\ DOMAIN disk'[b].has = Installs /\ Moved(p, "acted", proc[p].at)
      /\ Fitted(p, b)
  <2>1. PICK m \in Installs : m = Steps[proc[p].at]
    BY <1>s, StepsAre
  <2>2. disk' = [disk EXCEPT ![b].has[m] = job[b].key]
    BY <2>1 DEF Tool, Step, kept, bounds
  <2>3. PICK w, x : /\ disk' = [disk EXCEPT ![b] = w] /\ w = [disk[b] EXCEPT !.has = x]
                    /\ x = [disk[b].has EXCEPT ![m] = job[b].key]
    BY Parts, <2>2 DEF Shapes
  <2>4. OnlyTree(b) /\ disk'[b].at = disk[b].at /\ disk'[b].place = disk[b].place /\ disk'[b].has = x
    BY Parts, <2>3 DEF Shapes, TreeFits, TreeFields, OnlyTree
  <2>5. DOMAIN x = Installs
        /\ \A n \in Installs : x[n] = IF n = m THEN job[b].key ELSE disk[b].has[n]
    BY Parts, <2>3 DEF Shapes, TreeFits
  <2>6. Moved(p, "acted", proc[p].at)
    BY Parts, GoDoes DEF Tool, kept, bounds
  <2> QED
    BY <2>1, <2>4, <2>5, <2>6 DEF Fitted, Tool, kept, bounds
<1>w. Elsewhere(p, b)
  BY <1>o, <1>j, <1>e DEF Elsewhere, Moved, OnlyJob, OnlyTree
<1>1. Shapes'
  <2>1. ASSUME NEW c \in Ids PROVE TreeFits(c)'
    BY Parts, <1>e DEF Shapes, TreeFits, OnlyTree
  <2>2. ASSUME NEW c \in Ids PROVE JobFits(c)'
    BY Parts, <1>j DEF Shapes, JobFits, OnlyJob
  <2>3. ASSUME NEW q \in Procs PROVE ProcFits(q)'
    BY Parts, <1>e DEF Shapes, ProcFits, Moved, OnlyProc
  <2> QED
    BY Parts, <1>j, <1>e, <2>1, <2>2, <2>3 DEF Shapes, Moved, OnlyJob, OnlyTree, OnlyProc
<1>2. Alone'
  BY Parts, <1>e DEF Alone, Moved, OnlyProc
<1>3. ASSUME NEW q \in Procs
      PROVE  (ModeFits(q) /\ OwnerFits(q) /\ ListFits(q) /\ UseFits(q) /\ PlaceFits(q) /\ FoundFits(q))'
  <2>1. ModeFits(q)'
    BY Parts, <1>m, <1>e DEF ModeFits, Ahead, Back, Moved, OnlyProc
  <2>2. OwnerFits(q)'
    BY Parts, <1>j, <1>e DEF OwnerFits, ModeFits, Moved, OnlyJob, OnlyProc
  <2>3. ListFits(q)'
    BY Parts, <1>j, <1>e DEF ListFits, Resolving, Shapes, ProcFits, Moved, OnlyJob, OnlyProc
  <2>4. UseFits(q)'
    BY Parts, <1>j, <1>e DEF UseFits, ModeFits, Evicting, Moved, OnlyJob, OnlyProc
  <2>5. PlaceFits(q)'
    BY Parts, <1>m, <1>e DEF PlaceFits, Moved, OnlyProc
  <2>6. FoundFits(q)'
    BY Parts, <1>j, <1>e DEF FoundFits, ModeFits, IsBuilt, IsDir, Moved, OnlyJob, OnlyTree,
       OnlyProc
  <2> QED
    BY <2>1, <2>2, <2>3, <2>4, <2>5, <2>6
<1>4. ASSUME NEW c \in Ids PROVE RowFits(c)'
  BY Parts, <1>j, <1>e DEF RowFits, OnlyJob, OnlyTree
<1>5. ASSUME NEW c \in Ids, c \notin crossed'
      PROVE  (Prefix(c) /\ LegacyFits(c) /\ ScratchFits(c) /\ GoneFits(c))'
  <2>1. Prefix(c)'
    BY Parts, <1>j, <1>e, <1>5 DEF Prefix, Covered, Passed, OnlyJob
  <2>2. LegacyFits(c)'
    BY Parts, <1>j, <1>e, <1>5 DEF LegacyFits, IsDir, Moved, OnlyJob, OnlyTree, OnlyProc
  <2>3. ScratchFits(c)'
    BY Parts, <1>s, <1>j, <1>e, <1>5 DEF ScratchFits, Moved, OnlyJob, OnlyTree, OnlyProc
  <2>4. GoneFits(c)'
    BY Parts, <1>m, <1>j, <1>e, <1>5 DEF GoneFits, Covered, Passed, Moved, OnlyJob, OnlyTree,
       OnlyProc
  <2> QED
    BY <2>1, <2>2, <2>3, <2>4
<1>6. ASSUME NEW q \in Procs, Base(q)' \notin crossed' PROVE StepsFit(q)'
  <2>1. CASE q # p
    BY <1>w, <1>6, <2>1, OthersFit
  <2>2. CASE q = p
    <3>1. b \notin crossed
      BY <1>e, <1>6, <2>2 DEF Moved
    <3>2. \A i \in 1..Last : Covered(b, i) => Covered(b, i)'
      BY <1>j, <3>1 DEF Covered, Passed, OnlyJob
    <3> QED
      BY <1>k, <1>j, <1>e, <2>2, <3>1, <3>2 DEF StepsFit, Back, Moved
  <2> QED
    BY <2>1, <2>2
<1>7. ASSUME NEW c \in Ids, c \notin (crossed \cup torn)' PROVE (DidFits(c) /\ BuiltFits(c))'
  <2>1. DidFits(c)'
    <3>1. CASE c # b
      BY Parts, <1>m, <1>j, <1>e, <1>7, <3>1 DEF DidFits, Did, Moved, OnlyJob, OnlyTree, OnlyProc
    <3>2. CASE c = b
      <4>1. \A i \in job[b].applied : Did(b, i)
        BY <1>m, <1>o, <1>e, <1>7, <3>2, AllDid DEF Ahead
      <4>2. ASSUME NEW i, Did(b, i) PROVE Did(b, i)'
        BY <1>j, <1>e, <4>2, StepsAre DEF Did, Fitted, OnlyJob
      <4> QED
        BY <1>j, <1>e, <1>7, <3>2, <4>1, <4>2 DEF DidFits
    <3> QED
      BY <3>1, <3>2
  <2>2. BuiltFits(c)'
    BY Parts, <1>m, <1>j, <1>e, <1>7 DEF BuiltFits, Finished, IsBuilt, IsDir, Fitted, Moved,
       OnlyJob, OnlyTree, OnlyProc
  <2> QED
    BY <2>1, <2>2
<1>8. ASSUME NEW q \in Procs, (Base(q) \notin crossed \cup torn)' PROVE ActFits(q)'
  <2>1. CASE q # p
    BY <1>w, <1>8, <2>1, OthersFit
  <2>2. CASE q = p
    <3>1. Steps[proc[p].at] \in Installs /\ proc[p].at \notin {1, 2, Last}
      BY <1>s, StepsAre
    <3>2. disk'[b].has[Steps[proc[p].at]] = job'[b].key
      BY <1>j, <1>e, <3>1 DEF Fitted, OnlyJob
    <3> QED
      BY <1>e, <2>2, <3>1, <3>2 DEF ActFits, Did, Back, Moved
  <2> QED
    BY <2>1, <2>2
<1>9. HomesFit'
  BY Parts, <1>j, <1>e DEF HomesFit, HomeIsReady, OnlyJob
<1> QED
  BY <1>1, <1>2, <1>3, <1>4, <1>5, <1>6, <1>7, <1>8, <1>9 DEF IInv, KeepInv, DoneInv, Kept

(* The mark is taken off. *)
LEMMA PromoteKeeps ==
    ASSUME IInv, NEW p \in Procs, Promote(p)
    PROVE  IInv'
<1> USE DEF Base, Drives
<1>m. /\ proc[p].phase = "drive" /\ proc[p].mode # "none" /\ proc[p].at \in 1..Last
      /\ proc[p].at \notin proc[p].skip
  BY Parts, StepsAre DEF Promote, Facing, Driving, ModeFits, PlaceFits, Shapes, ProcFits, Ahead
<1> SUFFICES ASSUME ~(Fails(p) /\ UNCHANGED <<row, disk, marked, scratch, drawn, crossed, torn, excl, homes>>)
             PROVE  IInv'
  BY <1>m, FailKeeps DEF Ahead
<1> PICK b \in Ids : b = proc[p].base
  BY Parts, <1>m, AtStep DEF Ahead
<1>o. /\ job[b].state \in {"running", "committed"}
      /\ \A q \in Procs \ {p} : proc[q].mode # "none" /\ proc[q].base = b => b \in crossed
      /\ b \notin crossed => /\ job[b].state = "running" /\ row[b] = NoKey
                             /\ proc[p].at \notin job[b].applied
      /\ b \notin crossed \cup torn => disk[b].place # "part"
  BY Parts, <1>m, AtStep DEF Ahead
<1>k. b \notin crossed =>
          /\ \A i \in job[b].applied : i < proc[p].at \/ i \in proc[p].skip
          /\ \A i \in 1..Last : i < proc[p].at \/ i \in proc[p].skip => Covered(b, i)
  BY Parts, <1>m, AtStep DEF Ahead

<1>s. proc[p].at = Last
  BY <1>m, StepKinds DEF Promote, Facing, Step
<1>j. /\ OnlyJob(b) /\ job'[b].state = job[b].state /\ job'[b].owner = job[b].owner
      /\ job'[b].applied = job[b].applied \ {proc[p].at}
      /\ b \notin crossed => job'[b].applied = job[b].applied
  <2>1. SetApplied(b, job[b].applied \ {proc[p].at})
    BY DEF SetApplied, Promote, Applying, world, kept, bounds
  <2>2. b \notin crossed => job[b].applied \ {proc[p].at} = job[b].applied
    BY <1>o
  <2>3. OnlyJob(b) /\ job'[b].state = job[b].state /\ job'[b].owner = job[b].owner
        /\ job'[b].applied = job[b].applied \ {proc[p].at}
    BY Parts, <2>1, AppliedDoes
  <2> QED
    BY <2>2, <2>3

<1>e. /\ UNCHANGED <<row, disk, scratch, drawn, crossed, torn, excl, homes>>
      /\ IsDir(b) /\ disk[b].place # "legacy" /\ marked' = marked \ {b}
      /\ Moved(p, "acted", Last)
  BY Parts, <1>s, GoDoes DEF Promote, kept, bounds
<1>w. Elsewhere(p, b)
  BY <1>o, <1>j, <1>e DEF Elsewhere, Moved, OnlyJob
<1>1. Shapes'
  <2>1. ASSUME NEW c \in Ids PROVE TreeFits(c)'
    BY Parts, <1>e DEF Shapes, TreeFits
  <2>2. ASSUME NEW c \in Ids PROVE JobFits(c)'
    BY Parts, <1>j DEF Shapes, JobFits, OnlyJob
  <2>3. ASSUME NEW q \in Procs PROVE ProcFits(q)'
    BY Parts, LastIs, <1>e DEF Shapes, ProcFits, Moved, OnlyProc
  <2> QED
    BY Parts, <1>j, <1>e, <2>1, <2>2, <2>3 DEF Shapes, Moved, OnlyJob, OnlyProc
<1>2. Alone'
  BY Parts, <1>e DEF Alone, Moved, OnlyProc
<1>3. ASSUME NEW q \in Procs
      PROVE  (ModeFits(q) /\ OwnerFits(q) /\ ListFits(q) /\ UseFits(q) /\ PlaceFits(q) /\ FoundFits(q))'
  <2>1. ModeFits(q)'
    BY Parts, <1>m, <1>e DEF ModeFits, Ahead, Back, Moved, OnlyProc
  <2>2. OwnerFits(q)'
    BY Parts, <1>j, <1>e DEF OwnerFits, ModeFits, Moved, OnlyJob, OnlyProc
  <2>3. ListFits(q)'
    BY Parts, <1>j, <1>e DEF ListFits, Resolving, Shapes, ProcFits, Moved, OnlyJob, OnlyProc
  <2>4. UseFits(q)'
    BY Parts, <1>j, <1>e DEF UseFits, ModeFits, Evicting, Moved, OnlyJob, OnlyProc
  <2>5. PlaceFits(q)'
    BY Parts, <1>m, <1>s, <1>e DEF PlaceFits, Moved, OnlyProc
  <2>6. FoundFits(q)'
    BY Parts, <1>j, <1>e DEF FoundFits, ModeFits, IsBuilt, IsDir, Moved, OnlyJob, OnlyProc
  <2> QED
    BY <2>1, <2>2, <2>3, <2>4, <2>5, <2>6
<1>4. ASSUME NEW c \in Ids PROVE RowFits(c)'
  BY Parts, <1>j, <1>e DEF RowFits, OnlyJob
<1>5. ASSUME NEW c \in Ids, c \notin crossed'
      PROVE  (Prefix(c) /\ LegacyFits(c) /\ ScratchFits(c) /\ GoneFits(c))'
  <2>1. Prefix(c)'
    BY Parts, <1>j, <1>e, <1>5 DEF Prefix, Covered, Passed, OnlyJob
  <2>2. LegacyFits(c)'
    BY Parts, <1>j, <1>e, <1>5 DEF LegacyFits, Moved, OnlyJob, OnlyProc
  <2>3. ScratchFits(c)'
    BY Parts, LastIs, <1>s, <1>j, <1>e, <1>5 DEF ScratchFits, Moved, OnlyJob, OnlyProc
  <2>4. GoneFits(c)'
    BY Parts, <1>m, <1>j, <1>e, <1>5 DEF GoneFits, Covered, Passed, Moved, OnlyJob, OnlyProc
  <2> QED
    BY <2>1, <2>2, <2>3, <2>4
<1>6. ASSUME NEW q \in Procs, Base(q)' \notin crossed' PROVE StepsFit(q)'
  <2>1. CASE q # p
    BY <1>w, <1>6, <2>1, OthersFit
  <2>2. CASE q = p
    BY <1>m, <1>k, <1>s, <1>j, <1>e, <1>6, <2>2 DEF StepsFit, Covered, Passed, Back, Moved,
       OnlyJob
  <2> QED
    BY <2>1, <2>2
<1>7. ASSUME NEW c \in Ids, c \notin (crossed \cup torn)' PROVE (DidFits(c) /\ BuiltFits(c))'
  <2>1. DidFits(c)'
    BY Parts, <1>j, <1>e, <1>7 DEF DidFits, Did, Moved, OnlyJob, OnlyProc
  <2>2. BuiltFits(c)'
    <3>1. CASE c # b
      BY Parts, <1>j, <1>e, <1>7, <3>1 DEF BuiltFits, Finished, IsBuilt, IsDir, Moved, OnlyJob,
         OnlyProc
    <3>2. CASE c = b
      <4>1. b \notin crossed \cup torn /\ job[b].state = "running" /\ row[b] = NoKey
        BY <1>o, <1>e, <1>7, <3>2
      <4>2. \A i \in 1..Last : i < Last => Covered(b, i)
        BY <1>m, <1>o, <1>k, <1>s, <4>1
      <4>3. \A i \in 1..Last : i < Last /\ i \notin LeftOut(job[b].excl) => Did(b, i)
        BY <1>m, <4>1, <4>2, AllDid DEF Ahead, Covered, Passed
      <4>4. disk[b].place = "here"
        BY <1>o, <1>e, <4>1 DEF IsDir
      <4>5. disk[b].at = job[b].key
        <5>1. 2 \in 1..Last /\ 2 < Last /\ 2 \notin LeftOut(job[b].excl)
          BY Parts, StepsAre, LeftOutAre DEF Shapes, JobFits
        <5> QED
          BY <4>3, <5>1 DEF Did
      <4>6. ASSUME NEW m \in Installs \ job[b].excl PROVE disk[b].has[m] = job[b].key
        <5>1. PICK i \in 3..Last - 1 : Steps[i] = m
          BY StepsAre
        <5>2. i \in 1..Last /\ i < Last /\ i \notin LeftOut(job[b].excl)
          BY StepsAre, <5>1 DEF LeftOut
        <5> QED
          BY <4>3, <5>1, <5>2 DEF Did
      <4> QED
        BY <1>j, <1>e, <3>2, <4>1, <4>4, <4>5, <4>6 DEF BuiltFits, Finished, OnlyJob
    <3> QED
      BY <3>1, <3>2
  <2> QED
    BY <2>1, <2>2
<1>8. ASSUME NEW q \in Procs, (Base(q) \notin crossed \cup torn)' PROVE ActFits(q)'
  <2>1. CASE q # p
    BY <1>w, <1>8, <2>1, OthersFit
  <2>2. CASE q = p
    BY LastIs, <1>o, <1>e, <1>8, <2>2 DEF ActFits, Did, IsDir, Back, Moved
  <2> QED
    BY <2>1, <2>2
<1>9. HomesFit'
  BY Parts, <1>j, <1>e DEF HomesFit, HomeIsReady, OnlyJob
<1> QED
  BY <1>1, <1>2, <1>3, <1>4, <1>5, <1>6, <1>7, <1>8, <1>9 DEF IInv, KeepInv, DoneInv, Kept

(* A clone, a fetch or a tool fails. *)
LEMMA StepFailsKeeps ==
    ASSUME IInv, NEW p \in Procs, StepFails(p)
    PROVE  IInv'
<1>1. CASE proc[p].phase = "cloning"
  BY Parts, <1>1, FailKeeps DEF StepFails, PlaceFits, world, Ahead
<1>2. CASE proc[p].phase # "cloning"
  BY Parts, FailKeeps DEF StepFails, Facing, Driving, PlaceFits, Shapes, ProcFits, world, Ahead
<1> QED
  BY <1>1, <1>2

(* Rows may go, of bases that have no directory. *)
RowsGo ==
    /\ DOMAIN row' = Ids
    /\ \A c \in Ids :
        \/ row'[c] = row[c]
        \/ row'[c] = NoKey /\ (c \notin crossed => disk[c].place = "none")

(* No row goes. *)
LEMMA RowsStay ==
    ASSUME Shapes, row' = row
    PROVE  RowsGo
<1>1. DOMAIN row = Ids
  BY DEF Shapes
<1> QED
  BY <1>1 DEF RowsGo

(* Homes are as ready as they were. *)
LEMMA HomesStay ==
    ASSUME IInv, UNCHANGED <<homes, job, crossed, torn>>
    PROVE  HomesFit'
BY Parts DEF HomesFit, HomeIsReady

(* A process that drives no build and removes no base goes on. *)
LEMMA FreeKeeps ==
    ASSUME IInv, NEW p \in Procs, proc[p].mode = "none", OnlyProc(p), proc'[p].mode = "none",
           proc'[p].phase \in {"idle", "resolve", "ensure", "attempt", "build", "found", "home", "evict", "remove"},
           ProcFits(p)', ListFits(p)', UseFits(p)', FoundFits(p)', ModeFits(p)', HomesFit',
           RowsGo, UNCHANGED <<disk, marked, scratch, job, drawn, crossed, torn>>, excl' \subseteq Installs
    PROVE  IInv'
<1> USE DEF Base, Drives
<1>1. Shapes'
  <2>1. ASSUME NEW c \in Ids PROVE TreeFits(c)'
    BY Parts DEF Shapes, TreeFits
  <2>2. ASSUME NEW c \in Ids PROVE JobFits(c)'
    BY Parts DEF Shapes, JobFits
  <2>3. ASSUME NEW q \in Procs PROVE ProcFits(q)'
    BY Parts DEF Shapes, ProcFits, OnlyProc
  <2> QED
    BY Parts, <2>1, <2>2, <2>3 DEF Shapes, OnlyProc, RowsGo
<1>2. Alone'
  BY Parts DEF Alone, OnlyProc
<1>3. ASSUME NEW q \in Procs
      PROVE  (ModeFits(q) /\ OwnerFits(q) /\ ListFits(q) /\ UseFits(q) /\ PlaceFits(q) /\ FoundFits(q))'
  <2>1. ModeFits(q)'
    BY Parts DEF ModeFits, OnlyProc
  <2>2. OwnerFits(q)'
    BY Parts DEF OwnerFits, OnlyProc
  <2>3. ListFits(q)'
    BY Parts DEF ListFits, Resolving, OnlyProc
  <2>4. UseFits(q)'
    BY Parts DEF UseFits, OnlyProc
  <2>5. PlaceFits(q)'
    BY Parts DEF PlaceFits, Ahead, Back, OnlyProc
  <2>6. FoundFits(q)'
    BY Parts DEF FoundFits, IsBuilt, IsDir, OnlyProc
  <2> QED
    BY <2>1, <2>2, <2>3, <2>4, <2>5, <2>6
<1>4. ASSUME NEW c \in Ids PROVE RowFits(c)'
  BY Parts DEF RowFits, RowsGo
<1>5. ASSUME NEW c \in Ids, c \notin crossed'
      PROVE  (Prefix(c) /\ LegacyFits(c) /\ ScratchFits(c) /\ GoneFits(c))'
  <2>1. Prefix(c)'
    BY Parts, <1>5 DEF Prefix, Covered, Passed
  <2>2. LegacyFits(c)'
    BY Parts, <1>5 DEF LegacyFits, OnlyProc
  <2>3. ScratchFits(c)'
    BY Parts, <1>5 DEF ScratchFits, OnlyProc
  <2>4. GoneFits(c)'
    BY Parts, <1>5 DEF GoneFits, Covered, Passed, RowsGo, OnlyProc
  <2> QED
    BY <2>1, <2>2, <2>3, <2>4
<1>6. ASSUME NEW q \in Procs, Base(q)' \notin crossed' PROVE StepsFit(q)'
  BY Parts, <1>6 DEF StepsFit, Covered, Passed, Ahead, Back, OnlyProc
<1>7. ASSUME NEW c \in Ids, c \notin (crossed \cup torn)' PROVE (DidFits(c) /\ BuiltFits(c))'
  <2>1. DidFits(c)'
    <3>1. \A i \in job[c].applied : Did(c, i) => Did(c, i)'
      BY DEF Did
    <3>2. \A q \in Procs : proc[q].phase \in {"unmaking", "undone"} => proc'[q] = proc[q]
      BY Parts DEF ModeFits, Back, OnlyProc
    <3> QED
      BY Parts, <1>7, <3>1, <3>2 DEF DidFits
  <2>2. BuiltFits(c)'
    <3>2. \A q \in Procs : proc[q].phase = "unmaking" => proc'[q] = proc[q]
      BY Parts DEF ModeFits, Back, OnlyProc
    <3> QED
      BY Parts, <1>7, <3>2 DEF BuiltFits, Finished, IsBuilt, IsDir, RowsGo
  <2> QED
    BY <2>1, <2>2
<1>8. ASSUME NEW q \in Procs, (Base(q) \notin crossed \cup torn)' PROVE ActFits(q)'
  BY Parts, <1>8 DEF ActFits, Did, IsDir, Back, OnlyProc
<1>9. HomesFit'
  OBVIOUS
<1> QED
  BY <1>1, <1>2, <1>3, <1>4, <1>5, <1>6, <1>7, <1>8 DEF IInv, KeepInv, DoneInv, Kept

(* A command ends. *)
LEMMA EndedKeeps ==
    ASSUME IInv, NEW p \in Procs, proc[p].mode = "none", Ended(p), excl' = excl,
           HomesFit', UNCHANGED <<row, disk, marked, scratch, job, drawn, crossed, torn>>
    PROVE  IInv'
<1>1. OnlyProc(p) /\ proc'[p].mode = "none" /\ proc'[p].phase = "idle" /\ excl' \subseteq Installs
  BY Parts DEF Ended, Shapes
<1>2. ProcFits(p)'
  BY StepsAre DEF Ended, OnlyProc, ProcFits
<1>3. ListFits(p)' /\ UseFits(p)' /\ FoundFits(p)' /\ ModeFits(p)'
  BY DEF ListFits, UseFits, FoundFits, ModeFits, Evicting, Drives, Ahead, Back, Ended
<1> QED
  BY Parts, <1>1, <1>2, <1>3, FreeKeeps, RowsStay

(* A command that drives no build goes on, with the same base. *)
LEMMA MovedKeeps ==
    ASSUME IInv, NEW p \in Procs, NEW phase \in {"ensure", "attempt", "build"},
           proc[p].phase \in {"resolve", "ensure", "attempt"}, Moved(p, phase, proc[p].at), excl' = excl,
           UNCHANGED <<row, disk, marked, scratch, job, drawn, crossed, torn, homes>>
    PROVE  IInv'
<1>1. proc[p].mode = "none" /\ ProcFits(p) /\ proc[p].key # NoKey
  BY Parts DEF Shapes, ModeFits, Drives, Ahead, Back
<1>2. OnlyProc(p) /\ proc'[p].mode = "none" /\ proc'[p].phase = phase /\ excl' \subseteq Installs
  BY Parts, <1>1 DEF Moved, Shapes
<1>3. ProcFits(p)'
  BY <1>1 DEF Moved, OnlyProc, ProcFits
<1>4. ListFits(p)' /\ UseFits(p)' /\ FoundFits(p)' /\ ModeFits(p)'
  BY <1>1 DEF ListFits, UseFits, FoundFits, ModeFits, Resolving, Evicting, Drives, Ahead, Back,
     Moved
<1>5. HomesFit'
  BY HomesStay
<1> QED
  BY <1>1, <1>2, <1>3, <1>4, <1>5, FreeKeeps, RowsStay, Parts

(* The recipe alone changes. *)
LEMMA AsideKeeps ==
    ASSUME IInv, excl' \subseteq Installs,
           UNCHANGED <<row, disk, marked, scratch, job, proc, drawn, crossed, torn, homes>>
    PROVE  IInv'
<1>1. UNCHANGED <<row, disk, marked, scratch, job, proc, drawn, crossed, torn, homes>>
  OBVIOUS
<1>2. Shapes'
  BY Parts DEF Shapes, TreeFits, JobFits, ProcFits
<1>3. DoneInv'
  BY DEF IInv, DoneInv, DidFits, BuiltFits, ActFits, FoundFits, HomesFit, HomeIsReady, Did,
     Finished, IsBuilt, IsDir, Base
<1>4. /\ Alone' /\ \A q \in Procs : (ModeFits(q) /\ OwnerFits(q) /\ ListFits(q) /\ UseFits(q) /\ PlaceFits(q))'
      /\ \A c \in Ids : RowFits(c)'
  BY Parts DEF Alone, ModeFits, OwnerFits, ListFits, UseFits, PlaceFits, RowFits, Resolving,
     Drives, Base
<1>5. /\ \A c \in Ids \ crossed : Kept(c)'
      /\ \A q \in Procs : Base(q) \notin crossed => StepsFit(q)'
  BY Parts DEF Kept, Prefix, LegacyFits, ScratchFits, GoneFits, StepsFit, Covered, Passed,
     Drives, Base
<1> QED
  BY <1>2, <1>3, <1>4, <1>5 DEF IInv, KeepInv, Base

(* A person edits the recipe. *)
LEMMA EditRecipeKeeps ==
    ASSUME IInv, EditRecipe
    PROVE  IInv'
BY AsideKeeps DEF EditRecipe, world

(* A command begins. *)
LEMMA BeginKeeps ==
    ASSUME IInv, NEW p \in Procs, Begin(p)
    PROVE  IInv'
<1>1. PICK k \in Keys : proc' = [proc EXCEPT ![p] = [Idle EXCEPT !.phase = "resolve", !.key = k, !.excl = excl,
                                             !.list = {b \in Ids : job[b].state = "running"}]]
  BY DEF Begin
<1>2. PICK w : /\ proc' = [proc EXCEPT ![p] = w]
               /\ w = [[[[Idle EXCEPT !.phase = "resolve"] EXCEPT !.key = k] EXCEPT !.excl = excl]
                          EXCEPT !.list = {b \in Ids : job[b].state = "running"}]
  BY <1>1 DEF Idle
<1>3. /\ DOMAIN w = ProcFields /\ w.phase = "resolve" /\ w.mode = "none" /\ w.at = 1 /\ w.skip = {} /\ w.key # NoKey
      /\ w.excl = excl /\ w.list = {b \in Ids : job[b].state = "running"}
  BY <1>2, NoKeyIsNone DEF Idle, ProcFields
<1>0. proc[p].mode = "none"
  BY Parts DEF Begin, ModeFits, Drives, Ahead, Back
<1>4. /\ OnlyProc(p) /\ proc'[p] = w
      /\ UNCHANGED <<row, disk, marked, scratch, job, drawn, crossed, torn, homes, excl>>
  BY Parts, <1>2, <1>3 DEF Begin, world, Shapes, OnlyProc
<1>5. ProcFits(p)' /\ excl' \subseteq Installs
  BY Parts, <1>3, <1>4, StepsAre DEF ProcFits, Shapes
<1>6. ListFits(p)' /\ UseFits(p)' /\ FoundFits(p)' /\ ModeFits(p)'
  BY <1>3, <1>4 DEF ListFits, UseFits, FoundFits, ModeFits, Evicting, Drives, Ahead, Back
<1>7. HomesFit'
  BY <1>4, HomesStay
<1> QED
  BY <1>0, <1>3, <1>4, <1>5, <1>6, <1>7, FreeKeeps, RowsStay, Parts

(* What dead commands left is resolved, and the command goes on. *)
LEMMA ResolvedKeeps ==
    ASSUME IInv, NEW p \in Procs, Resolved(p)
    PROVE  IInv'
<1>1. /\ UNCHANGED <<row, disk, marked, scratch, job, drawn, crossed, torn, homes, excl>>
      /\ proc[p].phase = "resolve"
  BY DEF Resolved, world, bounds
<1>2. CASE Go(p, "ensure")
  BY Parts, <1>1, <1>2, GoDoes, MovedKeeps
<1>3. ASSUME NEW l \in SUBSET Ids, proc' = [proc EXCEPT ![p].phase = "evict", ![p].list = l]
      PROVE  IInv'
  <2>1. proc[p].mode = "none" /\ ProcFits(p) /\ proc[p].key # NoKey
    BY Parts, <1>1 DEF Shapes, ModeFits, Drives, Ahead, Back
  <2>2. PICK w : /\ proc' = [proc EXCEPT ![p] = w]
                 /\ w = [[proc[p] EXCEPT !.phase = "evict"] EXCEPT !.list = l]
    BY Parts, <1>3 DEF Shapes
  <2>3. /\ DOMAIN w = ProcFields /\ w.phase = "evict" /\ w.mode = "none" /\ w.at = proc[p].at /\ w.key # NoKey
        /\ w.skip = proc[p].skip /\ w.excl = proc[p].excl /\ w.list = l
    BY <2>1, <2>2 DEF ProcFits, ProcFields
  <2>4. OnlyProc(p) /\ proc'[p] = w
    BY Parts, <2>2, <2>3 DEF Shapes, OnlyProc
  <2>5. ProcFits(p)' /\ excl' \subseteq Installs
    BY Parts, <1>1, <2>1, <2>3, <2>4 DEF ProcFits, Shapes
  <2>6. ListFits(p)' /\ UseFits(p)' /\ FoundFits(p)' /\ ModeFits(p)'
    BY <2>3, <2>4 DEF ListFits, UseFits, FoundFits, ModeFits, Resolving, Evicting, Drives,
       Ahead, Back
  <2>7. HomesFit'
    BY <1>1, HomesStay
  <2> QED
    BY <1>1, <2>1, <2>3, <2>4, <2>5, <2>6, <2>7, FreeKeeps, RowsStay, Parts
<1>4. Evictable \subseteq Ids
  BY DEF Evictable, Idles
<1> QED
  BY <1>2, <1>3, <1>4 DEF Resolved

(* A host that cannot run the recipe is told so. *)
LEMMA PinRefusesKeeps ==
    ASSUME IInv, NEW p \in Procs, PinRefuses(p)
    PROVE  IInv'
<1>1. proc[p].mode = "none"
  BY Parts DEF PinRefuses, ModeFits, Drives, Ahead, Back
<1> QED
  BY Parts, <1>1, StopDoes, EndedKeeps, HomesStay DEF PinRefuses, world

(* A process begins to drive a build. *)
Takes(p, b, mode, skip) ==
    /\ OnlyProc(p) /\ proc'[p].phase = "drive" /\ proc'[p].base = b /\ proc'[p].mode = mode
    /\ proc'[p].at = 1 /\ proc'[p].skip = skip /\ proc'[p].key = proc[p].key
    /\ proc'[p].excl = proc[p].excl /\ proc'[p].list \subseteq proc[p].list

(* A process begins to drive a build. *)
LEMMA TakesDoes ==
    ASSUME Shapes, NEW p \in Procs, NEW b, NEW mode, NEW skip,
           proc' = [proc EXCEPT ![p].phase = "drive", ![p].base = b, ![p].mode = mode,
                                ![p].at = 1, ![p].skip = skip]
    PROVE  Takes(p, b, mode, skip)
<1>1. PICK w : /\ proc' = [proc EXCEPT ![p] = w]
               /\ w = [[[[[proc[p] EXCEPT !.phase = "drive"] EXCEPT !.base = b] EXCEPT !.mode = mode]
                          EXCEPT !.at = 1] EXCEPT !.skip = skip]
  BY DEF Shapes
<1> QED
  BY <1>1 DEF Shapes, ProcFits, ProcFields, Takes, OnlyProc

(* A run whose owner has gone is resumed. *)
LEMMA ResumeKeeps ==
    ASSUME IInv, NEW p \in Procs, NEW b \in proc[p].list, proc[p].phase = "resolve",
           job[b].owner = "gone", Cross(b), Takes(p, b, "resume", Passed(b)),
           UNCHANGED <<row, disk, marked, scratch, job, drawn, torn, excl, homes>>
    PROVE  IInv'
<1> USE DEF Base, Drives
<1>m. /\ proc[p].mode = "none" /\ b \in Ids /\ job[b].state \in {"running", "committed"}
      /\ Passed(b) \subseteq 1..Last
  BY Parts DEF ModeFits, ListFits, Resolving, Shapes, ProcFits, JobFits, Ahead, Back, Passed,
     LeftOut
<1>e. /\ crossed \subseteq crossed' /\ \A c \in Ids \ {b} : c \in crossed' => c \in crossed
      /\ b \notin crossed' => \A q \in Procs : ~(proc[q].mode # "none" /\ proc[q].base = b)
  BY DEF Cross, Driven
<1>s. b \notin crossed => 1 \in 1..Last /\ Last \notin LeftOut(job[b].excl) /\ 1 \notin LeftOut(job[b].excl)
  BY Parts, <1>m, LeftOutAre, StepsAre DEF Shapes, JobFits
<1>1. Shapes'
  <2>1. ASSUME NEW c \in Ids PROVE TreeFits(c)'
    BY Parts DEF Shapes, TreeFits
  <2>2. ASSUME NEW c \in Ids PROVE JobFits(c)'
    BY Parts DEF Shapes, JobFits
  <2>3. ASSUME NEW q \in Procs PROVE ProcFits(q)'
    BY Parts, LastIs, <1>m DEF Shapes, ProcFits, Takes, OnlyProc
  <2> QED
    BY Parts, <2>1, <2>2, <2>3 DEF Shapes, Takes, OnlyProc
<1>2. Alone'
  BY Parts, <1>e DEF Alone, Takes, OnlyProc
<1>3. ASSUME NEW q \in Procs
      PROVE  (ModeFits(q) /\ OwnerFits(q) /\ ListFits(q) /\ UseFits(q) /\ PlaceFits(q) /\ FoundFits(q))'
  <2>1. ModeFits(q)'
    BY Parts, <1>m DEF ModeFits, Ahead, Back, Takes, OnlyProc
  <2>2. OwnerFits(q)'
    BY Parts, <1>m DEF OwnerFits, Takes, OnlyProc
  <2>3. ListFits(q)'
    BY Parts DEF ListFits, Resolving, Takes, OnlyProc
  <2>4. UseFits(q)'
    BY Parts DEF UseFits, Evicting, Takes, OnlyProc
  <2>5. PlaceFits(q)'
    BY Parts DEF PlaceFits, Back, Takes, OnlyProc
  <2>6. FoundFits(q)'
    BY Parts, <1>e DEF FoundFits, IsBuilt, IsDir, Takes, OnlyProc
  <2> QED
    BY <2>1, <2>2, <2>3, <2>4, <2>5, <2>6
<1>4. ASSUME NEW c \in Ids PROVE RowFits(c)'
  BY Parts DEF RowFits
<1>5. ASSUME NEW c \in Ids, c \notin crossed'
      PROVE  (Prefix(c) /\ LegacyFits(c) /\ ScratchFits(c) /\ GoneFits(c))'
  <2>1. Prefix(c)'
    BY Parts, <1>e, <1>5 DEF Prefix, Covered, Passed
  <2>2. LegacyFits(c)'
    BY Parts, LastIs, <1>m, <1>e, <1>s, <1>5 DEF LegacyFits, Takes, OnlyProc, Passed
  <2>3. ScratchFits(c)'
    BY Parts, LastIs, <1>m, <1>e, <1>s, <1>5 DEF ScratchFits, Takes, OnlyProc, Passed
  <2>4. GoneFits(c)'
    BY Parts, <1>e, <1>5 DEF GoneFits, Covered, Passed, Takes, OnlyProc
  <2> QED
    BY <2>1, <2>2, <2>3, <2>4
<1>6. ASSUME NEW q \in Procs, Base(q)' \notin crossed' PROVE StepsFit(q)'
  BY Parts, <1>e, <1>6 DEF StepsFit, Covered, Passed, Back, Takes, OnlyProc
<1>7. ASSUME NEW c \in Ids, c \notin (crossed \cup torn)' PROVE (DidFits(c) /\ BuiltFits(c))'
  <2>1. DidFits(c)'
    BY Parts, <1>e, <1>7 DEF DidFits, Did, Takes, OnlyProc
  <2>2. BuiltFits(c)'
    BY Parts, <1>e, <1>7 DEF BuiltFits, Finished, IsBuilt, IsDir, Takes, OnlyProc
  <2> QED
    BY <2>1, <2>2
<1>8. ASSUME NEW q \in Procs, (Base(q) \notin crossed \cup torn)' PROVE ActFits(q)'
  BY Parts, <1>e, <1>8 DEF ActFits, Did, IsDir, Back, Takes, OnlyProc
<1>9. HomesFit'
  BY Parts, <1>e DEF HomesFit, HomeIsReady
<1> QED
  BY <1>1, <1>2, <1>3, <1>4, <1>5, <1>6, <1>7, <1>8, <1>9 DEF IInv, KeepInv, DoneInv, Kept

(* An unfinished run is resumed or left. *)
LEMMA TakeOverKeeps ==
    ASSUME IInv, NEW p \in Procs, TakeOver(p)
    PROVE  IInv'
<1>1. PICK b \in proc[p].list :
        IF job[b].owner = "gone"
        THEN /\ Cross(b)
             /\ proc' = [proc EXCEPT ![p].list = @ \ {b}, ![p].phase = "drive", ![p].base = b,
                                     ![p].mode = "resume", ![p].at = 1, ![p].skip = Passed(b)]
        ELSE proc' = [proc EXCEPT ![p].list = @ \ {b}] /\ UNCHANGED crossed
  BY DEF TakeOver
<1>2. /\ UNCHANGED <<row, disk, marked, scratch, job, drawn, torn, homes, excl>>
      /\ proc[p].phase = "resolve"
  BY DEF TakeOver, world, bounds
<1>3. CASE job[b].owner = "gone"
  <2>0. proc' = [proc EXCEPT ![p].list = proc[p].list \ {b}, ![p].phase = "drive", ![p].base = b,
                            ![p].mode = "resume", ![p].at = 1, ![p].skip = Passed(b)]
    BY <1>1, <1>3
  <2>1. PICK w : /\ proc' = [proc EXCEPT ![p] = w]
                 /\ w = [[[[[[proc[p] EXCEPT !.list = proc[p].list \ {b}] EXCEPT !.phase = "drive"]
                             EXCEPT !.base = b] EXCEPT !.mode = "resume"]
                             EXCEPT !.at = 1] EXCEPT !.skip = Passed(b)]
    BY Parts, <2>0 DEF Shapes
  <2>2. Takes(p, b, "resume", Passed(b))
    BY Parts, <2>1 DEF Shapes, ProcFits, ProcFields, Takes, OnlyProc
  <2> QED
    BY <1>1, <1>2, <1>3, <2>2, ResumeKeeps
<1>4. CASE job[b].owner # "gone"
  <2>1. proc[p].mode = "none" /\ ProcFits(p) /\ ListFits(p) /\ proc[p].key # NoKey
    BY Parts, <1>2 DEF Shapes, ModeFits, Drives, Ahead, Back
  <2>2. PICK w : /\ proc' = [proc EXCEPT ![p] = w]
                 /\ w = [proc[p] EXCEPT !.list = proc[p].list \ {b}]
    BY <1>1, <1>4
  <2>3. /\ DOMAIN w = ProcFields /\ w.phase = "resolve" /\ w.mode = "none" /\ w.at = proc[p].at /\ w.key # NoKey
        /\ w.skip = proc[p].skip /\ w.excl = proc[p].excl /\ w.list = proc[p].list \ {b}
    BY <1>2, <2>1, <2>2 DEF ProcFits, ProcFields
  <2>4. OnlyProc(p) /\ proc'[p] = w
    BY Parts, <2>2, <2>3 DEF Shapes, OnlyProc
  <2>5. ProcFits(p)' /\ excl' \subseteq Installs
    BY Parts, <1>2, <2>1, <2>3, <2>4 DEF ProcFits, Shapes
  <2>6. ListFits(p)' /\ UseFits(p)' /\ FoundFits(p)' /\ ModeFits(p)'
    BY <1>2, <2>1, <2>3, <2>4 DEF ListFits, UseFits, FoundFits, ModeFits, Resolving, Evicting,
       Drives, Ahead, Back
  <2>7. HomesFit'
    BY <1>1, <1>2, <1>4, HomesStay
  <2> QED
    BY <1>1, <1>2, <1>4, <2>1, <2>3, <2>4, <2>5, <2>6, <2>7, FreeKeeps, RowsStay, Parts
<1> QED
  BY <1>3, <1>4

(* A failed build is reopened. *)
LEMMA RetryKeeps ==
    ASSUME IInv, NEW p \in Procs, NEW b \in Ids, proc[p].phase = "attempt", job[b].state = "failed",
           job[b].key = proc[p].key, Takes(p, b, "retry", Passed(b)),
           OnlyJob(b), job'[b].state = "running", job'[b].owner = p, job'[b].applied = job[b].applied,
           UNCHANGED <<row, disk, marked, scratch, drawn, crossed, torn, excl, homes>>
    PROVE  IInv'
<1> USE DEF Base, Drives
<1>m. /\ proc[p].mode = "none" /\ Passed(b) \subseteq 1..Last /\ row[b] = NoKey
      /\ \A q \in Procs : ~(proc[q].mode # "none" /\ proc[q].base = b)
  BY Parts DEF ModeFits, OwnerFits, Shapes, JobFits, RowFits, Ahead, Back, Passed, LeftOut
<1>e. \A q \in Procs : proc[q].phase \in {"found", "home"} \cup Evicting => proc[q].base # b
  BY Parts DEF UseFits
<1>s. 1 \in 1..Last /\ Last \notin LeftOut(job[b].excl) /\ 1 \notin LeftOut(job[b].excl)
  BY Parts, <1>m, LeftOutAre, StepsAre DEF Shapes, JobFits
<1>1. Shapes'
  <2>1. ASSUME NEW c \in Ids PROVE TreeFits(c)'
    BY Parts DEF Shapes, TreeFits
  <2>2. ASSUME NEW c \in Ids PROVE JobFits(c)'
    BY Parts DEF Shapes, JobFits, JobStates, OnlyJob
  <2>3. ASSUME NEW q \in Procs PROVE ProcFits(q)'
    BY Parts, LastIs, <1>m DEF Shapes, ProcFits, Takes, OnlyProc
  <2> QED
    BY Parts, <2>1, <2>2, <2>3 DEF Shapes, Takes, OnlyProc, OnlyJob
<1>2. Alone'
  BY Parts, <1>m DEF Alone, Takes, OnlyProc
<1>3. ASSUME NEW q \in Procs
      PROVE  (ModeFits(q) /\ OwnerFits(q) /\ ListFits(q) /\ UseFits(q) /\ PlaceFits(q) /\ FoundFits(q))'
  <2>1. ModeFits(q)'
    BY Parts DEF ModeFits, Ahead, Back, Takes, OnlyProc
  <2>2. OwnerFits(q)'
    BY Parts DEF OwnerFits, ModeFits, Takes, OnlyProc, OnlyJob
  <2>3. ListFits(q)'
    BY Parts DEF ListFits, Resolving, Shapes, ProcFits, Takes, OnlyProc, OnlyJob
  <2>4. UseFits(q)'
    BY Parts DEF UseFits, ModeFits, Evicting, Takes, OnlyProc, OnlyJob
  <2>5. PlaceFits(q)'
    BY Parts DEF PlaceFits, Back, Takes, OnlyProc
  <2>6. FoundFits(q)'
    BY Parts DEF FoundFits, ModeFits, IsBuilt, IsDir, Takes, OnlyProc, OnlyJob
  <2> QED
    BY <2>1, <2>2, <2>3, <2>4, <2>5, <2>6
<1>4. ASSUME NEW c \in Ids PROVE RowFits(c)'
  BY Parts DEF RowFits, OnlyJob
<1>5. ASSUME NEW c \in Ids, c \notin crossed'
      PROVE  (Prefix(c) /\ LegacyFits(c) /\ ScratchFits(c) /\ GoneFits(c))'
  <2>1. Prefix(c)'
    BY Parts, <1>5 DEF Prefix, Covered, Passed, OnlyJob
  <2>2. LegacyFits(c)'
    BY Parts, LastIs, <1>m, <1>e, <1>s, <1>5 DEF LegacyFits, Takes, OnlyProc, OnlyJob, Passed
  <2>3. ScratchFits(c)'
    BY Parts, LastIs, <1>m, <1>e, <1>s, <1>5 DEF ScratchFits, Takes, OnlyProc, OnlyJob, Passed
  <2>4. GoneFits(c)'
    BY Parts, <1>5 DEF GoneFits, Covered, Passed, Takes, OnlyProc, OnlyJob
  <2> QED
    BY <2>1, <2>2, <2>3, <2>4
<1>6. ASSUME NEW q \in Procs, Base(q)' \notin crossed' PROVE StepsFit(q)'
  BY Parts, <1>6 DEF StepsFit, ModeFits, Covered, Passed, Back, Takes, OnlyProc, OnlyJob
<1>7. ASSUME NEW c \in Ids, c \notin (crossed \cup torn)' PROVE (DidFits(c) /\ BuiltFits(c))'
  <2>1. DidFits(c)'
    BY Parts, <1>7 DEF DidFits, Did, Takes, OnlyProc, OnlyJob
  <2>2. BuiltFits(c)'
    BY Parts, <1>7 DEF BuiltFits, Finished, IsBuilt, IsDir, Takes, OnlyProc, OnlyJob
  <2> QED
    BY <2>1, <2>2
<1>8. ASSUME NEW q \in Procs, (Base(q) \notin crossed \cup torn)' PROVE ActFits(q)'
  BY Parts, <1>8 DEF ActFits, ModeFits, Did, IsDir, Ahead, Back, Takes, OnlyProc, OnlyJob
<1>9. HomesFit'
  BY Parts DEF HomesFit, HomeIsReady, OnlyJob
<1> QED
  BY <1>1, <1>2, <1>3, <1>4, <1>5, <1>6, <1>7, <1>8, <1>9 DEF IInv, KeepInv, DoneInv, Kept

(* A stopped build is carried on with, or another begins. *)
LEMMA CarriedOnKeeps ==
    ASSUME IInv, NEW p \in Procs, CarriedOn(p)
    PROVE  IInv'
<1>1. /\ UNCHANGED <<row, disk, marked, scratch, drawn, crossed, torn, homes, excl>>
      /\ proc[p].phase = "attempt"
  BY DEF CarriedOn, world, bounds
<1>2. CASE Go(p, "build") /\ UNCHANGED job
  BY Parts, <1>1, <1>2, GoDoes, MovedKeeps
<1>3. ASSUME NEW b \in Stopped(p),
             job' = [job EXCEPT ![b].state = "running", ![b].owner = p],
             proc' = [proc EXCEPT ![p].phase = "drive", ![p].base = b, ![p].mode = "retry",
                                  ![p].at = 1, ![p].skip = Passed(b)]
      PROVE  IInv'
  <2>1. b \in Ids /\ job[b].state = "failed" /\ job[b].key = proc[p].key
    BY DEF Stopped
  <2>2. Takes(p, b, "retry", Passed(b))
    BY Parts, <1>3, TakesDoes
  <2>3. PICK w : job' = [job EXCEPT ![b] = w] /\ w = [[job[b] EXCEPT !.state = "running"] EXCEPT !.owner = p]
    BY Parts, <1>3, <2>1 DEF Shapes
  <2>4. OnlyJob(b) /\ job'[b].state = "running" /\ job'[b].owner = p /\ job'[b].applied = job[b].applied
    BY Parts, <2>1, <2>3 DEF Shapes, JobFits, JobFields, OnlyJob
  <2> QED
    BY <1>1, <2>1, <2>2, <2>4, RetryKeeps
<1> QED
  BY <1>2, <1>3 DEF CarriedOn

(* A build begins. *)
LEMMA BuildOneKeeps ==
    ASSUME IInv, NEW p \in Procs, BuildOne(p)
    PROVE  IInv'
<1> USE DEF Base, Drives
<1> DEFINE b == drawn + 1
<1>a. b \in Ids
  BY Parts, BoundIsNat DEF BuildOne, Shapes, Ids
<1>w. PICK from : job' = [job EXCEPT ![b] = [state |-> "running", applied |-> {}, owner |-> p,
                                           key |-> proc[p].key, excl |-> proc[p].excl, from |-> from]]
  BY DEF BuildOne
<1>j. /\ DOMAIN job' = Ids /\ DOMAIN job'[b] = JobFields /\ \A c \in Ids \ {b} : job'[c] = job[c]
      /\ job'[b].state = "running" /\ job'[b].applied = {} /\ job'[b].owner = p
      /\ job'[b].key = proc[p].key /\ job'[b].excl = proc[p].excl
  BY Parts, <1>a, <1>w DEF Shapes, JobFields
<1>t. Takes(p, b, "run", LeftOut(proc[p].excl))
  <2>1. proc' = [proc EXCEPT ![p].phase = "drive", ![p].base = b, ![p].mode = "run",
                            ![p].at = 1, ![p].skip = LeftOut(proc[p].excl)]
    BY DEF BuildOne
  <2> HIDE DEF b
  <2> QED
    BY Parts, <2>1, TakesDoes
<1>e. /\ UNCHANGED <<row, disk, marked, scratch, crossed, torn, excl, homes>>
      /\ b \in Ids /\ proc[p].phase = "build"
  BY <1>a DEF BuildOne, world
<1>d. drawn' = b /\ drawn < b /\ b \in 0..MaxBases /\ \A c \in Ids : b < c => drawn < c
  BY Parts, <1>a DEF BuildOne, Shapes, Ids
<1> HIDE DEF b
<1>m. /\ proc[p].mode = "none" /\ row[b] = NoKey /\ job[b].state = "none" /\ disk[b].place = "none"
      /\ proc[p].excl \subseteq Installs /\ LeftOut(proc[p].excl) \subseteq 1..Last
      /\ \A q \in Procs : ~(proc[q].mode # "none" /\ proc[q].base = b)
  BY Parts, <1>d, <1>e DEF ModeFits, OwnerFits, Shapes, ProcFits, RowFits, Ahead, Back, LeftOut
<1>o. /\ \A q \in Procs : proc[q].phase \in {"found", "home"} \cup Evicting => proc[q].base # b
      /\ \A q \in Procs : Resolving(q) => b \notin proc[q].list
      /\ \A h \in homes : h.base # b
  BY Parts, <1>m DEF UseFits, ListFits, HomesFit
<1>s. 1 \in 1..Last /\ Last \notin LeftOut(proc[p].excl) /\ 1 \notin LeftOut(proc[p].excl)
  BY <1>m, LeftOutAre, StepsAre
<1>1. Shapes'
  <2>1. ASSUME NEW c \in Ids PROVE TreeFits(c)'
    BY Parts, <1>e DEF Shapes, TreeFits
  <2>2. ASSUME NEW c \in Ids PROVE JobFits(c)'
    BY Parts, <1>m, <1>j DEF Shapes, JobFits, JobStates
  <2>3. ASSUME NEW q \in Procs PROVE ProcFits(q)'
    BY Parts, LastIs, <1>m, <1>t DEF Shapes, ProcFits, Takes, OnlyProc
  <2> QED
    BY Parts, <1>j, <1>t, <1>e, <1>d, <2>1, <2>2, <2>3 DEF Shapes, Takes, OnlyProc
<1>2. Alone'
  BY Parts, <1>m, <1>t, <1>e DEF Alone, Takes, OnlyProc
<1>3. ASSUME NEW q \in Procs
      PROVE  (ModeFits(q) /\ OwnerFits(q) /\ ListFits(q) /\ UseFits(q) /\ PlaceFits(q) /\ FoundFits(q))'
  <2>1. ModeFits(q)'
    BY Parts, <1>t, <1>e DEF ModeFits, Ahead, Takes, OnlyProc
  <2>2. OwnerFits(q)'
    <3>1. CASE q # p /\ Base(q) # b
      BY Parts, <1>j, <1>t, <3>1 DEF OwnerFits, ModeFits, Takes, OnlyProc
    <3>2. CASE q # p /\ Base(q) = b
      BY <1>m, <1>t, <3>2 DEF OwnerFits, Takes, OnlyProc
    <3>3. CASE q = p
      BY <1>j, <1>t, <3>3 DEF OwnerFits, Takes
    <3> QED
      BY <3>1, <3>2, <3>3
  <2>3. ListFits(q)'
    BY Parts, <1>j, <1>t DEF ListFits, Resolving, Shapes, ProcFits, Takes, OnlyProc
  <2>4. UseFits(q)'
    BY Parts, <1>m, <1>j, <1>t, <1>e DEF UseFits, ModeFits, Evicting, Takes, OnlyProc
  <2>5. PlaceFits(q)'
    BY Parts, <1>t DEF PlaceFits, Back, Takes, OnlyProc
  <2>6. FoundFits(q)'
    <3>1. CASE q # p /\ Base(q) # b
      BY Parts, <1>j, <1>t, <1>e, <3>1 DEF FoundFits, ModeFits, IsBuilt, IsDir, Takes, OnlyProc
    <3>2. CASE q # p /\ Base(q) = b
      BY Parts, <1>m, <1>t, <3>2 DEF FoundFits, UseFits, Takes, OnlyProc
    <3>3. CASE q = p
      BY <1>t, <3>3 DEF FoundFits, Takes
    <3> QED
      BY <3>1, <3>2, <3>3
  <2> QED
    BY <2>1, <2>2, <2>3, <2>4, <2>5, <2>6
<1>4. ASSUME NEW c \in Ids PROVE RowFits(c)'
  <2>1. CASE c # b
    <3>1. job'[c] = job[c] /\ row' = row /\ disk' = disk /\ (drawn' < c => drawn < c)
      BY <1>j, <1>e, <1>d, <2>1
    <3> QED
      BY Parts, <3>1 DEF RowFits
  <2>2. CASE c = b
    <3>1. row'[b] = NoKey /\ job'[b].state = "running" /\ job'[b].key # NoKey /\ drawn' = b
      BY Parts, <1>m, <1>j, <1>e, <1>d DEF ModeFits
    <3>2. ~(drawn' < b)
      BY <1>d, <3>1
    <3> QED
      BY <2>2, <3>1, <3>2 DEF RowFits
  <2> QED
    BY <2>1, <2>2
<1>5. ASSUME NEW c \in Ids, c \notin crossed'
      PROVE  (Prefix(c) /\ LegacyFits(c) /\ ScratchFits(c) /\ GoneFits(c))'
  <2>1. Prefix(c)'
    BY Parts, <1>j, <1>e, <1>5 DEF Prefix, Covered, Passed
  <2>2. LegacyFits(c)'
    BY Parts, <1>m, <1>j, <1>t, <1>e, <1>5 DEF LegacyFits, Takes, OnlyProc
  <2>3. ScratchFits(c)'
    BY Parts, <1>m, <1>j, <1>t, <1>e, <1>5 DEF ScratchFits, Takes, OnlyProc
  <2>4. GoneFits(c)'
    BY Parts, <1>j, <1>t, <1>e, <1>5 DEF GoneFits, Covered, Passed, Takes, OnlyProc
  <2> QED
    BY <2>1, <2>2, <2>3, <2>4
<1>6. ASSUME NEW q \in Procs, Base(q)' \notin crossed' PROVE StepsFit(q)'
  <2>1. CASE q # p /\ Base(q) # b
    BY Parts, <1>j, <1>t, <1>e, <1>6, <2>1 DEF StepsFit, ModeFits, Covered, Passed, Takes,
       OnlyProc
  <2>2. CASE q # p /\ Base(q) = b
    BY Parts, <1>m, <1>t, <2>2 DEF StepsFit, ModeFits, Takes, OnlyProc
  <2>3. CASE q = p
    BY <1>j, <1>t, <2>3 DEF StepsFit, Covered, Passed, Back, Takes
  <2> QED
    BY <2>1, <2>2, <2>3
<1>7. ASSUME NEW c \in Ids, c \notin (crossed \cup torn)' PROVE (DidFits(c) /\ BuiltFits(c))'
  <2>1. DidFits(c)'
    <3>1. CASE c # b
      BY Parts, <1>j, <1>t, <1>e, <1>7 DEF DidFits, Did, Takes, OnlyProc
    <3>2. CASE c = b
      BY <1>j, <3>2 DEF DidFits
    <3> QED
      BY <3>1, <3>2
  <2>2. BuiltFits(c)'
    BY Parts, <1>m, <1>j, <1>t, <1>e, <1>7 DEF BuiltFits, Finished, IsBuilt, IsDir, Takes,
       OnlyProc
  <2> QED
    BY <2>1, <2>2
<1>8. ASSUME NEW q \in Procs, (Base(q) \notin crossed \cup torn)' PROVE ActFits(q)'
  <2>1. CASE q # p /\ Base(q) # b
    BY Parts, <1>j, <1>t, <1>e, <1>8, <2>1 DEF ActFits, ModeFits, Did, IsDir, Ahead, Takes,
       OnlyProc
  <2>2. CASE q # p /\ Base(q) = b
    BY Parts, <1>m, <1>t, <2>2 DEF ActFits, ModeFits, Ahead, Takes, OnlyProc
  <2>3. CASE q = p
    BY <1>t, <2>3 DEF ActFits, Back, Takes
  <2> QED
    BY <2>1, <2>2, <2>3
<1>9. HomesFit'
  BY Parts, <1>m, <1>j, <1>e DEF HomesFit, HomeIsReady
<1> QED
  BY <1>1, <1>2, <1>3, <1>4, <1>5, <1>6, <1>7, <1>8, <1>9 DEF IInv, KeepInv, DoneInv, Kept

(* A warm base is used, passed over or forgotten. *)
LEMMA WarmKeeps ==
    ASSUME IInv, NEW p \in Procs, Warm(p)
    PROVE  IInv'
<1>1. /\ UNCHANGED <<disk, marked, scratch, job, drawn, crossed, torn, homes, excl>>
      /\ proc[p].phase = "ensure" /\ proc[p].mode = "none" /\ proc[p].key # NoKey /\ ProcFits(p)
  BY Parts DEF Warm, world, bounds, Shapes, ModeFits, Drives, Ahead, Back
<1>2. CASE Go(p, "attempt") /\ row' = row
  BY Parts, <1>1, <1>2, GoDoes, MovedKeeps
<1>3. ASSUME Stop(p, "conflict"), row' = row PROVE IInv'
  BY Parts, <1>1, <1>3, StopDoes, EndedKeeps, HomesStay
<1>4. ASSUME NEW b \in Ids, row[b] = proc[p].key, ~IsDir(b), row' = [row EXCEPT ![b] = NoKey],
             Go(p, "attempt"), row[b] # NoKey
      PROVE  IInv'
  <2>1. job[b].state = "committed"
    BY Parts, <1>4 DEF RowFits
  <2>2. b \notin crossed => disk[b].place = "none"
    BY Parts, <1>4, <2>1 DEF LegacyFits, IsDir, Shapes, TreeFits, Places
  <2>3. RowsGo
    BY Parts, <1>4, <2>2 DEF RowsGo, Shapes
  <2>4. Moved(p, "attempt", proc[p].at)
    BY Parts, <1>4, GoDoes
  <2>5. OnlyProc(p) /\ proc'[p].mode = "none" /\ proc'[p].phase = "attempt" /\ excl' \subseteq Installs
    BY Parts, <1>1, <2>4 DEF Moved, Shapes
  <2>6. ProcFits(p)'
    BY <1>1, <2>4 DEF Moved, OnlyProc, ProcFits
  <2>7. ListFits(p)' /\ UseFits(p)' /\ FoundFits(p)' /\ ModeFits(p)'
    BY <1>1, <2>4, <2>5 DEF ListFits, UseFits, FoundFits, ModeFits, Resolving, Evicting, Drives,
       Ahead, Back, Moved
  <2> QED
    BY <1>1, <2>3, <2>5, <2>6, <2>7, HomesStay, FreeKeeps
<1>6. ASSUME NEW b \in Ids, row[b] = proc[p].key, IsBuilt(b), row' = row, row[b] # NoKey,
             proc' = [proc EXCEPT ![p].phase = "found", ![p].base = b]
      PROVE  IInv'
  <2>1. job[b].state = "committed" /\ job[b].key = proc[p].key
    BY Parts, <1>6 DEF RowFits
  <2>2. PICK w : /\ proc' = [proc EXCEPT ![p] = w]
                 /\ w = [[proc[p] EXCEPT !.phase = "found"] EXCEPT !.base = b]
    BY Parts, <1>6 DEF Shapes
  <2>3. /\ DOMAIN w = ProcFields /\ w.phase = "found" /\ w.mode = "none" /\ w.base = b /\ w.key = proc[p].key
        /\ w.at = proc[p].at /\ w.skip = proc[p].skip /\ w.excl = proc[p].excl /\ w.list = proc[p].list
    BY <1>1, <2>2 DEF ProcFits, ProcFields
  <2>4. OnlyProc(p) /\ proc'[p] = w
    BY Parts, <2>2, <2>3 DEF Shapes, OnlyProc
  <2>5. ProcFits(p)' /\ excl' \subseteq Installs
    BY Parts, <1>1, <2>3, <2>4 DEF ProcFits, Shapes
  <2>6. FoundFits(p)'
    BY <1>1, <1>6, <2>1, <2>3, <2>4 DEF FoundFits, Base, IsBuilt, IsDir
  <2>7. ListFits(p)' /\ UseFits(p)' /\ ModeFits(p)'
    BY <1>1, <2>1, <2>3, <2>4 DEF ListFits, UseFits, ModeFits, Resolving, Evicting, Drives,
       Ahead, Back, Base
  <2> QED
    BY Parts, <1>1, <1>6, <2>3, <2>4, <2>5, <2>6, <2>7, HomesStay, RowsStay, FreeKeeps
<1>7. proc[p].key # NoKey
  BY <1>1
<1> QED
  BY <1>2, <1>3, <1>4, <1>6, <1>7 DEF Warm

(* A home is cloned, with the installs its clone leaves out. *)
LEMMA CloneHomeKeeps ==
    ASSUME IInv, NEW p \in Procs, CloneHome(p)
    PROVE  IInv'
<1> DEFINE b == Base(p)
<1>1. /\ UNCHANGED <<row, disk, marked, scratch, job, drawn, crossed, torn, homes, excl>>
      /\ proc[p].phase = "found" /\ proc[p].mode = "none" /\ proc[p].key # NoKey /\ ProcFits(p) /\ b \in Ids
      /\ job[b].state = "committed" /\ FoundFits(p)
  BY Parts DEF CloneHome, world, bounds, Shapes, ModeFits, Drives, Ahead, Back, UseFits
<1>2. CASE ~IsDir(b)
  <2>1. Stop(p, "error")
    BY <1>2 DEF CloneHome
  <2> QED
    BY Parts, <1>1, <2>1, StopDoes, EndedKeeps, HomesStay
<1>3. CASE IsDir(b)
  <2>1. PICK home, whole :
          /\ proc' = [proc EXCEPT ![p].phase = "home", ![p].home = home, ![p].whole = whole]
          /\ \A m \in Installs : home[m] = IF m \in proc[p].excl THEN proc[p].key ELSE disk[b].has[m]
          /\ disk[b].place = "here" /\ b \notin marked => whole = TRUE
    <3>1. PICK whole \in BOOLEAN : whole = (disk[b].place = "here" /\ b \notin marked)
      OBVIOUS
    <3>2. proc' = [proc EXCEPT ![p].phase = "home", ![p].home = HomeHas(p), ![p].whole = whole]
      BY <1>3, <3>1 DEF CloneHome
    <3>3. \A m \in Installs : HomeHas(p)[m] = IF m \in proc[p].excl THEN proc[p].key ELSE disk[b].has[m]
      BY DEF HomeHas
    <3>4. disk[b].place = "here" /\ b \notin marked => whole = TRUE
      BY <3>1
    <3> QED
      BY <3>2, <3>3, <3>4
  <2>2. PICK w : /\ proc' = [proc EXCEPT ![p] = w]
                 /\ w = [[[proc[p] EXCEPT !.phase = "home"] EXCEPT !.home = home] EXCEPT !.whole = whole]
    BY Parts, <2>1 DEF Shapes
  <2>3. /\ DOMAIN w = ProcFields /\ w.phase = "home" /\ w.mode = "none" /\ w.base = b /\ w.key = proc[p].key
        /\ w.at = proc[p].at /\ w.skip = proc[p].skip /\ w.excl = proc[p].excl /\ w.list = proc[p].list
        /\ w.home = home
    BY <1>1, <2>2 DEF ProcFits, ProcFields, Base
  <2>9. w.whole = whole
    BY <1>1, <2>2 DEF ProcFits, ProcFields
  <2>4. OnlyProc(p) /\ proc'[p] = w
    BY Parts, <2>2, <2>3 DEF Shapes, OnlyProc
  <2>5. ProcFits(p)' /\ excl' \subseteq Installs
    BY Parts, <1>1, <2>3, <2>4 DEF ProcFits, Shapes
  <2>6. b \notin crossed \cup torn =>
            /\ whole = TRUE
            /\ \A m \in Installs \ (job[b].excl \ proc[p].excl) : home[m] = proc[p].key
    <3> SUFFICES ASSUME b \notin crossed \cup torn
                 PROVE  /\ whole = TRUE
                        /\ \A m \in Installs \ (job[b].excl \ proc[p].excl) : home[m] = proc[p].key
      OBVIOUS
    <3>1. Finished(b) /\ job[b].key = proc[p].key
      BY Parts, <1>1 DEF FoundFits, BuiltFits
    <3> QED
      BY <2>1, <3>1 DEF Finished
  <2>7. FoundFits(p)'
    BY <1>1, <2>3, <2>4, <2>6, <2>9 DEF FoundFits, Base
  <2>8. ListFits(p)' /\ UseFits(p)' /\ ModeFits(p)'
    BY <1>1, <2>3, <2>4 DEF ListFits, UseFits, ModeFits, Resolving, Evicting, Drives, Ahead,
       Back, Base
  <2> QED
    BY Parts, <1>1, <2>3, <2>4, <2>5, <2>7, <2>8, HomesStay, RowsStay, FreeKeeps
<1> QED
  BY <1>2, <1>3

(* The row of a home is written, or refused. *)
LEMMA CommitHomeKeeps ==
    ASSUME IInv, NEW p \in Procs, CommitHome(p)
    PROVE  IInv'
<1>1. /\ UNCHANGED <<row, disk, marked, scratch, job, drawn, crossed, torn, excl>>
      /\ proc[p].phase = "home" /\ proc[p].mode = "none" /\ Base(p) \in Ids
      /\ job[Base(p)].state = "committed" /\ FoundFits(p) /\ HomesFit
  BY Parts DEF CommitHome, world, bounds, ModeFits, Drives, Ahead, Back, UseFits
<1>2. Ended(p)
  BY Parts, StopDoes DEF CommitHome
<1>3. HomesFit'
  <2>1. CASE homes' = homes
    BY Parts, <1>1, <2>1, HomesStay
  <2>2. ASSUME NEW h, h = [base |-> Base(p), key |-> proc[p].key, has |-> proc[p].home,
                           whole |-> proc[p].whole, excl |-> proc[p].excl],
               homes' = homes \cup {h}
        PROVE  HomesFit'
    <3>1. /\ h.base = Base(p) /\ h.key = proc[p].key /\ h.has = proc[p].home /\ h.excl = proc[p].excl
          /\ proc[p].whole => h.whole
      BY <2>2
    <3> HIDE <2>2
    <3>2. \A g \in homes' : g \in homes \/ g = h
      BY <2>2
    <3>3. h.base \notin crossed \cup torn =>
              /\ h.whole
              /\ \A m \in Installs \ (job[h.base].excl \ h.excl) : h.has[m] = h.key
      BY <1>1, <3>1 DEF FoundFits
    <3> QED
      BY <1>1, <3>1, <3>2, <3>3 DEF HomesFit, HomeIsReady
  <2> QED
    BY <2>1, <2>2 DEF CommitHome
<1> QED
  BY <1>1, <1>2, <1>3, EndedKeeps

(* A base is taken up for removal, or the command ends. *)
LEMMA EvictOneKeeps ==
    ASSUME IInv, NEW p \in Procs, EvictOne(p)
    PROVE  IInv'
<1>1. /\ UNCHANGED <<row, disk, marked, scratch, job, drawn, crossed, torn, homes, excl>>
      /\ proc[p].phase = "evict" /\ proc[p].mode = "none" /\ proc[p].key # NoKey /\ ProcFits(p)
  BY Parts DEF EvictOne, world, bounds, Shapes, ModeFits, Drives, Ahead, Back
<1>2. ASSUME NEW answer, Stop(p, answer) PROVE IInv'
  BY Parts, <1>1, <1>2, StopDoes, EndedKeeps, HomesStay
<1>3. ASSUME NEW b \in proc[p].list, row[b] # NoKey,
             proc' = [proc EXCEPT ![p].list = @ \ {b}, ![p].base = b, ![p].phase = "remove"]
      PROVE  IInv'
  <2>1. b \in Ids /\ job[b].state = "committed"
    BY Parts, <1>1, <1>3 DEF ProcFits, RowFits
  <2>2. PICK w : /\ proc' = [proc EXCEPT ![p] = w]
                 /\ w = [[[proc[p] EXCEPT !.list = proc[p].list \ {b}] EXCEPT !.base = b]
                           EXCEPT !.phase = "remove"]
    BY Parts, <1>3 DEF Shapes
  <2>3. /\ DOMAIN w = ProcFields /\ w.phase = "remove" /\ w.mode = "none" /\ w.key # NoKey /\ w.base = b
        /\ w.at = proc[p].at /\ w.skip = proc[p].skip /\ w.excl = proc[p].excl
        /\ w.list = proc[p].list \ {b}
    BY <1>1, <2>2 DEF ProcFits, ProcFields
  <2>4. OnlyProc(p) /\ proc'[p] = w
    BY Parts, <2>2, <2>3 DEF Shapes, OnlyProc
  <2>5. ProcFits(p)' /\ excl' \subseteq Installs
    BY Parts, <1>1, <2>3, <2>4 DEF ProcFits, Shapes
  <2>6. ListFits(p)' /\ UseFits(p)' /\ FoundFits(p)' /\ ModeFits(p)'
    BY <1>1, <2>1, <2>3, <2>4 DEF ListFits, UseFits, FoundFits, ModeFits, Resolving, Evicting,
       Drives, Ahead, Back, Base
  <2> QED
    BY Parts, <1>1, <2>3, <2>4, <2>5, <2>6, HomesStay, RowsStay, FreeKeeps
<1> QED
  BY <1>2, <1>3 DEF EvictOne

(* The row of a base goes, or is pinned. *)
LEMMA ForgetKeeps ==
    ASSUME IInv, NEW p \in Procs, Forget(p)
    PROVE  IInv'
<1>1. /\ UNCHANGED <<disk, marked, scratch, job, drawn, crossed, torn, homes, excl>>
      /\ proc[p].phase = "removed" /\ proc[p].mode = "none" /\ proc[p].key # NoKey /\ ProcFits(p) /\ Base(p) \in Ids
      /\ Base(p) \notin crossed => disk[Base(p)].place = "none"
  BY Parts DEF Forget, world, bounds, Shapes, ModeFits, Drives, Ahead, Back, Evicting, GoneFits
<1>2. CASE Stop(p, "conflict") /\ row' = row
  BY Parts, <1>1, <1>2, StopDoes, EndedKeeps, HomesStay
<1>3. ASSUME row' = [row EXCEPT ![Base(p)] = NoKey],
             proc' = [proc EXCEPT ![p].phase = "evict", ![p].base = NoBase]
      PROVE  IInv'
  <2>1. RowsGo
    BY Parts, <1>1, <1>3 DEF RowsGo, Shapes
  <2>2. PICK w : /\ proc' = [proc EXCEPT ![p] = w]
                 /\ w = [[proc[p] EXCEPT !.phase = "evict"] EXCEPT !.base = NoBase]
    BY Parts, <1>3 DEF Shapes
  <2>3. /\ DOMAIN w = ProcFields /\ w.phase = "evict" /\ w.mode = "none" /\ w.key # NoKey
        /\ w.at = proc[p].at /\ w.skip = proc[p].skip /\ w.excl = proc[p].excl /\ w.list = proc[p].list
    BY <1>1, <2>2 DEF ProcFits, ProcFields
  <2>4. OnlyProc(p) /\ proc'[p] = w
    BY Parts, <2>2, <2>3 DEF Shapes, OnlyProc
  <2>5. ProcFits(p)' /\ excl' \subseteq Installs
    BY Parts, <1>1, <2>3, <2>4 DEF ProcFits, Shapes
  <2>6. ListFits(p)' /\ UseFits(p)' /\ FoundFits(p)' /\ ModeFits(p)'
    BY <2>3, <2>4 DEF ListFits, UseFits, FoundFits, ModeFits, Resolving, Evicting, Drives,
       Ahead, Back
  <2> QED
    BY <1>1, <2>1, <2>3, <2>4, <2>5, <2>6, HomesStay, FreeKeeps
<1> QED
  BY <1>2, <1>3 DEF Forget

(* A person clears a disk. *)
LEMMA ClearDiskKeeps ==
    ASSUME IInv, NEW b \in Ids, ClearDisk(b)
    PROVE  IInv'
<1> USE DEF Base, Drives
<1>e. /\ UNCHANGED <<row, marked, scratch, job, proc, drawn, crossed, excl, homes>>
      /\ torn' = torn \cup {b} /\ IsDir(b)
      /\ OnlyTree(b) /\ disk'[b].place = "none" /\ DOMAIN disk'[b].has = Installs
  <2>1. /\ disk' = [disk EXCEPT ![b].place = "none", ![b].at = NoKey, ![b].has = NoTree.has]
        /\ UNCHANGED <<row, marked, scratch, job, proc, drawn, crossed, excl, homes>>
        /\ torn' = torn \cup {b} /\ IsDir(b)
    BY DEF ClearDisk
  <2>2. PICK w : /\ disk' = [disk EXCEPT ![b] = w]
                 /\ w = [[[disk[b] EXCEPT !.place = "none"] EXCEPT !.at = NoKey] EXCEPT !.has = NoTree.has]
    BY Parts, <2>1 DEF Shapes
  <2>3. DOMAIN NoTree.has = Installs
    BY DEF NoTree
  <2>4. OnlyTree(b) /\ disk'[b].place = "none" /\ disk'[b].has = NoTree.has
    BY Parts, <2>2 DEF Shapes, TreeFits, TreeFields, OnlyTree
  <2> QED
    BY <2>1, <2>3, <2>4
<1>1. Shapes'
  <2>1. ASSUME NEW c \in Ids PROVE TreeFits(c)'
    BY Parts, <1>e DEF Shapes, TreeFits, Places, OnlyTree
  <2>2. ASSUME NEW c \in Ids PROVE JobFits(c)'
    BY Parts, <1>e DEF Shapes, JobFits, JobStates, OnlyTree
  <2>3. ASSUME NEW q \in Procs PROVE ProcFits(q)'
    BY Parts, <1>e DEF Shapes, ProcFits
  <2> QED
    BY Parts, <1>e, <2>1, <2>2, <2>3 DEF Shapes, OnlyTree
<1>2. Alone'
  BY Parts, <1>e DEF Alone
<1>3. ASSUME NEW q \in Procs
      PROVE  (ModeFits(q) /\ OwnerFits(q) /\ ListFits(q) /\ UseFits(q) /\ PlaceFits(q) /\ FoundFits(q))'
  <2>1. ModeFits(q)'
    BY Parts, <1>e DEF ModeFits, Ahead, Back, Evicting, OnlyTree
  <2>2. OwnerFits(q)'
    BY Parts, <1>e DEF OwnerFits, ModeFits, OnlyTree
  <2>3. ListFits(q)'
    BY Parts, <1>e DEF ListFits, Resolving
  <2>4. UseFits(q)'
    BY Parts, <1>e DEF UseFits, ModeFits, Evicting, OnlyTree
  <2>5. PlaceFits(q)'
    BY Parts, <1>e DEF PlaceFits
  <2>6. FoundFits(q)'
    BY Parts, <1>e DEF FoundFits, ModeFits, Evicting, IsBuilt, IsDir, UseFits, OnlyTree
  <2> QED
    BY <2>1, <2>2, <2>3, <2>4, <2>5, <2>6
<1>4. ASSUME NEW c \in Ids PROVE RowFits(c)'
  BY Parts, <1>e DEF RowFits, OnlyTree
<1>5. ASSUME NEW c \in Ids, c \notin crossed'
      PROVE  (Prefix(c) /\ LegacyFits(c) /\ ScratchFits(c) /\ GoneFits(c))'
  <2>1. Prefix(c)'
    BY Parts, <1>e, <1>5 DEF Prefix, Covered, Passed, OnlyTree
  <2>2. LegacyFits(c)'
    BY Parts, <1>e, <1>5 DEF LegacyFits, OnlyTree
  <2>3. ScratchFits(c)'
    BY Parts, <1>e, <1>5 DEF ScratchFits, OnlyTree
  <2>4. GoneFits(c)'
    BY Parts, <1>e, <1>5 DEF GoneFits, Covered, Passed, UseFits, Evicting, OnlyTree
  <2> QED
    BY <2>1, <2>2, <2>3, <2>4
<1>6. ASSUME NEW q \in Procs, Base(q)' \notin crossed' PROVE StepsFit(q)'
  BY Parts, <1>e, <1>6 DEF StepsFit, ModeFits, Covered, Passed, Ahead, Back, OnlyTree
<1>7. ASSUME NEW c \in Ids, c \notin (crossed \cup torn)' PROVE (DidFits(c) /\ BuiltFits(c))'
  <2>1. DidFits(c)'
    BY Parts, <1>e, <1>7 DEF DidFits, Did, OnlyTree
  <2>2. BuiltFits(c)'
    BY Parts, <1>e, <1>7 DEF BuiltFits, Finished, IsBuilt, IsDir, RowFits, OnlyTree
  <2> QED
    BY <2>1, <2>2
<1>8. ASSUME NEW q \in Procs, (Base(q) \notin crossed \cup torn)' PROVE ActFits(q)'
  BY Parts, <1>e, <1>8 DEF ActFits, ModeFits, Did, IsDir, Ahead, Back, OnlyTree
<1>9. HomesFit'
  BY Parts, <1>e DEF HomesFit, HomeIsReady, OnlyTree
<1> QED
  BY <1>1, <1>2, <1>3, <1>4, <1>5, <1>6, <1>7, <1>8, <1>9 DEF IInv, KeepInv, DoneInv, Kept

(* The removal of a base begins. *)
LEMMA StartRemoveKeeps ==
    ASSUME IInv, NEW p \in Procs, StartRemove(p)
    PROVE  IInv'
<1> USE DEF Base, Drives
<1>m. /\ proc[p].phase = "remove" /\ proc[p].mode = "none" /\ proc[p].base \in Ids
      /\ job[proc[p].base].state = "committed"
  BY Parts DEF StartRemove, ModeFits, UseFits, Ahead, Back, Evicting
<1> PICK b \in Ids : b = proc[p].base
  BY <1>m
<1>o. b \notin crossed => disk[b].place # "legacy" /\ \A s \in scratch : s[1] # b
  BY Parts, <1>m DEF LegacyFits, ScratchFits

<1>e. /\ UNCHANGED <<row, marked, scratch, job, drawn, crossed, excl, homes>>
      /\ torn' = torn \cup {b} /\ Moved(p, "removing", proc[p].at)
      /\ OnlyTree(b) /\ disk'[b].has = disk[b].has
      /\ disk'[b].place = IF IsDir(b) THEN "part" ELSE disk[b].place
  <2>1. /\ UNCHANGED <<row, marked, scratch, job, drawn, crossed, excl, homes>>
        /\ torn' = torn \cup {b} /\ Go(p, "removing")
        /\ disk' = IF IsDir(b) THEN [disk EXCEPT ![b].place = "part"] ELSE disk
    BY DEF StartRemove, bounds
  <2>2. OnlyTree(b) /\ disk'[b].has = disk[b].has
        /\ disk'[b].place = IF IsDir(b) THEN "part" ELSE disk[b].place
    <3>1. CASE IsDir(b)
      <4>1. SetPlace(b, "part")
        BY <2>1, <3>1 DEF SetPlace
      <4>2. OnlyTree(b) /\ disk'[b].has = disk[b].has /\ disk'[b].place = "part"
        BY Parts, <4>1, PlaceDoes
      <4> QED
        BY <3>1, <4>2
    <3>2. CASE ~IsDir(b)
      BY Parts, <2>1, <3>2 DEF OnlyTree, Shapes, TreeFits
    <3> QED
      BY <3>1, <3>2
  <2> QED
    BY Parts, <2>1, <2>2, GoDoes
<1>1. Shapes'
  <2>1. ASSUME NEW c \in Ids PROVE TreeFits(c)'
    BY Parts, <1>e DEF Shapes, TreeFits, Places, OnlyTree
  <2>2. ASSUME NEW c \in Ids PROVE JobFits(c)'
    BY Parts, <1>e DEF Shapes, JobFits
  <2>3. ASSUME NEW q \in Procs PROVE ProcFits(q)'
    BY Parts, <1>e DEF Shapes, ProcFits, Moved, OnlyProc
  <2> QED
    BY Parts, <1>m, <1>o, <1>e, <2>1, <2>2, <2>3 DEF Shapes, Moved, OnlyTree, OnlyProc
<1>2. Alone'
  BY Parts, <1>e DEF Alone, Moved, OnlyProc
<1>3. ASSUME NEW q \in Procs
      PROVE  (ModeFits(q) /\ OwnerFits(q) /\ ListFits(q) /\ UseFits(q) /\ PlaceFits(q) /\ FoundFits(q))'
  <2>1. ModeFits(q)'
    BY Parts, <1>m, <1>o, <1>e DEF ModeFits, Ahead, Back, Evicting, Moved, OnlyTree, OnlyProc
  <2>2. OwnerFits(q)'
    BY Parts, <1>m, <1>o, <1>e DEF OwnerFits, ModeFits, Moved, OnlyTree, OnlyProc
  <2>3. ListFits(q)'
    BY Parts, <1>e DEF ListFits, Resolving, Moved, OnlyProc
  <2>4. UseFits(q)'
    BY Parts, <1>m, <1>o, <1>e DEF UseFits, ModeFits, Evicting, Moved, OnlyTree, OnlyProc
  <2>5. PlaceFits(q)'
    BY Parts, <1>e DEF PlaceFits, Ahead, Back, Moved, OnlyProc
  <2>6. FoundFits(q)'
    BY Parts, <1>m, <1>o, <1>e DEF FoundFits, ModeFits, Evicting, IsBuilt, IsDir, UseFits,
       Moved, OnlyTree, OnlyProc
  <2> QED
    BY <2>1, <2>2, <2>3, <2>4, <2>5, <2>6
<1>4. ASSUME NEW c \in Ids PROVE RowFits(c)'
  BY Parts, <1>m, <1>e DEF RowFits, OnlyTree
<1>5. ASSUME NEW c \in Ids, c \notin crossed'
      PROVE  (Prefix(c) /\ LegacyFits(c) /\ ScratchFits(c) /\ GoneFits(c))'
  <2>1. Prefix(c)'
    BY Parts, <1>e, <1>5 DEF Prefix, Covered, Passed
  <2>2. LegacyFits(c)'
    BY Parts, <1>m, <1>o, <1>e, <1>5 DEF LegacyFits, Moved, OnlyTree, OnlyProc
  <2>3. ScratchFits(c)'
    BY Parts, <1>m, <1>o, <1>e, <1>5 DEF ScratchFits, Moved, OnlyTree, OnlyProc
  <2>4. GoneFits(c)'
    <3>1. CASE c # b
      BY Parts, <1>m, <1>o, <1>e, <1>5, <3>1 DEF GoneFits, Covered, Passed, UseFits, Evicting,
         IsDir, ModeFits, Ahead, Back, Moved, OnlyTree, OnlyProc
    <3>2. CASE c = b
      BY Parts, <1>m, <1>e, <1>5, <3>2 DEF GoneFits, Covered, Passed, IsDir, Moved, OnlyProc
    <3> QED
      BY <3>1, <3>2
  <2> QED
    BY <2>1, <2>2, <2>3, <2>4
<1>6. ASSUME NEW q \in Procs, Base(q)' \notin crossed' PROVE StepsFit(q)'
  BY Parts, <1>e, <1>6 DEF StepsFit, Covered, Passed, Ahead, Back, Moved, OnlyProc
<1>7. ASSUME NEW c \in Ids, c \notin (crossed \cup torn)' PROVE (DidFits(c) /\ BuiltFits(c))'
  <2>1. DidFits(c)'
    BY Parts, <1>m, <1>o, <1>e, <1>7 DEF DidFits, Did, Moved, OnlyTree, OnlyProc
  <2>2. BuiltFits(c)'
    BY Parts, <1>m, <1>o, <1>e, <1>7 DEF BuiltFits, Finished, IsBuilt, IsDir, RowFits, Moved,
       OnlyTree, OnlyProc
  <2> QED
    BY <2>1, <2>2
<1>8. ASSUME NEW q \in Procs, (Base(q) \notin crossed \cup torn)' PROVE ActFits(q)'
  BY Parts, <1>e, <1>8 DEF ActFits, ModeFits, Did, IsDir, Ahead, Moved, OnlyTree, OnlyProc
<1>9. HomesFit'
  BY Parts, <1>e DEF HomesFit, HomeIsReady
<1> QED
  BY <1>1, <1>2, <1>3, <1>4, <1>5, <1>6, <1>7, <1>8, <1>9 DEF IInv, KeepInv, DoneInv, Kept

(* The removal of a base ends. *)
LEMMA EndRemoveKeeps ==
    ASSUME IInv, NEW p \in Procs, EndRemove(p)
    PROVE  IInv'
<1> USE DEF Base, Drives
<1>m. /\ proc[p].phase = "removing" /\ proc[p].mode = "none" /\ proc[p].base \in Ids
      /\ job[proc[p].base].state = "committed" /\ proc[p].base \in torn
  BY Parts DEF EndRemove, ModeFits, UseFits, Ahead, Back, Evicting
<1> PICK b \in Ids : b = proc[p].base
  BY <1>m
<1>o. b \notin crossed => disk[b].place # "legacy" /\ \A s \in scratch : s[1] # b
  BY Parts, <1>m DEF LegacyFits, ScratchFits

<1>e. /\ UNCHANGED <<row, marked, scratch, job, drawn, crossed, torn, excl, homes>>
      /\ Moved(p, "removed", proc[p].at)
      /\ OnlyTree(b) /\ DOMAIN disk'[b].has = Installs
      /\ disk'[b].place \in Places /\ disk[b].place = "none" => disk'[b].place = "none"
      /\ b \notin crossed => disk'[b].place = "none"
      /\ disk'[b].place \in {"none", "legacy"} /\ (disk'[b].place = "legacy" => disk[b].place = "legacy")
  <2> PICK x : x = IF disk[b].place = "legacy" THEN disk[b].place ELSE "none"
    OBVIOUS
  <2>1. disk' = [disk EXCEPT ![b].place = x, ![b].at = NoKey, ![b].has = NoTree.has]
    BY Parts DEF EndRemove, Shapes
  <2>2. PICK w : /\ disk' = [disk EXCEPT ![b] = w]
                 /\ w = [[[disk[b] EXCEPT !.place = x] EXCEPT !.at = NoKey] EXCEPT !.has = NoTree.has]
    BY Parts, <2>1 DEF Shapes
  <2>3. DOMAIN NoTree.has = Installs
    BY DEF NoTree
  <2>4. OnlyTree(b) /\ disk'[b].place = x /\ disk'[b].has = NoTree.has
    BY Parts, <2>2 DEF Shapes, TreeFits, TreeFields, OnlyTree
  <2>5. /\ UNCHANGED <<row, marked, scratch, job, drawn, crossed, torn, excl, homes>>
        /\ Go(p, "removed")
    BY DEF EndRemove, bounds
  <2>6. Moved(p, "removed", proc[p].at)
    BY Parts, <2>5, GoDoes
  <2>7. /\ x \in {"none", "legacy"} /\ (x = "legacy" => disk[b].place = "legacy")
        /\ x \in Places /\ (disk[b].place = "none" => x = "none")
        /\ b \notin crossed => x = "none"
    BY <1>o DEF Places
  <2> QED
    BY <2>3, <2>4, <2>5, <2>6, <2>7
<1>1. Shapes'
  <2>1. ASSUME NEW c \in Ids PROVE TreeFits(c)'
    BY Parts, <1>e DEF Shapes, TreeFits, Places, OnlyTree
  <2>2. ASSUME NEW c \in Ids PROVE JobFits(c)'
    BY Parts, <1>e DEF Shapes, JobFits
  <2>3. ASSUME NEW q \in Procs PROVE ProcFits(q)'
    BY Parts, <1>e DEF Shapes, ProcFits, Moved, OnlyProc
  <2> QED
    BY Parts, <1>m, <1>o, <1>e, <2>1, <2>2, <2>3 DEF Shapes, Moved, OnlyTree, OnlyProc
<1>2. Alone'
  BY Parts, <1>e DEF Alone, Moved, OnlyProc
<1>3. ASSUME NEW q \in Procs
      PROVE  (ModeFits(q) /\ OwnerFits(q) /\ ListFits(q) /\ UseFits(q) /\ PlaceFits(q) /\ FoundFits(q))'
  <2>1. ModeFits(q)'
    BY Parts, <1>m, <1>o, <1>e DEF ModeFits, Ahead, Back, Evicting, Moved, OnlyTree, OnlyProc
  <2>2. OwnerFits(q)'
    BY Parts, <1>m, <1>o, <1>e DEF OwnerFits, ModeFits, Moved, OnlyTree, OnlyProc
  <2>3. ListFits(q)'
    BY Parts, <1>e DEF ListFits, Resolving, Moved, OnlyProc
  <2>4. UseFits(q)'
    BY Parts, <1>m, <1>o, <1>e DEF UseFits, ModeFits, Evicting, Moved, OnlyTree, OnlyProc
  <2>5. PlaceFits(q)'
    BY Parts, <1>e DEF PlaceFits, Ahead, Back, Moved, OnlyProc
  <2>6. FoundFits(q)'
    BY Parts, <1>m, <1>o, <1>e DEF FoundFits, ModeFits, Evicting, IsBuilt, IsDir, UseFits,
       Moved, OnlyTree, OnlyProc
  <2> QED
    BY <2>1, <2>2, <2>3, <2>4, <2>5, <2>6
<1>4. ASSUME NEW c \in Ids PROVE RowFits(c)'
  BY Parts, <1>e DEF RowFits, OnlyTree
<1>5. ASSUME NEW c \in Ids, c \notin crossed'
      PROVE  (Prefix(c) /\ LegacyFits(c) /\ ScratchFits(c) /\ GoneFits(c))'
  <2>1. Prefix(c)'
    BY Parts, <1>e, <1>5 DEF Prefix, Covered, Passed
  <2>2. LegacyFits(c)'
    BY Parts, <1>m, <1>o, <1>e, <1>5 DEF LegacyFits, Moved, OnlyTree, OnlyProc
  <2>3. ScratchFits(c)'
    BY Parts, <1>m, <1>o, <1>e, <1>5 DEF ScratchFits, Moved, OnlyTree, OnlyProc
  <2>4. GoneFits(c)'
    BY Parts, <1>m, <1>o, <1>e, <1>5 DEF GoneFits, Covered, Passed, UseFits, Evicting, Moved,
       OnlyTree, OnlyProc
  <2> QED
    BY <2>1, <2>2, <2>3, <2>4
<1>6. ASSUME NEW q \in Procs, Base(q)' \notin crossed' PROVE StepsFit(q)'
  BY Parts, <1>m, <1>o, <1>e, <1>6 DEF StepsFit, ModeFits, Covered, Passed, Ahead, Back, Moved,
     OnlyTree, OnlyProc
<1>7. ASSUME NEW c \in Ids, c \notin (crossed \cup torn)' PROVE (DidFits(c) /\ BuiltFits(c))'
  <2>1. DidFits(c)'
    BY Parts, <1>m, <1>o, <1>e, <1>7 DEF DidFits, Did, Moved, OnlyTree, OnlyProc
  <2>2. BuiltFits(c)'
    BY Parts, <1>m, <1>o, <1>e, <1>7 DEF BuiltFits, Finished, IsBuilt, IsDir, RowFits, Moved,
       OnlyTree, OnlyProc
  <2> QED
    BY <2>1, <2>2
<1>8. ASSUME NEW q \in Procs, (Base(q) \notin crossed \cup torn)' PROVE ActFits(q)'
  BY Parts, <1>m, <1>e, <1>8 DEF ActFits, ModeFits, Did, IsDir, Ahead, Moved, OnlyTree, OnlyProc
<1>9. HomesFit'
  BY Parts, <1>e DEF HomesFit, HomeIsReady
<1> QED
  BY <1>1, <1>2, <1>3, <1>4, <1>5, <1>6, <1>7, <1>8, <1>9 DEF IInv, KeepInv, DoneInv, Kept

(* A step that is not on record is not undone. *)
LEMMA UndoPassKeeps ==
    ASSUME IInv, NEW p \in Procs, UndoPass(p)
    PROVE  IInv'
<1> USE DEF Base, Drives
<1>m. proc[p].phase = "undo" /\ proc[p].phase \in Back /\ proc[p].at # 0 /\ proc[p].at \notin job[proc[p].base].applied
  BY Parts DEF UndoPass, Undoing, Back
<1> PICK b \in Ids : b = proc[p].base
  BY <1>m, AtUndo
<1>o. /\ proc[p].mode = "run" /\ row[b] = NoKey /\ proc[p].at \in 0..Last
      /\ job[b].state = "running" /\ job[b].owner = p
      /\ \A q \in Procs \ {p} : ~(proc[q].mode # "none" /\ proc[q].base = b)
      /\ \A q \in Procs : proc[q].phase \in {"found", "home"} \cup Evicting => proc[q].base # b
      /\ b \notin crossed =>
             /\ disk[b].place # "legacy" /\ \A s \in scratch : s[1] # b
             /\ \A i \in job[b].applied : i \in 1..Last /\ i <= proc[p].at
             /\ \A i \in 1..Last : i <= proc[p].at => Covered(b, i)
  BY <1>m, AtUndo

<1>e. /\ UNCHANGED <<row, disk, marked, scratch, job, drawn, crossed, torn, excl, homes>>
      /\ Moved(p, "undo", proc[p].at - 1) /\ proc[p].at \in 1..Last
  <2>1. proc' = [proc EXCEPT ![p].at = proc[p].at - 1]
    BY DEF UndoPass
  <2>2. Moved(p, "undo", proc[p].at - 1)
    BY Parts, <1>m, <2>1, PassDoes
  <2> QED
    BY <1>m, <1>o, <2>2 DEF UndoPass, world, kept, bounds
<1>s. b \notin crossed => /\ 1 \notin LeftOut(job[b].excl) /\ Last \notin LeftOut(job[b].excl)
                          /\ proc[p].at # 1 /\ proc[p].at # Last
  BY Parts, LeftOutAre, StepsAre, <1>m, <1>o, <1>e DEF Shapes, JobFits, Covered, Passed
<1>1. Shapes'
  <2>1. ASSUME NEW c \in Ids PROVE TreeFits(c)'
    BY Parts, LastIs, <1>m, <1>o, <1>e, <1>s DEF Shapes, TreeFits, Places, Moved, OnlyProc
  <2>2. ASSUME NEW c \in Ids PROVE JobFits(c)'
    BY Parts, LastIs, <1>m, <1>o, <1>e, <1>s DEF Shapes, JobFits, JobStates, Moved, OnlyProc
  <2>3. ASSUME NEW q \in Procs PROVE ProcFits(q)'
    BY Parts, LastIs, <1>m, <1>o, <1>e, <1>s DEF Shapes, ProcFits, Moved, OnlyProc
  <2> QED
    BY Parts, LastIs, <1>m, <1>o, <1>e, <1>s, <2>1, <2>2, <2>3 DEF Shapes, Moved, OnlyProc
<1>2. Alone'
  BY Parts, LastIs, <1>m, <1>o, <1>e, <1>s DEF Alone, Moved, OnlyProc
<1>3. ASSUME NEW q \in Procs
      PROVE  (ModeFits(q) /\ OwnerFits(q) /\ ListFits(q) /\ UseFits(q) /\ PlaceFits(q) /\ FoundFits(q))'
  <2>1. ModeFits(q)'
    BY Parts, LastIs, <1>m, <1>o, <1>e, <1>s DEF ModeFits, Ahead, Back, Evicting, Moved, OnlyProc
  <2>2. OwnerFits(q)'
    BY Parts, LastIs, <1>m, <1>o, <1>e, <1>s DEF OwnerFits, ModeFits, Moved, OnlyProc
  <2>3. ListFits(q)'
    BY Parts, LastIs, <1>m, <1>o, <1>e, <1>s DEF ListFits, Resolving, OwnerFits, Shapes, ProcFits,
       Moved, OnlyProc
  <2>4. UseFits(q)'
    BY Parts, LastIs, <1>m, <1>o, <1>e, <1>s DEF UseFits, ModeFits, Evicting, Moved, OnlyProc
  <2>5. PlaceFits(q)'
    BY Parts, LastIs, <1>m, <1>o, <1>e, <1>s DEF PlaceFits, Ahead, Back, Moved, OnlyProc
  <2>6. FoundFits(q)'
    BY Parts, LastIs, <1>m, <1>o, <1>e, <1>s DEF FoundFits, ModeFits, Evicting, IsBuilt, IsDir,
       UseFits, Moved, OnlyProc
  <2> QED
    BY <2>1, <2>2, <2>3, <2>4, <2>5, <2>6
<1>4. ASSUME NEW c \in Ids PROVE RowFits(c)'
  BY Parts, LastIs, <1>m, <1>o, <1>e, <1>s DEF RowFits, OwnerFits, Moved, OnlyProc
<1>5. ASSUME NEW c \in Ids, c \notin crossed'
      PROVE  (Prefix(c) /\ LegacyFits(c) /\ ScratchFits(c) /\ GoneFits(c))'
  <2>1. Prefix(c)'
    BY Parts, LastIs, <1>m, <1>o, <1>e, <1>s, <1>5 DEF Prefix, Covered, Passed, Moved, OnlyProc
  <2>2. LegacyFits(c)'
    BY Parts, LastIs, <1>m, <1>o, <1>e, <1>s, <1>5 DEF LegacyFits, Moved, OnlyProc
  <2>3. ScratchFits(c)'
    BY Parts, LastIs, <1>m, <1>o, <1>e, <1>s, <1>5 DEF ScratchFits, Moved, OnlyProc
  <2>4. GoneFits(c)'
    BY Parts, LastIs, <1>m, <1>o, <1>e, <1>s, <1>5 DEF GoneFits, Covered, Passed, UseFits,
       Evicting, Moved, OnlyProc
  <2> QED
    BY <2>1, <2>2, <2>3, <2>4
<1>6. ASSUME NEW q \in Procs, Base(q)' \notin crossed' PROVE StepsFit(q)'
  BY Parts, LastIs, <1>m, <1>o, <1>e, <1>s, <1>6 DEF StepsFit, ModeFits, Covered, Passed, Ahead,
     Back, Moved, OnlyProc
<1>7. ASSUME NEW c \in Ids, c \notin (crossed \cup torn)' PROVE (DidFits(c) /\ BuiltFits(c))'
  <2>1. DidFits(c)'
    BY Parts, LastIs, <1>m, <1>o, <1>e, <1>s, <1>7 DEF DidFits, Did, Moved, OnlyProc
  <2>2. BuiltFits(c)'
    BY Parts, LastIs, <1>m, <1>o, <1>e, <1>s, <1>7 DEF BuiltFits, Finished, IsBuilt, IsDir,
       RowFits, Moved, OnlyProc
  <2> QED
    BY <2>1, <2>2
<1>8. ASSUME NEW q \in Procs, (Base(q) \notin crossed \cup torn)' PROVE ActFits(q)'
  BY Parts, LastIs, <1>m, <1>o, <1>e, <1>s, <1>8 DEF ActFits, ModeFits, Did, IsDir, Ahead, Back,
     Moved, OnlyProc
<1>9. HomesFit'
  BY Parts, LastIs, <1>m, <1>o, <1>e, <1>s DEF HomesFit, HomeIsReady, Moved, OnlyProc
<1> QED
  BY <1>1, <1>2, <1>3, <1>4, <1>5, <1>6, <1>7, <1>8, <1>9 DEF IInv, KeepInv, DoneInv, Kept

(* A step is taken back. *)
LEMMA UndoKeeps ==
    ASSUME IInv, NEW p \in Procs, Undo(p)
    PROVE  IInv'
<1> USE DEF Base, Drives
<1>m. proc[p].phase = "undo" /\ proc[p].phase \in Back /\ proc[p].at # 0 /\ proc[p].at \in job[proc[p].base].applied
  BY Parts DEF Undo, Undoing, Back
<1> PICK b \in Ids : b = proc[p].base
  BY <1>m, AtUndo
<1>o. /\ proc[p].mode = "run" /\ row[b] = NoKey /\ proc[p].at \in 0..Last
      /\ job[b].state = "running" /\ job[b].owner = p
      /\ \A q \in Procs \ {p} : ~(proc[q].mode # "none" /\ proc[q].base = b)
      /\ \A q \in Procs : proc[q].phase \in {"found", "home"} \cup Evicting => proc[q].base # b
      /\ b \notin crossed =>
             /\ disk[b].place # "legacy" /\ \A s \in scratch : s[1] # b
             /\ \A i \in job[b].applied : i \in 1..Last /\ i <= proc[p].at
             /\ \A i \in 1..Last : i <= proc[p].at => Covered(b, i)
  BY <1>m, AtUndo

<1>s. proc[p].at \in 2..Last /\ (Step(p) = "promote" <=> proc[p].at = Last)
  BY Parts, <1>m, <1>o, StepKinds, StepsAre DEF Undo, Step
<1>e. /\ UNCHANGED <<row, disk, scratch, job, drawn, crossed, torn, excl, homes>>
      /\ Moved(p, "undone", proc[p].at)
      /\ marked' = IF proc[p].at = Last /\ IsDir(b) THEN marked \cup {b} ELSE marked
  BY Parts, <1>s, GoDoes DEF Undo, kept, bounds
<1>1. Shapes'
  <2>1. ASSUME NEW c \in Ids PROVE TreeFits(c)'
    BY Parts, LastIs, <1>m, <1>o, <1>e, <1>s DEF Shapes, TreeFits, Places, Moved, OnlyProc
  <2>2. ASSUME NEW c \in Ids PROVE JobFits(c)'
    BY Parts, LastIs, <1>m, <1>o, <1>e, <1>s DEF Shapes, JobFits, JobStates, Moved, OnlyProc
  <2>3. ASSUME NEW q \in Procs PROVE ProcFits(q)'
    BY Parts, LastIs, <1>m, <1>o, <1>e, <1>s DEF Shapes, ProcFits, Moved, OnlyProc
  <2> QED
    BY Parts, LastIs, <1>m, <1>o, <1>e, <1>s, <2>1, <2>2, <2>3 DEF Shapes, Moved, OnlyProc
<1>2. Alone'
  BY Parts, LastIs, <1>m, <1>o, <1>e, <1>s DEF Alone, Moved, OnlyProc
<1>3. ASSUME NEW q \in Procs
      PROVE  (ModeFits(q) /\ OwnerFits(q) /\ ListFits(q) /\ UseFits(q) /\ PlaceFits(q) /\ FoundFits(q))'
  <2>1. ModeFits(q)'
    BY Parts, LastIs, <1>m, <1>o, <1>e, <1>s DEF ModeFits, Ahead, Back, Evicting, Moved, OnlyProc
  <2>2. OwnerFits(q)'
    BY Parts, LastIs, <1>m, <1>o, <1>e, <1>s DEF OwnerFits, ModeFits, Moved, OnlyProc
  <2>3. ListFits(q)'
    BY Parts, LastIs, <1>m, <1>o, <1>e, <1>s DEF ListFits, Resolving, OwnerFits, Shapes, ProcFits,
       Moved, OnlyProc
  <2>4. UseFits(q)'
    BY Parts, LastIs, <1>m, <1>o, <1>e, <1>s DEF UseFits, ModeFits, Evicting, Moved, OnlyProc
  <2>5. PlaceFits(q)'
    BY Parts, LastIs, <1>m, <1>o, <1>e, <1>s DEF PlaceFits, Ahead, Back, Moved, OnlyProc
  <2>6. FoundFits(q)'
    BY Parts, LastIs, <1>m, <1>o, <1>e, <1>s DEF FoundFits, ModeFits, Evicting, IsBuilt, IsDir,
       UseFits, Moved, OnlyProc
  <2> QED
    BY <2>1, <2>2, <2>3, <2>4, <2>5, <2>6
<1>4. ASSUME NEW c \in Ids PROVE RowFits(c)'
  BY Parts, LastIs, <1>m, <1>o, <1>e, <1>s DEF RowFits, OwnerFits, Moved, OnlyProc
<1>5. ASSUME NEW c \in Ids, c \notin crossed'
      PROVE  (Prefix(c) /\ LegacyFits(c) /\ ScratchFits(c) /\ GoneFits(c))'
  <2>1. Prefix(c)'
    BY Parts, LastIs, <1>m, <1>o, <1>e, <1>s, <1>5 DEF Prefix, Covered, Passed, Moved, OnlyProc
  <2>2. LegacyFits(c)'
    BY Parts, LastIs, <1>m, <1>o, <1>e, <1>s, <1>5 DEF LegacyFits, Moved, OnlyProc
  <2>3. ScratchFits(c)'
    BY Parts, LastIs, <1>m, <1>o, <1>e, <1>s, <1>5 DEF ScratchFits, Moved, OnlyProc
  <2>4. GoneFits(c)'
    BY Parts, LastIs, <1>m, <1>o, <1>e, <1>s, <1>5 DEF GoneFits, Covered, Passed, UseFits,
       Evicting, Moved, OnlyProc
  <2> QED
    BY <2>1, <2>2, <2>3, <2>4
<1>6. ASSUME NEW q \in Procs, Base(q)' \notin crossed' PROVE StepsFit(q)'
  BY Parts, LastIs, <1>m, <1>o, <1>e, <1>s, <1>6 DEF StepsFit, ModeFits, Covered, Passed, Ahead,
     Back, Moved, OnlyProc
<1>7. ASSUME NEW c \in Ids, c \notin (crossed \cup torn)' PROVE (DidFits(c) /\ BuiltFits(c))'
  <2>1. DidFits(c)'
    BY Parts, LastIs, <1>m, <1>o, <1>e, <1>s, <1>7 DEF DidFits, Did, Moved, OnlyProc
  <2>2. BuiltFits(c)'
    BY Parts, LastIs, <1>m, <1>o, <1>e, <1>s, <1>7 DEF BuiltFits, Finished, IsBuilt, IsDir,
       RowFits, Moved, OnlyProc
  <2> QED
    BY <2>1, <2>2
<1>8. ASSUME NEW q \in Procs, (Base(q) \notin crossed \cup torn)' PROVE ActFits(q)'
  BY Parts, LastIs, <1>m, <1>o, <1>e, <1>s, <1>8 DEF ActFits, ModeFits, Did, IsDir, Ahead, Back,
     Moved, OnlyProc
<1>9. HomesFit'
  BY Parts, LastIs, <1>m, <1>o, <1>e, <1>s DEF HomesFit, HomeIsReady, Moved, OnlyProc
<1> QED
  BY <1>1, <1>2, <1>3, <1>4, <1>5, <1>6, <1>7, <1>8, <1>9 DEF IInv, KeepInv, DoneInv, Kept

(* The directory of a build is being taken away. *)
LEMMA UnmakeKeeps ==
    ASSUME IInv, NEW p \in Procs, Unmake(p)
    PROVE  IInv'
<1> USE DEF Base, Drives
<1>m. proc[p].phase = "undo" /\ proc[p].phase \in Back /\ proc[p].at # 0 /\ proc[p].at \in job[proc[p].base].applied
  BY Parts DEF Unmake, Undoing, Back
<1> PICK b \in Ids : b = proc[p].base
  BY <1>m, AtUndo
<1>o. /\ proc[p].mode = "run" /\ row[b] = NoKey /\ proc[p].at \in 0..Last
      /\ job[b].state = "running" /\ job[b].owner = p
      /\ \A q \in Procs \ {p} : ~(proc[q].mode # "none" /\ proc[q].base = b)
      /\ \A q \in Procs : proc[q].phase \in {"found", "home"} \cup Evicting => proc[q].base # b
      /\ b \notin crossed =>
             /\ disk[b].place # "legacy" /\ \A s \in scratch : s[1] # b
             /\ \A i \in job[b].applied : i \in 1..Last /\ i <= proc[p].at
             /\ \A i \in 1..Last : i <= proc[p].at => Covered(b, i)
  BY <1>m, AtUndo

<1>s. proc[p].at = 1
  BY Parts, <1>m, <1>o, StepKinds DEF Unmake, Step
<1>e. /\ UNCHANGED <<row, marked, job, drawn, crossed, torn, excl, homes>>
      /\ Moved(p, "unmaking", 1) /\ scratch' = {s \in scratch : s[1] # b}
      /\ OnlyTree(b) /\ disk'[b].has = disk[b].has
      /\ disk'[b].place = IF IsDir(b) THEN "part" ELSE disk[b].place
  <2>1. /\ UNCHANGED <<row, marked, job, drawn, crossed, torn, excl, homes>>
        /\ Go(p, "unmaking") /\ scratch' = {s \in scratch : s[1] # b}
        /\ disk' = IF IsDir(b) THEN [disk EXCEPT ![b].place = "part"] ELSE disk
    BY DEF Unmake, kept, bounds
  <2>2. OnlyTree(b) /\ disk'[b].has = disk[b].has
        /\ disk'[b].place = IF IsDir(b) THEN "part" ELSE disk[b].place
    <3>1. CASE IsDir(b)
      <4>1. SetPlace(b, "part")
        BY <2>1, <3>1 DEF SetPlace
      <4>2. OnlyTree(b) /\ disk'[b].has = disk[b].has /\ disk'[b].place = "part"
        BY Parts, <4>1, PlaceDoes
      <4> QED
        BY <3>1, <4>2
    <3>2. CASE ~IsDir(b)
      BY Parts, <2>1, <3>2 DEF OnlyTree, Shapes, TreeFits
    <3> QED
      BY <3>1, <3>2
  <2> QED
    BY Parts, <1>s, <2>1, <2>2, GoDoes
<1>1. Shapes'
  <2>1. ASSUME NEW c \in Ids PROVE TreeFits(c)'
    BY Parts, LastIs, <1>m, <1>o, <1>e, <1>s DEF Shapes, TreeFits, Places, Moved, OnlyTree,
       OnlyProc
  <2>2. ASSUME NEW c \in Ids PROVE JobFits(c)'
    BY Parts, LastIs, <1>m, <1>o, <1>e, <1>s DEF Shapes, JobFits, JobStates, Moved, OnlyTree,
       OnlyProc
  <2>3. ASSUME NEW q \in Procs PROVE ProcFits(q)'
    BY Parts, LastIs, <1>m, <1>o, <1>e, <1>s DEF Shapes, ProcFits, Moved, OnlyTree, OnlyProc
  <2> QED
    BY Parts, LastIs, <1>m, <1>o, <1>e, <1>s, <2>1, <2>2, <2>3 DEF Shapes, Moved, OnlyTree,
       OnlyProc
<1>2. Alone'
  BY Parts, LastIs, <1>m, <1>o, <1>e, <1>s DEF Alone, Moved, OnlyTree, OnlyProc
<1>3. ASSUME NEW q \in Procs
      PROVE  (ModeFits(q) /\ OwnerFits(q) /\ ListFits(q) /\ UseFits(q) /\ PlaceFits(q) /\ FoundFits(q))'
  <2>1. ModeFits(q)'
    BY Parts, LastIs, <1>m, <1>o, <1>e, <1>s DEF ModeFits, Ahead, Back, Evicting, Moved, OnlyTree,
       OnlyProc
  <2>2. OwnerFits(q)'
    BY Parts, LastIs, <1>m, <1>o, <1>e, <1>s DEF OwnerFits, ModeFits, Moved, OnlyTree, OnlyProc
  <2>3. ListFits(q)'
    BY Parts, LastIs, <1>m, <1>o, <1>e, <1>s DEF ListFits, Resolving, OwnerFits, Shapes, ProcFits,
       Moved, OnlyTree, OnlyProc
  <2>4. UseFits(q)'
    BY Parts, LastIs, <1>m, <1>o, <1>e, <1>s DEF UseFits, ModeFits, Evicting, Moved, OnlyTree,
       OnlyProc
  <2>5. PlaceFits(q)'
    BY Parts, LastIs, <1>m, <1>o, <1>e, <1>s DEF PlaceFits, Ahead, Back, Moved, OnlyTree, OnlyProc
  <2>6. FoundFits(q)'
    BY Parts, LastIs, <1>m, <1>o, <1>e, <1>s DEF FoundFits, ModeFits, Evicting, IsBuilt, IsDir,
       UseFits, Moved, OnlyTree, OnlyProc
  <2> QED
    BY <2>1, <2>2, <2>3, <2>4, <2>5, <2>6
<1>4. ASSUME NEW c \in Ids PROVE RowFits(c)'
  BY Parts, LastIs, <1>m, <1>o, <1>e, <1>s DEF RowFits, OwnerFits, Moved, OnlyTree, OnlyProc
<1>5. ASSUME NEW c \in Ids, c \notin crossed'
      PROVE  (Prefix(c) /\ LegacyFits(c) /\ ScratchFits(c) /\ GoneFits(c))'
  <2>1. Prefix(c)'
    BY Parts, LastIs, <1>m, <1>o, <1>e, <1>s, <1>5 DEF Prefix, Covered, Passed, Moved, OnlyTree,
       OnlyProc
  <2>2. LegacyFits(c)'
    BY Parts, LastIs, <1>m, <1>o, <1>e, <1>s, <1>5 DEF LegacyFits, Moved, OnlyTree, OnlyProc
  <2>3. ScratchFits(c)'
    BY Parts, LastIs, <1>m, <1>o, <1>e, <1>s, <1>5 DEF ScratchFits, Moved, OnlyTree, OnlyProc
  <2>4. GoneFits(c)'
    <3>1. CASE c # b
      BY Parts, LastIs, <1>m, <1>o, <1>e, <1>s, <1>5, <3>1 DEF GoneFits, Covered, Passed, UseFits,
         Evicting, IsDir, ModeFits, Ahead, Back, Moved, OnlyTree, OnlyProc
    <3>2. CASE c = b
      BY Parts, LastIs, <1>m, <1>o, <1>e, <1>s, <1>5, <3>2 DEF GoneFits, Covered, Passed, UseFits,
         Evicting, IsDir, ModeFits, Ahead, Back, Moved, OnlyTree, OnlyProc
    <3> QED
      BY <3>1, <3>2
  <2> QED
    BY <2>1, <2>2, <2>3, <2>4
<1>6. ASSUME NEW q \in Procs, Base(q)' \notin crossed' PROVE StepsFit(q)'
  BY Parts, LastIs, <1>m, <1>o, <1>e, <1>s, <1>6 DEF StepsFit, ModeFits, Covered, Passed, Ahead,
     Back, Moved, OnlyTree, OnlyProc
<1>7. ASSUME NEW c \in Ids, c \notin (crossed \cup torn)' PROVE (DidFits(c) /\ BuiltFits(c))'
  <2>1. DidFits(c)'
    BY Parts, LastIs, <1>m, <1>o, <1>e, <1>s, <1>7 DEF DidFits, Did, Moved, OnlyTree, OnlyProc
  <2>2. BuiltFits(c)'
    <3>1. CASE c # b
      BY Parts, LastIs, <1>m, <1>o, <1>e, <1>s, <1>7, <3>1 DEF BuiltFits, Finished, IsBuilt,
         IsDir, RowFits, ActFits, Back, Moved, OnlyTree, OnlyProc
    <3>2. CASE c = b
      BY Parts, LastIs, <1>m, <1>o, <1>e, <1>s, <1>7, <3>2 DEF BuiltFits, Finished, IsBuilt,
         IsDir, RowFits, ActFits, Back, Moved, OnlyTree, OnlyProc
    <3> QED
      BY <3>1, <3>2
  <2> QED
    BY <2>1, <2>2
<1>8. ASSUME NEW q \in Procs, (Base(q) \notin crossed \cup torn)' PROVE ActFits(q)'
  BY Parts, LastIs, <1>m, <1>o, <1>e, <1>s, <1>8 DEF ActFits, ModeFits, Did, IsDir, Ahead, Back,
     Moved, OnlyTree, OnlyProc
<1>9. HomesFit'
  BY Parts, LastIs, <1>m, <1>o, <1>e, <1>s DEF HomesFit, HomeIsReady, Moved, OnlyTree, OnlyProc
<1> QED
  BY <1>1, <1>2, <1>3, <1>4, <1>5, <1>6, <1>7, <1>8, <1>9 DEF IInv, KeepInv, DoneInv, Kept

(* The directory of a build is away. *)
LEMMA UnmadeKeeps ==
    ASSUME IInv, NEW p \in Procs, Unmade(p)
    PROVE  IInv'
<1> USE DEF Base, Drives
<1>m. proc[p].phase = "unmaking" /\ proc[p].phase \in Back /\ proc[p].at = 1
  BY Parts DEF Unmade, PlaceFits, Undoing, Back
<1> PICK b \in Ids : b = proc[p].base
  BY <1>m, AtUndo
<1>o. /\ proc[p].mode = "run" /\ row[b] = NoKey /\ proc[p].at \in 0..Last
      /\ job[b].state = "running" /\ job[b].owner = p
      /\ \A q \in Procs \ {p} : ~(proc[q].mode # "none" /\ proc[q].base = b)
      /\ \A q \in Procs : proc[q].phase \in {"found", "home"} \cup Evicting => proc[q].base # b
      /\ b \notin crossed =>
             /\ disk[b].place # "legacy" /\ \A s \in scratch : s[1] # b
             /\ \A i \in job[b].applied : i \in 1..Last /\ i <= proc[p].at
             /\ \A i \in 1..Last : i <= proc[p].at => Covered(b, i)
  BY <1>m, AtUndo

<1>e. /\ UNCHANGED <<row, scratch, job, drawn, crossed, torn, excl, homes>>
      /\ Moved(p, "undone", 1) /\ marked' = marked \ {b}
      /\ OnlyTree(b) /\ disk'[b].place = "none" /\ DOMAIN disk'[b].has = Installs
  <2>1. /\ UNCHANGED <<row, scratch, job, drawn, crossed, torn, excl, homes>>
        /\ Go(p, "undone") /\ marked' = marked \ {b} /\ disk' = [disk EXCEPT ![b] = NoTree]
    BY DEF Unmade, kept, bounds
  <2>2. DOMAIN NoTree = TreeFields /\ NoTree.place = "none" /\ DOMAIN NoTree.has = Installs
    BY DEF NoTree, TreeFields
  <2>3. OnlyTree(b) /\ disk'[b] = NoTree
    BY Parts, <2>1, <2>2 DEF Shapes, OnlyTree
  <2> QED
    BY Parts, <1>m, <2>1, <2>2, <2>3, GoDoes
<1>1. Shapes'
  <2>1. ASSUME NEW c \in Ids PROVE TreeFits(c)'
    BY Parts, LastIs, <1>m, <1>o, <1>e DEF Shapes, TreeFits, Places, Moved, OnlyTree, OnlyProc
  <2>2. ASSUME NEW c \in Ids PROVE JobFits(c)'
    BY Parts, LastIs, <1>m, <1>o, <1>e DEF Shapes, JobFits, JobStates, Moved, OnlyTree, OnlyProc
  <2>3. ASSUME NEW q \in Procs PROVE ProcFits(q)'
    BY Parts, LastIs, <1>m, <1>o, <1>e DEF Shapes, ProcFits, Moved, OnlyTree, OnlyProc
  <2> QED
    BY Parts, LastIs, <1>m, <1>o, <1>e, <2>1, <2>2, <2>3 DEF Shapes, Moved, OnlyTree, OnlyProc
<1>2. Alone'
  BY Parts, LastIs, <1>m, <1>o, <1>e DEF Alone, Moved, OnlyTree, OnlyProc
<1>3. ASSUME NEW q \in Procs
      PROVE  (ModeFits(q) /\ OwnerFits(q) /\ ListFits(q) /\ UseFits(q) /\ PlaceFits(q) /\ FoundFits(q))'
  <2>1. ModeFits(q)'
    BY Parts, LastIs, <1>m, <1>o, <1>e DEF ModeFits, Ahead, Back, Evicting, Moved, OnlyTree,
       OnlyProc
  <2>2. OwnerFits(q)'
    BY Parts, LastIs, <1>m, <1>o, <1>e DEF OwnerFits, ModeFits, Moved, OnlyTree, OnlyProc
  <2>3. ListFits(q)'
    BY Parts, LastIs, <1>m, <1>o, <1>e DEF ListFits, Resolving, OwnerFits, Shapes, ProcFits,
       Moved, OnlyTree, OnlyProc
  <2>4. UseFits(q)'
    BY Parts, LastIs, <1>m, <1>o, <1>e DEF UseFits, ModeFits, Evicting, Moved, OnlyTree, OnlyProc
  <2>5. PlaceFits(q)'
    BY Parts, LastIs, <1>m, <1>o, <1>e DEF PlaceFits, Ahead, Back, Moved, OnlyTree, OnlyProc
  <2>6. FoundFits(q)'
    BY Parts, LastIs, <1>m, <1>o, <1>e DEF FoundFits, ModeFits, Evicting, IsBuilt, IsDir, UseFits,
       Moved, OnlyTree, OnlyProc
  <2> QED
    BY <2>1, <2>2, <2>3, <2>4, <2>5, <2>6
<1>4. ASSUME NEW c \in Ids PROVE RowFits(c)'
  BY Parts, LastIs, <1>m, <1>o, <1>e DEF RowFits, OwnerFits, Moved, OnlyTree, OnlyProc
<1>5. ASSUME NEW c \in Ids, c \notin crossed'
      PROVE  (Prefix(c) /\ LegacyFits(c) /\ ScratchFits(c) /\ GoneFits(c))'
  <2>1. Prefix(c)'
    BY Parts, LastIs, <1>m, <1>o, <1>e, <1>5 DEF Prefix, Covered, Passed, Moved, OnlyTree,
       OnlyProc
  <2>2. LegacyFits(c)'
    BY Parts, LastIs, <1>m, <1>o, <1>e, <1>5 DEF LegacyFits, Moved, OnlyTree, OnlyProc
  <2>3. ScratchFits(c)'
    BY Parts, LastIs, <1>m, <1>o, <1>e, <1>5 DEF ScratchFits, Moved, OnlyTree, OnlyProc
  <2>4. GoneFits(c)'
    BY Parts, LastIs, <1>m, <1>o, <1>e, <1>5 DEF GoneFits, Covered, Passed, UseFits, Evicting,
       Moved, OnlyTree, OnlyProc
  <2> QED
    BY <2>1, <2>2, <2>3, <2>4
<1>6. ASSUME NEW q \in Procs, Base(q)' \notin crossed' PROVE StepsFit(q)'
  BY Parts, LastIs, <1>m, <1>o, <1>e, <1>6 DEF StepsFit, ModeFits, Covered, Passed, Ahead, Back,
     Moved, OnlyTree, OnlyProc
<1>7. ASSUME NEW c \in Ids, c \notin (crossed \cup torn)' PROVE (DidFits(c) /\ BuiltFits(c))'
  <2>1. DidFits(c)'
    BY Parts, LastIs, <1>m, <1>o, <1>e, <1>7 DEF DidFits, Did, Moved, OnlyTree, OnlyProc
  <2>2. BuiltFits(c)'
    BY Parts, LastIs, <1>m, <1>o, <1>e, <1>7 DEF BuiltFits, Finished, IsBuilt, IsDir, RowFits,
       Moved, OnlyTree, OnlyProc
  <2> QED
    BY <2>1, <2>2
<1>8. ASSUME NEW q \in Procs, (Base(q) \notin crossed \cup torn)' PROVE ActFits(q)'
  BY Parts, LastIs, <1>m, <1>o, <1>e, <1>8 DEF ActFits, ModeFits, Did, IsDir, Ahead, Back, Moved,
     OnlyTree, OnlyProc
<1>9. HomesFit'
  BY Parts, LastIs, <1>m, <1>o, <1>e DEF HomesFit, HomeIsReady, Moved, OnlyTree, OnlyProc
<1> QED
  BY <1>1, <1>2, <1>3, <1>4, <1>5, <1>6, <1>7, <1>8, <1>9 DEF IInv, KeepInv, DoneInv, Kept

(* A step is marked undone. *)
LEMMA MarkUndoneKeeps ==
    ASSUME IInv, NEW p \in Procs, MarkUndone(p)
    PROVE  IInv'
<1> USE DEF Base, Drives
<1>m. proc[p].phase = "undone" /\ proc[p].phase \in Back /\ proc[p].at # 0
  BY Parts, StepsAre DEF MarkUndone, PlaceFits, Undoing, Back
<1> PICK b \in Ids : b = proc[p].base
  BY <1>m, AtUndo
<1>o. /\ proc[p].mode = "run" /\ row[b] = NoKey /\ proc[p].at \in 0..Last
      /\ job[b].state = "running" /\ job[b].owner = p
      /\ \A q \in Procs \ {p} : ~(proc[q].mode # "none" /\ proc[q].base = b)
      /\ \A q \in Procs : proc[q].phase \in {"found", "home"} \cup Evicting => proc[q].base # b
      /\ b \notin crossed =>
             /\ disk[b].place # "legacy" /\ \A s \in scratch : s[1] # b
             /\ \A i \in job[b].applied : i \in 1..Last /\ i <= proc[p].at
             /\ \A i \in 1..Last : i <= proc[p].at => Covered(b, i)
  BY <1>m, AtUndo

<1>e. /\ UNCHANGED <<row, disk, marked, scratch, drawn, crossed, torn, excl, homes>>
      /\ proc[p].at \in 1..Last
      /\ OnlyJob(b) /\ job'[b].state = job[b].state /\ job'[b].owner = job[b].owner
      /\ job'[b].applied = job[b].applied \ {proc[p].at}
      /\ Moved(p, "undo", proc[p].at - 1)
  <2>1. /\ SetApplied(b, job[b].applied \ {proc[p].at})
        /\ proc' = [proc EXCEPT ![p].phase = "undo", ![p].at = proc[p].at - 1]
    BY DEF SetApplied, MarkUndone
  <2>2. OnlyJob(b) /\ job'[b].state = job[b].state /\ job'[b].owner = job[b].owner
        /\ job'[b].applied = job[b].applied \ {proc[p].at}
    BY Parts, <2>1, AppliedDoes
  <2>3. Moved(p, "undo", proc[p].at - 1)
    BY Parts, <2>1, MoveDoes
  <2> QED
    BY <1>m, <1>o, <2>2, <2>3 DEF MarkUndone, world, kept, bounds
<1>1. Shapes'
  <2>1. ASSUME NEW c \in Ids PROVE TreeFits(c)'
    BY Parts, LastIs, <1>m, <1>o, <1>e DEF Shapes, TreeFits, Places, Moved, OnlyJob, OnlyProc
  <2>2. ASSUME NEW c \in Ids PROVE JobFits(c)'
    BY Parts, LastIs, <1>m, <1>o, <1>e DEF Shapes, JobFits, JobStates, Moved, OnlyJob, OnlyProc
  <2>3. ASSUME NEW q \in Procs PROVE ProcFits(q)'
    BY Parts, LastIs, <1>m, <1>o, <1>e DEF Shapes, ProcFits, Moved, OnlyJob, OnlyProc
  <2> QED
    BY Parts, LastIs, <1>m, <1>o, <1>e, <2>1, <2>2, <2>3 DEF Shapes, Moved, OnlyJob, OnlyProc
<1>2. Alone'
  BY Parts, LastIs, <1>m, <1>o, <1>e DEF Alone, Moved, OnlyJob, OnlyProc
<1>3. ASSUME NEW q \in Procs
      PROVE  (ModeFits(q) /\ OwnerFits(q) /\ ListFits(q) /\ UseFits(q) /\ PlaceFits(q) /\ FoundFits(q))'
  <2>1. ModeFits(q)'
    BY Parts, LastIs, <1>m, <1>o, <1>e DEF ModeFits, Ahead, Back, Evicting, Moved, OnlyJob,
       OnlyProc
  <2>2. OwnerFits(q)'
    BY Parts, LastIs, <1>m, <1>o, <1>e DEF OwnerFits, ModeFits, Moved, OnlyJob, OnlyProc
  <2>3. ListFits(q)'
    BY Parts, LastIs, <1>m, <1>o, <1>e DEF ListFits, Resolving, OwnerFits, Shapes, ProcFits,
       Moved, OnlyJob, OnlyProc
  <2>4. UseFits(q)'
    BY Parts, LastIs, <1>m, <1>o, <1>e DEF UseFits, ModeFits, Evicting, Moved, OnlyJob, OnlyProc
  <2>5. PlaceFits(q)'
    BY Parts, LastIs, <1>m, <1>o, <1>e DEF PlaceFits, Ahead, Back, Moved, OnlyJob, OnlyProc
  <2>6. FoundFits(q)'
    BY Parts, LastIs, <1>m, <1>o, <1>e DEF FoundFits, ModeFits, Evicting, IsBuilt, IsDir, UseFits,
       Moved, OnlyJob, OnlyProc
  <2> QED
    BY <2>1, <2>2, <2>3, <2>4, <2>5, <2>6
<1>4. ASSUME NEW c \in Ids PROVE RowFits(c)'
  BY Parts, LastIs, <1>m, <1>o, <1>e DEF RowFits, OwnerFits, Moved, OnlyJob, OnlyProc
<1>5. ASSUME NEW c \in Ids, c \notin crossed'
      PROVE  (Prefix(c) /\ LegacyFits(c) /\ ScratchFits(c) /\ GoneFits(c))'
  <2>1. Prefix(c)'
    BY Parts, LastIs, <1>m, <1>o, <1>e, <1>5 DEF Prefix, Covered, Passed, Moved, OnlyJob, OnlyProc
  <2>2. LegacyFits(c)'
    BY Parts, LastIs, <1>m, <1>o, <1>e, <1>5 DEF LegacyFits, Moved, OnlyJob, OnlyProc
  <2>3. ScratchFits(c)'
    BY Parts, LastIs, <1>m, <1>o, <1>e, <1>5 DEF ScratchFits, Moved, OnlyJob, OnlyProc
  <2>4. GoneFits(c)'
    BY Parts, LastIs, <1>m, <1>o, <1>e, <1>5 DEF GoneFits, Covered, Passed, UseFits, Evicting,
       Moved, OnlyJob, OnlyProc
  <2> QED
    BY <2>1, <2>2, <2>3, <2>4
<1>6. ASSUME NEW q \in Procs, Base(q)' \notin crossed' PROVE StepsFit(q)'
  BY Parts, LastIs, <1>m, <1>o, <1>e, <1>6 DEF StepsFit, ModeFits, Covered, Passed, Ahead, Back,
     Moved, OnlyJob, OnlyProc
<1>7. ASSUME NEW c \in Ids, c \notin (crossed \cup torn)' PROVE (DidFits(c) /\ BuiltFits(c))'
  <2>1. DidFits(c)'
    BY Parts, LastIs, <1>m, <1>o, <1>e, <1>7 DEF DidFits, Did, Moved, OnlyJob, OnlyProc
  <2>2. BuiltFits(c)'
    BY Parts, LastIs, <1>m, <1>o, <1>e, <1>7 DEF BuiltFits, Finished, IsBuilt, IsDir, RowFits,
       Moved, OnlyJob, OnlyProc
  <2> QED
    BY <2>1, <2>2
<1>8. ASSUME NEW q \in Procs, (Base(q) \notin crossed \cup torn)' PROVE ActFits(q)'
  BY Parts, LastIs, <1>m, <1>o, <1>e, <1>8 DEF ActFits, ModeFits, Did, IsDir, Ahead, Back, Moved,
     OnlyJob, OnlyProc
<1>9. HomesFit'
  BY Parts, LastIs, <1>m, <1>o, <1>e DEF HomesFit, HomeIsReady, Moved, OnlyJob, OnlyProc
<1> QED
  BY <1>1, <1>2, <1>3, <1>4, <1>5, <1>6, <1>7, <1>8, <1>9 DEF IInv, KeepInv, DoneInv, Kept

(* A run that is undone is closed. *)
LEMMA CloseUndoneKeeps ==
    ASSUME IInv, NEW p \in Procs, CloseUndone(p)
    PROVE  IInv'
<1> USE DEF Base, Drives
<1>m. proc[p].phase = "undo" /\ proc[p].phase \in Back /\ proc[p].at = 0
  BY Parts DEF CloseUndone, Undoing, Back
<1> PICK b \in Ids : b = proc[p].base
  BY <1>m, AtUndo
<1>o. /\ proc[p].mode = "run" /\ row[b] = NoKey /\ proc[p].at \in 0..Last
      /\ job[b].state = "running" /\ job[b].owner = p
      /\ \A q \in Procs \ {p} : ~(proc[q].mode # "none" /\ proc[q].base = b)
      /\ \A q \in Procs : proc[q].phase \in {"found", "home"} \cup Evicting => proc[q].base # b
      /\ b \notin crossed =>
             /\ disk[b].place # "legacy" /\ \A s \in scratch : s[1] # b
             /\ \A i \in job[b].applied : i \in 1..Last /\ i <= proc[p].at
             /\ \A i \in 1..Last : i <= proc[p].at => Covered(b, i)
  BY <1>m, AtUndo
<1>e. /\ UNCHANGED <<row, disk, marked, scratch, drawn, crossed, torn, excl, homes>>
      /\ OnlyJob(b) /\ job'[b].state = "rolled_back" /\ job'[b].owner = job[b].owner
      /\ job'[b].applied = job[b].applied
      /\ Ended(p)
  <2>1. SetState(b, "rolled_back") /\ Stop(p, "error")
    BY DEF SetState, CloseUndone
  <2>2. OnlyJob(b) /\ job'[b].state = "rolled_back" /\ job'[b].owner = job[b].owner
        /\ job'[b].applied = job[b].applied
    BY Parts, <2>1, StateDoes
  <2> QED
    BY Parts, <2>1, <2>2, StopDoes DEF CloseUndone, world, kept, bounds
<1>s. \A i \in 1..Last : ~(i <= 0)
  OBVIOUS
<1>1. Shapes'
  <2>1. ASSUME NEW c \in Ids PROVE TreeFits(c)'
    BY Parts, LastIs, <1>m, <1>o, <1>e, <1>s DEF Shapes, TreeFits, Places, Ended, OnlyJob,
       OnlyProc
  <2>2. ASSUME NEW c \in Ids PROVE JobFits(c)'
    BY Parts, LastIs, <1>m, <1>o, <1>e, <1>s DEF Shapes, JobFits, JobStates, Ended, OnlyJob,
       OnlyProc
  <2>3. ASSUME NEW q \in Procs PROVE ProcFits(q)'
    BY Parts, LastIs, <1>m, <1>o, <1>e, <1>s DEF Shapes, ProcFits, Ended, OnlyJob, OnlyProc
  <2> QED
    BY Parts, LastIs, <1>m, <1>o, <1>e, <1>s, <2>1, <2>2, <2>3 DEF Shapes, Ended, OnlyJob,
       OnlyProc
<1>2. Alone'
  BY Parts, LastIs, <1>m, <1>o, <1>e, <1>s DEF Alone, Ended, OnlyJob, OnlyProc
<1>3. ASSUME NEW q \in Procs
      PROVE  (ModeFits(q) /\ OwnerFits(q) /\ ListFits(q) /\ UseFits(q) /\ PlaceFits(q) /\ FoundFits(q))'
  <2>1. ModeFits(q)'
    BY Parts, LastIs, <1>m, <1>o, <1>e, <1>s DEF ModeFits, Ahead, Back, Evicting, Ended, OnlyJob,
       OnlyProc
  <2>2. OwnerFits(q)'
    BY Parts, LastIs, <1>m, <1>o, <1>e, <1>s, GoneIsNobody DEF OwnerFits, ModeFits, Ended,
       OnlyJob, OnlyProc
  <2>3. ListFits(q)'
    BY Parts, LastIs, <1>m, <1>o, <1>e, <1>s, GoneIsNobody DEF ListFits, Resolving, OwnerFits,
       Shapes, ProcFits, Ended, OnlyJob, OnlyProc
  <2>4. UseFits(q)'
    BY Parts, LastIs, <1>m, <1>o, <1>e, <1>s DEF UseFits, ModeFits, Evicting, Ended, OnlyJob,
       OnlyProc
  <2>5. PlaceFits(q)'
    BY Parts, LastIs, <1>m, <1>o, <1>e, <1>s DEF PlaceFits, Ahead, Back, Ended, OnlyJob, OnlyProc
  <2>6. FoundFits(q)'
    BY Parts, LastIs, <1>m, <1>o, <1>e, <1>s DEF FoundFits, ModeFits, Evicting, IsBuilt, IsDir,
       UseFits, Ended, OnlyJob, OnlyProc
  <2> QED
    BY <2>1, <2>2, <2>3, <2>4, <2>5, <2>6
<1>4. ASSUME NEW c \in Ids PROVE RowFits(c)'
  BY Parts, LastIs, <1>m, <1>o, <1>e, <1>s DEF RowFits, OwnerFits, Ended, OnlyJob, OnlyProc
<1>5. ASSUME NEW c \in Ids, c \notin crossed'
      PROVE  (Prefix(c) /\ LegacyFits(c) /\ ScratchFits(c) /\ GoneFits(c))'
  <2>1. Prefix(c)'
    BY Parts, LastIs, <1>m, <1>o, <1>e, <1>s, <1>5 DEF Prefix, Covered, Passed, Ended, OnlyJob,
       OnlyProc
  <2>2. LegacyFits(c)'
    BY Parts, LastIs, <1>m, <1>o, <1>e, <1>s, <1>5 DEF LegacyFits, Ended, OnlyJob, OnlyProc
  <2>3. ScratchFits(c)'
    BY Parts, LastIs, <1>m, <1>o, <1>e, <1>s, <1>5 DEF ScratchFits, Ended, OnlyJob, OnlyProc
  <2>4. GoneFits(c)'
    BY Parts, LastIs, <1>m, <1>o, <1>e, <1>s, <1>5 DEF GoneFits, Covered, Passed, UseFits,
       Evicting, Ended, OnlyJob, OnlyProc
  <2> QED
    BY <2>1, <2>2, <2>3, <2>4
<1>6. ASSUME NEW q \in Procs, Base(q)' \notin crossed' PROVE StepsFit(q)'
  BY Parts, LastIs, <1>m, <1>o, <1>e, <1>s, <1>6 DEF StepsFit, ModeFits, Covered, Passed, Ahead,
     Back, Ended, OnlyJob, OnlyProc
<1>7. ASSUME NEW c \in Ids, c \notin (crossed \cup torn)' PROVE (DidFits(c) /\ BuiltFits(c))'
  <2>1. DidFits(c)'
    BY Parts, LastIs, <1>m, <1>o, <1>e, <1>s, <1>7 DEF DidFits, Did, Ended, OnlyJob, OnlyProc
  <2>2. BuiltFits(c)'
    BY Parts, LastIs, <1>m, <1>o, <1>e, <1>s, <1>7 DEF BuiltFits, Finished, IsBuilt, IsDir,
       RowFits, Ended, OnlyJob, OnlyProc
  <2> QED
    BY <2>1, <2>2
<1>8. ASSUME NEW q \in Procs, (Base(q) \notin crossed \cup torn)' PROVE ActFits(q)'
  BY Parts, LastIs, <1>m, <1>o, <1>e, <1>s, <1>8 DEF ActFits, ModeFits, Did, IsDir, Ahead, Back,
     Ended, OnlyJob, OnlyProc
<1>9. HomesFit'
  BY Parts, LastIs, <1>m, <1>o, <1>e, <1>s DEF HomesFit, HomeIsReady, Ended, OnlyJob, OnlyProc
<1> QED
  BY <1>1, <1>2, <1>3, <1>4, <1>5, <1>6, <1>7, <1>8, <1>9 DEF IInv, KeepInv, DoneInv, Kept

(* An undo fails. *)
LEMMA UndoFailsKeeps ==
    ASSUME IInv, NEW p \in Procs, UndoFails(p)
    PROVE  IInv'
<1> USE DEF Base, Drives
<1>m. proc[p].phase \in {"undo", "unmaking"} /\ proc[p].phase \in Back /\ proc[p].at # 0
  BY Parts DEF UndoFails, Undoing, Back, PlaceFits
<1> PICK b \in Ids : b = proc[p].base
  BY <1>m, AtUndo
<1>o. /\ proc[p].mode = "run" /\ row[b] = NoKey /\ proc[p].at \in 0..Last
      /\ job[b].state = "running" /\ job[b].owner = p
      /\ \A q \in Procs \ {p} : ~(proc[q].mode # "none" /\ proc[q].base = b)
      /\ \A q \in Procs : proc[q].phase \in {"found", "home"} \cup Evicting => proc[q].base # b
      /\ b \notin crossed =>
             /\ disk[b].place # "legacy" /\ \A s \in scratch : s[1] # b
             /\ \A i \in job[b].applied : i \in 1..Last /\ i <= proc[p].at
             /\ \A i \in 1..Last : i <= proc[p].at => Covered(b, i)
  BY <1>m, AtUndo
<1>e. /\ UNCHANGED <<row, disk, marked, scratch, drawn, crossed, torn, excl, homes>>
      /\ OnlyJob(b) /\ job'[b].state = "stuck" /\ job'[b].owner = job[b].owner
      /\ job'[b].applied = job[b].applied
      /\ Ended(p)
  <2>1. SetState(b, "stuck") /\ Stop(p, "error")
    BY DEF SetState, UndoFails
  <2>2. OnlyJob(b) /\ job'[b].state = "stuck" /\ job'[b].owner = job[b].owner
        /\ job'[b].applied = job[b].applied
    BY Parts, <2>1, StateDoes
  <2> QED
    BY Parts, <2>1, <2>2, StopDoes DEF UndoFails, world, kept, bounds
<1>1. Shapes'
  <2>1. ASSUME NEW c \in Ids PROVE TreeFits(c)'
    BY Parts, LastIs, <1>m, <1>o, <1>e DEF Shapes, TreeFits, Places, Ended, OnlyJob, OnlyProc
  <2>2. ASSUME NEW c \in Ids PROVE JobFits(c)'
    BY Parts, LastIs, <1>m, <1>o, <1>e DEF Shapes, JobFits, JobStates, Ended, OnlyJob, OnlyProc
  <2>3. ASSUME NEW q \in Procs PROVE ProcFits(q)'
    BY Parts, LastIs, <1>m, <1>o, <1>e DEF Shapes, ProcFits, Ended, OnlyJob, OnlyProc
  <2> QED
    BY Parts, LastIs, <1>m, <1>o, <1>e, <2>1, <2>2, <2>3 DEF Shapes, Ended, OnlyJob, OnlyProc
<1>2. Alone'
  BY Parts, LastIs, <1>m, <1>o, <1>e DEF Alone, Ended, OnlyJob, OnlyProc
<1>3. ASSUME NEW q \in Procs
      PROVE  (ModeFits(q) /\ OwnerFits(q) /\ ListFits(q) /\ UseFits(q) /\ PlaceFits(q) /\ FoundFits(q))'
  <2>1. ModeFits(q)'
    BY Parts, LastIs, <1>m, <1>o, <1>e DEF ModeFits, Ahead, Back, Evicting, Ended, OnlyJob,
       OnlyProc
  <2>2. OwnerFits(q)'
    BY Parts, LastIs, <1>m, <1>o, <1>e, GoneIsNobody DEF OwnerFits, ModeFits, Ended, OnlyJob,
       OnlyProc
  <2>3. ListFits(q)'
    BY Parts, LastIs, <1>m, <1>o, <1>e, GoneIsNobody DEF ListFits, Resolving, OwnerFits, Shapes,
       ProcFits, Ended, OnlyJob, OnlyProc
  <2>4. UseFits(q)'
    BY Parts, LastIs, <1>m, <1>o, <1>e DEF UseFits, ModeFits, Evicting, Ended, OnlyJob, OnlyProc
  <2>5. PlaceFits(q)'
    BY Parts, LastIs, <1>m, <1>o, <1>e DEF PlaceFits, Ahead, Back, Ended, OnlyJob, OnlyProc
  <2>6. FoundFits(q)'
    BY Parts, LastIs, <1>m, <1>o, <1>e DEF FoundFits, ModeFits, Evicting, IsBuilt, IsDir, UseFits,
       Ended, OnlyJob, OnlyProc
  <2> QED
    BY <2>1, <2>2, <2>3, <2>4, <2>5, <2>6
<1>4. ASSUME NEW c \in Ids PROVE RowFits(c)'
  BY Parts, LastIs, <1>m, <1>o, <1>e DEF RowFits, OwnerFits, Ended, OnlyJob, OnlyProc
<1>5. ASSUME NEW c \in Ids, c \notin crossed'
      PROVE  (Prefix(c) /\ LegacyFits(c) /\ ScratchFits(c) /\ GoneFits(c))'
  <2>1. Prefix(c)'
    BY Parts, LastIs, <1>m, <1>o, <1>e, <1>5 DEF Prefix, Covered, Passed, Ended, OnlyJob, OnlyProc
  <2>2. LegacyFits(c)'
    BY Parts, LastIs, <1>m, <1>o, <1>e, <1>5 DEF LegacyFits, Ended, OnlyJob, OnlyProc
  <2>3. ScratchFits(c)'
    BY Parts, LastIs, <1>m, <1>o, <1>e, <1>5 DEF ScratchFits, Ended, OnlyJob, OnlyProc
  <2>4. GoneFits(c)'
    BY Parts, LastIs, <1>m, <1>o, <1>e, <1>5 DEF GoneFits, Covered, Passed, UseFits, Evicting,
       Ended, OnlyJob, OnlyProc
  <2> QED
    BY <2>1, <2>2, <2>3, <2>4
<1>6. ASSUME NEW q \in Procs, Base(q)' \notin crossed' PROVE StepsFit(q)'
  BY Parts, LastIs, <1>m, <1>o, <1>e, <1>6 DEF StepsFit, ModeFits, Covered, Passed, Ahead, Back,
     Ended, OnlyJob, OnlyProc
<1>7. ASSUME NEW c \in Ids, c \notin (crossed \cup torn)' PROVE (DidFits(c) /\ BuiltFits(c))'
  <2>1. DidFits(c)'
    BY Parts, LastIs, <1>m, <1>o, <1>e, <1>7 DEF DidFits, Did, Ended, OnlyJob, OnlyProc
  <2>2. BuiltFits(c)'
    BY Parts, LastIs, <1>m, <1>o, <1>e, <1>7 DEF BuiltFits, Finished, IsBuilt, IsDir, RowFits,
       Ended, OnlyJob, OnlyProc
  <2> QED
    BY <2>1, <2>2
<1>8. ASSUME NEW q \in Procs, (Base(q) \notin crossed \cup torn)' PROVE ActFits(q)'
  BY Parts, LastIs, <1>m, <1>o, <1>e, <1>8 DEF ActFits, ModeFits, Did, IsDir, Ahead, Back, Ended,
     OnlyJob, OnlyProc
<1>9. HomesFit'
  BY Parts, LastIs, <1>m, <1>o, <1>e DEF HomesFit, HomeIsReady, Ended, OnlyJob, OnlyProc
<1> QED
  BY <1>1, <1>2, <1>3, <1>4, <1>5, <1>6, <1>7, <1>8, <1>9 DEF IInv, KeepInv, DoneInv, Kept

(* When every step of a plan is on record and has been made, the directory is a *)
(* finished base.                                                               *)
LEMMA AllMakesFinished ==
    ASSUME Shapes, NEW b \in Ids, \A i \in 1..Last : Covered(b, i), \A i \in job[b].applied : Did(b, i)
    PROVE  IsBuilt(b) /\ Finished(b)
<1>1. 1 \notin LeftOut(job[b].excl) /\ 2 \notin LeftOut(job[b].excl) /\ Last \notin LeftOut(job[b].excl)
  BY LeftOutAre, StepsAre DEF Shapes, JobFits
<1>2. Did(b, 2) /\ Did(b, Last)
  BY <1>1, StepsAre DEF Covered, Passed
<1>3. ASSUME NEW m \in Installs \ job[b].excl PROVE disk[b].has[m] = job[b].key
  <2>1. PICK i \in 3..Last - 1 : Steps[i] = m
    BY StepsAre
  <2>2. i \in 1..Last /\ i \notin LeftOut(job[b].excl)
    BY <2>1, StepsAre DEF LeftOut
  <2> QED
    BY <2>1, <2>2 DEF Covered, Passed, Did
<1> QED
  BY <1>2, <1>3 DEF Did, Finished, IsBuilt, IsDir

(* A build is committed, and the process that drove it goes on. *)
Commits(p, b, base, phase) ==
    /\ UNCHANGED <<disk, marked, scratch, drawn, crossed, torn, excl, homes>>
    /\ job[b].state = "running" /\ OnlyJob(b) /\ job'[b].state = "committed"
    /\ job'[b].owner = job[b].owner /\ job'[b].applied = job[b].applied
    /\ DOMAIN row' = Ids /\ row'[b] = job[b].key /\ \A c \in Ids \ {b} : row'[c] = row[c]
    /\ OnlyProc(p) /\ proc'[p].mode = "none" /\ proc'[p].base = base /\ proc'[p].phase = phase
    /\ proc'[p].at = proc[p].at /\ proc'[p].skip = proc[p].skip /\ proc'[p].excl = proc[p].excl
    /\ proc'[p].list = proc[p].list /\ proc'[p].key = proc[p].key

(* A commit writes the row and closes the run. *)
LEMMA CommitsDoes ==
    ASSUME IInv, NEW p \in Procs, NEW b \in Ids, NEW base, NEW phase, Commit(p), b = Base(p),
           job[b].state = "running", row' = [row EXCEPT ![b] = job[b].key],
           job' = [job EXCEPT ![b].state = "committed"],
           proc' = [proc EXCEPT ![p].mode = "none", ![p].base = base, ![p].phase = phase]
    PROVE  Commits(p, b, base, phase)
<1>1. /\ OnlyJob(b) /\ job'[b].state = "committed" /\ job'[b].owner = job[b].owner
      /\ job'[b].applied = job[b].applied
  <2>1. SetState(b, "committed")
    BY DEF SetState
  <2> QED
    BY Parts, <2>1, StateDoes
<1>2. /\ DOMAIN row' = Ids /\ row'[b] = job[b].key /\ \A c \in Ids \ {b} : row'[c] = row[c]
  BY Parts DEF Shapes
<1>3. PICK w : /\ proc' = [proc EXCEPT ![p] = w]
               /\ w = [[[proc[p] EXCEPT !.mode = "none"] EXCEPT !.base = base] EXCEPT !.phase = phase]
  BY Parts DEF Shapes
<1>4. /\ DOMAIN w = ProcFields /\ w.mode = "none" /\ w.base = base /\ w.phase = phase
      /\ w.at = proc[p].at /\ w.skip = proc[p].skip /\ w.excl = proc[p].excl
      /\ w.list = proc[p].list /\ w.key = proc[p].key
  BY Parts, <1>3 DEF Shapes, ProcFits, ProcFields
<1>5. OnlyProc(p) /\ proc'[p] = w
  BY Parts, <1>3, <1>4 DEF Shapes, OnlyProc
<1>6. UNCHANGED <<disk, marked, scratch, drawn, crossed, torn, excl, homes>>
  BY DEF Commit, world, bounds
<1> QED
  BY <1>1, <1>2, <1>4, <1>5, <1>6 DEF Commits

(* A resumed build is committed, with its row. *)
LEMMA CommitResumedKeeps ==
    ASSUME IInv, NEW p \in Procs, Commit(p), proc[p].mode = "resume",
           Commits(p, Base(p), NoBase, "resolve")
    PROVE  IInv'
<1> USE DEF Base, Drives
<1>m. /\ proc[p].phase = "drive" /\ proc[p].mode # "none" /\ proc[p].at = Last + 1
  BY Parts, StepsAre DEF Commit, ModeFits, PlaceFits, Shapes, ProcFits, Ahead
<1> PICK b \in Ids : b = proc[p].base
  BY Parts, <1>m, AtWork
<1>o. /\ job[b].state \in {"running", "committed"}
      /\ proc[p].mode \in {"run", "retry"} => job[b].owner = p /\ job[b].key = proc[p].key
                                              /\ job[b].state = "running"
      /\ proc[p].mode = "resume" => job[b].owner = "gone"
      /\ \A q \in Procs \ {p} : proc[q].mode # "none" /\ proc[q].base = b => b \in crossed
      /\ \A q \in Procs \ {p} : proc[q].mode \in {"run", "retry"} => proc[q].base # b
  BY Parts, <1>m, AtWork, GoneIsNobody DEF OwnerFits, ModeFits
<1>s. /\ 1 \in 1..Last /\ Last \in 1..Last /\ Last \notin LeftOut(job[b].excl) /\ 1 \notin LeftOut(job[b].excl)
      /\ b \notin crossed => /\ \A i \in 1..Last : Covered(b, i)
                             /\ 1 \in job[b].applied /\ Last \in job[b].applied
  <2>1. 1 \in 1..Last /\ Last \in 1..Last /\ Last \notin LeftOut(job[b].excl) /\ 1 \notin LeftOut(job[b].excl)
    BY Parts, <1>m, LeftOutAre, StepsAre DEF Shapes, JobFits
  <2>2. \A i \in 1..Last : i < Last + 1
    BY StepsAre
  <2>3. b \notin crossed => \A i \in 1..Last : Covered(b, i)
    BY Parts, <1>m, <2>2 DEF StepsFit, Ahead
  <2> QED
    BY <2>1, <2>3 DEF Covered, Passed
<1>n. b \notin crossed => disk[b].place # "legacy" /\ \A s \in scratch : s[1] # b
  BY Parts, <1>s DEF LegacyFits, ScratchFits
<1>j. /\ OnlyJob(b) /\ job'[b].state = "committed" /\ job'[b].owner = job[b].owner
      /\ job'[b].applied = job[b].applied
      /\ job[b].state = "running" /\ job[b].key # NoKey
  BY Parts DEF Commits, RowFits
<1>r. /\ DOMAIN row' = Ids /\ row'[b] = job[b].key /\ \A c \in Ids \ {b} : row'[c] = row[c]
  BY DEF Commits
<1>e. /\ UNCHANGED <<disk, marked, scratch, drawn, crossed, torn, excl, homes>>
      /\ OnlyProc(p) /\ proc'[p].mode = "none" /\ proc'[p].base = NoBase /\ proc'[p].phase = "resolve"
      /\ proc'[p].at = proc[p].at /\ proc'[p].skip = proc[p].skip /\ proc'[p].excl = proc[p].excl
      /\ proc'[p].list = proc[p].list /\ proc'[p].key = proc[p].key
  BY DEF Commits
<1>d. b \notin crossed \cup torn => IsBuilt(b) /\ Finished(b)
  BY Parts, <1>m, <1>s, <1>j, AllDid, AllMakesFinished DEF Ahead
<1>h. NoBase \notin Ids
  BY DEF NoBase, Ids
<1>1. Shapes'
  <2>1. ASSUME NEW c \in Ids PROVE TreeFits(c)'
    BY Parts, LastIs, <1>m, <1>o, <1>s, <1>n, <1>j, <1>r, <1>e DEF Shapes, TreeFits, Places,
       OnlyProc, OnlyJob
  <2>2. ASSUME NEW c \in Ids PROVE JobFits(c)'
    BY Parts, LastIs, <1>m, <1>o, <1>s, <1>n, <1>j, <1>r, <1>e DEF Shapes, JobFits, JobStates,
       OnlyProc, OnlyJob
  <2>3. ASSUME NEW q \in Procs PROVE ProcFits(q)'
    BY Parts, LastIs, <1>m, <1>o, <1>s, <1>n, <1>j, <1>r, <1>e DEF Shapes, ProcFits, OnlyProc,
       OnlyJob
  <2> QED
    BY Parts, LastIs, <1>m, <1>o, <1>s, <1>n, <1>j, <1>r, <1>e, <2>1, <2>2, <2>3 DEF Shapes,
       OnlyProc, OnlyJob
<1>2. Alone'
  BY Parts, LastIs, <1>m, <1>o, <1>s, <1>n, <1>j, <1>r, <1>e DEF Alone, OnlyProc, OnlyJob
<1>3. ASSUME NEW q \in Procs
      PROVE  (ModeFits(q) /\ OwnerFits(q) /\ ListFits(q) /\ UseFits(q) /\ PlaceFits(q) /\ FoundFits(q))'
  <2>1. ModeFits(q)'
    BY Parts, LastIs, <1>m, <1>o, <1>s, <1>n, <1>j, <1>r, <1>e, <1>h DEF ModeFits, Ahead, Back,
       Evicting, OnlyProc, OnlyJob
  <2>2. OwnerFits(q)'
    <3>1. CASE q # p /\ Base(q) # b
      BY Parts, LastIs, <1>m, <1>o, <1>s, <1>n, <1>j, <1>r, <1>e, <3>1 DEF OwnerFits, ModeFits,
         OnlyProc, OnlyJob
    <3>2. CASE q # p /\ Base(q) = b
      BY Parts, LastIs, <1>m, <1>o, <1>s, <1>n, <1>j, <1>r, <1>e, <3>2 DEF OwnerFits, ModeFits,
         OnlyProc, OnlyJob
    <3>3. CASE q = p
      BY Parts, LastIs, <1>m, <1>o, <1>s, <1>n, <1>j, <1>r, <1>e, <3>3 DEF OwnerFits, ModeFits,
         OnlyProc, OnlyJob
    <3> QED
      BY <3>1, <3>2, <3>3
  <2>3. ListFits(q)'
    BY Parts, LastIs, <1>m, <1>o, <1>s, <1>n, <1>j, <1>r, <1>e DEF ListFits, Resolving, OwnerFits,
       Shapes, ProcFits, OnlyProc, OnlyJob
  <2>4. UseFits(q)'
    BY Parts, LastIs, <1>m, <1>o, <1>s, <1>n, <1>j, <1>r, <1>e DEF UseFits, ModeFits, Evicting,
       OnlyProc, OnlyJob
  <2>5. PlaceFits(q)'
    BY Parts, LastIs, <1>m, <1>o, <1>s, <1>n, <1>j, <1>r, <1>e DEF PlaceFits, Ahead, Back,
       OnlyProc, OnlyJob
  <2>6. FoundFits(q)'
    <3>1. CASE q # p /\ Base(q) # b
      BY Parts, LastIs, <1>m, <1>o, <1>s, <1>n, <1>j, <1>r, <1>e, <1>d, <1>h, <3>1 DEF FoundFits,
         ModeFits, Evicting, IsBuilt, IsDir, UseFits, OnlyProc, OnlyJob
    <3>2. CASE q # p /\ Base(q) = b
      BY Parts, LastIs, <1>m, <1>o, <1>s, <1>n, <1>j, <1>r, <1>e, <1>d, <1>h, <3>2 DEF FoundFits,
         ModeFits, Evicting, IsBuilt, IsDir, UseFits, OnlyProc, OnlyJob
    <3>3. CASE q = p
      BY Parts, LastIs, <1>m, <1>o, <1>s, <1>n, <1>j, <1>r, <1>e, <1>d, <1>h, <3>3 DEF FoundFits,
         ModeFits, Evicting, IsBuilt, IsDir, UseFits, OnlyProc, OnlyJob
    <3> QED
      BY <3>1, <3>2, <3>3
  <2> QED
    BY <2>1, <2>2, <2>3, <2>4, <2>5, <2>6
<1>4. ASSUME NEW c \in Ids PROVE RowFits(c)'
  <2>1. CASE c # b
    BY Parts, LastIs, <1>m, <1>o, <1>s, <1>n, <1>j, <1>r, <1>e, <2>1 DEF RowFits, OwnerFits,
       OnlyProc, OnlyJob
  <2>2. CASE c = b
    BY Parts, LastIs, <1>m, <1>o, <1>s, <1>n, <1>j, <1>r, <1>e, <2>2 DEF RowFits, OwnerFits,
       OnlyProc, OnlyJob
  <2> QED
    BY <2>1, <2>2
<1>5. ASSUME NEW c \in Ids, c \notin crossed'
      PROVE  (Prefix(c) /\ LegacyFits(c) /\ ScratchFits(c) /\ GoneFits(c))'
  <2>1. Prefix(c)'
    BY Parts, LastIs, <1>m, <1>o, <1>s, <1>n, <1>j, <1>r, <1>e, <1>5 DEF Prefix, Covered, Passed,
       OnlyProc, OnlyJob
  <2>2. LegacyFits(c)'
    <3>1. CASE c # b
      BY Parts, LastIs, <1>m, <1>o, <1>s, <1>n, <1>j, <1>r, <1>e, <1>5, <3>1 DEF LegacyFits,
         OnlyProc, OnlyJob
    <3>2. CASE c = b
      BY Parts, LastIs, <1>m, <1>o, <1>s, <1>n, <1>j, <1>r, <1>e, <1>5, <3>2 DEF LegacyFits,
         OnlyProc, OnlyJob
    <3> QED
      BY <3>1, <3>2
  <2>3. ScratchFits(c)'
    <3>1. CASE c # b
      BY Parts, LastIs, <1>m, <1>o, <1>s, <1>n, <1>j, <1>r, <1>e, <1>5, <3>1 DEF ScratchFits,
         OnlyProc, OnlyJob
    <3>2. CASE c = b
      BY Parts, LastIs, <1>m, <1>o, <1>s, <1>n, <1>j, <1>r, <1>e, <1>5, <3>2 DEF ScratchFits,
         OnlyProc, OnlyJob
    <3> QED
      BY <3>1, <3>2
  <2>4. GoneFits(c)'
    <3>1. CASE c # b
      BY Parts, LastIs, <1>m, <1>o, <1>s, <1>n, <1>j, <1>r, <1>e, <1>5, <3>1 DEF GoneFits,
         Covered, Passed, UseFits, Evicting, OnlyProc, OnlyJob
    <3>2. CASE c = b
      <4>1. b \notin crossed
        BY <1>e, <1>5, <3>2
      <4>2. row'[b] # NoKey /\ job'[b].state = "committed" /\ \A i \in 1..Last : Covered(b, i)'
        BY <1>s, <1>j, <1>r, <4>1 DEF Covered, Passed, OnlyJob
      <4>3. ASSUME NEW q \in Procs, proc'[q].base = b
            PROVE  proc'[q].mode = "none" /\ proc'[q].phase \notin {"undo", "undone", "removed"}
        <5>1. CASE q = p
          BY <1>e, <5>1
        <5>2. CASE q # p
          BY Parts, <1>o, <1>e, <1>j, <4>1, <4>3, <5>2 DEF OnlyProc, UseFits, ModeFits,
             Evicting, Back
        <5> QED
          BY <5>1, <5>2
      <4> QED
        BY <3>2, <4>2, <4>3 DEF GoneFits
    <3> QED
      BY <3>1, <3>2
  <2> QED
    BY <2>1, <2>2, <2>3, <2>4
<1>6. ASSUME NEW q \in Procs, Base(q)' \notin crossed' PROVE StepsFit(q)'
  <2>1. CASE q # p /\ Base(q) # b
    <3>1. ASSUME proc[q].phase \in Ahead \cup Back
          PROVE  /\ job'[proc[q].base].applied = job[proc[q].base].applied
                 /\ job'[proc[q].base].excl = job[proc[q].base].excl
      BY Parts, <3>1, <1>j DEF ModeFits, OnlyJob
    <3>2. proc'[q] = proc[q] /\ crossed' = crossed
      BY <1>e, <2>1 DEF OnlyProc
    <3>3. ASSUME proc[q].phase \in Ahead \cup Back, NEW i \in 1..Last
          PROVE  Covered(Base(q), i)' <=> Covered(Base(q), i)
      BY <3>1, <3>2, <3>3 DEF Covered, Passed
    <3>4. StepsFit(q)
      BY Parts, <1>6, <3>2
    <3> QED
      BY <3>1, <3>2, <3>3, <3>4 DEF StepsFit, Shapes, JobFits
  <2>2. CASE q # p /\ Base(q) = b
    <3>1. ASSUME proc[q].phase \in Ahead \cup Back
          PROVE  /\ job'[proc[q].base].applied = job[proc[q].base].applied
                 /\ job'[proc[q].base].excl = job[proc[q].base].excl
      BY Parts, <3>1, <1>j DEF ModeFits, OnlyJob
    <3>2. proc'[q] = proc[q] /\ crossed' = crossed
      BY <1>e, <2>2 DEF OnlyProc
    <3>3. ASSUME proc[q].phase \in Ahead \cup Back, NEW i \in 1..Last
          PROVE  Covered(Base(q), i)' <=> Covered(Base(q), i)
      BY <3>1, <3>2, <3>3 DEF Covered, Passed
    <3>4. StepsFit(q)
      BY Parts, <1>6, <3>2
    <3> QED
      BY <3>1, <3>2, <3>3, <3>4 DEF StepsFit, Shapes, JobFits
  <2>3. CASE q = p
    BY Parts, LastIs, <1>m, <1>o, <1>s, <1>n, <1>j, <1>r, <1>e, <1>6, <2>3 DEF StepsFit, ModeFits,
       Covered, Passed, Ahead, Back, OnlyProc, OnlyJob
  <2> QED
    BY <2>1, <2>2, <2>3
<1>7. ASSUME NEW c \in Ids, c \notin (crossed \cup torn)' PROVE (DidFits(c) /\ BuiltFits(c))'
  <2>1. DidFits(c)'
    BY Parts, LastIs, <1>m, <1>o, <1>s, <1>n, <1>j, <1>r, <1>e, <1>7 DEF DidFits, Did, OnlyProc,
       OnlyJob
  <2>2. BuiltFits(c)'
    <3>1. CASE c # b
      BY Parts, LastIs, <1>m, <1>o, <1>s, <1>n, <1>j, <1>r, <1>e, <1>d, <1>7, <3>1 DEF BuiltFits,
         Finished, IsBuilt, IsDir, RowFits, OnlyProc, OnlyJob
    <3>2. CASE c = b
      BY Parts, LastIs, <1>m, <1>o, <1>s, <1>n, <1>j, <1>r, <1>e, <1>d, <1>7, <3>2 DEF BuiltFits,
         Finished, IsBuilt, IsDir, RowFits, OnlyProc, OnlyJob
    <3> QED
      BY <3>1, <3>2
  <2> QED
    BY <2>1, <2>2
<1>8. ASSUME NEW q \in Procs, (Base(q) \notin crossed \cup torn)' PROVE ActFits(q)'
  <2>1. CASE q # p /\ Base(q) # b
    <3>1. proc'[q] = proc[q] /\ crossed' = crossed /\ torn' = torn /\ disk' = disk /\ marked' = marked
      BY <1>e, <2>1 DEF OnlyProc
    <3>2. ASSUME proc[q].phase \in Ahead \cup Back PROVE job'[proc[q].base].key = job[proc[q].base].key
      BY Parts, <3>2, <1>j DEF ModeFits, OnlyJob
    <3>3. ActFits(q)
      BY Parts, <1>8, <3>1
    <3> QED
      BY <3>1, <3>2, <3>3 DEF ActFits, Did, IsDir, Ahead, Back
  <2>2. CASE q # p /\ Base(q) = b
    <3>1. proc'[q] = proc[q] /\ crossed' = crossed /\ torn' = torn /\ disk' = disk /\ marked' = marked
      BY <1>e, <2>2 DEF OnlyProc
    <3>2. ASSUME proc[q].phase \in Ahead \cup Back PROVE job'[proc[q].base].key = job[proc[q].base].key
      BY Parts, <3>2, <1>j DEF ModeFits, OnlyJob
    <3>3. ActFits(q)
      BY Parts, <1>8, <3>1
    <3> QED
      BY <3>1, <3>2, <3>3 DEF ActFits, Did, IsDir, Ahead, Back
  <2>3. CASE q = p
    BY Parts, LastIs, <1>m, <1>o, <1>s, <1>n, <1>j, <1>r, <1>e, <1>8, <2>3 DEF ActFits, ModeFits,
       Did, IsDir, Ahead, Back, OnlyProc, OnlyJob
  <2> QED
    BY <2>1, <2>2, <2>3
<1>9. HomesFit'
  BY Parts, LastIs, <1>m, <1>o, <1>s, <1>n, <1>j, <1>r, <1>e DEF HomesFit, HomeIsReady, OnlyProc,
     OnlyJob
<1> QED
  BY <1>1, <1>2, <1>3, <1>4, <1>5, <1>6, <1>7, <1>8, <1>9 DEF IInv, KeepInv, DoneInv, Kept

(* A build that a command began or reopened is committed, with its row. *)
LEMMA CommitOwnKeeps ==
    ASSUME IInv, NEW p \in Procs, Commit(p), proc[p].mode \in {"run", "retry"},
           Commits(p, Base(p), proc[p].base, "found")
    PROVE  IInv'
<1> USE DEF Base, Drives
<1>m. /\ proc[p].phase = "drive" /\ proc[p].mode # "none" /\ proc[p].at = Last + 1
  BY Parts, StepsAre DEF Commit, ModeFits, PlaceFits, Shapes, ProcFits, Ahead
<1> PICK b \in Ids : b = proc[p].base
  BY Parts, <1>m, AtWork
<1>o. /\ job[b].state \in {"running", "committed"}
      /\ proc[p].mode \in {"run", "retry"} => job[b].owner = p /\ job[b].key = proc[p].key
                                              /\ job[b].state = "running"
      /\ proc[p].mode = "resume" => job[b].owner = "gone"
      /\ \A q \in Procs \ {p} : proc[q].mode # "none" /\ proc[q].base = b => b \in crossed
      /\ \A q \in Procs \ {p} : proc[q].mode \in {"run", "retry"} => proc[q].base # b
  BY Parts, <1>m, AtWork, GoneIsNobody DEF OwnerFits, ModeFits
<1>s. /\ 1 \in 1..Last /\ Last \in 1..Last /\ Last \notin LeftOut(job[b].excl) /\ 1 \notin LeftOut(job[b].excl)
      /\ b \notin crossed => /\ \A i \in 1..Last : Covered(b, i)
                             /\ 1 \in job[b].applied /\ Last \in job[b].applied
  <2>1. 1 \in 1..Last /\ Last \in 1..Last /\ Last \notin LeftOut(job[b].excl) /\ 1 \notin LeftOut(job[b].excl)
    BY Parts, <1>m, LeftOutAre, StepsAre DEF Shapes, JobFits
  <2>2. \A i \in 1..Last : i < Last + 1
    BY StepsAre
  <2>3. b \notin crossed => \A i \in 1..Last : Covered(b, i)
    BY Parts, <1>m, <2>2 DEF StepsFit, Ahead
  <2> QED
    BY <2>1, <2>3 DEF Covered, Passed
<1>n. b \notin crossed => disk[b].place # "legacy" /\ \A s \in scratch : s[1] # b
  BY Parts, <1>s DEF LegacyFits, ScratchFits
<1>j. /\ OnlyJob(b) /\ job'[b].state = "committed" /\ job'[b].owner = job[b].owner
      /\ job'[b].applied = job[b].applied
      /\ job[b].state = "running" /\ job[b].key # NoKey
  BY Parts DEF Commits, RowFits
<1>r. /\ DOMAIN row' = Ids /\ row'[b] = job[b].key /\ \A c \in Ids \ {b} : row'[c] = row[c]
  BY DEF Commits
<1>e. /\ UNCHANGED <<disk, marked, scratch, drawn, crossed, torn, excl, homes>>
      /\ OnlyProc(p) /\ proc'[p].mode = "none" /\ proc'[p].base = proc[p].base /\ proc'[p].phase = "found"
      /\ proc'[p].at = proc[p].at /\ proc'[p].skip = proc[p].skip /\ proc'[p].excl = proc[p].excl
      /\ proc'[p].list = proc[p].list /\ proc'[p].key = proc[p].key
  BY DEF Commits
<1>d. b \notin crossed \cup torn => IsBuilt(b) /\ Finished(b)
  BY Parts, <1>m, <1>s, <1>j, AllDid, AllMakesFinished DEF Ahead
<1>h. NoBase \notin Ids
  BY DEF NoBase, Ids
<1>1. Shapes'
  <2>1. ASSUME NEW c \in Ids PROVE TreeFits(c)'
    BY Parts, LastIs, <1>m, <1>o, <1>s, <1>n, <1>j, <1>r, <1>e DEF Shapes, TreeFits, Places,
       OnlyProc, OnlyJob
  <2>2. ASSUME NEW c \in Ids PROVE JobFits(c)'
    BY Parts, LastIs, <1>m, <1>o, <1>s, <1>n, <1>j, <1>r, <1>e DEF Shapes, JobFits, JobStates,
       OnlyProc, OnlyJob
  <2>3. ASSUME NEW q \in Procs PROVE ProcFits(q)'
    BY Parts, LastIs, <1>m, <1>o, <1>s, <1>n, <1>j, <1>r, <1>e DEF Shapes, ProcFits, OnlyProc,
       OnlyJob
  <2> QED
    BY Parts, LastIs, <1>m, <1>o, <1>s, <1>n, <1>j, <1>r, <1>e, <2>1, <2>2, <2>3 DEF Shapes,
       OnlyProc, OnlyJob
<1>2. Alone'
  BY Parts, LastIs, <1>m, <1>o, <1>s, <1>n, <1>j, <1>r, <1>e DEF Alone, OnlyProc, OnlyJob
<1>3. ASSUME NEW q \in Procs
      PROVE  (ModeFits(q) /\ OwnerFits(q) /\ ListFits(q) /\ UseFits(q) /\ PlaceFits(q) /\ FoundFits(q))'
  <2>1. ModeFits(q)'
    BY Parts, LastIs, <1>m, <1>o, <1>s, <1>n, <1>j, <1>r, <1>e, <1>h DEF ModeFits, Ahead, Back,
       Evicting, OnlyProc, OnlyJob
  <2>2. OwnerFits(q)'
    <3>1. CASE q # p /\ Base(q) # b
      BY Parts, LastIs, <1>m, <1>o, <1>s, <1>n, <1>j, <1>r, <1>e, <3>1 DEF OwnerFits, ModeFits,
         OnlyProc, OnlyJob
    <3>2. CASE q # p /\ Base(q) = b
      BY Parts, LastIs, <1>m, <1>o, <1>s, <1>n, <1>j, <1>r, <1>e, <3>2 DEF OwnerFits, ModeFits,
         OnlyProc, OnlyJob
    <3>3. CASE q = p
      BY Parts, LastIs, <1>m, <1>o, <1>s, <1>n, <1>j, <1>r, <1>e, <3>3 DEF OwnerFits, ModeFits,
         OnlyProc, OnlyJob
    <3> QED
      BY <3>1, <3>2, <3>3
  <2>3. ListFits(q)'
    BY Parts, LastIs, <1>m, <1>o, <1>s, <1>n, <1>j, <1>r, <1>e DEF ListFits, Resolving, OwnerFits,
       Shapes, ProcFits, OnlyProc, OnlyJob
  <2>4. UseFits(q)'
    BY Parts, LastIs, <1>m, <1>o, <1>s, <1>n, <1>j, <1>r, <1>e DEF UseFits, ModeFits, Evicting,
       OnlyProc, OnlyJob
  <2>5. PlaceFits(q)'
    BY Parts, LastIs, <1>m, <1>o, <1>s, <1>n, <1>j, <1>r, <1>e DEF PlaceFits, Ahead, Back,
       OnlyProc, OnlyJob
  <2>6. FoundFits(q)'
    <3>1. CASE q # p /\ Base(q) # b
      BY Parts, LastIs, <1>m, <1>o, <1>s, <1>n, <1>j, <1>r, <1>e, <1>d, <1>h, <3>1 DEF FoundFits,
         ModeFits, Evicting, IsBuilt, IsDir, UseFits, OnlyProc, OnlyJob
    <3>2. CASE q # p /\ Base(q) = b
      BY Parts, LastIs, <1>m, <1>o, <1>s, <1>n, <1>j, <1>r, <1>e, <1>d, <1>h, <3>2 DEF FoundFits,
         ModeFits, Evicting, IsBuilt, IsDir, UseFits, OnlyProc, OnlyJob
    <3>3. CASE q = p
      BY Parts, LastIs, <1>m, <1>o, <1>s, <1>n, <1>j, <1>r, <1>e, <1>d, <1>h, <3>3 DEF FoundFits,
         ModeFits, Evicting, IsBuilt, IsDir, UseFits, OnlyProc, OnlyJob
    <3> QED
      BY <3>1, <3>2, <3>3
  <2> QED
    BY <2>1, <2>2, <2>3, <2>4, <2>5, <2>6
<1>4. ASSUME NEW c \in Ids PROVE RowFits(c)'
  <2>1. CASE c # b
    BY Parts, LastIs, <1>m, <1>o, <1>s, <1>n, <1>j, <1>r, <1>e, <2>1 DEF RowFits, OwnerFits,
       OnlyProc, OnlyJob
  <2>2. CASE c = b
    BY Parts, LastIs, <1>m, <1>o, <1>s, <1>n, <1>j, <1>r, <1>e, <2>2 DEF RowFits, OwnerFits,
       OnlyProc, OnlyJob
  <2> QED
    BY <2>1, <2>2
<1>5. ASSUME NEW c \in Ids, c \notin crossed'
      PROVE  (Prefix(c) /\ LegacyFits(c) /\ ScratchFits(c) /\ GoneFits(c))'
  <2>1. Prefix(c)'
    BY Parts, LastIs, <1>m, <1>o, <1>s, <1>n, <1>j, <1>r, <1>e, <1>5 DEF Prefix, Covered, Passed,
       OnlyProc, OnlyJob
  <2>2. LegacyFits(c)'
    <3>1. CASE c # b
      BY Parts, LastIs, <1>m, <1>o, <1>s, <1>n, <1>j, <1>r, <1>e, <1>5, <3>1 DEF LegacyFits,
         OnlyProc, OnlyJob
    <3>2. CASE c = b
      BY Parts, LastIs, <1>m, <1>o, <1>s, <1>n, <1>j, <1>r, <1>e, <1>5, <3>2 DEF LegacyFits,
         OnlyProc, OnlyJob
    <3> QED
      BY <3>1, <3>2
  <2>3. ScratchFits(c)'
    <3>1. CASE c # b
      BY Parts, LastIs, <1>m, <1>o, <1>s, <1>n, <1>j, <1>r, <1>e, <1>5, <3>1 DEF ScratchFits,
         OnlyProc, OnlyJob
    <3>2. CASE c = b
      BY Parts, LastIs, <1>m, <1>o, <1>s, <1>n, <1>j, <1>r, <1>e, <1>5, <3>2 DEF ScratchFits,
         OnlyProc, OnlyJob
    <3> QED
      BY <3>1, <3>2
  <2>4. GoneFits(c)'
    <3>1. CASE c # b
      BY Parts, LastIs, <1>m, <1>o, <1>s, <1>n, <1>j, <1>r, <1>e, <1>5, <3>1 DEF GoneFits,
         Covered, Passed, UseFits, Evicting, OnlyProc, OnlyJob
    <3>2. CASE c = b
      <4>1. b \notin crossed
        BY <1>e, <1>5, <3>2
      <4>2. row'[b] # NoKey /\ job'[b].state = "committed" /\ \A i \in 1..Last : Covered(b, i)'
        BY <1>s, <1>j, <1>r, <4>1 DEF Covered, Passed, OnlyJob
      <4>3. ASSUME NEW q \in Procs, proc'[q].base = b
            PROVE  proc'[q].mode = "none" /\ proc'[q].phase \notin {"undo", "undone", "removed"}
        <5>1. CASE q = p
          BY <1>e, <5>1
        <5>2. CASE q # p
          BY Parts, <1>o, <1>e, <1>j, <4>1, <4>3, <5>2 DEF OnlyProc, UseFits, ModeFits,
             Evicting, Back
        <5> QED
          BY <5>1, <5>2
      <4> QED
        BY <3>2, <4>2, <4>3 DEF GoneFits
    <3> QED
      BY <3>1, <3>2
  <2> QED
    BY <2>1, <2>2, <2>3, <2>4
<1>6. ASSUME NEW q \in Procs, Base(q)' \notin crossed' PROVE StepsFit(q)'
  <2>1. CASE q # p /\ Base(q) # b
    <3>1. ASSUME proc[q].phase \in Ahead \cup Back
          PROVE  /\ job'[proc[q].base].applied = job[proc[q].base].applied
                 /\ job'[proc[q].base].excl = job[proc[q].base].excl
      BY Parts, <3>1, <1>j DEF ModeFits, OnlyJob
    <3>2. proc'[q] = proc[q] /\ crossed' = crossed
      BY <1>e, <2>1 DEF OnlyProc
    <3>3. ASSUME proc[q].phase \in Ahead \cup Back, NEW i \in 1..Last
          PROVE  Covered(Base(q), i)' <=> Covered(Base(q), i)
      BY <3>1, <3>2, <3>3 DEF Covered, Passed
    <3>4. StepsFit(q)
      BY Parts, <1>6, <3>2
    <3> QED
      BY <3>1, <3>2, <3>3, <3>4 DEF StepsFit, Shapes, JobFits
  <2>2. CASE q # p /\ Base(q) = b
    <3>1. ASSUME proc[q].phase \in Ahead \cup Back
          PROVE  /\ job'[proc[q].base].applied = job[proc[q].base].applied
                 /\ job'[proc[q].base].excl = job[proc[q].base].excl
      BY Parts, <3>1, <1>j DEF ModeFits, OnlyJob
    <3>2. proc'[q] = proc[q] /\ crossed' = crossed
      BY <1>e, <2>2 DEF OnlyProc
    <3>3. ASSUME proc[q].phase \in Ahead \cup Back, NEW i \in 1..Last
          PROVE  Covered(Base(q), i)' <=> Covered(Base(q), i)
      BY <3>1, <3>2, <3>3 DEF Covered, Passed
    <3>4. StepsFit(q)
      BY Parts, <1>6, <3>2
    <3> QED
      BY <3>1, <3>2, <3>3, <3>4 DEF StepsFit, Shapes, JobFits
  <2>3. CASE q = p
    BY Parts, LastIs, <1>m, <1>o, <1>s, <1>n, <1>j, <1>r, <1>e, <1>6, <2>3 DEF StepsFit, ModeFits,
       Covered, Passed, Ahead, Back, OnlyProc, OnlyJob
  <2> QED
    BY <2>1, <2>2, <2>3
<1>7. ASSUME NEW c \in Ids, c \notin (crossed \cup torn)' PROVE (DidFits(c) /\ BuiltFits(c))'
  <2>1. DidFits(c)'
    BY Parts, LastIs, <1>m, <1>o, <1>s, <1>n, <1>j, <1>r, <1>e, <1>7 DEF DidFits, Did, OnlyProc,
       OnlyJob
  <2>2. BuiltFits(c)'
    <3>1. CASE c # b
      BY Parts, LastIs, <1>m, <1>o, <1>s, <1>n, <1>j, <1>r, <1>e, <1>d, <1>7, <3>1 DEF BuiltFits,
         Finished, IsBuilt, IsDir, RowFits, OnlyProc, OnlyJob
    <3>2. CASE c = b
      BY Parts, LastIs, <1>m, <1>o, <1>s, <1>n, <1>j, <1>r, <1>e, <1>d, <1>7, <3>2 DEF BuiltFits,
         Finished, IsBuilt, IsDir, RowFits, OnlyProc, OnlyJob
    <3> QED
      BY <3>1, <3>2
  <2> QED
    BY <2>1, <2>2
<1>8. ASSUME NEW q \in Procs, (Base(q) \notin crossed \cup torn)' PROVE ActFits(q)'
  <2>1. CASE q # p /\ Base(q) # b
    <3>1. proc'[q] = proc[q] /\ crossed' = crossed /\ torn' = torn /\ disk' = disk /\ marked' = marked
      BY <1>e, <2>1 DEF OnlyProc
    <3>2. ASSUME proc[q].phase \in Ahead \cup Back PROVE job'[proc[q].base].key = job[proc[q].base].key
      BY Parts, <3>2, <1>j DEF ModeFits, OnlyJob
    <3>3. ActFits(q)
      BY Parts, <1>8, <3>1
    <3> QED
      BY <3>1, <3>2, <3>3 DEF ActFits, Did, IsDir, Ahead, Back
  <2>2. CASE q # p /\ Base(q) = b
    <3>1. proc'[q] = proc[q] /\ crossed' = crossed /\ torn' = torn /\ disk' = disk /\ marked' = marked
      BY <1>e, <2>2 DEF OnlyProc
    <3>2. ASSUME proc[q].phase \in Ahead \cup Back PROVE job'[proc[q].base].key = job[proc[q].base].key
      BY Parts, <3>2, <1>j DEF ModeFits, OnlyJob
    <3>3. ActFits(q)
      BY Parts, <1>8, <3>1
    <3> QED
      BY <3>1, <3>2, <3>3 DEF ActFits, Did, IsDir, Ahead, Back
  <2>3. CASE q = p
    BY Parts, LastIs, <1>m, <1>o, <1>s, <1>n, <1>j, <1>r, <1>e, <1>8, <2>3 DEF ActFits, ModeFits,
       Did, IsDir, Ahead, Back, OnlyProc, OnlyJob
  <2> QED
    BY <2>1, <2>2, <2>3
<1>9. HomesFit'
  BY Parts, LastIs, <1>m, <1>o, <1>s, <1>n, <1>j, <1>r, <1>e DEF HomesFit, HomeIsReady, OnlyProc,
     OnlyJob
<1> QED
  BY <1>1, <1>2, <1>3, <1>4, <1>5, <1>6, <1>7, <1>8, <1>9 DEF IInv, KeepInv, DoneInv, Kept

(* The commit of a run fails, and the run is undone. *)
LEMMA BeginUndoKeeps ==
    ASSUME IInv, NEW p \in Procs, Commit(p), proc[p].mode = "run", UNCHANGED <<row, job>>,
           proc' = [proc EXCEPT ![p].phase = "undo", ![p].at = @ - 1]
    PROVE  IInv'
<1> USE DEF Base, Drives
<1>m. /\ proc[p].phase = "drive" /\ proc[p].mode # "none" /\ proc[p].at = Last + 1
  BY Parts, StepsAre DEF Commit, ModeFits, PlaceFits, Shapes, ProcFits, Ahead
<1> PICK b \in Ids : b = proc[p].base
  BY Parts, <1>m, AtWork
<1>o. /\ job[b].state \in {"running", "committed"}
      /\ proc[p].mode \in {"run", "retry"} => job[b].owner = p /\ job[b].key = proc[p].key
                                              /\ job[b].state = "running"
      /\ proc[p].mode = "resume" => job[b].owner = "gone"
      /\ \A q \in Procs \ {p} : proc[q].mode # "none" /\ proc[q].base = b => b \in crossed
      /\ \A q \in Procs \ {p} : proc[q].mode \in {"run", "retry"} => proc[q].base # b
  BY Parts, <1>m, AtWork, GoneIsNobody DEF OwnerFits, ModeFits
<1>s. /\ 1 \in 1..Last /\ Last \in 1..Last /\ Last \notin LeftOut(job[b].excl) /\ 1 \notin LeftOut(job[b].excl)
      /\ b \notin crossed => /\ \A i \in 1..Last : Covered(b, i)
                             /\ 1 \in job[b].applied /\ Last \in job[b].applied
  <2>1. 1 \in 1..Last /\ Last \in 1..Last /\ Last \notin LeftOut(job[b].excl) /\ 1 \notin LeftOut(job[b].excl)
    BY Parts, <1>m, LeftOutAre, StepsAre DEF Shapes, JobFits
  <2>2. \A i \in 1..Last : i < Last + 1
    BY StepsAre
  <2>3. b \notin crossed => \A i \in 1..Last : Covered(b, i)
    BY Parts, <1>m, <2>2 DEF StepsFit, Ahead
  <2> QED
    BY <2>1, <2>3 DEF Covered, Passed
<1>n. b \notin crossed => disk[b].place # "legacy" /\ \A s \in scratch : s[1] # b
  BY Parts, <1>s DEF LegacyFits, ScratchFits

<1>e. /\ UNCHANGED <<row, job, disk, marked, scratch, drawn, crossed, torn, excl, homes>>
      /\ Moved(p, "undo", Last)
  <2>1. proc' = [proc EXCEPT ![p].phase = "undo", ![p].at = proc[p].at - 1]
    OBVIOUS
  <2>2. Moved(p, "undo", proc[p].at - 1)
    BY Parts, <2>1, MoveDoes
  <2> QED
    BY <1>m, <2>2, StepsAre DEF Commit, world, bounds
<1>w. Elsewhere(p, b)
  BY <1>o, <1>e DEF Elsewhere, Moved
<1>1. Shapes'
  <2>1. ASSUME NEW c \in Ids PROVE TreeFits(c)'
    BY Parts, LastIs, <1>m, <1>o, <1>s, <1>n, <1>e DEF Shapes, TreeFits, Places, Moved, OnlyProc
  <2>2. ASSUME NEW c \in Ids PROVE JobFits(c)'
    BY Parts, LastIs, <1>m, <1>o, <1>s, <1>n, <1>e DEF Shapes, JobFits, JobStates, Moved, OnlyProc
  <2>3. ASSUME NEW q \in Procs PROVE ProcFits(q)'
    BY Parts, LastIs, <1>m, <1>o, <1>s, <1>n, <1>e DEF Shapes, ProcFits, Moved, OnlyProc
  <2> QED
    BY Parts, LastIs, <1>m, <1>o, <1>s, <1>n, <1>e, <2>1, <2>2, <2>3 DEF Shapes, Moved, OnlyProc
<1>2. Alone'
  BY Parts, LastIs, <1>m, <1>o, <1>s, <1>n, <1>e DEF Alone, Moved, OnlyProc
<1>3. ASSUME NEW q \in Procs
      PROVE  (ModeFits(q) /\ OwnerFits(q) /\ ListFits(q) /\ UseFits(q) /\ PlaceFits(q) /\ FoundFits(q))'
  <2>1. ModeFits(q)'
    BY Parts, LastIs, <1>m, <1>o, <1>s, <1>n, <1>e DEF ModeFits, Ahead, Back, Evicting, Moved,
       OnlyProc
  <2>2. OwnerFits(q)'
    BY Parts, LastIs, <1>m, <1>o, <1>s, <1>n, <1>e DEF OwnerFits, ModeFits, Moved, OnlyProc
  <2>3. ListFits(q)'
    BY Parts, LastIs, <1>m, <1>o, <1>s, <1>n, <1>e DEF ListFits, Resolving, OwnerFits, Shapes,
       ProcFits, Moved, OnlyProc
  <2>4. UseFits(q)'
    BY Parts, LastIs, <1>m, <1>o, <1>s, <1>n, <1>e DEF UseFits, ModeFits, Evicting, Moved,
       OnlyProc
  <2>5. PlaceFits(q)'
    BY Parts, LastIs, <1>m, <1>o, <1>s, <1>n, <1>e DEF PlaceFits, Ahead, Back, Moved, OnlyProc
  <2>6. FoundFits(q)'
    BY Parts, LastIs, <1>m, <1>o, <1>s, <1>n, <1>e DEF FoundFits, ModeFits, Evicting, IsBuilt,
       IsDir, UseFits, Moved, OnlyProc
  <2> QED
    BY <2>1, <2>2, <2>3, <2>4, <2>5, <2>6
<1>4. ASSUME NEW c \in Ids PROVE RowFits(c)'
  BY Parts, LastIs, <1>m, <1>o, <1>s, <1>n, <1>e DEF RowFits, OwnerFits, Moved, OnlyProc
<1>5. ASSUME NEW c \in Ids, c \notin crossed'
      PROVE  (Prefix(c) /\ LegacyFits(c) /\ ScratchFits(c) /\ GoneFits(c))'
  <2>1. Prefix(c)'
    BY Parts, LastIs, <1>m, <1>o, <1>s, <1>n, <1>e, <1>5 DEF Prefix, Covered, Passed, Moved,
       OnlyProc
  <2>2. LegacyFits(c)'
    BY Parts, LastIs, <1>m, <1>o, <1>s, <1>n, <1>e, <1>5 DEF LegacyFits, Moved, OnlyProc
  <2>3. ScratchFits(c)'
    BY Parts, LastIs, <1>m, <1>o, <1>s, <1>n, <1>e, <1>5 DEF ScratchFits, Moved, OnlyProc
  <2>4. GoneFits(c)'
    BY Parts, LastIs, <1>m, <1>o, <1>s, <1>n, <1>e, <1>5 DEF GoneFits, Covered, Passed, UseFits,
       Evicting, Moved, OnlyProc
  <2> QED
    BY <2>1, <2>2, <2>3, <2>4
<1>6. ASSUME NEW q \in Procs, Base(q)' \notin crossed' PROVE StepsFit(q)'
  <2>1. CASE q # p
    BY <1>w, <1>6, <2>1, OthersFit
  <2>2. CASE q = p
    BY Parts, <1>m, <1>s, <1>e, <1>6, <2>2 DEF StepsFit, Covered, Passed, Ahead, Back, Shapes,
       JobFits, Moved
  <2> QED
    BY <2>1, <2>2
<1>7. ASSUME NEW c \in Ids, c \notin (crossed \cup torn)' PROVE (DidFits(c) /\ BuiltFits(c))'
  <2>1. DidFits(c)'
    BY Parts, LastIs, <1>m, <1>o, <1>s, <1>n, <1>e, <1>7 DEF DidFits, Did, Moved, OnlyProc
  <2>2. BuiltFits(c)'
    BY Parts, LastIs, <1>m, <1>o, <1>s, <1>n, <1>e, <1>7 DEF BuiltFits, Finished, IsBuilt, IsDir,
       RowFits, Moved, OnlyProc
  <2> QED
    BY <2>1, <2>2
<1>8. ASSUME NEW q \in Procs, (Base(q) \notin crossed \cup torn)' PROVE ActFits(q)'
  <2>1. CASE q # p
    BY <1>w, <1>8, <2>1, OthersFit
  <2>2. CASE q = p
    BY <1>e, <2>2, LastIs DEF ActFits, Back, Moved
  <2> QED
    BY <2>1, <2>2
<1>9. HomesFit'
  BY Parts, LastIs, <1>m, <1>o, <1>s, <1>n, <1>e DEF HomesFit, HomeIsReady, Moved, OnlyProc
<1> QED
  BY <1>1, <1>2, <1>3, <1>4, <1>5, <1>6, <1>7, <1>8, <1>9 DEF IInv, KeepInv, DoneInv, Kept

(* The commit of a resumed or retried run fails, and the run is left. *)
LEMMA GiveUpKeeps ==
    ASSUME IInv, NEW p \in Procs, Commit(p), proc[p].mode # "run", UNCHANGED row,
           Stop(p, "error"), job' = [job EXCEPT ![Base(p)].owner = "gone"]
    PROVE  IInv'
<1> USE DEF Base, Drives
<1>m. /\ proc[p].phase = "drive" /\ proc[p].mode # "none" /\ proc[p].at = Last + 1
  BY Parts, StepsAre DEF Commit, ModeFits, PlaceFits, Shapes, ProcFits, Ahead
<1> PICK b \in Ids : b = proc[p].base
  BY Parts, <1>m, AtWork
<1>o. /\ job[b].state \in {"running", "committed"}
      /\ proc[p].mode \in {"run", "retry"} => job[b].owner = p /\ job[b].key = proc[p].key
                                              /\ job[b].state = "running"
      /\ proc[p].mode = "resume" => job[b].owner = "gone"
      /\ \A q \in Procs \ {p} : proc[q].mode # "none" /\ proc[q].base = b => b \in crossed
      /\ \A q \in Procs \ {p} : proc[q].mode \in {"run", "retry"} => proc[q].base # b
  BY Parts, <1>m, AtWork, GoneIsNobody DEF OwnerFits, ModeFits
<1>s. /\ 1 \in 1..Last /\ Last \in 1..Last /\ Last \notin LeftOut(job[b].excl) /\ 1 \notin LeftOut(job[b].excl)
      /\ b \notin crossed => /\ \A i \in 1..Last : Covered(b, i)
                             /\ 1 \in job[b].applied /\ Last \in job[b].applied
  <2>1. 1 \in 1..Last /\ Last \in 1..Last /\ Last \notin LeftOut(job[b].excl) /\ 1 \notin LeftOut(job[b].excl)
    BY Parts, <1>m, LeftOutAre, StepsAre DEF Shapes, JobFits
  <2>2. \A i \in 1..Last : i < Last + 1
    BY StepsAre
  <2>3. b \notin crossed => \A i \in 1..Last : Covered(b, i)
    BY Parts, <1>m, <2>2 DEF StepsFit, Ahead
  <2> QED
    BY <2>1, <2>3 DEF Covered, Passed
<1>n. b \notin crossed => disk[b].place # "legacy" /\ \A s \in scratch : s[1] # b
  BY Parts, <1>s DEF LegacyFits, ScratchFits

<1>e. /\ UNCHANGED <<row, disk, marked, scratch, drawn, crossed, torn, excl, homes>>
      /\ OnlyJob(b) /\ job'[b].state = job[b].state /\ job'[b].owner = "gone"
      /\ job'[b].applied = job[b].applied
      /\ Ended(p)
  <2>1. SetOwner(b, "gone")
    BY DEF SetOwner
  <2>2. /\ OnlyJob(b) /\ job'[b].owner = "gone"
        /\ job'[b].applied = job[b].applied /\ job'[b].state = job[b].state
    BY Parts, <2>1, OwnerDoes
  <2>3. Ended(p)
    BY Parts, StopDoes
  <2> QED
    BY <2>2, <2>3 DEF Commit, world, bounds
<1>w. Elsewhere(p, b)
  BY <1>o, <1>e DEF Elsewhere, Ended, OnlyJob
<1>1. Shapes'
  <2>1. ASSUME NEW c \in Ids PROVE TreeFits(c)'
    BY Parts, LastIs, <1>m, <1>o, <1>s, <1>n, <1>e DEF Shapes, TreeFits, Places, Ended, OnlyJob,
       OnlyProc
  <2>2. ASSUME NEW c \in Ids PROVE JobFits(c)'
    BY Parts, LastIs, <1>m, <1>o, <1>s, <1>n, <1>e DEF Shapes, JobFits, JobStates, Ended, OnlyJob,
       OnlyProc
  <2>3. ASSUME NEW q \in Procs PROVE ProcFits(q)'
    BY Parts, LastIs, <1>m, <1>o, <1>s, <1>n, <1>e DEF Shapes, ProcFits, Ended, OnlyJob, OnlyProc
  <2> QED
    BY Parts, LastIs, <1>m, <1>o, <1>s, <1>n, <1>e, <2>1, <2>2, <2>3 DEF Shapes, Ended, OnlyJob,
       OnlyProc
<1>2. Alone'
  BY Parts, LastIs, <1>m, <1>o, <1>s, <1>n, <1>e DEF Alone, Ended, OnlyJob, OnlyProc
<1>3. ASSUME NEW q \in Procs
      PROVE  (ModeFits(q) /\ OwnerFits(q) /\ ListFits(q) /\ UseFits(q) /\ PlaceFits(q) /\ FoundFits(q))'
  <2>1. ModeFits(q)'
    BY Parts, LastIs, <1>m, <1>o, <1>s, <1>n, <1>e DEF ModeFits, Ahead, Back, Evicting, Ended,
       OnlyJob, OnlyProc
  <2>2. OwnerFits(q)'
    BY Parts, LastIs, <1>m, <1>o, <1>s, <1>n, <1>e DEF OwnerFits, ModeFits, Ended, OnlyJob,
       OnlyProc
  <2>3. ListFits(q)'
    BY Parts, LastIs, <1>m, <1>o, <1>s, <1>n, <1>e DEF ListFits, Resolving, OwnerFits, Shapes,
       ProcFits, Ended, OnlyJob, OnlyProc
  <2>4. UseFits(q)'
    BY Parts, LastIs, <1>m, <1>o, <1>s, <1>n, <1>e DEF UseFits, ModeFits, Evicting, Ended,
       OnlyJob, OnlyProc
  <2>5. PlaceFits(q)'
    BY Parts, LastIs, <1>m, <1>o, <1>s, <1>n, <1>e DEF PlaceFits, Ahead, Back, Ended, OnlyJob,
       OnlyProc
  <2>6. FoundFits(q)'
    BY Parts, LastIs, <1>m, <1>o, <1>s, <1>n, <1>e DEF FoundFits, ModeFits, Evicting, IsBuilt,
       IsDir, UseFits, Ended, OnlyJob, OnlyProc
  <2> QED
    BY <2>1, <2>2, <2>3, <2>4, <2>5, <2>6
<1>4. ASSUME NEW c \in Ids PROVE RowFits(c)'
  BY Parts, LastIs, <1>m, <1>o, <1>s, <1>n, <1>e DEF RowFits, OwnerFits, Ended, OnlyJob, OnlyProc
<1>5. ASSUME NEW c \in Ids, c \notin crossed'
      PROVE  (Prefix(c) /\ LegacyFits(c) /\ ScratchFits(c) /\ GoneFits(c))'
  <2>1. Prefix(c)'
    BY Parts, LastIs, <1>m, <1>o, <1>s, <1>n, <1>e, <1>5 DEF Prefix, Covered, Passed, Ended,
       OnlyJob, OnlyProc
  <2>2. LegacyFits(c)'
    BY Parts, LastIs, <1>m, <1>o, <1>s, <1>n, <1>e, <1>5 DEF LegacyFits, Ended, OnlyJob, OnlyProc
  <2>3. ScratchFits(c)'
    BY Parts, LastIs, <1>m, <1>o, <1>s, <1>n, <1>e, <1>5 DEF ScratchFits, Ended, OnlyJob, OnlyProc
  <2>4. GoneFits(c)'
    BY Parts, LastIs, <1>m, <1>o, <1>s, <1>n, <1>e, <1>5 DEF GoneFits, Covered, Passed, UseFits,
       Evicting, Ended, OnlyJob, OnlyProc
  <2> QED
    BY <2>1, <2>2, <2>3, <2>4
<1>6. ASSUME NEW q \in Procs, Base(q)' \notin crossed' PROVE StepsFit(q)'
  <2>1. CASE q # p
    BY <1>w, <1>6, <2>1, OthersFit
  <2>2. CASE q = p
    BY <1>e, <2>2 DEF StepsFit, Ahead, Back, Ended
  <2> QED
    BY <2>1, <2>2
<1>7. ASSUME NEW c \in Ids, c \notin (crossed \cup torn)' PROVE (DidFits(c) /\ BuiltFits(c))'
  <2>1. DidFits(c)'
    BY Parts, LastIs, <1>m, <1>o, <1>s, <1>n, <1>e, <1>7 DEF DidFits, Did, Ended, OnlyJob,
       OnlyProc
  <2>2. BuiltFits(c)'
    BY Parts, LastIs, <1>m, <1>o, <1>s, <1>n, <1>e, <1>7 DEF BuiltFits, Finished, IsBuilt, IsDir,
       RowFits, Ended, OnlyJob, OnlyProc
  <2> QED
    BY <2>1, <2>2
<1>8. ASSUME NEW q \in Procs, (Base(q) \notin crossed \cup torn)' PROVE ActFits(q)'
  <2>1. CASE q # p
    BY <1>w, <1>8, <2>1, OthersFit
  <2>2. CASE q = p
    BY <1>e, <2>2 DEF ActFits, Back, Ended
  <2> QED
    BY <2>1, <2>2
<1>9. HomesFit'
  BY Parts, LastIs, <1>m, <1>o, <1>s, <1>n, <1>e DEF HomesFit, HomeIsReady, Ended, OnlyJob,
     OnlyProc
<1> QED
  BY <1>1, <1>2, <1>3, <1>4, <1>5, <1>6, <1>7, <1>8, <1>9 DEF IInv, KeepInv, DoneInv, Kept

(* The commit of a build. *)
LEMMA CommitKeeps ==
    ASSUME IInv, NEW p \in Procs, Commit(p)
    PROVE  IInv'
<1> DEFINE b == Base(p)
<1>0. b \in Ids /\ proc[p].mode \in {"run", "retry", "resume"}
  BY Parts DEF Commit, ModeFits, Drives, Ahead
<1>1. CASE Insertable(b)
  <2>1. /\ job[b].state = "running" /\ row' = [row EXCEPT ![b] = job[b].key]
        /\ job' = [job EXCEPT ![b].state = "committed"]
        /\ proc' = [proc EXCEPT ![p].mode = "none",
                                ![p].base = IF proc[p].mode = "resume" THEN NoBase ELSE proc[p].base,
                                ![p].phase = IF proc[p].mode = "resume" THEN "resolve" ELSE "found"]
    BY <1>1 DEF Commit, Insertable
  <2>2. CASE proc[p].mode = "resume"
    <3>1. proc' = [proc EXCEPT ![p].mode = "none", ![p].base = NoBase, ![p].phase = "resolve"]
      BY <2>1, <2>2
    <3>2. Commits(p, b, NoBase, "resolve")
      <4> HIDE DEF b
      <4>1. b = Base(p)
        BY DEF b
      <4> QED
        BY <1>0, <2>1, <3>1, <4>1, CommitsDoes
    <3> QED
      BY <2>2, <3>2, CommitResumedKeeps
  <2>3. CASE proc[p].mode # "resume"
    <3>1. proc' = [proc EXCEPT ![p].mode = "none", ![p].base = Base(p), ![p].phase = "found"]
      BY <2>1, <2>3 DEF Base
    <3>2. Commits(p, b, Base(p), "found")
      <4> HIDE DEF b
      <4>1. b = Base(p)
        BY DEF b
      <4> QED
        BY <1>0, <2>1, <3>1, <4>1, CommitsDoes
    <3> QED
      BY <1>0, <2>3, <3>2, CommitOwnKeeps DEF Base
  <2> QED
    BY <2>2, <2>3
<1>2. CASE ~Insertable(Base(p)) /\ proc[p].mode = "run"
  BY <1>2, BeginUndoKeeps DEF Commit
<1>3. CASE ~Insertable(Base(p)) /\ proc[p].mode # "run"
  BY <1>3, GiveUpKeeps DEF Commit
<1> QED
  BY <1>1, <1>2, <1>3

(* A process is killed. *)
LEMMA KillKeeps ==
    ASSUME IInv, NEW p \in Procs, Kill(p)
    PROVE  IInv'
<1> USE DEF Base, Drives
<1>e. /\ UNCHANGED <<row, disk, marked, scratch, drawn, crossed, excl, homes>>
      /\ torn \subseteq torn'
      /\ proc[p].phase \in {"unmaking", "undone"} => proc[p].base \in torn'
      /\ Ended(p) /\ p # "gone"
  BY Parts, StopDoes, GoneIsNobody DEF Kill, world
<1>j. /\ DOMAIN job' = Ids
      /\ \A c \in Ids : /\ DOMAIN job'[c] = JobFields /\ job'[c].state = job[c].state
                        /\ job'[c].applied = job[c].applied /\ job'[c].key = job[c].key
                        /\ job'[c].excl = job[c].excl
                        /\ \/ job'[c].owner = job[c].owner
                           \/ /\ job[c].owner = p /\ job[c].state = "running"
                              /\ job'[c].owner = "gone"
  <2>1. job' = [c \in Ids |-> IF job[c].owner = p /\ job[c].state = "running"
                              THEN [job[c] EXCEPT !.owner = "gone"] ELSE job[c]]
    BY DEF Kill
  <2>2. ASSUME NEW c \in Ids
        PROVE  /\ DOMAIN job'[c] = JobFields /\ job'[c].state = job[c].state
               /\ job'[c].applied = job[c].applied /\ job'[c].key = job[c].key
               /\ job'[c].excl = job[c].excl
               /\ \/ job'[c].owner = job[c].owner
                  \/ /\ job[c].owner = p /\ job[c].state = "running"
                     /\ job'[c].owner = "gone"
    <3>1. CASE job[c].owner = p /\ job[c].state = "running"
      <4>1. job'[c] = [job[c] EXCEPT !.owner = "gone"]
        BY <2>1, <3>1
      <4> QED
        BY Parts, <3>1, <4>1 DEF Shapes, JobFits, JobFields
    <3>2. CASE ~(job[c].owner = p /\ job[c].state = "running")
      BY Parts, <2>1, <3>2 DEF Shapes, JobFits
    <3> QED
      BY <3>1, <3>2
  <2> QED
    BY <2>1, <2>2
<1>1. Shapes'
  <2>1. ASSUME NEW c \in Ids PROVE TreeFits(c)'
    BY Parts, LastIs, <1>e, <1>j DEF Shapes, TreeFits, Places, Ended, OnlyProc
  <2>2. ASSUME NEW c \in Ids PROVE JobFits(c)'
    BY Parts, LastIs, <1>e, <1>j DEF Shapes, JobFits, JobStates, Ended, OnlyProc
  <2>3. ASSUME NEW q \in Procs PROVE ProcFits(q)'
    BY Parts, LastIs, <1>e, <1>j DEF Shapes, ProcFits, Ended, OnlyProc
  <2> QED
    BY Parts, LastIs, <1>e, <1>j, <2>1, <2>2, <2>3 DEF Shapes, Ended, OnlyProc
<1>2. Alone'
  BY Parts, LastIs, <1>e, <1>j DEF Alone, Ended, OnlyProc
<1>3. ASSUME NEW q \in Procs
      PROVE  (ModeFits(q) /\ OwnerFits(q) /\ ListFits(q) /\ UseFits(q) /\ PlaceFits(q) /\ FoundFits(q))'
  <2>1. ModeFits(q)'
    BY Parts, LastIs, <1>e, <1>j DEF ModeFits, Ahead, Back, Evicting, Ended, OnlyProc
  <2>2. OwnerFits(q)'
    BY Parts, LastIs, <1>e, <1>j DEF OwnerFits, ModeFits, Ended, OnlyProc
  <2>3. ListFits(q)'
    BY Parts, LastIs, <1>e, <1>j DEF ListFits, Resolving, OwnerFits, Shapes, ProcFits, Ended,
       OnlyProc
  <2>4. UseFits(q)'
    BY Parts, LastIs, <1>e, <1>j DEF UseFits, ModeFits, Evicting, Ended, OnlyProc
  <2>5. PlaceFits(q)'
    BY Parts, LastIs, <1>e, <1>j DEF PlaceFits, Ahead, Back, Ended, OnlyProc
  <2>6. FoundFits(q)'
    BY Parts, LastIs, <1>e, <1>j DEF FoundFits, ModeFits, Evicting, IsBuilt, IsDir, UseFits,
       Ended, OnlyProc
  <2> QED
    BY <2>1, <2>2, <2>3, <2>4, <2>5, <2>6
<1>4. ASSUME NEW c \in Ids PROVE RowFits(c)'
  BY Parts, LastIs, <1>e, <1>j DEF RowFits, OwnerFits, Ended, OnlyProc
<1>5. ASSUME NEW c \in Ids, c \notin crossed'
      PROVE  (Prefix(c) /\ LegacyFits(c) /\ ScratchFits(c) /\ GoneFits(c))'
  <2>1. Prefix(c)'
    BY Parts, LastIs, <1>e, <1>j, <1>5 DEF Prefix, Covered, Passed, Ended, OnlyProc
  <2>2. LegacyFits(c)'
    BY Parts, LastIs, <1>e, <1>j, <1>5 DEF LegacyFits, Ended, OnlyProc
  <2>3. ScratchFits(c)'
    BY Parts, LastIs, <1>e, <1>j, <1>5 DEF ScratchFits, Ended, OnlyProc
  <2>4. GoneFits(c)'
    BY Parts, LastIs, <1>e, <1>j, <1>5 DEF GoneFits, Covered, Passed, UseFits, Evicting, Ended,
       OnlyProc
  <2> QED
    BY <2>1, <2>2, <2>3, <2>4
<1>6. ASSUME NEW q \in Procs, Base(q)' \notin crossed' PROVE StepsFit(q)'
  BY Parts, LastIs, <1>e, <1>j, <1>6 DEF StepsFit, ModeFits, Covered, Passed, Ahead, Back, Ended,
     OnlyProc
<1>7. ASSUME NEW c \in Ids, c \notin (crossed \cup torn)' PROVE (DidFits(c) /\ BuiltFits(c))'
  <2>1. DidFits(c)'
    BY Parts, LastIs, <1>e, <1>j, <1>7 DEF DidFits, Did, Ended, OnlyProc
  <2>2. BuiltFits(c)'
    BY Parts, LastIs, <1>e, <1>j, <1>7 DEF BuiltFits, Finished, IsBuilt, IsDir, RowFits, Ended,
       OnlyProc
  <2> QED
    BY <2>1, <2>2
<1>8. ASSUME NEW q \in Procs, (Base(q) \notin crossed \cup torn)' PROVE ActFits(q)'
  BY Parts, LastIs, <1>e, <1>j, <1>8 DEF ActFits, ModeFits, Did, IsDir, Ahead, Back, Ended,
     OnlyProc
<1>9. HomesFit'
  BY Parts, LastIs, <1>e, <1>j DEF HomesFit, HomeIsReady, Ended, OnlyProc
<1> QED
  BY <1>1, <1>2, <1>3, <1>4, <1>5, <1>6, <1>7, <1>8, <1>9 DEF IInv, KeepInv, DoneInv, Kept

-----------------------------------------------------------------------------
(* Of an empty cache, and of the tree an earlier release left. *)
LEMMA InitInv == Init => IInv
<1> SUFFICES ASSUME Init PROVE IInv
  OBVIOUS
<1> USE DEF Base, Drives
<1>1. /\ DOMAIN NoTree = TreeFields /\ NoTree.place = "none" /\ DOMAIN NoTree.has = Installs
      /\ DOMAIN NoJob = JobFields /\ NoJob.state = "none" /\ NoJob.applied = {} /\ NoJob.excl = {}
  BY DEF NoTree, NoJob, TreeFields, JobFields
<1>2. /\ DOMAIN Idle = ProcFields /\ Idle.phase = "idle" /\ Idle.mode = "none" /\ Idle.base = NoBase
      /\ Idle.at = 1 /\ Idle.skip = {} /\ Idle.list = {} /\ Idle.excl = {}
  BY DEF Idle, ProcFields
<1>3. \A p \in Procs : proc[p] = Idle
  BY DEF Init
<1> DEFINE Left(b) ==
             /\ DOMAIN disk[b] = TreeFields /\ DOMAIN disk[b].has = Installs /\ disk[b].place = "legacy"
             /\ disk[b].at = job[b].key /\ DOMAIN job[b] = JobFields /\ job[b].state = "failed" /\ job[b].applied = {1, 2}
             /\ job[b].excl = {} /\ job[b].key # NoKey /\ b = 1 /\ drawn = 1
           Starts == /\ DOMAIN disk = Ids /\ DOMAIN job = Ids /\ drawn \in 0..MaxBases
                     /\ \A b \in Ids : (disk[b] = NoTree /\ job[b] = NoJob) \/ Left(b)
<1>4. Starts
  <2>1. CASE disk = [b \in Ids |-> NoTree] /\ job = [b \in Ids |-> NoJob] /\ drawn = 0
    BY <2>1, BoundIsNat
  <2>2. ASSUME NEW k \in Keys,
               disk = [b \in Ids |-> IF b = 1 THEN [NoTree EXCEPT !.place = "legacy", !.at = k] ELSE NoTree],
               job = [b \in Ids |-> IF b = 1 THEN [NoJob EXCEPT !.state = "failed", !.key = k,
                                                                !.applied = {1, 2}] ELSE NoJob],
               drawn = 1
        PROVE  Starts
    <3>1. PICK t : /\ t = [[NoTree EXCEPT !.place = "legacy"] EXCEPT !.at = k]
                   /\ disk = [b \in Ids |-> IF b = 1 THEN t ELSE NoTree]
      BY <2>2
    <3>2. DOMAIN t = TreeFields /\ DOMAIN t.has = Installs /\ t.place = "legacy" /\ t.at = k
      BY <1>1, <3>1 DEF TreeFields
    <3>3. PICK j : /\ j = [[[NoJob EXCEPT !.state = "failed"] EXCEPT !.key = k] EXCEPT !.applied = {1, 2}]
                   /\ job = [b \in Ids |-> IF b = 1 THEN j ELSE NoJob]
      BY <2>2
    <3>4. /\ DOMAIN j = JobFields /\ j.state = "failed" /\ j.applied = {1, 2} /\ j.excl = {} /\ j.key = k
      BY <1>1, <3>3 DEF JobFields
    <3> QED
      BY <2>2, <3>1, <3>2, <3>3, <3>4, NoKeyIsNone, BoundIsNat
  <2> QED
    BY <2>1, <2>2 DEF Init
<1>5. Shapes
  <2>1. \A b \in Ids : TreeFits(b) /\ JobFits(b)
    BY <1>1, <1>4, StepsAre DEF TreeFits, JobFits, JobStates, Places
  <2>2. \A p \in Procs : ProcFits(p)
    BY <1>2, <1>3, StepsAre DEF ProcFits
  <2> QED
    BY <1>4, <2>1, <2>2 DEF Init, Shapes
<1>6. \A p \in Procs : proc[p].phase = "idle" /\ proc[p].mode = "none"
  BY <1>2, <1>3
<1>7. \A p \in Procs : ModeFits(p) /\ OwnerFits(p) /\ ListFits(p) /\ UseFits(p) /\ PlaceFits(p)
  BY <1>6 DEF ModeFits, OwnerFits, ListFits, UseFits, PlaceFits, Resolving, Ahead, Back, Evicting
<1>8. \A b \in Ids : RowFits(b)
  <2>1. NoJob.state = "none" /\ drawn \in 0..MaxBases /\ \A b \in Ids : row[b] = NoKey
    BY <1>1, <1>4 DEF Init
  <2> QED
    BY <1>1, <1>4, <2>1 DEF RowFits
<1>9. \A b \in Ids : Kept(b)
  <2>1. ASSUME NEW b \in Ids PROVE Prefix(b)
    BY <1>1, <1>4 DEF Prefix, Covered, Passed
  <2>2. ASSUME NEW b \in Ids PROVE LegacyFits(b) /\ ScratchFits(b) /\ GoneFits(b)
    <3>1. LegacyFits(b)
      BY <1>1, <1>4, <1>6, StepsAre DEF LegacyFits
    <3>2. ScratchFits(b)
      BY <1>6 DEF ScratchFits, Init
    <3>3. GoneFits(b)
      BY <1>1, <1>4, <1>6 DEF GoneFits
    <3> QED
      BY <3>1, <3>2, <3>3
  <2> QED
    BY <2>1, <2>2 DEF Kept
<1>10. \A p \in Procs : StepsFit(p) /\ ActFits(p) /\ FoundFits(p)
  BY <1>6 DEF StepsFit, ActFits, FoundFits, Ahead, Back
<1>11. \A b \in Ids : DidFits(b) /\ BuiltFits(b)
  <2>1. ASSUME NEW b \in Ids PROVE DidFits(b)
    <3>1. CASE Left(b)
      <4>1. Did(b, 1) /\ Did(b, 2)
        BY <3>1, StepsAre DEF Did
      <4> QED
        BY <3>1, <4>1 DEF DidFits
    <3>2. CASE ~Left(b)
      BY <1>1, <1>4, <3>2 DEF DidFits
    <3> QED
      BY <3>1, <3>2
  <2>2. ASSUME NEW b \in Ids PROVE BuiltFits(b)
    BY <1>1, <1>4 DEF BuiltFits, IsBuilt, IsDir, Init
  <2> QED
    BY <2>1, <2>2
<1> QED
  BY <1>5, <1>6, <1>7, <1>8, <1>9, <1>10, <1>11
     DEF IInv, KeepInv, DoneInv, Alone, HomesFit, HomeIsReady, Init

(* A step that only edits the recipe, or does nothing. *)
LEMMA StutterKeeps ==
    ASSUME IInv, UNCHANGED vars
    PROVE  IInv'
BY AsideKeeps, Parts DEF vars, world, bounds, Shapes

(* Every step keeps the invariant. *)
LEMMA ProgressKeeps ==
    ASSUME IInv, NEW p \in Procs, Progress(p)
    PROVE  IInv'
BY TakeOverKeeps, ResolvedKeeps, WarmKeeps, CarriedOnKeeps, BuildOneKeeps, PassKeeps, SettleKeeps,
   StartCloneKeeps, MarkCloneKeeps, MoveCloneKeeps, CheckoutKeeps, ToolKeeps, PromoteKeeps,
   RecordKeeps, CommitKeeps, UndoKeeps, UndoPassKeeps, UnmakeKeeps, UnmadeKeeps, MarkUndoneKeeps,
   CloseUndoneKeeps, CloneHomeKeeps, CommitHomeKeeps, EvictOneKeeps, StartRemoveKeeps,
   EndRemoveKeeps, ForgetKeeps
   DEF Progress

(* Every action keeps the invariant, and so does a step that changes nothing. *)
LEMMA StepInv ==
    ASSUME IInv, [Next]_vars
    PROVE  IInv'
<1>1. CASE EditRecipe
  BY <1>1, EditRecipeKeeps
<1>2. ASSUME NEW b \in Ids, ClearDisk(b) PROVE IInv'
  BY <1>2, ClearDiskKeeps
<1>3. ASSUME NEW p \in Procs,
             Begin(p) \/ Progress(p) \/ PinRefuses(p) \/ StepFails(p) \/ UndoFails(p) \/ Kill(p)
      PROVE  IInv'
  BY <1>3, BeginKeeps, ProgressKeeps, PinRefusesKeeps, StepFailsKeeps, UndoFailsKeeps, KillKeeps
<1>4. CASE UNCHANGED vars
  BY <1>4, StutterKeeps
<1> QED
  BY <1>1, <1>2, <1>3, <1>4 DEF Next

(* The invariant holds in every state (bases.rs, build.rs, materialise.rs). *)
THEOREM BasesInvariant == Spec => []IInv
<1>1. IInv /\ [Next]_vars => IInv'
  BY StepInv
<1> QED
  BY InitInv, <1>1, PTL DEF Spec

(* Nothing that holds disk is forgotten: every directory of a base, and      *)
(* every scratch directory a running attempt counts on, is named by a row or *)
(* by a run of the journal (evict's order, Materialise::undo).               *)
THEOREM NothingForgottenHolds == Spec => []NothingForgotten
<1>1. ASSUME IInv PROVE NothingForgotten
  <2> SUFFICES ASSUME NEW b \in Ids \ crossed,
                      disk[b].place # "none" \/ \E p \in Procs : <<b, p>> \in scratch
               PROVE  row[b] # NoKey \/ job[b].state \in {"running", "failed", "stuck"}
    BY DEF NothingForgotten
  <2>1. CASE \E p \in Procs : <<b, p>> \in scratch
    <3>1. \E s \in scratch : s[1] = b
      BY <2>1
    <3> QED
      BY <1>1, <3>1, Parts DEF ScratchFits
  <2>2. CASE disk[b].place # "none"
    BY <1>1, <2>2, Parts DEF RowFits, GoneFits, Shapes, JobFits, JobStates
  <2> QED
    BY <2>1, <2>2
<1> QED
  BY BasesInvariant, <1>1, PTL

(* What is not marked is a finished base, and so is every base that has a    *)
(* row (mark_of, settle, Promote, resume).                                   *)
THEOREM BuiltIsFinishedHolds == Spec => []BuiltIsFinished
<1>1. ASSUME IInv PROVE BuiltIsFinished
  BY <1>1, Parts DEF BuiltIsFinished, BuiltFits, Finished
<1> QED
  BY BasesInvariant, <1>1, PTL

(* A home cloned from a base that nobody had begun to take away, and that    *)
(* two processes did not build at once, is cloned from a finished one, and   *)
(* each install it reads ran for its key, but for those the base left to a   *)
(* home that, by a later recipe, does not run them (where_it_runs, evict).   *)
THEOREM HomeIsReadyHolds == Spec => []HomeIsReady
<1>1. ASSUME IInv PROVE HomeIsReady
  BY <1>1, Parts DEF HomesFit
<1> QED
  BY BasesInvariant, <1>1, PTL
=============================================================================
