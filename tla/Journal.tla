------------------------------ MODULE Journal ------------------------------
(***************************************************************************)
(* The operation journal of crates/nodal-core/src/lifecycle (mod.rs,       *)
(* journal.rs, step.rs, owner.rs): every nodal operation is a plan of      *)
(* idempotent steps and one registry write.  A run writes the journal      *)
(* before and after each step; a process that dies leaves its run for the  *)
(* next command, which resolves it before doing anything else.             *)
(*                                                                         *)
(* One registry is shared by every nodal process.  Each statement on the   *)
(* registry is one atomic step here; between two of them any other process *)
(* may move and this one may be killed.  Steps and undos act on the world  *)
(* (directories, refs, containers) and are not atomic: they can be cut     *)
(* short and leave it "partial".                                           *)
(*                                                                         *)
(* A process identifier is a slot: when its process is gone a new command  *)
(* may be given the same number, which is why a run can read as running    *)
(* when it is not.                                                         *)
(***************************************************************************)
EXTENDS Naturals, FiniteSets

CONSTANTS
    Ops,            \* operation identifiers; ULIDs, so a later one is larger
    Procs,          \* process identifiers
    HostOf,         \* the machine each identifier is on
    PlanLength,     \* the number of steps of a plan
    Answering,      \* the steps whose apply returns an output for the commit
    Resumable,      \* plans with Recovery::Resume; the others roll back
    Recording,      \* plans that record a home before their first step
    Rebuildable,    \* runs whose plan can be rebuilt from kind and params
    RefusedCommits, \* operations whose registry write may be refused
    MaxFaults,      \* bound: kills, failed steps, failed undos and refusals
    MaxLive         \* bound: nodal processes alive at one moment

Steps == 1..PlanLength

ASSUME ConstantsAssumption ==
    /\ Ops \subseteq Nat /\ Ops # {}
    /\ Procs # {}
    /\ PlanLength \in Nat \ {0}
    /\ Answering \subseteq Steps
    /\ Resumable \subseteq Ops
    /\ Recording \subseteq Ops
    /\ Rebuildable \subseteq Ops
    /\ RefusedCommits \subseteq Ops
    /\ MaxFaults \in Nat
    /\ MaxLive \in Nat \ {0}

VARIABLES
    state,      \* operation.state, "absent" before journal::start
    owner,      \* operation.host and operation.pid
    rowState,   \* operation_step.state, "none" while there is no row
    rowOutput,  \* operation_step.output
    world,      \* what each step has done outside the registry
    written,    \* whether the registry rows of the operation exist
    handed,     \* the Outputs the registry write was given
    pc,         \* where each process is
    mode,       \* which of run, retry, resume, roll_back it is inside
    cur,        \* the operation it is inside
    done,       \* the steps it need not apply again
    heard,      \* the Outputs it holds in memory
    acted,      \* the steps its undo still has to take back
    todo,       \* resolve's list: <<operation, owner as it was read>>
    faults      \* faults spent

journal == <<state, owner, rowState, rowOutput>>
registry == <<written, handed>>
locals == <<mode, cur, done, heard, acted>>
vars == <<journal, registry, world, pc, locals, todo, faults>>

States == {"absent", "running", "committed", "rolled_back", "failed"}
StepStates == {"none", "applying", "applied", "undone"}
Outputs == {"nothing", "answer", "failure"}
Worlds == {"absent", "partial", "done"}
Modes == {"none", "run", "retry", "resume", "roll_back"}
Pcs == {"gone", "resolve", "ready", "record", "load", "apply", "applying",
        "applied", "keep", "close_kept", "load_undo", "undo", "undone",
        "close_stuck"}

Live(p) == pc[p] # "gone"
NoOp == CHOOSE o \in Ops : TRUE
Silence == [i \in Steps |-> "nothing"]
First(S) == CHOOSE i \in S : \A j \in S : i <= j
Last(S) == CHOOSE i \in S : \A j \in S : j <= i

(* StepState::may_have_acted *)
MayHaveActed(s) == s \in {"applying", "applied"}
Running == {o \in Ops : state[o] = "running"}
ActedSteps(o) == {i \in Steps : MayHaveActed(rowState[o][i])}
AppliedSteps(o) == {i \in Steps : rowState[o][i] = "applied"}

(* journal::outputs: what the applied rows hold, and nothing of the others *)
JournalledOutputs(o) ==
    [i \in Steps |-> IF rowState[o][i] = "applied" THEN rowOutput[o][i] ELSE "nothing"]

(* The output a step answers with; a step with nothing to say has none. *)
OutputOf(i) == IF i \in Answering THEN "answer" ELSE "nothing"

(* output = COALESCE(excluded.output, operation_step.output) *)
Coalesce(new, old) == IF new = "nothing" THEN old ELSE new

(***************************************************************************)
(* Local moves shared by the actions.                                      *)
(***************************************************************************)
GoTo(p, where) == pc' = [pc EXCEPT ![p] = where]

MarkStep(o, i, s, output) ==
    /\ rowState' = [rowState EXCEPT ![o][i] = s]
    /\ rowOutput' = [rowOutput EXCEPT ![o][i] = Coalesce(output, @)]

(* Mutant: finish without AND state = 'running' *)
FinishWhatever(o, s) == state' = [state EXCEPT ![o] = s]

(* journal::finish moves only a running row. *)
Finish(o, s) == state' = [state EXCEPT ![o] = IF @ = "running" THEN s ELSE @]

Forget(p) ==
    /\ mode' = [mode EXCEPT ![p] = "none"]
    /\ cur' = [cur EXCEPT ![p] = NoOp]
    /\ done' = [done EXCEPT ![p] = {}]
    /\ heard' = [heard EXCEPT ![p] = Silence]
    /\ acted' = [acted EXCEPT ![p] = {}]

(* The process is over: it was killed, or its command ended. *)
Gone(p) == GoTo(p, "gone") /\ Forget(p) /\ todo' = [todo EXCEPT ![p] = {}]

(* A run or retry returns to its command; a resolver takes its next entry. *)
Return(p) ==
    /\ GoTo(p, IF mode[p] \in {"run", "retry"} THEN "ready" ELSE "resolve")
    /\ Forget(p)
    /\ UNCHANGED todo

(* An error a resolver meets ends the command that called resolve. *)
ReturnError(p) ==
    IF mode[p] \in {"run", "retry"} THEN Return(p) ELSE Gone(p)

Enter(p, m, o, where) ==
    /\ mode' = [mode EXCEPT ![p] = m]
    /\ cur' = [cur EXCEPT ![p] = o]
    /\ GoTo(p, where)
    /\ UNCHANGED <<done, heard, acted>>

Fault == faults < MaxFaults /\ faults' = faults + 1
-----------------------------------------------------------------------------
Init ==
    /\ state = [o \in Ops |-> "absent"]
    /\ owner = [o \in Ops |-> CHOOSE p \in Procs : TRUE]
    /\ rowState = [o \in Ops |-> [i \in Steps |-> "none"]]
    /\ rowOutput = [o \in Ops |-> Silence]
    /\ world = [o \in Ops |-> [i \in Steps |-> "absent"]]
    /\ written = [o \in Ops |-> FALSE]
    /\ handed = [o \in Ops |-> Silence]
    /\ pc = [p \in Procs |-> "gone"]
    /\ mode = [p \in Procs |-> "none"]
    /\ cur = [p \in Procs |-> NoOp]
    /\ done = [p \in Procs |-> {}]
    /\ heard = [p \in Procs |-> Silence]
    /\ acted = [p \in Procs |-> {}]
    /\ todo = [p \in Procs |-> {}]
    /\ faults = 0
-----------------------------------------------------------------------------
(***************************************************************************)
(* A command starts.  Before it does anything else resolve reads the runs  *)
(* that are still open, oldest first, and works through what it has read;  *)
(* it does not read a run again before it acts on it.                      *)
(***************************************************************************)
Open(p) ==
    /\ ~ Live(p)
    /\ Cardinality({q \in Procs : Live(q)}) < MaxLive
    /\ todo' = [todo EXCEPT ![p] = {<<o, owner[o]>> : o \in Running}]
    /\ GoTo(p, "resolve")
    /\ UNCHANGED <<journal, registry, world, locals, faults>>

(* Mutant: the pid is not asked whether it is alive *)
OwnerIsAnother(p, w) == HostOf[w] = HostOf[p] /\ w # p

(* Owner::state: another machine's run, this very pid or a live pid is left alone. *)
OwnerIsGone(p, w) == HostOf[w] = HostOf[p] /\ w # p /\ ~ Live(w)

(* The oldest entry of resolve's list. *)
Oldest(p) == CHOOSE e \in todo[p] : \A f \in todo[p] : e[1] <= f[1]
Drop(p) == todo' = [todo EXCEPT ![p] = @ \ {Oldest(p)}]

(* Action::InProgress, Elsewhere, Unknown and Unresolved touch nothing. *)
LeaveAlone(p) ==
    /\ pc[p] = "resolve" /\ todo[p] # {}
    /\ ~ OwnerIsGone(p, Oldest(p)[2]) \/ Oldest(p)[1] \notin Rebuildable
    /\ Drop(p)
    /\ UNCHANGED <<journal, registry, world, pc, locals, faults>>

(* take_over, which neither claims the run nor reads its state again *)
TakeOver(p) ==
    /\ pc[p] = "resolve" /\ todo[p] # {}
    /\ OwnerIsGone(p, Oldest(p)[2]) /\ Oldest(p)[1] \in Rebuildable
    /\ IF Oldest(p)[1] \in Resumable
       THEN Enter(p, "resume", Oldest(p)[1], "load")
       ELSE Enter(p, "roll_back", Oldest(p)[1], "load_undo")
    /\ Drop(p)
    /\ UNCHANGED <<journal, registry, world, faults>>

Resolved(p) ==
    /\ pc[p] = "resolve" /\ todo[p] = {}
    /\ GoTo(p, "ready")
    /\ UNCHANGED <<journal, registry, world, locals, todo, faults>>

(* The command is over and the process exits. *)
Exit(p) ==
    /\ pc[p] = "ready"
    /\ Gone(p)
    /\ UNCHANGED <<journal, registry, world, faults>>
-----------------------------------------------------------------------------
(***************************************************************************)
(* run: open the run, take the record, then one step after another.        *)
(***************************************************************************)
Run(p, o) ==
    /\ pc[p] = "ready" /\ state[o] = "absent"
    /\ state' = [state EXCEPT ![o] = "running"]
    /\ owner' = [owner EXCEPT ![o] = p]
    /\ Enter(p, "run", o, "record")
    /\ UNCHANGED <<rowState, rowOutput, registry, world, todo, faults>>

RecordOk(p) ==
    /\ pc[p] = "record"
    /\ GoTo(p, "apply")
    /\ UNCHANGED <<journal, registry, world, locals, todo, faults>>

(* The record could not be taken: no step has run, and the run is closed. *)
RecordFail(p) ==
    /\ pc[p] = "record" /\ cur[p] \in Recording
    /\ Fault
    /\ Finish(cur[p], "failed")
    /\ Return(p)
    /\ UNCHANGED <<owner, rowState, rowOutput, registry, world>>

(* build::unfinished: the tree of the first step is there, the last step has
   not handed it over; bases::failing_step: a row is still applying *)
CanCarryOn(o) ==
    /\ o \in Resumable
    /\ world[o][1] = "done" /\ world[o][PlanLength] # "done"
    /\ \E i \in Steps : rowState[o][i] = "applying"

(* retry and reopen: a failed run is put back to running under this process *)
Retry(p, o) ==
    /\ pc[p] = "ready" /\ state[o] = "failed" /\ CanCarryOn(o)
    /\ state' = [state EXCEPT ![o] = "running"]
    /\ owner' = [owner EXCEPT ![o] = p]
    /\ Enter(p, "retry", o, "load")
    /\ UNCHANGED <<rowState, rowOutput, registry, world, todo, faults>>

(* Mutant: a step that was in flight counts as done *)
LoadInFlight(p) ==
    /\ pc[p] = "load"
    /\ done' = [done EXCEPT ![p] = ActedSteps(cur[p])]
    /\ heard' = [heard EXCEPT ![p] = JournalledOutputs(cur[p])]
    /\ GoTo(p, "apply")
    /\ UNCHANGED <<journal, registry, world, mode, cur, acted, todo, faults>>

(* applied_keys and journal::outputs, for a retry or a resume *)
Load(p) ==
    /\ pc[p] = "load"
    /\ done' = [done EXCEPT ![p] = AppliedSteps(cur[p])]
    /\ heard' = [heard EXCEPT ![p] = JournalledOutputs(cur[p])]
    /\ GoTo(p, "apply")
    /\ UNCHANGED <<journal, registry, world, mode, cur, acted, todo, faults>>

NextStep(p) == First(Steps \ done[p])

(* Mutant: the journal is written only after the step *)
MarkNothing(p) ==
    /\ pc[p] = "apply" /\ done[p] # Steps
    /\ GoTo(p, "applying")
    /\ UNCHANGED <<journal, registry, world, locals, todo, faults>>

MarkApplying(p) ==
    /\ pc[p] = "apply" /\ done[p] # Steps
    /\ MarkStep(cur[p], NextStep(p), "applying", "nothing")
    /\ GoTo(p, "applying")
    /\ UNCHANGED <<state, owner, registry, world, locals, todo, faults>>

(* Step::apply has begun and what it makes is half there. *)
ApplyPart(p) ==
    /\ pc[p] = "applying" /\ world[cur[p]][NextStep(p)] = "absent"
    /\ world' = [world EXCEPT ![cur[p]][NextStep(p)] = "partial"]
    /\ UNCHANGED <<journal, registry, pc, locals, todo, faults>>

ApplyOk(p) ==
    /\ pc[p] = "applying"
    /\ world' = [world EXCEPT ![cur[p]][NextStep(p)] = "done"]
    /\ GoTo(p, "applied")
    /\ UNCHANGED <<journal, registry, locals, todo, faults>>

(* A failed step is undone by run, kept by run of a resumable plan and by
   retry, and leaves resume as the error of the command. *)
ApplyFail(p) ==
    /\ pc[p] = "applying"
    /\ Fault
    /\ \/ mode[p] = "resume" /\ Gone(p)
       \/ /\ mode[p] # "resume"
          /\ GoTo(p, IF cur[p] \in Resumable THEN "keep" ELSE "load_undo")
          /\ UNCHANGED <<locals, todo>>
    /\ UNCHANGED <<journal, registry, world>>

MarkApplied(p) ==
    /\ pc[p] = "applied"
    /\ MarkStep(cur[p], NextStep(p), "applied", OutputOf(NextStep(p)))
    /\ heard' = [heard EXCEPT ![p][NextStep(p)] = Coalesce(OutputOf(NextStep(p)), @)]
    /\ done' = [done EXCEPT ![p] = @ \cup {NextStep(p)}]
    /\ GoTo(p, "apply")
    /\ UNCHANGED <<state, owner, registry, world, mode, cur, acted, todo, faults>>

(* Mutant: the operation's state written into the step's row *)
KeepFailed(p) ==
    /\ pc[p] = "keep"
    /\ MarkStep(cur[p], NextStep(p), "failed", "failure")
    /\ GoTo(p, "close_kept")
    /\ UNCHANGED <<state, owner, registry, world, locals, todo, faults>>

(* keep: the row stays applying and its output becomes the failure *)
Keep(p) ==
    /\ pc[p] = "keep"
    /\ MarkStep(cur[p], NextStep(p), "applying", "failure")
    /\ GoTo(p, "close_kept")
    /\ UNCHANGED <<state, owner, registry, world, locals, todo, faults>>

CloseKept(p) ==
    /\ pc[p] = "close_kept"
    /\ Finish(cur[p], "failed")
    /\ Return(p)
    /\ UNCHANGED <<owner, rowState, rowOutput, registry, world, faults>>
-----------------------------------------------------------------------------
(***************************************************************************)
(* commit: the registry rows and the move to committed, one transaction.   *)
(***************************************************************************)
Commit(p) ==
    /\ pc[p] = "apply" /\ done[p] = Steps /\ state[cur[p]] = "running"
    /\ Finish(cur[p], "committed")
    /\ written' = [written EXCEPT ![cur[p]] = TRUE]
    /\ handed' = [handed EXCEPT ![cur[p]] = heard[p]]
    /\ Return(p)
    /\ UNCHANGED <<owner, rowState, rowOutput, world, faults>>

(* Mutant: a step that was in flight is not undone *)
LoadUndoApplied(p) ==
    /\ pc[p] = "load_undo"
    /\ acted' = [acted EXCEPT ![p] = AppliedSteps(cur[p])]
    /\ GoTo(p, "undo")
    /\ UNCHANGED <<journal, registry, world, mode, cur, done, heard, todo, faults>>

(* The registry refuses the rows, or close finds no running run: the
   transaction is dropped.  run undoes its steps; retry and resume answer the
   error and undo nothing. *)
CommitRefused(p) ==
    /\ pc[p] = "apply" /\ done[p] = Steps
    /\ IF state[cur[p]] = "running" THEN cur[p] \in RefusedCommits /\ Fault
                                    ELSE UNCHANGED faults
    /\ \/ mode[p] = "run" /\ GoTo(p, "load_undo") /\ UNCHANGED <<locals, todo>>
       \/ mode[p] # "run" /\ ReturnError(p)
    /\ UNCHANGED <<journal, registry, world>>
-----------------------------------------------------------------------------
(***************************************************************************)
(* undo_steps, for run and for roll_back, in reverse order.                *)
(***************************************************************************)
LoadUndo(p) ==
    /\ pc[p] = "load_undo"
    /\ acted' = [acted EXCEPT ![p] = ActedSteps(cur[p])]
    /\ GoTo(p, "undo")
    /\ UNCHANGED <<journal, registry, world, mode, cur, done, heard, todo, faults>>

(* Step::undo has begun and what the step made is half gone. *)
UndoPart(p) ==
    /\ pc[p] = "undo" /\ acted[p] # {}
    /\ world[cur[p]][Last(acted[p])] = "done"
    /\ world' = [world EXCEPT ![cur[p]][Last(acted[p])] = "partial"]
    /\ UNCHANGED <<journal, registry, pc, locals, todo, faults>>

Undo(p) ==
    /\ pc[p] = "undo" /\ acted[p] # {}
    /\ world' = [world EXCEPT ![cur[p]][Last(acted[p])] = "absent"]
    /\ GoTo(p, "undone")
    /\ UNCHANGED <<journal, registry, locals, todo, faults>>

UndoFail(p) ==
    /\ pc[p] = "undo" /\ acted[p] # {}
    /\ Fault
    /\ GoTo(p, "close_stuck")
    /\ UNCHANGED <<journal, registry, world, locals, todo>>

MarkUndone(p) ==
    /\ pc[p] = "undone"
    /\ MarkStep(cur[p], Last(acted[p]), "undone", "nothing")
    /\ acted' = [acted EXCEPT ![p] = @ \ {Last(@)}]
    /\ GoTo(p, "undo")
    /\ UNCHANGED <<state, owner, registry, world, mode, cur, done, heard, todo, faults>>

(* Mutant: the run that was taken back is not closed *)
NotClosed(p) ==
    /\ pc[p] = "undo" /\ acted[p] = {}
    /\ Return(p)
    /\ UNCHANGED <<journal, registry, world, faults>>

(* close insists on a run to move: without one the caller has an error. *)
CloseUndo(p, s) ==
    /\ Finish(cur[p], s)
    /\ IF state[cur[p]] = "running" THEN Return(p) ELSE ReturnError(p)
    /\ UNCHANGED <<owner, rowState, rowOutput, registry, world, faults>>

CloseUndone(p) == pc[p] = "undo" /\ acted[p] = {} /\ CloseUndo(p, "rolled_back")
CloseStuck(p) == pc[p] = "close_stuck" /\ CloseUndo(p, "failed")

(* ^C, a power cut, an OOM kill *)
Die(p) ==
    /\ Live(p)
    /\ Fault
    /\ Gone(p)
    /\ UNCHANGED <<journal, registry, world>>
-----------------------------------------------------------------------------
(* What a process does by itself once it has begun. *)
Progress(p) ==
    \/ LeaveAlone(p) \/ TakeOver(p) \/ Resolved(p) \/ Exit(p)
    \/ RecordOk(p) \/ Load(p) \/ MarkApplying(p) \/ ApplyOk(p)
    \/ (ApplyFail(p) /\ faults' = faults)
    \/ MarkApplied(p) \/ Keep(p) \/ CloseKept(p) \/ Commit(p)
    \/ (CommitRefused(p) /\ faults' = faults)
    \/ LoadUndo(p) \/ Undo(p) \/ MarkUndone(p) \/ CloseUndone(p) \/ CloseStuck(p)

Step(p) ==
    \/ Open(p) \/ LeaveAlone(p) \/ TakeOver(p) \/ Resolved(p) \/ Exit(p)
    \/ \E o \in Ops : Run(p, o) \/ Retry(p, o)
    \/ RecordOk(p) \/ RecordFail(p) \/ Load(p)
    \/ MarkApplying(p) \/ ApplyPart(p) \/ ApplyOk(p) \/ ApplyFail(p)
    \/ MarkApplied(p) \/ Keep(p) \/ CloseKept(p)
    \/ Commit(p) \/ CommitRefused(p)
    \/ LoadUndo(p) \/ UndoPart(p) \/ Undo(p) \/ UndoFail(p) \/ MarkUndone(p)
    \/ CloseUndone(p) \/ CloseStuck(p)
    \/ Die(p)

Next == \E p \in Procs : Step(p)

Spec == Init /\ [][Next]_vars

(* A process that has begun runs on until it exits or is killed, and people go
   on giving commands, from every pid. *)
FairSpec ==
    /\ Spec
    /\ \A p \in Procs : WF_vars(Progress(p)) /\ SF_vars(Open(p))
-----------------------------------------------------------------------------
(* Every variable holds a value of its type. *)
TypeOK ==
    /\ state \in [Ops -> States]
    /\ owner \in [Ops -> Procs]
    /\ rowState \in [Ops -> [Steps -> StepStates]]
    /\ rowOutput \in [Ops -> [Steps -> Outputs]]
    /\ world \in [Ops -> [Steps -> Worlds]]
    /\ written \in [Ops -> BOOLEAN]
    /\ handed \in [Ops -> [Steps -> Outputs]]
    /\ pc \in [Procs -> Pcs]
    /\ mode \in [Procs -> Modes]
    /\ cur \in [Procs -> Ops]
    /\ done \in [Procs -> SUBSET Steps]
    /\ heard \in [Procs -> [Steps -> Outputs]]
    /\ acted \in [Procs -> SUBSET Steps]
    /\ todo \in [Procs -> SUBSET (Ops \X Procs)]
    /\ faults \in 0..MaxFaults

(* The registry rows are there exactly when the journal says committed, whoever
   drove the run, however often it was driven and wherever it was killed: the
   one transaction of commit, and finish moving only a running row. *)
RegistryAndJournalAgree == \A o \in Ops : written[o] <=> state[o] = "committed"

(* Nothing a step made is on the disk without a row that makes undo_steps take
   it back: the mark before each apply, and the one after each undo. *)
NothingUnjournalled ==
    \A o \in Ops, i \in Steps :
        world[o][i] # "absent" => MayHaveActed(rowState[o][i])

(* A plan that rolls back and says rolled_back has left nothing behind, even
   when the undo was itself killed and taken up by several others. *)
RolledBackIsClean ==
    \A o \in Ops \ Resumable : state[o] = "rolled_back" =>
        \A i \in Steps : world[o][i] = "absent"

(* While a process is inside run, no other process drives its operation: its
   pid is alive, and resolve leaves a live pid alone. *)
StartedRunIsAlone ==
    \A p, q \in Procs :
        mode[p] = "run" /\ mode[q] # "none" /\ cur[q] = cur[p] => q = p

(* The registry write of a run is handed the answer of every step that has one,
   also when the process that commits saw none of those steps happen. *)
AnswersReachTheRegistry ==
    \A o \in Ops, i \in Answering : written[o] => handed[o][i] = "answer"

(* A committed operation is wholly done. *)
Whole(o) == state[o] = "committed" => \A i \in Steps : world[o][i] = "done"

(* A plan that resumes and whose registry write is never refused is whole once
   it is committed, although two processes may have driven it at once. *)
ResumedIsWhole == \A o \in Resumable \ RefusedCommits : Whole(o)

(* Every committed operation is whole ("either wholly done or wholly not"). *)
CommittedIsWhole == \A o \in Ops : Whole(o)

(* A terminal run stays as it is, except that a failed one may be reopened by
   retry, and a committed one keeps its registry rows. *)
ClosedStaysClosed ==
    [][\A o \in Ops : state[o] \in {"committed", "rolled_back", "failed"} =>
        \/ state'[o] = state[o]
        \/ state[o] = "failed" /\ o \in Resumable /\ state'[o] = "running"]_vars

(* A run a process opened is closed in the end, by its process or by a later
   command, however many times those are killed. *)
InterruptedRunIsResolved ==
    \A o \in Ops : state[o] = "running" ~> state[o] # "running"

-----------------------------------------------------------------------------
(***************************************************************************)
(* The inductive invariant: what lies behind the safety properties above.  *)
(***************************************************************************)
UndoPcs == {"load_undo", "undo", "undone", "close_stuck"}

(* Where a process is says which of the four it is inside, and a plan that rolls
   back is never resumed or retried, nor a resumable one rolled back. *)
ModeFits ==
    \A p \in Procs :
        /\ pc[p] \in {"gone", "resolve", "ready"} <=> mode[p] = "none"
        /\ pc[p] = "record" => mode[p] = "run"
        /\ pc[p] = "load" => mode[p] \in {"retry", "resume"}
        /\ pc[p] \in {"apply", "applying", "applied"} => mode[p] \in {"run", "retry", "resume"}
        /\ pc[p] \in {"keep", "close_kept"} => mode[p] \in {"run", "retry"} /\ cur[p] \in Resumable
        /\ pc[p] \in UndoPcs => mode[p] \in {"run", "roll_back"}
        /\ mode[p] \in {"retry", "resume"} => cur[p] \in Resumable
        /\ mode[p] = "roll_back" => cur[p] \notin Resumable
        /\ pc[p] \in {"applying", "applied", "keep"} => done[p] # Steps
        /\ pc[p] = "undone" => acted[p] # {}
        /\ mode[p] = "none" => done[p] = {}

(* A process inside run holds an open row with its own pid, and every list that
   names the run names that pid. *)
RunIsHeld ==
    /\ \A p \in Procs : mode[p] # "none" => state[cur[p]] # "absent"
    /\ \A q \in Procs : \A e \in todo[q] : state[e[1]] # "absent"
    /\ \A p \in Procs : mode[p] = "run" =>
        /\ state[cur[p]] = "running"
        /\ owner[cur[p]] = p
        /\ \A q \in Procs : \A e \in todo[q] : e[1] = cur[p] => e[2] = p

(* A process inside a step has its row open. *)
InStepHasRow ==
    \A p \in Procs : pc[p] \in {"applying", "applied"} =>
        MayHaveActed(rowState[cur[p]][NextStep(p)])

(* A process about to mark a step undone has taken it back. *)
UndoneIsAbsent ==
    \A p \in Procs : pc[p] = "undone" => world[cur[p]][Last(acted[p])] = "absent"

(* A process that undoes knows every step that is still there. *)
UndoKnowsAll ==
    \A p \in Procs : pc[p] \in {"undo", "undone"} =>
        \A i \in Steps : world[cur[p]][i] # "absent" => i \in acted[p]

(* An applied row of a step with an answer holds it, and so does every process
   that counts the step as done. *)
AnswersAreKept ==
    /\ \A o \in Ops, i \in Answering : rowState[o][i] = "applied" => rowOutput[o][i] = "answer"
    /\ \A p \in Procs : \A i \in Answering \cap done[p] : heard[p][i] = "answer"

(* Of a resumable run whose write is not refused nothing is ever taken back. *)
Kept == Resumable \ RefusedCommits

AppliedRowIsDone ==
    \A o \in Kept, i \in Steps : rowState[o][i] = "applied" => world[o][i] = "done"

Counted(p) ==
    mode[p] # "none" /\ cur[p] \in Kept =>
        /\ pc[p] \notin UndoPcs
        /\ \A i \in done[p] : world[cur[p]][i] = "done"
        /\ pc[p] = "applied" => world[cur[p]][NextStep(p)] = "done"

CountedIsDone == \A p \in Procs : Counted(p)

IInv ==
    /\ TypeOK
    /\ ModeFits
    /\ RunIsHeld
    /\ StartedRunIsAlone
    /\ RegistryAndJournalAgree
    /\ NothingUnjournalled
    /\ InStepHasRow
    /\ UndoneIsAbsent
    /\ UndoKnowsAll
    /\ RolledBackIsClean
    /\ AnswersAreKept
    /\ AnswersReachTheRegistry
    /\ AppliedRowIsDone
    /\ CountedIsDone
    /\ ResumedIsWhole
=============================================================================
