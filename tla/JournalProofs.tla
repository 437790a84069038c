--------------------------- MODULE JournalProofs ---------------------------
(***************************************************************************)
(* What the journal guarantees for every set of operations and processes,  *)
(* every plan length and every number of faults.                           *)
(***************************************************************************)
EXTENDS Journal, FiniteSetTheorems, WellFoundedInduction, TLAPS

(* A set of numbers that is not empty has a least one. *)
LEMMA LeastExists ==
    ASSUME NEW T, T \subseteq Nat, T # {}
    PROVE  \E x \in T : \A y \in T : x <= y
<1>. DEFINE R == {ss \in Nat \X Nat : ss[1] < ss[2]}
<1>1. IsWellFoundedOn(R, Nat)
  BY NatLessThanWellFounded DEF OpToRel
<1>2. PICK x \in T : \A y \in T : ~ (<<y, x>> \in R)
  <2>. HIDE DEF R
  <2>. QED BY <1>1, WFMin
<1>3. ASSUME NEW y \in T PROVE x <= y
  <2>1. x \in Nat /\ y \in Nat
    OBVIOUS
  <2>2. ~ (y < x)
    <3>. SUFFICES ASSUME y < x PROVE FALSE
      OBVIOUS
    <3>1. <<y, x>> \in R
      BY <2>1
    <3>. QED
      BY <1>2, <3>1
  <2>. QED
    BY <2>1, <2>2
<1>. QED
  BY <1>3

(* The next step of a run is one it has not done. *)
LEMMA FirstIsIn ==
    ASSUME NEW T \in SUBSET Steps, T # {}
    PROVE  First(T) \in T
<1>1. T \subseteq Nat
  BY DEF Steps
<1>2. \E x \in T : \A y \in T : x <= y
  BY <1>1, LeastExists
<1>. QED
  BY <1>2 DEF First

(* resolve's next entry is one of its list. *)
LEMMA OldestIsIn ==
    ASSUME NEW p \in Procs, TypeOK, todo[p] # {}
    PROVE  Oldest(p) \in todo[p]
<1>. DEFINE T == {e[1] : e \in todo[p]}
<1>0. todo[p] \subseteq Ops \X Procs
  BY DEF TypeOK
<1>1. T \subseteq Nat /\ T # {}
  BY <1>0, ConstantsAssumption
<1>2. PICK x \in T : \A y \in T : x <= y
  BY <1>1, LeastExists
<1>3. PICK e \in todo[p] : e[1] = x
  BY <1>2
<1>4. \A f \in todo[p] : e[1] <= f[1]
  BY <1>2, <1>3
<1>. QED
  BY <1>4 DEF Oldest

LEMMA SilenceType == Silence \in [Steps -> Outputs]
BY DEF Silence, Outputs

(* mark writes one row of one run. *)
LEMMA MarkStepType ==
    ASSUME TypeOK, NEW o \in Ops, NEW i, NEW s \in StepStates, NEW output \in Outputs,
           MarkStep(o, i, s, output)
    PROVE  /\ rowState' \in [Ops -> [Steps -> StepStates]]
           /\ rowOutput' \in [Ops -> [Steps -> Outputs]]
<1>. DEFINE v == Coalesce(output, rowOutput[o][i])
<1>1. rowState' = [rowState EXCEPT ![o][i] = s]
  BY DEF MarkStep
<1>2. rowOutput' = [rowOutput EXCEPT ![o][i] = v]
  BY DEF MarkStep
<1>3. i \in Steps => v \in Outputs
  BY DEF Coalesce, TypeOK
<1>4. rowState' \in [Ops -> [Steps -> StepStates]]
  BY <1>1 DEF TypeOK
<1>5. rowOutput' \in [Ops -> [Steps -> Outputs]]
  <2>. HIDE DEF v
  <2>. QED
    BY <1>2, <1>3 DEF TypeOK
<1>. QED
  BY <1>4, <1>5

(* The part of the types that says where the processes are. *)
LocalTypes ==
    /\ pc \in [Procs -> Pcs]
    /\ mode \in [Procs -> Modes]
    /\ cur \in [Procs -> Ops]
    /\ done \in [Procs -> SUBSET Steps]
    /\ heard \in [Procs -> [Steps -> Outputs]]
    /\ acted \in [Procs -> SUBSET Steps]
    /\ todo \in [Procs -> SUBSET (Ops \X Procs)]

LEMMA GoneType ==
    ASSUME TypeOK, NEW p \in Procs, Gone(p)
    PROVE  LocalTypes'
<1>1. NoOp \in Ops
  BY ConstantsAssumption DEF NoOp
<1>. QED
  BY <1>1, SilenceType DEF Gone, Forget, GoTo, LocalTypes, TypeOK, Pcs, Modes

LEMMA ReturnType ==
    ASSUME TypeOK, NEW p \in Procs, Return(p)
    PROVE  LocalTypes'
<1>1. NoOp \in Ops
  BY ConstantsAssumption DEF NoOp
<1>. QED
  BY <1>1, SilenceType DEF Return, Forget, GoTo, LocalTypes, TypeOK, Pcs, Modes

LEMMA FinishType ==
    ASSUME TypeOK, NEW o \in Ops, NEW s \in States, Finish(o, s)
    PROVE  state' \in [Ops -> States]
BY DEF TypeOK, Finish

(* The last step there is to undo is one of them. *)
LEMMA LastIsIn ==
    ASSUME NEW T \in SUBSET Steps, T # {}
    PROVE  Last(T) \in T
<1>. DEFINE D == {PlanLength - i : i \in T}
<1>0. \A i \in T : i \in Nat /\ i <= PlanLength /\ PlanLength \in Nat
  BY ConstantsAssumption DEF Steps
<1>1. D \subseteq Nat /\ D # {}
  <2>1. \A i \in T : PlanLength - i \in Nat
    BY <1>0
  <2>. QED
    BY <2>1
<1>2. PICK d \in D : \A e \in D : d <= e
  BY <1>1, LeastExists
<1>3. PICK i \in T : d = PlanLength - i
  BY <1>2
<1>4. \A j \in T : j <= i
  <2>. SUFFICES ASSUME NEW j \in T PROVE j <= i
    OBVIOUS
  <2>1. PlanLength - j \in D /\ i \in Nat /\ j \in Nat /\ PlanLength \in Nat
    BY ConstantsAssumption DEF Steps
  <2>2. PlanLength - i <= PlanLength - j
    BY <1>2, <1>3, <2>1
  <2>. HIDE DEF D
  <2>. QED
    BY <2>1, <2>2
<1>. QED
  BY <1>4 DEF Last

(* What the journal hands a resumed run is a set of outputs. *)
LEMMA JournalledType ==
    ASSUME TypeOK, NEW p \in Procs
    PROVE  JournalledOutputs(cur[p]) \in [Steps -> Outputs]
<1>1. rowOutput[cur[p]] \in [Steps -> Outputs]
  BY DEF TypeOK
<1>2. "nothing" \in Outputs
  BY DEF Outputs
<1>. QED
  BY <1>1, <1>2 DEF JournalledOutputs

(* A process inside a step has a next step. *)
LEMMA NextStepIsIn ==
    ASSUME TypeOK, NEW p \in Procs, done[p] # Steps
    PROVE  NextStep(p) \in Steps /\ NextStep(p) \notin done[p]
<1>1. Steps \ done[p] \in SUBSET Steps /\ Steps \ done[p] # {}
  BY DEF TypeOK
<1>2. First(Steps \ done[p]) \in Steps \ done[p]
  BY <1>1, FirstIsIn
<1>. QED
  BY <1>2 DEF NextStep

(* Every action keeps the types. *)
LEMMA TypeStep ==
    ASSUME TypeOK, ModeFits, NEW p \in Procs, Step(p)
    PROVE  TypeOK'
<1>. USE ConstantsAssumption
<1>. USE DEF TypeOK, States, StepStates, Outputs, Worlds, Modes, Pcs
<1>1. CASE Open(p)
  <2>1. {<<o, owner[o]>> : o \in Running} \subseteq Ops \X Procs
    BY DEF Running
  <2>2. todo' \in [Procs -> SUBSET (Ops \X Procs)]
    BY <2>1, <1>1 DEF Open
  <2>. QED
    BY <2>2, <1>1 DEF Open, GoTo, journal, registry, locals
<1>2. CASE LeaveAlone(p)
  <2>1. todo' \in [Procs -> SUBSET (Ops \X Procs)]
    BY <1>2 DEF LeaveAlone, Drop
  <2>. QED
    BY <2>1, <1>2 DEF LeaveAlone, journal, registry, locals
<1>3. CASE TakeOver(p)
  <2>1. todo' \in [Procs -> SUBSET (Ops \X Procs)]
    BY <1>3 DEF TakeOver, Drop
  <2>2. Oldest(p) \in todo[p]
    BY <1>3, OldestIsIn DEF TakeOver
  <2>3. Oldest(p)[1] \in Ops
    BY <2>2
  <2>. QED
    BY <2>1, <2>3, <1>3 DEF TakeOver, Enter, GoTo, journal, registry
<1>4. CASE Resolved(p)
  BY <1>4, SilenceType DEF Resolved, GoTo, journal, registry, locals
<1>5. CASE Exit(p)
  BY <1>5, SilenceType DEF Exit, GoTo, Gone, Forget, journal, registry, NoOp
<1>6. ASSUME NEW o \in Ops, Run(p, o) PROVE TypeOK'
  BY <1>6, SilenceType DEF Run, GoTo, Enter, registry
<1>7. CASE RecordOk(p)
  BY <1>7, SilenceType DEF RecordOk, GoTo, journal, registry, locals
<1>8. CASE RecordFail(p)
  <2>1. LocalTypes' /\ state' \in [Ops -> States]
    BY <1>8, ReturnType, FinishType DEF RecordFail
  <2>. QED
    BY <2>1, <1>8 DEF RecordFail, Fault, LocalTypes, registry
<1>9. ASSUME NEW o \in Ops, Retry(p, o) PROVE TypeOK'
  BY <1>9, SilenceType DEF Retry, GoTo, Enter, registry
<1>10. CASE Load(p)
  <2>1. AppliedSteps(cur[p]) \in SUBSET Steps
    BY DEF AppliedSteps
  <2>2. JournalledOutputs(cur[p]) \in [Steps -> Outputs]
    BY JournalledType
  <2>3. done' \in [Procs -> SUBSET Steps] /\ heard' \in [Procs -> [Steps -> Outputs]]
    BY <2>1, <2>2, <1>10 DEF Load
  <2>. QED
    BY <2>3, <1>10 DEF Load, GoTo, journal, registry
<1>11. CASE MarkApplying(p)
  <2>1. rowState' \in [Ops -> [Steps -> StepStates]] /\ rowOutput' \in [Ops -> [Steps -> Outputs]]
    BY <1>11, MarkStepType DEF MarkApplying
  <2>. QED
    BY <2>1, <1>11 DEF MarkApplying, GoTo, registry, locals
<1>12. CASE ApplyPart(p)
  <2>1. world' \in [Ops -> [Steps -> Worlds]]
    BY <1>12 DEF ApplyPart
  <2>. QED
    BY <2>1, <1>12 DEF ApplyPart, journal, registry, locals
<1>13. CASE ApplyOk(p)
  <2>1. world' \in [Ops -> [Steps -> Worlds]]
    BY <1>13 DEF ApplyOk
  <2>. QED
    BY <2>1, <1>13 DEF ApplyOk, GoTo, journal, registry, locals
<1>14. CASE ApplyFail(p)
  <2>1. LocalTypes'
    <3>1. CASE mode[p] = "resume"
      BY <3>1, <1>14, GoneType DEF ApplyFail
    <3>2. CASE mode[p] # "resume"
      BY <3>2, <1>14 DEF ApplyFail, GoTo, LocalTypes, locals
    <3>. QED
      BY <3>1, <3>2
  <2>. QED
    BY <2>1, <1>14 DEF ApplyFail, Fault, LocalTypes, journal, registry
<1>15. CASE MarkApplied(p)
  <2>1. NextStep(p) \in Steps
    BY <1>15, NextStepIsIn DEF MarkApplied, ModeFits
  <2>2. OutputOf(NextStep(p)) \in Outputs
    BY DEF OutputOf
  <2>3. rowState' \in [Ops -> [Steps -> StepStates]] /\ rowOutput' \in [Ops -> [Steps -> Outputs]]
    <3>1. MarkStep(cur[p], NextStep(p), "applied", OutputOf(NextStep(p)))
      BY <1>15 DEF MarkApplied
    <3>2. cur[p] \in Ops /\ "applied" \in StepStates
      OBVIOUS
    <3>. HIDE DEF TypeOK, StepStates, Outputs
    <3>. QED
      BY <3>1, <3>2, <2>2, MarkStepType
  <2>4. done' \in [Procs -> SUBSET Steps]
    BY <1>15, <2>1 DEF MarkApplied
  <2>5. Coalesce(OutputOf(NextStep(p)), heard[p][NextStep(p)]) \in Outputs
    BY <2>1, <2>2 DEF Coalesce
  <2>6. heard' \in [Procs -> [Steps -> Outputs]]
    <3>. DEFINE v == Coalesce(OutputOf(NextStep(p)), heard[p][NextStep(p)])
    <3>1. heard' = [heard EXCEPT ![p][NextStep(p)] = v]
      BY <1>15 DEF MarkApplied
    <3>. HIDE DEF v
    <3>. QED
      BY <3>1, <2>1, <2>5 DEF v
  <2>. QED
    BY <2>3, <2>4, <2>6, <1>15 DEF MarkApplied, GoTo, registry
<1>16. CASE Keep(p)
  <2>1. rowState' \in [Ops -> [Steps -> StepStates]] /\ rowOutput' \in [Ops -> [Steps -> Outputs]]
    BY <1>16, MarkStepType DEF Keep
  <2>. QED
    BY <2>1, <1>16 DEF Keep, GoTo, registry, locals
<1>17. CASE CloseKept(p)
  BY <1>17, SilenceType DEF CloseKept, GoTo, Return, Forget, Finish, registry, NoOp
<1>18. CASE Commit(p)
  <2>1. Forget(p) /\ GoTo(p, IF mode[p] \in {"run", "retry"} THEN "ready" ELSE "resolve")
    BY <1>18 DEF Commit, Return
  <2>2. handed' \in [Ops -> [Steps -> Outputs]]
    BY <1>18 DEF Commit
  <2>3. done' \in [Procs -> SUBSET Steps] /\ acted' \in [Procs -> SUBSET Steps]
    BY <2>1 DEF Forget
  <2>. QED
    BY <2>1, <2>2, <2>3, <1>18, SilenceType DEF Commit, Return, Finish, Forget, GoTo, NoOp
<1>19. CASE CommitRefused(p)
  <2>1. LocalTypes'
    <3>1. CASE mode[p] = "run"
      BY <3>1, <1>19 DEF CommitRefused, GoTo, LocalTypes, locals
    <3>2. CASE mode[p] # "run"
      BY <3>2, <1>19, GoneType, ReturnType DEF CommitRefused, ReturnError
    <3>. QED
      BY <3>1, <3>2
  <2>. QED
    BY <2>1, <1>19 DEF CommitRefused, Fault, LocalTypes, journal, registry
<1>20. CASE LoadUndo(p)
  <2>1. ActedSteps(cur[p]) \in SUBSET Steps
    BY DEF ActedSteps
  <2>2. acted' \in [Procs -> SUBSET Steps]
    BY <2>1, <1>20 DEF LoadUndo
  <2>. QED
    BY <2>2, <1>20 DEF LoadUndo, GoTo, journal, registry
<1>21. CASE UndoPart(p)
  <2>1. world' \in [Ops -> [Steps -> Worlds]]
    BY <1>21 DEF UndoPart
  <2>. QED
    BY <2>1, <1>21 DEF UndoPart, journal, registry, locals
<1>22. CASE Undo(p)
  <2>1. world' \in [Ops -> [Steps -> Worlds]]
    BY <1>22 DEF Undo
  <2>. QED
    BY <2>1, <1>22 DEF Undo, GoTo, journal, registry, locals
<1>23. CASE UndoFail(p)
  BY <1>23, SilenceType DEF UndoFail, GoTo, journal, registry, locals, Fault
<1>24. CASE MarkUndone(p)
  <2>1. rowState' \in [Ops -> [Steps -> StepStates]] /\ rowOutput' \in [Ops -> [Steps -> Outputs]]
    BY <1>24, MarkStepType DEF MarkUndone
  <2>2. acted' \in [Procs -> SUBSET Steps]
    BY <1>24 DEF MarkUndone
  <2>. QED
    BY <2>1, <2>2, <1>24 DEF MarkUndone, GoTo, registry
<1>25. CASE CloseUndone(p)
  <2>1. LocalTypes' /\ state' \in [Ops -> States]
    BY <1>25, GoneType, ReturnType, FinishType DEF CloseUndone, CloseUndo, ReturnError
  <2>. QED
    BY <2>1, <1>25 DEF CloseUndone, CloseUndo, LocalTypes, registry
<1>26. CASE CloseStuck(p)
  <2>1. LocalTypes' /\ state' \in [Ops -> States]
    BY <1>26, GoneType, ReturnType, FinishType DEF CloseStuck, CloseUndo, ReturnError
  <2>. QED
    BY <2>1, <1>26 DEF CloseStuck, CloseUndo, LocalTypes, registry
<1>27. CASE Die(p)
  BY <1>27, SilenceType DEF Die, GoTo, Gone, Forget, journal, registry, Fault, NoOp
<1>. QED
  BY <1>1, <1>2, <1>3, <1>4, <1>5, <1>6, <1>7, <1>8, <1>9, <1>10, <1>11, <1>12, <1>13,
     <1>14, <1>15, <1>16, <1>17, <1>18, <1>19, <1>20, <1>21, <1>22, <1>23, <1>24, <1>25,
     <1>26, <1>27
    DEF Step
(* A process leaves an operation for c with t left of its list; no other moves. *)
Left(p, c, t) ==
    /\ pc' = [pc EXCEPT ![p] = c] /\ Forget(p)
    /\ todo' = [todo EXCEPT ![p] = t]

Leaves(p) == \E c \in {"gone", "ready", "resolve"}, t \in SUBSET todo[p] : Left(p, c, t)

LEMMA ReturnLeaves ==
    ASSUME TypeOK, NEW p \in Procs, Return(p)
    PROVE  Leaves(p)
<1>1. todo' = [todo EXCEPT ![p] = todo[p]]
  BY DEF TypeOK, Return
<1>. QED
  BY <1>1 DEF Return, GoTo, Left, Leaves

LEMMA GoneLeaves ==
    ASSUME TypeOK, NEW p \in Procs, Gone(p)
    PROVE  Leaves(p)
BY DEF Gone, GoTo, Left, Leaves

LEMMA ErrorLeaves ==
    ASSUME TypeOK, NEW p \in Procs, ReturnError(p)
    PROVE  Leaves(p)
BY ReturnLeaves, GoneLeaves DEF ReturnError

LEMMA CloseLeaves ==
    ASSUME TypeOK, NEW p \in Procs, CloseUndone(p) \/ CloseStuck(p)
    PROVE  Leaves(p)
BY ReturnLeaves, ErrorLeaves DEF CloseUndone, CloseStuck, CloseUndo

(* No process applies a step of an operation that another one undoes. *)
LEMMA NoApplyBesideUndo ==
    ASSUME ModeFits, StartedRunIsAlone, NEW p \in Procs, NEW q \in Procs,
           pc[p] \in UndoPcs, pc[q] \in {"applying", "applied"}
    PROVE  cur[p] # cur[q]
<1>1. mode[p] \in {"run", "roll_back"} /\ mode[q] \in {"run", "retry", "resume"}
  BY DEF ModeFits
<1>2. p # q
  BY DEF UndoPcs
<1>. QED
  BY <1>1, <1>2 DEF ModeFits, StartedRunIsAlone

(* A process that has not moved. *)
Still(q) ==
    /\ pc'[q] = pc[q] /\ mode'[q] = mode[q] /\ cur'[q] = cur[q] /\ done'[q] = done[q]
    /\ heard'[q] = heard[q] /\ acted'[q] = acted[q] /\ todo'[q] = todo[q]

(* A step moves one process. *)
LEMMA OthersStill ==
    ASSUME TypeOK, NEW p \in Procs, Step(p), NEW q \in Procs \ {p}
    PROVE  Still(q)
<1>. USE DEF TypeOK, Still, GoTo, locals
<1>1. CASE Open(p)
  BY <1>1 DEF Open
<1>2. CASE LeaveAlone(p)
  BY <1>2 DEF LeaveAlone, Drop
<1>3. CASE TakeOver(p)
  BY <1>3 DEF TakeOver, Enter, Drop
<1>4. CASE Resolved(p)
  BY <1>4 DEF Resolved
<1>5. CASE Exit(p)
  BY <1>5 DEF Exit, Gone, Forget
<1>6. ASSUME NEW o \in Ops, Run(p, o) PROVE Still(q)
  BY <1>6 DEF Run, Enter
<1>7. CASE RecordOk(p)
  BY <1>7 DEF RecordOk
<1>8. CASE RecordFail(p)
  BY <1>8 DEF RecordFail, Return, Forget
<1>9. ASSUME NEW o \in Ops, Retry(p, o) PROVE Still(q)
  BY <1>9 DEF Retry, Enter
<1>10. CASE Load(p)
  BY <1>10 DEF Load
<1>11. CASE MarkApplying(p)
  BY <1>11 DEF MarkApplying
<1>12. CASE ApplyPart(p)
  BY <1>12 DEF ApplyPart
<1>13. CASE ApplyOk(p)
  BY <1>13 DEF ApplyOk
<1>14. CASE ApplyFail(p)
  BY <1>14 DEF ApplyFail, Gone, Forget
<1>15. CASE MarkApplied(p)
  BY <1>15 DEF MarkApplied
<1>16. CASE Keep(p)
  BY <1>16 DEF Keep
<1>17. CASE CloseKept(p)
  BY <1>17 DEF CloseKept, Return, Forget
<1>18. CASE Commit(p)
  BY <1>18 DEF Commit, Return, Forget
<1>19. CASE CommitRefused(p)
  BY <1>19 DEF CommitRefused, Return, ReturnError, Gone, Forget
<1>20. CASE LoadUndo(p)
  BY <1>20 DEF LoadUndo
<1>21. CASE UndoPart(p)
  BY <1>21 DEF UndoPart
<1>22. CASE Undo(p)
  BY <1>22 DEF Undo
<1>23. CASE UndoFail(p)
  BY <1>23 DEF UndoFail
<1>24. CASE MarkUndone(p)
  BY <1>24 DEF MarkUndone
<1>25. CASE CloseUndone(p)
  BY <1>25 DEF CloseUndone, Return, ReturnError, Gone, Forget, CloseUndo
<1>26. CASE CloseStuck(p)
  BY <1>26 DEF CloseStuck, Return, ReturnError, Gone, Forget, CloseUndo
<1>27. CASE Die(p)
  BY <1>27 DEF Die, Gone, Forget
<1>. QED
  BY <1>1, <1>2, <1>3, <1>4, <1>5, <1>6, <1>7, <1>8, <1>9, <1>10, <1>11, <1>12, <1>13,
     <1>14, <1>15, <1>16, <1>17, <1>18, <1>19, <1>20, <1>21, <1>22, <1>23, <1>24, <1>25,
     <1>26, <1>27
    DEF Step

(* The registry rows and the move to committed go together. *)
LEMMA AgreeStep ==
    ASSUME TypeOK, RegistryAndJournalAgree, NEW p \in Procs, Step(p)
    PROVE  RegistryAndJournalAgree'
<1>. USE DEF TypeOK, RegistryAndJournalAgree
<1>1. ASSUME NEW o \in Ops, Run(p, o) PROVE RegistryAndJournalAgree'
  BY <1>1 DEF Run, GoTo, Enter, registry
<1>2. CASE RecordFail(p)
  BY <1>2 DEF RecordFail, GoTo, Return, Forget, Finish, registry
<1>3. ASSUME NEW o \in Ops, Retry(p, o) PROVE RegistryAndJournalAgree'
  BY <1>3 DEF Retry, GoTo, Enter, registry
<1>4. CASE CloseKept(p)
  BY <1>4 DEF CloseKept, GoTo, Return, Forget, Finish, registry
<1>5. CASE Commit(p)
  BY <1>5 DEF Commit, GoTo, Return, Forget, Finish
<1>6. CASE CloseUndone(p)
  BY <1>6 DEF CloseUndone, GoTo, Return, ReturnError, Gone, Forget, Finish, CloseUndo,
              registry
<1>7. CASE CloseStuck(p)
  BY <1>7 DEF CloseStuck, GoTo, Return, ReturnError, Gone, Forget, Finish, CloseUndo,
              registry
<1>8. CASE ~ ((\E o \in Ops : Run(p, o)) \/ RecordFail(p) \/ (\E o \in Ops : Retry(p, o))
              \/ CloseKept(p) \/ Commit(p) \/ CloseUndone(p) \/ CloseStuck(p))
  <2>1. UNCHANGED <<state, written>>
    BY <1>8 DEF Step, CloseUndo, journal, registry, Open, LeaveAlone, TakeOver, Resolved,
                Exit, RecordOk, Load, MarkApplying, ApplyPart, ApplyOk, ApplyFail,
                MarkApplied, Keep, CommitRefused, LoadUndo, UndoPart, Undo, UndoFail,
                MarkUndone, Die
  <2>. QED
    BY <2>1
<1>. QED
  BY <1>1, <1>2, <1>3, <1>4, <1>5, <1>6, <1>7, <1>8 DEF Step

(* Where a process is keeps saying what it is inside. *)
LEMMA ModeFitsStep ==
    ASSUME TypeOK, ModeFits, NEW p \in Procs, Step(p)
    PROVE  ModeFits'
<1>. USE DEF TypeOK, ModeFits, UndoPcs
<1>1. CASE Open(p)
  BY <1>1 DEF Open, GoTo, Live, locals
<1>2. CASE LeaveAlone(p)
  BY <1>2 DEF LeaveAlone, Drop, journal, registry, locals
<1>3. CASE TakeOver(p)
  <2>1. mode[p] = "none"
    BY <1>3 DEF TakeOver
  <2>2. CASE Oldest(p)[1] \in Resumable
    <3>1. Enter(p, "resume", Oldest(p)[1], "load")
      BY <1>3, <2>2 DEF TakeOver
    <3>. QED
      BY <2>1, <2>2, <3>1 DEF Enter, GoTo
  <2>3. CASE Oldest(p)[1] \notin Resumable
    <3>1. Enter(p, "roll_back", Oldest(p)[1], "load_undo")
      BY <1>3, <2>3 DEF TakeOver
    <3>. QED
      BY <2>1, <2>3, <3>1 DEF Enter, GoTo
  <2>. QED
    BY <2>2, <2>3
<1>4. CASE Resolved(p)
  BY <1>4 DEF Resolved, GoTo, journal, registry, locals
<1>5. CASE Exit(p)
  BY <1>5 DEF Exit, GoTo, Gone, Forget, journal, registry
<1>6. ASSUME NEW o \in Ops, Run(p, o) PROVE ModeFits'
  BY <1>6 DEF Run, GoTo, Enter, registry
<1>7. CASE RecordOk(p)
  BY <1>7 DEF RecordOk, GoTo, journal, registry, locals
<1>8. CASE RecordFail(p)
  BY <1>8 DEF RecordFail, GoTo, Return, Forget, Finish, registry
<1>9. ASSUME NEW o \in Ops, Retry(p, o) PROVE ModeFits'
  BY <1>9 DEF Retry, CanCarryOn, Enter, GoTo
<1>10. CASE Load(p)
  BY <1>10 DEF Load, GoTo, journal, registry
<1>11. CASE MarkApplying(p)
  BY <1>11 DEF MarkApplying, GoTo, MarkStep, registry, locals
<1>12. CASE ApplyPart(p)
  BY <1>12 DEF ApplyPart, journal, registry, locals
<1>13. CASE ApplyOk(p)
  BY <1>13 DEF ApplyOk, GoTo, journal, registry, locals
<1>14. CASE ApplyFail(p)
  <2>1. CASE mode[p] # "resume"
    BY <2>1, <1>14 DEF ApplyFail, GoTo, journal, registry, locals
  <2>2. CASE mode[p] = "resume"
    <3>0. Leaves(p)
      BY <2>2, <1>14, GoneLeaves, Zenon DEF ApplyFail
    <3>1. PICK c \in {"gone", "ready", "resolve"}, t \in SUBSET todo[p] : Left(p, c, t)
      BY <3>0 DEF Leaves
    <3>2. UNCHANGED <<state, owner, rowState, rowOutput, written, handed, world>>
      BY <1>14 DEF ApplyFail, journal, registry
    <3>. QED
      BY <3>1, <3>2 DEF Left, Forget
  <2>. QED
    BY <2>1, <2>2
<1>15. CASE MarkApplied(p)
  BY <1>15 DEF MarkApplied, GoTo, MarkStep, registry
<1>16. CASE Keep(p)
  BY <1>16 DEF Keep, GoTo, MarkStep, registry, locals
<1>17. CASE CloseKept(p)
  BY <1>17 DEF CloseKept, GoTo, Return, Forget, Finish, registry
<1>18. CASE Commit(p)
  BY <1>18 DEF Commit, GoTo, Return, Forget, Finish
<1>19. CASE CommitRefused(p)
  <2>1. CASE mode[p] = "run"
    BY <2>1, <1>19 DEF CommitRefused, GoTo, journal, registry, locals
  <2>2. CASE mode[p] # "run"
    <3>0. Leaves(p)
      BY <2>2, <1>19, ErrorLeaves, Zenon DEF CommitRefused
    <3>1. PICK c \in {"gone", "ready", "resolve"}, t \in SUBSET todo[p] : Left(p, c, t)
      BY <3>0 DEF Leaves
    <3>2. UNCHANGED <<state, owner, rowState, rowOutput, written, handed, world>>
      BY <1>19 DEF CommitRefused, journal, registry
    <3>. QED
      BY <3>1, <3>2 DEF Left, Forget
  <2>. QED
    BY <2>1, <2>2
<1>20. CASE LoadUndo(p)
  BY <1>20 DEF LoadUndo, GoTo, journal, registry
<1>21. CASE UndoPart(p)
  BY <1>21 DEF UndoPart, journal, registry, locals
<1>22. CASE Undo(p)
  BY <1>22 DEF Undo, GoTo, journal, registry, locals
<1>23. CASE UndoFail(p)
  BY <1>23 DEF UndoFail, GoTo, journal, registry, locals
<1>24. CASE MarkUndone(p)
  BY <1>24 DEF MarkUndone, GoTo, MarkStep, registry
<1>25. CASE CloseUndone(p)
  <2>0. Leaves(p)
    BY <1>25, CloseLeaves, Zenon
  <2>1. PICK c \in {"gone", "ready", "resolve"}, t \in SUBSET todo[p] : Left(p, c, t)
    BY <2>0 DEF Leaves
  <2>2. UNCHANGED <<owner, rowState, rowOutput, written, handed, world>> /\ Finish(cur[p], "rolled_back")
    BY <1>25 DEF CloseUndone, CloseUndo, registry
  <2>3. pc[p] = "undo"
    BY <1>25 DEF CloseUndone
  <2>. QED
    BY <2>1, <2>2, <2>3 DEF Left, Forget, Finish
<1>26. CASE CloseStuck(p)
  <2>0. Leaves(p)
    BY <1>26, CloseLeaves, Zenon
  <2>1. PICK c \in {"gone", "ready", "resolve"}, t \in SUBSET todo[p] : Left(p, c, t)
    BY <2>0 DEF Leaves
  <2>2. UNCHANGED <<owner, rowState, rowOutput, written, handed, world>> /\ Finish(cur[p], "failed")
    BY <1>26 DEF CloseStuck, CloseUndo, registry
  <2>3. pc[p] = "close_stuck"
    BY <1>26 DEF CloseStuck
  <2>. QED
    BY <2>1, <2>2, <2>3 DEF Left, Forget, Finish
<1>27. CASE Die(p)
  BY <1>27 DEF Die, GoTo, Gone, Forget, journal, registry
<1>. QED
  BY <1>1, <1>2, <1>3, <1>4, <1>5, <1>6, <1>7, <1>8, <1>9, <1>10, <1>11, <1>12, <1>13,
     <1>14, <1>15, <1>16, <1>17, <1>18, <1>19, <1>20, <1>21, <1>22, <1>23, <1>24, <1>25,
     <1>26, <1>27
    DEF Step

(* resolve takes over no run whose process is alive. *)
LEMMA AloneStep ==
    ASSUME TypeOK, ModeFits, RunIsHeld, StartedRunIsAlone, NEW p \in Procs, Step(p)
    PROVE  StartedRunIsAlone'
<1>. USE DEF TypeOK, ModeFits, RunIsHeld, StartedRunIsAlone
<1>1. CASE Open(p)
  BY <1>1 DEF Open, GoTo, journal, registry, locals
<1>2. CASE LeaveAlone(p)
  BY <1>2 DEF LeaveAlone, Drop, journal, registry, locals
<1>3. CASE TakeOver(p)
  <2>. DEFINE e == Oldest(p)
  <2>1. e \in todo[p]
    BY <1>3, OldestIsIn DEF TakeOver
  <2>2. \A q \in Procs : mode[q] = "run" => cur[q] # e[1]
    BY <1>3, <2>1 DEF TakeOver, OwnerIsGone, Live
  <2>3. mode' = [mode EXCEPT ![p] = IF e[1] \in Resumable THEN "resume" ELSE "roll_back"]
    BY <1>3 DEF TakeOver, Enter
  <2>4. cur' = [cur EXCEPT ![p] = e[1]]
    BY <1>3 DEF TakeOver, Enter
  <2>. QED
    BY <2>2, <2>3, <2>4
<1>4. CASE Resolved(p)
  BY <1>4 DEF Resolved, GoTo, journal, registry, locals
<1>5. CASE Exit(p)
  BY <1>5 DEF Exit, GoTo, Gone, Forget, journal, registry
<1>6. ASSUME NEW o \in Ops, Run(p, o) PROVE StartedRunIsAlone'
  BY <1>6 DEF Run, GoTo, Enter, registry
<1>7. CASE RecordOk(p)
  BY <1>7 DEF RecordOk, GoTo, journal, registry, locals
<1>8. CASE RecordFail(p)
  BY <1>8 DEF RecordFail, GoTo, Return, Forget, Finish, registry
<1>9. ASSUME NEW o \in Ops, Retry(p, o) PROVE StartedRunIsAlone'
  BY <1>9 DEF Retry, GoTo, Enter, registry
<1>10. CASE Load(p)
  BY <1>10 DEF Load, GoTo, journal, registry
<1>11. CASE MarkApplying(p)
  BY <1>11 DEF MarkApplying, GoTo, MarkStep, registry, locals
<1>12. CASE ApplyPart(p)
  BY <1>12 DEF ApplyPart, journal, registry, locals
<1>13. CASE ApplyOk(p)
  BY <1>13 DEF ApplyOk, GoTo, journal, registry, locals
<1>14. CASE ApplyFail(p)
  <2>1. CASE mode[p] # "resume"
    BY <2>1, <1>14 DEF ApplyFail, GoTo, journal, registry, locals
  <2>2. CASE mode[p] = "resume"
    <3>0. Leaves(p)
      BY <2>2, <1>14, GoneLeaves, Zenon DEF ApplyFail
    <3>1. PICK c \in {"gone", "ready", "resolve"}, t \in SUBSET todo[p] : Left(p, c, t)
      BY <3>0 DEF Leaves
    <3>2. UNCHANGED <<state, owner, rowState, rowOutput, written, handed, world>>
      BY <1>14 DEF ApplyFail, journal, registry
    <3>. QED
      BY <3>1, <3>2 DEF Left, Forget
  <2>. QED
    BY <2>1, <2>2
<1>15. CASE MarkApplied(p)
  BY <1>15 DEF MarkApplied, GoTo, MarkStep, registry
<1>16. CASE Keep(p)
  BY <1>16 DEF Keep, GoTo, MarkStep, registry, locals
<1>17. CASE CloseKept(p)
  BY <1>17 DEF CloseKept, GoTo, Return, Forget, Finish, registry
<1>18. CASE Commit(p)
  BY <1>18 DEF Commit, GoTo, Return, Forget, Finish
<1>19. CASE CommitRefused(p)
  <2>1. CASE mode[p] = "run"
    BY <2>1, <1>19 DEF CommitRefused, GoTo, journal, registry, locals
  <2>2. CASE mode[p] # "run"
    <3>0. Leaves(p)
      BY <2>2, <1>19, ErrorLeaves, Zenon DEF CommitRefused
    <3>1. PICK c \in {"gone", "ready", "resolve"}, t \in SUBSET todo[p] : Left(p, c, t)
      BY <3>0 DEF Leaves
    <3>2. UNCHANGED <<state, owner, rowState, rowOutput, written, handed, world>>
      BY <1>19 DEF CommitRefused, journal, registry
    <3>. QED
      BY <3>1, <3>2 DEF Left, Forget
  <2>. QED
    BY <2>1, <2>2
<1>20. CASE LoadUndo(p)
  BY <1>20 DEF LoadUndo, GoTo, journal, registry
<1>21. CASE UndoPart(p)
  BY <1>21 DEF UndoPart, journal, registry, locals
<1>22. CASE Undo(p)
  BY <1>22 DEF Undo, GoTo, journal, registry, locals
<1>23. CASE UndoFail(p)
  BY <1>23 DEF UndoFail, GoTo, journal, registry, locals
<1>24. CASE MarkUndone(p)
  BY <1>24 DEF MarkUndone, GoTo, MarkStep, registry
<1>25. CASE CloseUndone(p)
  <2>0. Leaves(p)
    BY <1>25, CloseLeaves, Zenon
  <2>1. PICK c \in {"gone", "ready", "resolve"}, t \in SUBSET todo[p] : Left(p, c, t)
    BY <2>0 DEF Leaves
  <2>2. UNCHANGED <<owner, rowState, rowOutput, written, handed, world>> /\ Finish(cur[p], "rolled_back")
    BY <1>25 DEF CloseUndone, CloseUndo, registry
  <2>3. pc[p] = "undo"
    BY <1>25 DEF CloseUndone
  <2>. QED
    BY <2>1, <2>2, <2>3 DEF Left, Forget, Finish
<1>26. CASE CloseStuck(p)
  <2>0. Leaves(p)
    BY <1>26, CloseLeaves, Zenon
  <2>1. PICK c \in {"gone", "ready", "resolve"}, t \in SUBSET todo[p] : Left(p, c, t)
    BY <2>0 DEF Leaves
  <2>2. UNCHANGED <<owner, rowState, rowOutput, written, handed, world>> /\ Finish(cur[p], "failed")
    BY <1>26 DEF CloseStuck, CloseUndo, registry
  <2>3. pc[p] = "close_stuck"
    BY <1>26 DEF CloseStuck
  <2>. QED
    BY <2>1, <2>2, <2>3 DEF Left, Forget, Finish
<1>27. CASE Die(p)
  BY <1>27 DEF Die, GoTo, Gone, Forget, journal, registry
<1>. QED
  BY <1>1, <1>2, <1>3, <1>4, <1>5, <1>6, <1>7, <1>8, <1>9, <1>10, <1>11, <1>12, <1>13,
     <1>14, <1>15, <1>16, <1>17, <1>18, <1>19, <1>20, <1>21, <1>22, <1>23, <1>24, <1>25,
     <1>26, <1>27
    DEF Step

(* Only its own process moves a run that is inside run. *)
LEMMA RunIsHeldStep ==
    ASSUME TypeOK, ModeFits, RunIsHeld, StartedRunIsAlone, NEW p \in Procs, Step(p)
    PROVE  RunIsHeld'
<1>. USE DEF TypeOK, ModeFits, UndoPcs, RunIsHeld, StartedRunIsAlone
<1>1. CASE Open(p)
  <2>1. \A q \in Procs : \A e \in todo'[q] :
          e \in todo[q] \/ (state[e[1]] = "running" /\ e[2] = owner[e[1]])
    BY <1>1 DEF Open, Running
  <2>2. UNCHANGED <<state, owner, mode, cur>>
    BY <1>1 DEF Open, journal, locals
  <2>. QED
    BY <2>1, <2>2
<1>2. CASE LeaveAlone(p)
  BY <1>2 DEF LeaveAlone, Drop, journal, registry, locals
<1>3. CASE TakeOver(p)
  <2>. DEFINE e == Oldest(p)
  <2>1. e \in todo[p]
    BY <1>3, OldestIsIn DEF TakeOver
  <2>3. mode' = [mode EXCEPT ![p] = IF e[1] \in Resumable THEN "resume" ELSE "roll_back"]
    BY <1>3 DEF TakeOver, Enter
  <2>4. cur' = [cur EXCEPT ![p] = e[1]]
    BY <1>3 DEF TakeOver, Enter
  <2>5. \A q \in Procs : todo'[q] \subseteq todo[q]
    BY <1>3 DEF TakeOver, Drop
  <2>6. UNCHANGED <<state, owner>>
    BY <1>3 DEF TakeOver, journal
  <2>. QED
    BY <2>1, <2>3, <2>4, <2>5, <2>6
<1>4. CASE Resolved(p)
  BY <1>4 DEF Resolved, GoTo, journal, registry, locals
<1>5. CASE Exit(p)
  BY <1>5 DEF Exit, GoTo, Gone, Forget, journal, registry
<1>6. ASSUME NEW o \in Ops, Run(p, o) PROVE RunIsHeld'
  BY <1>6 DEF Run, GoTo, Enter, registry
<1>7. CASE RecordOk(p)
  BY <1>7 DEF RecordOk, GoTo, journal, registry, locals
<1>8. CASE RecordFail(p)
  BY <1>8 DEF RecordFail, GoTo, Return, Forget, Finish, registry
<1>9. ASSUME NEW o \in Ops, Retry(p, o) PROVE RunIsHeld'
  BY <1>9 DEF Retry, GoTo, Enter, registry
<1>10. CASE Load(p)
  BY <1>10 DEF Load, GoTo, journal, registry
<1>11. CASE MarkApplying(p)
  BY <1>11 DEF MarkApplying, GoTo, MarkStep, registry, locals
<1>12. CASE ApplyPart(p)
  BY <1>12 DEF ApplyPart, journal, registry, locals
<1>13. CASE ApplyOk(p)
  BY <1>13 DEF ApplyOk, GoTo, journal, registry, locals
<1>14. CASE ApplyFail(p)
  <2>1. CASE mode[p] # "resume"
    BY <2>1, <1>14 DEF ApplyFail, GoTo, journal, registry, locals
  <2>2. CASE mode[p] = "resume"
    <3>0. Leaves(p)
      BY <2>2, <1>14, GoneLeaves, Zenon DEF ApplyFail
    <3>1. PICK c \in {"gone", "ready", "resolve"}, t \in SUBSET todo[p] : Left(p, c, t)
      BY <3>0 DEF Leaves
    <3>2. UNCHANGED <<state, owner, rowState, rowOutput, written, handed, world>>
      BY <1>14 DEF ApplyFail, journal, registry
    <3>. QED
      BY <3>1, <3>2 DEF Left, Forget
  <2>. QED
    BY <2>1, <2>2
<1>15. CASE MarkApplied(p)
  BY <1>15 DEF MarkApplied, GoTo, MarkStep, registry
<1>16. CASE Keep(p)
  BY <1>16 DEF Keep, GoTo, MarkStep, registry, locals
<1>17. CASE CloseKept(p)
  BY <1>17 DEF CloseKept, GoTo, Return, Forget, Finish, registry
<1>18. CASE Commit(p)
  BY <1>18 DEF Commit, GoTo, Return, Forget, Finish
<1>19. CASE CommitRefused(p)
  <2>1. CASE mode[p] = "run"
    BY <2>1, <1>19 DEF CommitRefused, GoTo, journal, registry, locals
  <2>2. CASE mode[p] # "run"
    <3>0. Leaves(p)
      BY <2>2, <1>19, ErrorLeaves, Zenon DEF CommitRefused
    <3>1. PICK c \in {"gone", "ready", "resolve"}, t \in SUBSET todo[p] : Left(p, c, t)
      BY <3>0 DEF Leaves
    <3>2. UNCHANGED <<state, owner, rowState, rowOutput, written, handed, world>>
      BY <1>19 DEF CommitRefused, journal, registry
    <3>. QED
      BY <3>1, <3>2 DEF Left, Forget
  <2>. QED
    BY <2>1, <2>2
<1>20. CASE LoadUndo(p)
  BY <1>20 DEF LoadUndo, GoTo, journal, registry
<1>21. CASE UndoPart(p)
  BY <1>21 DEF UndoPart, journal, registry, locals
<1>22. CASE Undo(p)
  BY <1>22 DEF Undo, GoTo, journal, registry, locals
<1>23. CASE UndoFail(p)
  BY <1>23 DEF UndoFail, GoTo, journal, registry, locals
<1>24. CASE MarkUndone(p)
  BY <1>24 DEF MarkUndone, GoTo, MarkStep, registry
<1>25. CASE CloseUndone(p)
  <2>0. Leaves(p)
    BY <1>25, CloseLeaves, Zenon
  <2>1. PICK c \in {"gone", "ready", "resolve"}, t \in SUBSET todo[p] : Left(p, c, t)
    BY <2>0 DEF Leaves
  <2>2. UNCHANGED <<owner, rowState, rowOutput, written, handed, world>> /\ Finish(cur[p], "rolled_back")
    BY <1>25 DEF CloseUndone, CloseUndo, registry
  <2>3. pc[p] = "undo"
    BY <1>25 DEF CloseUndone
  <2>. QED
    BY <2>1, <2>2, <2>3 DEF Left, Forget, Finish
<1>26. CASE CloseStuck(p)
  <2>0. Leaves(p)
    BY <1>26, CloseLeaves, Zenon
  <2>1. PICK c \in {"gone", "ready", "resolve"}, t \in SUBSET todo[p] : Left(p, c, t)
    BY <2>0 DEF Leaves
  <2>2. UNCHANGED <<owner, rowState, rowOutput, written, handed, world>> /\ Finish(cur[p], "failed")
    BY <1>26 DEF CloseStuck, CloseUndo, registry
  <2>3. pc[p] = "close_stuck"
    BY <1>26 DEF CloseStuck
  <2>. QED
    BY <2>1, <2>2, <2>3 DEF Left, Forget, Finish
<1>27. CASE Die(p)
  BY <1>27 DEF Die, GoTo, Gone, Forget, journal, registry
<1>. QED
  BY <1>1, <1>2, <1>3, <1>4, <1>5, <1>6, <1>7, <1>8, <1>9, <1>10, <1>11, <1>12, <1>13,
     <1>14, <1>15, <1>16, <1>17, <1>18, <1>19, <1>20, <1>21, <1>22, <1>23, <1>24, <1>25,
     <1>26, <1>27
    DEF Step

(* What is on the disk has a row that may have acted. *)
LEMMA NothingUnjournalledStep ==
    ASSUME TypeOK, NothingUnjournalled, InStepHasRow, UndoneIsAbsent, NEW p \in Procs, Step(p)
    PROVE  NothingUnjournalled'
<1>. USE DEF TypeOK, NothingUnjournalled, InStepHasRow, UndoneIsAbsent, MayHaveActed
<1>1. CASE MarkApplying(p)
  BY <1>1 DEF MarkApplying, GoTo, MarkStep, registry, locals
<1>2. CASE ApplyPart(p)
  BY <1>2 DEF ApplyPart, journal, registry, locals
<1>3. CASE ApplyOk(p)
  BY <1>3 DEF ApplyOk, GoTo, journal, registry, locals
<1>4. CASE MarkApplied(p)
  BY <1>4 DEF MarkApplied, GoTo, MarkStep, registry
<1>5. CASE Keep(p)
  BY <1>5 DEF Keep, GoTo, MarkStep, registry, locals
<1>6. CASE UndoPart(p)
  BY <1>6 DEF UndoPart, journal, registry, locals
<1>7. CASE Undo(p)
  BY <1>7 DEF Undo, GoTo, journal, registry, locals
<1>8. CASE MarkUndone(p)
  BY <1>8 DEF MarkUndone, GoTo, MarkStep, registry
<1>9. CASE ~ (MarkApplying(p) \/ ApplyPart(p) \/ ApplyOk(p) \/ MarkApplied(p) \/ Keep(p)
              \/ UndoPart(p) \/ Undo(p) \/ MarkUndone(p))
  <2>1. UNCHANGED <<world, rowState>>
    BY <1>9 DEF Step, CloseUndo, journal, registry, Open, LeaveAlone, TakeOver, Resolved,
                Exit, Run, RecordOk, RecordFail, Retry, Load, ApplyFail, CloseKept, Commit,
                CommitRefused, LoadUndo, UndoFail, CloseUndone, CloseStuck, Die
  <2>. QED
    BY <2>1
<1>. QED
  BY <1>1, <1>2, <1>3, <1>4, <1>5, <1>6, <1>7, <1>8, <1>9 DEF Step

(* A run says rolled_back only when nothing of it is left. *)
LEMMA CleanStep ==
    ASSUME TypeOK, ModeFits, RunIsHeld, UndoKnowsAll, RolledBackIsClean, NEW p \in Procs, Step(p)
    PROVE  RolledBackIsClean'
<1>. USE DEF TypeOK, ModeFits, RunIsHeld, RolledBackIsClean
<1>1. ASSUME NEW o \in Ops, Run(p, o) PROVE RolledBackIsClean'
  BY <1>1 DEF Run, GoTo, Enter, registry
<1>2. CASE RecordFail(p)
  BY <1>2 DEF RecordFail, GoTo, Return, Forget, Finish, registry
<1>3. ASSUME NEW o \in Ops, Retry(p, o) PROVE RolledBackIsClean'
  BY <1>3 DEF Retry, GoTo, Enter, registry
<1>4. CASE ApplyPart(p)
  BY <1>4 DEF ApplyPart, journal, registry, locals
<1>5. CASE ApplyOk(p)
  BY <1>5 DEF ApplyOk, GoTo, journal, registry, locals
<1>6. CASE CloseKept(p)
  BY <1>6 DEF CloseKept, GoTo, Return, Forget, Finish, registry
<1>7. CASE Commit(p)
  BY <1>7 DEF Commit, GoTo, Return, Forget, Finish
<1>8. CASE UndoPart(p)
  BY <1>8 DEF UndoPart, journal, registry, locals
<1>9. CASE Undo(p)
  BY <1>9 DEF Undo, GoTo, journal, registry, locals
<1>10. CASE CloseUndone(p)
  <2>1. \A i \in Steps : world[cur[p]][i] = "absent"
    BY <1>10 DEF CloseUndone, UndoKnowsAll
  <2>2. UNCHANGED world /\ Finish(cur[p], "rolled_back")
    BY <1>10 DEF CloseUndone, CloseUndo
  <2>. QED
    BY <2>1, <2>2 DEF Finish
<1>11. CASE CloseStuck(p)
  <2>0. Leaves(p)
    BY <1>11, CloseLeaves, Zenon
  <2>1. PICK c \in {"gone", "ready", "resolve"}, t \in SUBSET todo[p] : Left(p, c, t)
    BY <2>0 DEF Leaves
  <2>2. UNCHANGED <<owner, rowState, rowOutput, written, handed, world>> /\ Finish(cur[p], "failed")
    BY <1>11 DEF CloseStuck, CloseUndo, registry
  <2>3. pc[p] = "close_stuck"
    BY <1>11 DEF CloseStuck
  <2>. QED
    BY <2>1, <2>2, <2>3 DEF Left, Forget, Finish
<1>12. CASE ~ ((\E o \in Ops : Run(p, o)) \/ RecordFail(p) \/ (\E o \in Ops : Retry(p, o))
               \/ ApplyPart(p) \/ ApplyOk(p) \/ CloseKept(p) \/ Commit(p) \/ UndoPart(p)
               \/ Undo(p) \/ CloseUndone(p) \/ CloseStuck(p))
  <2>1. UNCHANGED <<state, world>>
    BY <1>12 DEF Step, CloseUndo, journal, registry, Open, LeaveAlone, TakeOver, Resolved,
                 Exit, RecordOk, Load, MarkApplying, ApplyFail, MarkApplied, Keep,
                 CommitRefused, LoadUndo, UndoFail, MarkUndone, Die
  <2>. QED
    BY <2>1
<1>. QED
  BY <1>1, <1>2, <1>3, <1>4, <1>5, <1>6, <1>7, <1>8, <1>9, <1>10, <1>11, <1>12 DEF Step

(* Answers stay on their rows and with their processes. *)
LEMMA KeptStep ==
    ASSUME TypeOK, ModeFits, AnswersAreKept, NEW p \in Procs, Step(p)
    PROVE  AnswersAreKept'
<1>. USE DEF TypeOK, AnswersAreKept
<1>1. CASE Open(p)
  BY <1>1 DEF Open, GoTo, journal, registry, locals
<1>2. CASE LeaveAlone(p)
  BY <1>2 DEF LeaveAlone, Drop, journal, registry, locals
<1>3. CASE TakeOver(p)
  BY <1>3 DEF TakeOver, GoTo, Enter, Drop, journal, registry
<1>4. CASE Resolved(p)
  BY <1>4 DEF Resolved, GoTo, journal, registry, locals
<1>5. CASE Exit(p)
  BY <1>5 DEF Exit, GoTo, Gone, Forget, journal, registry
<1>6. ASSUME NEW o \in Ops, Run(p, o) PROVE AnswersAreKept'
  BY <1>6 DEF Run, GoTo, Enter, registry
<1>7. CASE RecordOk(p)
  BY <1>7 DEF RecordOk, GoTo, journal, registry, locals
<1>8. CASE RecordFail(p)
  BY <1>8 DEF RecordFail, GoTo, Return, Forget, Finish, registry
<1>9. ASSUME NEW o \in Ops, Retry(p, o) PROVE AnswersAreKept'
  BY <1>9 DEF Retry, GoTo, Enter, registry
<1>10. CASE Load(p)
  <2>1. UNCHANGED <<rowState, rowOutput>>
    BY <1>10 DEF Load, journal
  <2>2. done' = [done EXCEPT ![p] = AppliedSteps(cur[p])]
    BY <1>10 DEF Load
  <2>3. heard' = [heard EXCEPT ![p] = JournalledOutputs(cur[p])]
    BY <1>10 DEF Load
  <2>4. \A i \in Answering \cap AppliedSteps(cur[p]) : JournalledOutputs(cur[p])[i] = "answer"
    BY DEF AppliedSteps, JournalledOutputs
  <2>. QED
    BY <2>1, <2>2, <2>3, <2>4
<1>11. CASE MarkApplying(p)
  BY <1>11 DEF MarkApplying, GoTo, MarkStep, registry, locals
<1>12. CASE ApplyPart(p)
  BY <1>12 DEF ApplyPart, journal, registry, locals
<1>13. CASE ApplyOk(p)
  BY <1>13 DEF ApplyOk, GoTo, journal, registry, locals
<1>14. CASE ApplyFail(p)
  <2>1. CASE mode[p] # "resume"
    BY <2>1, <1>14 DEF ApplyFail, GoTo, journal, registry, locals
  <2>2. CASE mode[p] = "resume"
    <3>0. Leaves(p)
      BY <2>2, <1>14, GoneLeaves, Zenon DEF ApplyFail
    <3>1. PICK c \in {"gone", "ready", "resolve"}, t \in SUBSET todo[p] : Left(p, c, t)
      BY <3>0 DEF Leaves
    <3>2. UNCHANGED <<state, owner, rowState, rowOutput, written, handed, world>>
      BY <1>14 DEF ApplyFail, journal, registry
    <3>. QED
      BY <3>1, <3>2 DEF Left, Forget
  <2>. QED
    BY <2>1, <2>2
<1>15. CASE MarkApplied(p)
  <2>1. NextStep(p) \in Steps
    BY <1>15, NextStepIsIn DEF MarkApplied, ModeFits
  <2>2. NextStep(p) \in Answering => OutputOf(NextStep(p)) = "answer"
    BY DEF OutputOf
  <2>3. NextStep(p) \in Answering =>
          /\ rowOutput'[cur[p]][NextStep(p)] = "answer"
          /\ heard'[p][NextStep(p)] = "answer"
    BY <1>15, <2>1, <2>2 DEF MarkApplied, MarkStep, Coalesce
  <2>4. \A o \in Ops, i \in Steps : <<o, i>> # <<cur[p], NextStep(p)>> =>
          rowState'[o][i] = rowState[o][i] /\ rowOutput'[o][i] = rowOutput[o][i]
    BY <1>15 DEF MarkApplied, MarkStep
  <2>5. \A q \in Procs, i \in Steps : <<q, i>> # <<p, NextStep(p)>> =>
          (i \in done'[q] <=> i \in done[q]) /\ heard'[q][i] = heard[q][i]
    BY <1>15 DEF MarkApplied
  <2>6. Answering \subseteq Steps
    BY ConstantsAssumption
  <2>7. ASSUME NEW o \in Ops, NEW i \in Answering, rowState'[o][i] = "applied"
        PROVE  rowOutput'[o][i] = "answer"
    <3>1. CASE o = cur[p] /\ i = NextStep(p)
      BY <3>1, <2>3
    <3>2. CASE ~ (o = cur[p] /\ i = NextStep(p))
      BY <3>2, <2>4, <2>6, <2>7
    <3>. QED
      BY <3>1, <3>2
  <2>8. ASSUME NEW q \in Procs, NEW i \in Answering \cap done'[q]
        PROVE  heard'[q][i] = "answer"
    <3>1. CASE q = p /\ i = NextStep(p)
      BY <3>1, <2>3
    <3>2. CASE ~ (q = p /\ i = NextStep(p))
      BY <3>2, <2>5, <2>6
    <3>. QED
      BY <3>1, <3>2
  <2>. QED
    BY <2>7, <2>8
<1>16. CASE Keep(p)
  BY <1>16 DEF Keep, GoTo, MarkStep, registry, locals
<1>17. CASE CloseKept(p)
  BY <1>17 DEF CloseKept, GoTo, Return, Forget, Finish, registry
<1>18. CASE Commit(p)
  BY <1>18 DEF Commit, GoTo, Return, Forget, Finish
<1>19. CASE CommitRefused(p)
  <2>1. CASE mode[p] = "run"
    BY <2>1, <1>19 DEF CommitRefused, GoTo, journal, registry, locals
  <2>2. CASE mode[p] # "run"
    <3>0. Leaves(p)
      BY <2>2, <1>19, ErrorLeaves, Zenon DEF CommitRefused
    <3>1. PICK c \in {"gone", "ready", "resolve"}, t \in SUBSET todo[p] : Left(p, c, t)
      BY <3>0 DEF Leaves
    <3>2. UNCHANGED <<state, owner, rowState, rowOutput, written, handed, world>>
      BY <1>19 DEF CommitRefused, journal, registry
    <3>. QED
      BY <3>1, <3>2 DEF Left, Forget
  <2>. QED
    BY <2>1, <2>2
<1>20. CASE LoadUndo(p)
  BY <1>20 DEF LoadUndo, GoTo, journal, registry
<1>21. CASE UndoPart(p)
  BY <1>21 DEF UndoPart, journal, registry, locals
<1>22. CASE Undo(p)
  BY <1>22 DEF Undo, GoTo, journal, registry, locals
<1>23. CASE UndoFail(p)
  BY <1>23 DEF UndoFail, GoTo, journal, registry, locals
<1>24. CASE MarkUndone(p)
  <2>1. \A o \in Ops, i \in Steps : rowState'[o][i] = "applied" =>
          rowState[o][i] = "applied" /\ rowOutput'[o][i] = rowOutput[o][i]
    BY <1>24 DEF MarkUndone, MarkStep, Coalesce
  <2>2. UNCHANGED <<done, heard>>
    BY <1>24 DEF MarkUndone
  <2>3. Answering \subseteq Steps
    BY ConstantsAssumption
  <2>4. ASSUME NEW o \in Ops, NEW i \in Answering, rowState'[o][i] = "applied"
        PROVE  rowOutput'[o][i] = "answer"
    BY <2>1, <2>3, <2>4
  <2>. QED
    BY <2>2, <2>4
<1>25. CASE CloseUndone(p)
  <2>0. Leaves(p)
    BY <1>25, CloseLeaves, Zenon
  <2>1. PICK c \in {"gone", "ready", "resolve"}, t \in SUBSET todo[p] : Left(p, c, t)
    BY <2>0 DEF Leaves
  <2>2. UNCHANGED <<owner, rowState, rowOutput, written, handed, world>> /\ Finish(cur[p], "rolled_back")
    BY <1>25 DEF CloseUndone, CloseUndo, registry
  <2>3. pc[p] = "undo"
    BY <1>25 DEF CloseUndone
  <2>. QED
    BY <2>1, <2>2, <2>3 DEF Left, Forget, Finish
<1>26. CASE CloseStuck(p)
  <2>0. Leaves(p)
    BY <1>26, CloseLeaves, Zenon
  <2>1. PICK c \in {"gone", "ready", "resolve"}, t \in SUBSET todo[p] : Left(p, c, t)
    BY <2>0 DEF Leaves
  <2>2. UNCHANGED <<owner, rowState, rowOutput, written, handed, world>> /\ Finish(cur[p], "failed")
    BY <1>26 DEF CloseStuck, CloseUndo, registry
  <2>3. pc[p] = "close_stuck"
    BY <1>26 DEF CloseStuck
  <2>. QED
    BY <2>1, <2>2, <2>3 DEF Left, Forget, Finish
<1>27. CASE Die(p)
  BY <1>27 DEF Die, GoTo, Gone, Forget, journal, registry
<1>. QED
  BY <1>1, <1>2, <1>3, <1>4, <1>5, <1>6, <1>7, <1>8, <1>9, <1>10, <1>11, <1>12, <1>13,
     <1>14, <1>15, <1>16, <1>17, <1>18, <1>19, <1>20, <1>21, <1>22, <1>23, <1>24, <1>25,
     <1>26, <1>27
    DEF Step

(* The commit is handed every answer. *)
LEMMA ReachStep ==
    ASSUME TypeOK, AnswersAreKept, AnswersReachTheRegistry, NEW p \in Procs, Step(p)
    PROVE  AnswersReachTheRegistry'
<1>. USE DEF TypeOK, AnswersReachTheRegistry
<1>1. CASE Commit(p)
  <2>1. \A i \in Answering : heard[p][i] = "answer"
    BY <1>1, ConstantsAssumption DEF Commit, AnswersAreKept
  <2>2. written' = [written EXCEPT ![cur[p]] = TRUE] /\ handed' = [handed EXCEPT ![cur[p]] = heard[p]]
    BY <1>1 DEF Commit
  <2>. QED
    BY <2>1, <2>2
<1>2. CASE ~ (Commit(p))
  <2>1. UNCHANGED <<written, handed>>
    BY <1>2 DEF Step, CloseUndo, journal, registry, Open, LeaveAlone, TakeOver, Resolved,
                Exit, Run, RecordOk, RecordFail, Retry, Load, MarkApplying, ApplyPart,
                ApplyOk, ApplyFail, MarkApplied, Keep, CloseKept, CommitRefused, LoadUndo,
                UndoPart, Undo, UndoFail, MarkUndone, CloseUndone, CloseStuck, Die
  <2>. QED
    BY <2>1
<1>. QED
  BY <1>1, <1>2 DEF Step

(* Of a run that is kept, what is done stays done. *)
LEMMA DoneStays ==
    ASSUME TypeOK, ModeFits, CountedIsDone, NEW p \in Procs, Step(p)
    PROVE  \A o \in Kept, i \in Steps : world[o][i] = "done" => world'[o][i] = "done"
<1>. USE DEF TypeOK
<1>1. CASE ApplyPart(p)
  BY <1>1 DEF ApplyPart
<1>2. CASE ApplyOk(p)
  BY <1>2 DEF ApplyOk
<1>3. CASE UndoPart(p)
  <2>1. cur[p] \notin Kept
    BY <1>3 DEF UndoPart, ModeFits, CountedIsDone, Counted, UndoPcs
  <2>. QED
    BY <2>1, <1>3 DEF UndoPart
<1>4. CASE Undo(p)
  <2>1. cur[p] \notin Kept
    BY <1>4 DEF Undo, ModeFits, CountedIsDone, Counted, UndoPcs
  <2>. QED
    BY <2>1, <1>4 DEF Undo
<1>5. CASE ~ (ApplyPart(p) \/ ApplyOk(p) \/ UndoPart(p) \/ Undo(p))
  <2>1. UNCHANGED world
    BY <1>5 DEF Step, Open, LeaveAlone, TakeOver, Resolved, Exit, Run, RecordOk,
                RecordFail, Retry, Load, MarkApplying, ApplyFail, MarkApplied, Keep,
                CloseKept, Commit, CommitRefused, LoadUndo, UndoFail, MarkUndone,
                CloseUndone, CloseStuck, Die, CloseUndo
  <2>. QED
    BY <2>1
<1>. QED
  BY <1>1, <1>2, <1>3, <1>4, <1>5

(* Only a step that is done is marked applied. *)
LEMMA AppliedRowStep ==
    ASSUME TypeOK, ModeFits, CountedIsDone, AppliedRowIsDone, NEW p \in Procs, Step(p)
    PROVE  AppliedRowIsDone'
<1>. USE DEF TypeOK, AppliedRowIsDone
<1>. Kept \subseteq Ops
  BY ConstantsAssumption DEF Kept
<1>d. \A o \in Kept, i \in Steps : world[o][i] = "done" => world'[o][i] = "done"
  BY DoneStays, Zenon
<1>1. CASE MarkApplying(p)
  BY <1>1 DEF MarkApplying, GoTo, MarkStep, registry, locals
<1>2. CASE ApplyPart(p)
  BY <1>2, <1>d DEF ApplyPart, journal
<1>3. CASE ApplyOk(p)
  BY <1>3, <1>d DEF ApplyOk, journal
<1>4. CASE MarkApplied(p)
  <2>1. cur[p] \in Kept => world[cur[p]][NextStep(p)] = "done"
    BY <1>4 DEF MarkApplied, ModeFits, CountedIsDone, Counted
  <2>. QED
    BY <2>1, <1>4 DEF MarkApplied, MarkStep
<1>5. CASE Keep(p)
  BY <1>5 DEF Keep, GoTo, MarkStep, registry, locals
<1>6. CASE UndoPart(p)
  BY <1>6, <1>d DEF UndoPart, journal
<1>7. CASE Undo(p)
  BY <1>7, <1>d DEF Undo, journal
<1>8. CASE MarkUndone(p)
  BY <1>8 DEF MarkUndone, GoTo, MarkStep, registry
<1>9. CASE ~ (MarkApplying(p) \/ ApplyPart(p) \/ ApplyOk(p) \/ MarkApplied(p) \/ Keep(p)
              \/ UndoPart(p) \/ Undo(p) \/ MarkUndone(p))
  <2>1. UNCHANGED <<rowState, world>>
    BY <1>9 DEF Step, CloseUndo, journal, registry, Open, LeaveAlone, TakeOver, Resolved,
                Exit, Run, RecordOk, RecordFail, Retry, Load, ApplyFail, CloseKept, Commit,
                CommitRefused, LoadUndo, UndoFail, CloseUndone, CloseStuck, Die
  <2>. QED
    BY <2>1
<1>. QED
  BY <1>1, <1>2, <1>3, <1>4, <1>5, <1>6, <1>7, <1>8, <1>9 DEF Step

(* A process of a kept run counts only what is done, and undoes nothing. *)
LEMMA CountedStep ==
    ASSUME TypeOK, ModeFits, RunIsHeld, AppliedRowIsDone, CountedIsDone, NEW p \in Procs, Step(p)
    PROVE  CountedIsDone'
<1>. USE DEF TypeOK
<1>. Kept \subseteq Ops
  BY ConstantsAssumption DEF Kept
<1>d. \A o \in Kept, i \in Steps : world[o][i] = "done" => world'[o][i] = "done"
  BY DoneStays, Zenon
<1>o. \A q \in Procs \ {p} : Counted(q)'
  <2>. SUFFICES ASSUME NEW q \in Procs \ {p} PROVE Counted(q)'
    OBVIOUS
  <2>1. Still(q)
    BY OthersStill, Zenon
  <2>2. pc[q] = "applied" => NextStep(q) \in Steps
    BY NextStepIsIn DEF ModeFits
  <2>. QED
    BY <2>1, <2>2, <1>d DEF Still, Counted, CountedIsDone, NextStep
<1>. SUFFICES Counted(p)'
  BY <1>o DEF CountedIsDone
<1>1. CASE Open(p)
  BY <1>1 DEF Open, Live, GoTo, locals, ModeFits, Counted
<1>2. CASE LeaveAlone(p)
  BY <1>2 DEF LeaveAlone, Live, GoTo, locals, ModeFits, Counted
<1>3. CASE TakeOver(p)
  <2>1. CASE Oldest(p)[1] \in Resumable
    BY <2>1, <1>3 DEF TakeOver, Enter, GoTo, ModeFits, Counted, UndoPcs
  <2>2. CASE Oldest(p)[1] \notin Resumable
    BY <2>2, <1>3 DEF TakeOver, Enter, GoTo, Counted, Kept
  <2>. QED
    BY <2>1, <2>2
<1>4. CASE Resolved(p)
  BY <1>4 DEF Resolved, Live, GoTo, locals, ModeFits, Counted
<1>5. CASE Exit(p)
  BY <1>5 DEF Exit, Gone, Forget, Counted
<1>6. ASSUME NEW o \in Ops, Run(p, o) PROVE Counted(p)'
  BY <1>6 DEF Run, Enter, GoTo, ModeFits, Counted, UndoPcs
<1>7. CASE RecordOk(p)
  BY <1>7, <1>d DEF RecordOk, GoTo, locals, Counted, CountedIsDone, NextStep, UndoPcs
<1>8. CASE RecordFail(p)
  BY <1>8 DEF RecordFail, Return, Forget, Counted
<1>9. ASSUME NEW o \in Ops, Retry(p, o) PROVE Counted(p)'
  BY <1>9 DEF Retry, Enter, GoTo, ModeFits, Counted, UndoPcs
<1>10. CASE Load(p)
  BY <1>10 DEF Load, GoTo, Counted, AppliedRowIsDone, AppliedSteps, UndoPcs
<1>11. CASE MarkApplying(p)
  BY <1>11, <1>d DEF MarkApplying, GoTo, locals, Counted, CountedIsDone, NextStep, UndoPcs
<1>12. CASE ApplyPart(p)
  BY <1>12, <1>d DEF ApplyPart, GoTo, locals, Counted, CountedIsDone, NextStep, UndoPcs
<1>13. CASE ApplyOk(p)
  <2>1. NextStep(p) \in Steps /\ cur[p] \in Ops
    BY <1>13, NextStepIsIn DEF ApplyOk, ModeFits
  <2>2. world'[cur[p]][NextStep(p)] = "done"
    BY <1>13, <2>1 DEF ApplyOk
  <2>3. pc'[p] = "applied" /\ UNCHANGED <<mode, cur, done>>
    BY <1>13 DEF ApplyOk, GoTo, locals
  <2>4. NextStep(p)' = NextStep(p)
    BY <2>3 DEF NextStep
  <2>. QED
    BY <1>13, <2>2, <2>3, <2>4, <1>d DEF ApplyOk, Counted, CountedIsDone, UndoPcs
<1>14. CASE ApplyFail(p)
  <2>1. CASE mode[p] = "resume"
    BY <2>1, <1>14 DEF ApplyFail, Gone, Forget, Counted
  <2>2. CASE mode[p] # "resume"
    BY <2>2, <1>14 DEF ApplyFail, GoTo, locals, Counted, CountedIsDone, Kept, UndoPcs
  <2>. QED
    BY <2>1, <2>2
<1>15. CASE MarkApplied(p)
  <2>1. cur[p] \in Kept => world[cur[p]][NextStep(p)] = "done"
    BY <1>15 DEF MarkApplied, ModeFits, CountedIsDone, Counted
  <2>2. /\ pc'[p] = "apply" /\ mode'[p] = mode[p] /\ cur'[p] = cur[p]
        /\ done'[p] = done[p] \cup {NextStep(p)} /\ UNCHANGED world
    BY <1>15 DEF MarkApplied, GoTo
  <2>3. mode[p] # "none" /\ cur[p] \in Kept => \A i \in done[p] : world[cur[p]][i] = "done"
    BY DEF CountedIsDone, Counted
  <2>. QED
    BY <2>1, <2>2, <2>3 DEF Counted, UndoPcs
<1>16. CASE Keep(p)
  BY <1>16, <1>d DEF Keep, GoTo, locals, Counted, CountedIsDone, NextStep, UndoPcs
<1>17. CASE CloseKept(p)
  BY <1>17 DEF CloseKept, Return, Forget, Counted
<1>18. CASE Commit(p)
  BY <1>18 DEF Commit, Return, Forget, Counted
<1>19. CASE CommitRefused(p)
  <2>1. CASE mode[p] # "run"
    BY <2>1, <1>19 DEF CommitRefused, ReturnError, Return, Gone, Forget, Counted
  <2>2. CASE mode[p] = "run"
    <3>1. cur[p] \in RefusedCommits
      BY <2>2, <1>19 DEF CommitRefused, RunIsHeld
    <3>. QED
      BY <3>1, <2>2, <1>19 DEF CommitRefused, locals, Counted, Kept
  <2>. QED
    BY <2>1, <2>2
<1>20. CASE LoadUndo(p)
  <2>1. cur[p] \notin Kept
    BY <1>20 DEF LoadUndo, ModeFits, CountedIsDone, Counted, UndoPcs
  <2>. QED
    BY <2>1, <1>20 DEF LoadUndo, GoTo, locals, Counted
<1>21. CASE UndoPart(p)
  <2>1. cur[p] \notin Kept
    BY <1>21 DEF UndoPart, ModeFits, CountedIsDone, Counted, UndoPcs
  <2>. QED
    BY <2>1, <1>21 DEF UndoPart, GoTo, locals, Counted
<1>22. CASE Undo(p)
  <2>1. cur[p] \notin Kept
    BY <1>22 DEF Undo, ModeFits, CountedIsDone, Counted, UndoPcs
  <2>. QED
    BY <2>1, <1>22 DEF Undo, GoTo, locals, Counted
<1>23. CASE UndoFail(p)
  BY <1>23, <1>d DEF UndoFail, GoTo, locals, Counted, CountedIsDone, NextStep, UndoPcs
<1>24. CASE MarkUndone(p)
  <2>1. cur[p] \notin Kept
    BY <1>24 DEF MarkUndone, ModeFits, CountedIsDone, Counted, UndoPcs
  <2>. QED
    BY <2>1, <1>24 DEF MarkUndone, GoTo, locals, Counted
<1>25. CASE CloseUndone(p)
  BY <1>25 DEF CloseUndone, CloseUndo, ReturnError, Return, Gone, Forget, Counted
<1>26. CASE CloseStuck(p)
  BY <1>26 DEF CloseStuck, CloseUndo, ReturnError, Return, Gone, Forget, Counted
<1>27. CASE Die(p)
  BY <1>27 DEF Die, Gone, Forget, Counted
<1>. QED
  BY <1>1, <1>2, <1>3, <1>4, <1>5, <1>6, <1>7, <1>8, <1>9, <1>10, <1>11, <1>12, <1>13,
     <1>14, <1>15, <1>16, <1>17, <1>18, <1>19, <1>20, <1>21, <1>22, <1>23, <1>24, <1>25,
     <1>26, <1>27
    DEF Step

(* A resumed run commits what is whole. *)
LEMMA WholeStep ==
    ASSUME TypeOK, ModeFits, CountedIsDone, ResumedIsWhole, NEW p \in Procs, Step(p)
    PROVE  ResumedIsWhole'
<1>. USE DEF TypeOK, ResumedIsWhole, Whole, Kept
<1>. Kept \subseteq Ops
  BY ConstantsAssumption
<1>d. \A o \in Kept, i \in Steps : world[o][i] = "done" => world'[o][i] = "done"
  BY DoneStays, Zenon
<1>1. ASSUME NEW o \in Ops, Run(p, o) PROVE ResumedIsWhole'
  BY <1>1 DEF Run, GoTo, Enter, registry
<1>2. CASE RecordFail(p)
  BY <1>2 DEF RecordFail, GoTo, Return, Forget, Finish, registry
<1>3. ASSUME NEW o \in Ops, Retry(p, o) PROVE ResumedIsWhole'
  BY <1>3 DEF Retry, GoTo, Enter, registry
<1>4. CASE ApplyPart(p)
  BY <1>4, <1>d DEF ApplyPart, journal
<1>5. CASE ApplyOk(p)
  BY <1>5, <1>d DEF ApplyOk, journal
<1>6. CASE CloseKept(p)
  BY <1>6 DEF CloseKept, GoTo, Return, Forget, Finish, registry
<1>7. CASE Commit(p)
  <2>1. cur[p] \in Kept => \A i \in Steps : world[cur[p]][i] = "done"
    BY <1>7 DEF Commit, ModeFits, CountedIsDone, Counted
  <2>. QED
    BY <2>1, <1>7 DEF Commit, Finish
<1>8. CASE UndoPart(p)
  BY <1>8, <1>d DEF UndoPart, journal
<1>9. CASE Undo(p)
  BY <1>9, <1>d DEF Undo, journal
<1>10. CASE CloseUndone(p)
  <2>0. Leaves(p)
    BY <1>10, CloseLeaves, Zenon
  <2>1. PICK c \in {"gone", "ready", "resolve"}, t \in SUBSET todo[p] : Left(p, c, t)
    BY <2>0 DEF Leaves
  <2>2. UNCHANGED <<owner, rowState, rowOutput, written, handed, world>> /\ Finish(cur[p], "rolled_back")
    BY <1>10 DEF CloseUndone, CloseUndo, registry
  <2>3. pc[p] = "undo"
    BY <1>10 DEF CloseUndone
  <2>. QED
    BY <2>1, <2>2, <2>3 DEF Left, Forget, Finish
<1>11. CASE CloseStuck(p)
  <2>0. Leaves(p)
    BY <1>11, CloseLeaves, Zenon
  <2>1. PICK c \in {"gone", "ready", "resolve"}, t \in SUBSET todo[p] : Left(p, c, t)
    BY <2>0 DEF Leaves
  <2>2. UNCHANGED <<owner, rowState, rowOutput, written, handed, world>> /\ Finish(cur[p], "failed")
    BY <1>11 DEF CloseStuck, CloseUndo, registry
  <2>3. pc[p] = "close_stuck"
    BY <1>11 DEF CloseStuck
  <2>. QED
    BY <2>1, <2>2, <2>3 DEF Left, Forget, Finish
<1>12. CASE ~ ((\E o \in Ops : Run(p, o)) \/ RecordFail(p) \/ (\E o \in Ops : Retry(p, o))
               \/ ApplyPart(p) \/ ApplyOk(p) \/ CloseKept(p) \/ Commit(p) \/ UndoPart(p)
               \/ Undo(p) \/ CloseUndone(p) \/ CloseStuck(p))
  <2>1. UNCHANGED <<state, world>>
    BY <1>12 DEF Step, CloseUndo, journal, registry, Open, LeaveAlone, TakeOver, Resolved,
                 Exit, RecordOk, Load, MarkApplying, ApplyFail, MarkApplied, Keep,
                 CommitRefused, LoadUndo, UndoFail, MarkUndone, Die
  <2>. QED
    BY <2>1
<1>. QED
  BY <1>1, <1>2, <1>3, <1>4, <1>5, <1>6, <1>7, <1>8, <1>9, <1>10, <1>11, <1>12 DEF Step

(* No other process takes away the row a step is inside. *)
LEMMA RowsStayOpen ==
    ASSUME TypeOK, ModeFits, StartedRunIsAlone, NEW p \in Procs, Step(p),
           NEW q \in Procs, pc[q] \in {"applying", "applied"},
           NEW i \in Steps, MayHaveActed(rowState[cur[q]][i])
    PROVE  MayHaveActed(rowState'[cur[q]][i])
<1>. USE DEF TypeOK
<1>1. CASE MarkApplying(p)
  BY <1>1 DEF MarkApplying, MarkStep, MayHaveActed
<1>2. CASE MarkApplied(p)
  BY <1>2 DEF MarkApplied, MarkStep, MayHaveActed
<1>3. CASE Keep(p)
  BY <1>3 DEF Keep, MarkStep, MayHaveActed
<1>4. CASE MarkUndone(p)
  <2>1. cur[p] # cur[q]
    BY <1>4, NoApplyBesideUndo DEF MarkUndone, UndoPcs
  <2>. QED
    BY <2>1, <1>4 DEF MarkUndone, MarkStep
<1>5. CASE ~ (MarkApplying(p) \/ MarkApplied(p) \/ Keep(p) \/ MarkUndone(p))
  <2>1. UNCHANGED rowState
    BY <1>5 DEF Step, journal, CloseUndo, Open, LeaveAlone, TakeOver, Resolved, Exit, Run,
                RecordOk, RecordFail, Retry, Load, ApplyPart, ApplyOk, ApplyFail,
                CloseKept, Commit, CommitRefused, LoadUndo, UndoPart, Undo, UndoFail,
                CloseUndone, CloseStuck, Die
  <2>. QED
    BY <2>1
<1>. QED
  BY <1>1, <1>2, <1>3, <1>4, <1>5

(* Nothing comes back to an operation that is being undone. *)
LEMMA AbsentStays ==
    ASSUME TypeOK, ModeFits, StartedRunIsAlone, NEW p \in Procs, Step(p),
           NEW q \in Procs, pc[q] \in UndoPcs,
           NEW i \in Steps, world[cur[q]][i] = "absent"
    PROVE  world'[cur[q]][i] = "absent"
<1>. USE DEF TypeOK
<1>1. CASE ApplyPart(p) \/ ApplyOk(p)
  <2>1. cur[p] # cur[q]
    BY <1>1, NoApplyBesideUndo DEF ApplyPart, ApplyOk
  <2>. QED
    BY <2>1, <1>1 DEF ApplyPart, ApplyOk
<1>2. CASE UndoPart(p)
  <2>1. world' = [world EXCEPT ![cur[p]][Last(acted[p])] = "partial"]
    BY <1>2 DEF UndoPart
  <2>2. ~ (cur[p] = cur[q] /\ Last(acted[p]) = i)
    BY <1>2 DEF UndoPart
  <2>. QED
    BY <2>1, <2>2
<1>4. CASE Undo(p)
  <2>1. world' = [world EXCEPT ![cur[p]][Last(acted[p])] = "absent"]
    BY <1>4 DEF Undo
  <2>. QED
    BY <2>1
<1>3. CASE ~ (ApplyPart(p) \/ ApplyOk(p) \/ UndoPart(p) \/ Undo(p))
  <2>1. UNCHANGED world
    BY <1>3 DEF Step, CloseUndo, Open, LeaveAlone, TakeOver, Resolved, Exit, Run, RecordOk,
                RecordFail, Retry, Load, MarkApplying, ApplyFail, MarkApplied, Keep,
                CloseKept, Commit, CommitRefused, LoadUndo, UndoFail, MarkUndone,
                CloseUndone, CloseStuck, Die
  <2>. QED
    BY <2>1
<1>. QED
  BY <1>1, <1>2, <1>3, <1>4

(* A process inside a step keeps its row open. *)
LEMMA InStepStep ==
    ASSUME TypeOK, ModeFits, StartedRunIsAlone, InStepHasRow, NEW p \in Procs, Step(p)
    PROVE  InStepHasRow'
<1>. DEFINE Row(q) == pc[q] \in {"applying", "applied"} => MayHaveActed(rowState[cur[q]][NextStep(q)])
<1>1. ASSUME NEW q \in Procs, pc[q] \in {"applying", "applied"}
      PROVE  NextStep(q) \in Steps /\ MayHaveActed(rowState'[cur[q]][NextStep(q)])
  <2>1. NextStep(q) \in Steps
    BY <1>1, NextStepIsIn DEF ModeFits
  <2>2. MayHaveActed(rowState[cur[q]][NextStep(q)])
    BY <1>1 DEF InStepHasRow
  <2>. QED
    BY <2>1, <2>2, <1>1, RowsStayOpen
<1>2. ASSUME NEW q \in Procs \ {p} PROVE Row(q)'
  <2>1. Still(q)
    BY OthersStill
  <2>. QED
    BY <2>1, <1>1 DEF Still, NextStep
<1>3. Row(p)'
  <2>1. CASE MarkApplying(p)
    <3>1. NextStep(p) \in Steps /\ cur[p] \in Ops
      BY <2>1, NextStepIsIn DEF MarkApplying, TypeOK
    <3>2. rowState'[cur[p]][NextStep(p)] = "applying"
      BY <2>1, <3>1 DEF MarkApplying, MarkStep, TypeOK
    <3>3. UNCHANGED <<cur, done>>
      BY <2>1 DEF MarkApplying, locals
    <3>. QED
      BY <3>2, <3>3 DEF NextStep, MayHaveActed
  <2>2. CASE ApplyPart(p) \/ ApplyOk(p)
    <3>1. pc[p] = "applying" /\ UNCHANGED <<cur, done>>
      BY <2>2 DEF ApplyPart, ApplyOk, locals
    <3>. QED
      BY <3>1, <1>1 DEF NextStep
  <2>3. CASE ~ (MarkApplying(p) \/ ApplyPart(p) \/ ApplyOk(p))
    <3>1. pc'[p] \notin {"applying", "applied"}
      BY <2>3 DEF TypeOK, Step, GoTo, Enter, Gone, Return, ReturnError, CloseUndo,
                  Open, LeaveAlone, TakeOver, Resolved, Exit, Run, RecordOk, RecordFail, Retry, Load, ApplyFail, MarkApplied, Keep, CloseKept, Commit, CommitRefused, LoadUndo, UndoPart, Undo, UndoFail, MarkUndone, CloseUndone, CloseStuck, Die
    <3>. QED
      BY <3>1
  <2>. QED
    BY <2>1, <2>2, <2>3
<1>. QED
  BY <1>2, <1>3 DEF InStepHasRow

(* A process that undoes keeps knowing what is left, and what it took back. *)
LEMMA UndoStep ==
    ASSUME TypeOK, ModeFits, StartedRunIsAlone, NothingUnjournalled, UndoneIsAbsent, UndoKnowsAll,
           NEW p \in Procs, Step(p)
    PROVE  UndoneIsAbsent' /\ UndoKnowsAll'
<1>. DEFINE Back(q) == pc[q] = "undone" => world[cur[q]][Last(acted[q])] = "absent"
            Knows(q) == pc[q] \in {"undo", "undone"} =>
                \A i \in Steps : world[cur[q]][i] # "absent" => i \in acted[q]
            Full(q) == pc[q] = "undone" => acted[q] # {}
<1>1. ASSUME NEW q \in Procs, pc[q] \in {"undo", "undone"}, NEW i \in Steps,
             world'[cur[q]][i] # "absent"
      PROVE  i \in acted[q]
  <2>1. world[cur[q]][i] # "absent"
    BY <1>1, AbsentStays DEF UndoPcs
  <2>. QED
    BY <2>1, <1>1 DEF UndoKnowsAll
<1>2. ASSUME NEW q \in Procs, pc[q] = "undone"
      PROVE  world'[cur[q]][Last(acted[q])] = "absent"
  <2>1. acted[q] \in SUBSET Steps /\ acted[q] # {}
    BY <1>2 DEF TypeOK, ModeFits
  <2>2. Last(acted[q]) \in Steps
    BY <2>1, LastIsIn
  <2>. QED
    BY <2>2, <1>2, AbsentStays DEF UndoPcs, UndoneIsAbsent
<1>3. ASSUME NEW q \in Procs \ {p} PROVE Back(q)' /\ Knows(q)'
  <2>1. Still(q)
    BY OthersStill
  <2>. QED
    BY <2>1, <1>1, <1>2 DEF Still
<1>4. Back(p)' /\ Knows(p)'
  <2>1. CASE LoadUndo(p)
    <3>1. pc'[p] = "undo" /\ acted'[p] = ActedSteps(cur[p]) /\ UNCHANGED <<cur, world>>
      BY <2>1 DEF LoadUndo, GoTo, TypeOK
    <3>2. \A i \in Steps : world[cur[p]][i] # "absent" => i \in ActedSteps(cur[p])
      BY DEF NothingUnjournalled, ActedSteps, TypeOK
    <3>. QED
      BY <3>1, <3>2
  <2>2. CASE UndoPart(p)
    <3>1. pc[p] = "undo" /\ UNCHANGED <<pc, cur, acted>>
      BY <2>2 DEF UndoPart, locals
    <3>. QED
      BY <3>1, <1>1
  <2>3. CASE Undo(p)
    <3>1. pc[p] = "undo" /\ pc'[p] = "undone" /\ UNCHANGED <<cur, acted>>
      BY <2>3 DEF Undo, GoTo, locals, TypeOK
    <3>2. Last(acted[p]) \in Steps /\ cur[p] \in Ops
      BY <2>3, LastIsIn DEF Undo, TypeOK
    <3>3. world'[cur[p]][Last(acted[p])] = "absent"
      BY <2>3, <3>2 DEF Undo, TypeOK
    <3>. QED
      BY <3>1, <3>3, <1>1
  <2>4. CASE MarkUndone(p)
    <3>1. pc[p] = "undone" /\ pc'[p] = "undo" /\ acted'[p] = acted[p] \ {Last(acted[p])}
      BY <2>4 DEF MarkUndone, GoTo, TypeOK
    <3>2. UNCHANGED <<cur, world>>
      BY <2>4 DEF MarkUndone
    <3>. QED
      BY <3>1, <3>2, <1>1, <1>2
  <2>5. CASE ~ (LoadUndo(p) \/ UndoPart(p) \/ Undo(p) \/ MarkUndone(p))
    <3>1. pc'[p] \notin {"undo", "undone"}
      BY <2>5 DEF TypeOK, Step, GoTo, Enter, Gone, Return, ReturnError, CloseUndo,
                  Open, LeaveAlone, TakeOver, Resolved, Exit, Run, RecordOk, RecordFail, Retry, Load, MarkApplying, ApplyPart, ApplyOk, ApplyFail, MarkApplied, Keep, CloseKept, Commit, CommitRefused, UndoFail, CloseUndone, CloseStuck, Die
    <3>. QED
      BY <3>1
  <2>. QED
    BY <2>1, <2>2, <2>3, <2>4, <2>5
<1>. QED
  BY <1>3, <1>4 DEF UndoneIsAbsent, UndoKnowsAll

-----------------------------------------------------------------------------
(* The invariant holds before any command has been given. *)
LEMMA InitIInv == Init => IInv
<1>. SUFFICES ASSUME Init PROVE IInv
  OBVIOUS
<1>1. NoOp \in Ops /\ (CHOOSE p \in Procs : TRUE) \in Procs
  BY ConstantsAssumption DEF NoOp
<1>2. TypeOK
  <2>1. 0 \in 0..MaxFaults
    BY ConstantsAssumption
  <2>. QED
    BY <1>1, <2>1, SilenceType DEF Init, TypeOK, States, StepStates, Worlds, Pcs, Modes
<1>3. ModeFits
  BY DEF Init, ModeFits, UndoPcs
<1>4. RunIsHeld /\ StartedRunIsAlone
  BY DEF Init, RunIsHeld, StartedRunIsAlone
<1>5. RegistryAndJournalAgree /\ NothingUnjournalled /\ RolledBackIsClean
  BY DEF Init, RegistryAndJournalAgree, NothingUnjournalled, RolledBackIsClean
<1>6. InStepHasRow /\ UndoneIsAbsent /\ UndoKnowsAll
  BY DEF Init, InStepHasRow, UndoneIsAbsent, UndoKnowsAll
<1>7. AnswersAreKept /\ AnswersReachTheRegistry
  BY ConstantsAssumption DEF Init, AnswersAreKept, AnswersReachTheRegistry
<1>8. AppliedRowIsDone /\ CountedIsDone /\ ResumedIsWhole
  BY ConstantsAssumption DEF Init, AppliedRowIsDone, CountedIsDone, Counted,
                             ResumedIsWhole, Whole, Kept
<1>. QED
  BY <1>2, <1>3, <1>4, <1>5, <1>6, <1>7, <1>8 DEF IInv

(* A step of any process keeps it. *)
LEMMA StepIInv ==
    ASSUME IInv, NEW p \in Procs, Step(p)
    PROVE  IInv'
<1>. USE DEF IInv
<1>1. TypeOK' /\ ModeFits'
  BY TypeStep, ModeFitsStep
<1>2. RunIsHeld' /\ StartedRunIsAlone'
  BY RunIsHeldStep, AloneStep
<1>3. RegistryAndJournalAgree'
  BY AgreeStep
<1>4. NothingUnjournalled' /\ InStepHasRow'
  BY NothingUnjournalledStep, InStepStep
<1>5. UndoneIsAbsent' /\ UndoKnowsAll'
  BY UndoStep
<1>6. RolledBackIsClean'
  BY CleanStep
<1>7. AnswersAreKept' /\ AnswersReachTheRegistry'
  BY KeptStep, ReachStep
<1>8. AppliedRowIsDone' /\ CountedIsDone' /\ ResumedIsWhole'
  BY AppliedRowStep, CountedStep, WholeStep
<1>. QED
  BY <1>1, <1>2, <1>3, <1>4, <1>5, <1>6, <1>7, <1>8

LEMMA StutterIInv ==
    ASSUME IInv, UNCHANGED vars
    PROVE  IInv'
<1>. USE DEF vars, journal, registry, locals
<1>1. TypeOK' /\ ModeFits' /\ RunIsHeld' /\ StartedRunIsAlone'
  BY DEF IInv, TypeOK, ModeFits, RunIsHeld, StartedRunIsAlone
<1>2. RegistryAndJournalAgree' /\ NothingUnjournalled' /\ RolledBackIsClean'
  BY DEF IInv, RegistryAndJournalAgree, NothingUnjournalled, RolledBackIsClean
<1>3. InStepHasRow' /\ UndoneIsAbsent' /\ UndoKnowsAll'
  BY DEF IInv, InStepHasRow, UndoneIsAbsent, UndoKnowsAll, NextStep
<1>4. AnswersAreKept' /\ AnswersReachTheRegistry'
  BY DEF IInv, AnswersAreKept, AnswersReachTheRegistry
<1>5. AppliedRowIsDone' /\ CountedIsDone' /\ ResumedIsWhole'
  BY DEF IInv, AppliedRowIsDone, CountedIsDone, Counted, NextStep, ResumedIsWhole, Whole
<1>. QED
  BY <1>1, <1>2, <1>3, <1>4, <1>5 DEF IInv

(* The inductive invariant holds for ever: nothing run, resolve, retry, a kill or
   a failure does, in any interleaving, takes it away. *)
THEOREM InvariantHolds == Spec => []IInv
<1>1. Init => IInv
  BY InitIInv
<1>2. IInv /\ [Next]_vars => IInv'
  BY StepIInv, StutterIInv DEF Next
<1>. QED
  BY <1>1, <1>2, PTL DEF Spec

(* The journal and its processes stay within their types. *)
THEOREM TypesHold == Spec => []TypeOK
<1>1. IInv => TypeOK
  BY DEF IInv
<1>. QED
  BY <1>1, InvariantHolds, PTL

(* The registry rows of an operation exist exactly while its run is committed:
   commit's one transaction and finish's guard are enough, for any number of
   processes driving one run and any number of kills. *)
THEOREM RegistryAgrees == Spec => []RegistryAndJournalAgree
<1>1. IInv => RegistryAndJournalAgree
  BY DEF IInv
<1>. QED
  BY <1>1, InvariantHolds, PTL

(* Nothing is on the disk that undo_steps would not take back. *)
THEOREM NothingIsUnjournalled == Spec => []NothingUnjournalled
<1>1. IInv => NothingUnjournalled
  BY DEF IInv
<1>. QED
  BY <1>1, InvariantHolds, PTL

(* A run that says rolled_back has left nothing, for plans that roll back. *)
THEOREM RollBackCleans == Spec => []RolledBackIsClean
<1>1. IInv => RolledBackIsClean
  BY DEF IInv
<1>. QED
  BY <1>1, InvariantHolds, PTL

(* A process inside run is the only one inside its operation. *)
THEOREM RunIsAlone == Spec => []StartedRunIsAlone
<1>1. IInv => StartedRunIsAlone
  BY DEF IInv
<1>. QED
  BY <1>1, InvariantHolds, PTL

(* Whoever commits a run hands the registry every answer of its steps. *)
THEOREM AnswersReach == Spec => []AnswersReachTheRegistry
<1>1. IInv => AnswersReachTheRegistry
  BY DEF IInv
<1>. QED
  BY <1>1, InvariantHolds, PTL

(* A run that is closed is not opened again, except a failed one of a resumable
   plan, by retry. *)
LEMMA ClosedStep ==
    ASSUME TypeOK, NEW p \in Procs, Step(p), NEW o \in Ops,
           state[o] \in {"committed", "rolled_back", "failed"}
    PROVE  \/ state'[o] = state[o]
           \/ state[o] = "failed" /\ o \in Resumable /\ state'[o] = "running"
<1>. USE DEF TypeOK
<1>1. CASE \E u \in Ops : Run(p, u)
  BY <1>1 DEF Run
<1>2. CASE \E u \in Ops : Retry(p, u)
  BY <1>2 DEF Retry, CanCarryOn
<1>3. CASE RecordFail(p) \/ CloseKept(p) \/ Commit(p) \/ CloseUndone(p) \/ CloseStuck(p)
  BY <1>3 DEF RecordFail, CloseKept, Commit, CloseUndone, CloseStuck, CloseUndo, Finish
<1>4. CASE ~ ((\E u \in Ops : Run(p, u) \/ Retry(p, u)) \/ RecordFail(p) \/ CloseKept(p)
              \/ Commit(p) \/ CloseUndone(p) \/ CloseStuck(p))
  <2>1. UNCHANGED state
    BY <1>4 DEF Step, journal, Open, LeaveAlone, TakeOver, Resolved, Exit, RecordOk, Load,
                MarkApplying, ApplyPart, ApplyOk, ApplyFail, MarkApplied, Keep,
                CommitRefused, LoadUndo, UndoPart, Undo, UndoFail, MarkUndone, Die
  <2>. QED
    BY <2>1
<1>. QED
  BY <1>1, <1>2, <1>3, <1>4

(* A closed run is never opened again, except by the retry of one that was kept
   (finish writes only a running row; reopen only a failed one). *)
THEOREM ClosedStays == Spec => ClosedStaysClosed
<1>. DEFINE A == \A o \in Ops : state[o] \in {"committed", "rolled_back", "failed"} =>
                   \/ state'[o] = state[o]
                   \/ state[o] = "failed" /\ o \in Resumable /\ state'[o] = "running"
<1>1. TypeOK /\ [Next]_vars => [A]_vars
  BY ClosedStep DEF Next
<1>. QED
  BY <1>1, TypesHold, PTL DEF Spec, ClosedStaysClosed

(* A resumable run that is committed is whole, if its write is never refused. *)
THEOREM ResumeIsWhole == Spec => []ResumedIsWhole
<1>1. IInv => ResumedIsWhole
  BY DEF IInv
<1>. QED
  BY <1>1, InvariantHolds, PTL

-----------------------------------------------------------------------------
(***************************************************************************)
(* One command at a time.                                                  *)
(***************************************************************************)
(* While one process lives at a time, what it has read of the runs is so: each  *)
(* entry of its list is an open run it has yet to take, and it undoes open runs. *)
OneAtATime ==
    /\ \A p, q \in Procs : Live(p) /\ Live(q) => p = q
    /\ \A p \in Procs :
        /\ pc[p] \in {"gone", "ready"} \/ mode[p] \in {"run", "retry"} => todo[p] = {}
        /\ \A e \in todo[p] : state[e[1]] = "running" /\ (mode[p] # "none" => e[1] # cur[p])
        /\ \A e, f \in todo[p] : e[1] = f[1] => e = f
        /\ mode[p] = "roll_back" => state[cur[p]] = "running"

(* Only a process that lives does anything but begin, and it begins alone (Open). *)
LEMMA NoOtherLives ==
    ASSUME MaxLive = 1, OneAtATime, NEW p \in Procs, Step(p)
    PROVE  \A q \in Procs \ {p} : ~ Live(q)
<1>1. CASE Open(p)
  <2>1. PICK living : living = {q \in Procs : Live(q)}
    OBVIOUS
  <2>2. SUFFICES ASSUME living # {} PROVE FALSE
    BY <2>1
  <2>3. PICK q : q \in living
    BY <2>2
  <2>4. living = {q}
    BY <2>1, <2>3 DEF OneAtATime
  <2>5. Cardinality(living) = 1
    BY <2>4, FS_Singleton
  <2>. QED
    BY <1>1, <2>1, <2>5 DEF Open
<1>2. CASE ~ Open(p)
  <2>1. pc[p] # "gone"
    BY <1>2 DEF Step, LeaveAlone, TakeOver, Resolved, Exit, Run, Retry, RecordOk, RecordFail, Load,
                MarkApplying, ApplyPart, ApplyOk, ApplyFail, MarkApplied, Keep, CloseKept, Commit,
                CommitRefused, LoadUndo, UndoPart, Undo, UndoFail, MarkUndone, CloseUndone,
                CloseStuck, Die, Live
  <2>. QED
    BY <2>1 DEF OneAtATime, Live
<1>. QED
  BY <1>1, <1>2

(* So the processes that do not move are gone, and hold nothing. *)
LEMMA OthersAreGone ==
    ASSUME MaxLive = 1, IInv, OneAtATime, NEW p \in Procs, Step(p), NEW q \in Procs \ {p}
    PROVE  pc'[q] = "gone" /\ mode'[q] = "none" /\ todo'[q] = {}
<1>1. pc[q] = "gone"
  BY NoOtherLives DEF Live
<1>2. mode[q] = "none" /\ todo[q] = {}
  BY <1>1 DEF IInv, ModeFits, OneAtATime
<1>3. Still(q)
  BY OthersStill DEF IInv
<1>. QED
  BY <1>1, <1>2, <1>3 DEF Still

(* What OneAtATime says of one process. *)
Knows(p) ==
    /\ pc[p] \in {"gone", "ready"} \/ mode[p] \in {"run", "retry"} => todo[p] = {}
    /\ \A e \in todo[p] : state[e[1]] = "running" /\ (mode[p] # "none" => e[1] # cur[p])
    /\ \A e, f \in todo[p] : e[1] = f[1] => e = f
    /\ mode[p] = "roll_back" => state[cur[p]] = "running"

(* A process that ends what it was inside has the rest of its list to go. *)
LEMMA LeavingKnows ==
    ASSUME TypeOK, NEW p \in Procs, Knows(p), mode[p] # "none", Return(p) \/ ReturnError(p),
           \A o \in Ops \ {cur[p]} : state'[o] = state[o]
    PROVE  Knows(p)'
<1>1. mode'[p] = "none"
  BY DEF TypeOK, Return, ReturnError, Gone, Forget
<1>2. CASE Gone(p)
  BY <1>1, <1>2 DEF TypeOK, Gone, Knows
<1>3. CASE Return(p)
  <2>1. todo' = todo
    BY <1>3 DEF Return
  <2>2. pc'[p] \in {"gone", "ready"} => mode[p] \in {"run", "retry"}
    BY <1>3 DEF TypeOK, Return, GoTo
  <2>3. \A e \in todo[p] : state'[e[1]] = "running"
    BY DEF TypeOK, Knows
  <2>. QED
    BY <1>1, <2>1, <2>2, <2>3 DEF Knows
<1>. QED
  BY <1>2, <1>3 DEF ReturnError

(* Every step leaves the one process that lives with a list that is so. *)
LEMMA KnowsStep ==
    ASSUME IInv, NEW p \in Procs, Knows(p), Step(p)
    PROVE  Knows(p)'
<1>. USE DEF TypeOK, GoTo
<1>0. TypeOK /\ ModeFits /\ RunIsHeld
  BY DEF IInv
<1>1. CASE Open(p)
  <2>1. mode[p] = "none" /\ mode' = mode /\ state' = state /\ pc'[p] = "resolve"
    BY <1>0, <1>1 DEF Open, Live, ModeFits, locals, journal
  <2>2. todo'[p] = {<<o, owner[o]>> : o \in Running}
    BY <1>0, <1>1 DEF Open
  <2>. QED
    BY <2>1, <2>2 DEF Knows, Running
<1>2. CASE LeaveAlone(p)
  <2>1. todo'[p] \subseteq todo[p]
    BY <1>0, <1>2 DEF LeaveAlone, Drop
  <2>2. UNCHANGED <<pc, mode, cur, state>>
    BY <1>2 DEF LeaveAlone, locals, journal
  <2>. QED
    BY <1>2, <2>1, <2>2 DEF Knows, LeaveAlone
<1>3. CASE TakeOver(p)
  <2>1. PICK e : e = Oldest(p)
    OBVIOUS
  <2>2. e \in todo[p]
    BY <1>0, <1>3, <2>1, OldestIsIn DEF TakeOver
  <2>3. /\ todo'[p] = todo[p] \ {e} /\ state' = state
        /\ pc'[p] \in {"load", "load_undo"} /\ mode'[p] \in {"resume", "roll_back"}
        /\ cur'[p] = e[1]
    BY <1>0, <1>3, <2>1 DEF TakeOver, Drop, Enter, journal
  <2>. QED
    BY <2>2, <2>3 DEF Knows
<1>4. CASE Resolved(p)
  BY <1>4 DEF Resolved, Knows, locals, journal
<1>5. CASE Exit(p) \/ Die(p)
  <2>1. todo'[p] = {} /\ mode'[p] = "none"
    BY <1>0, <1>5 DEF Exit, Die, Gone, Forget
  <2>. QED
    BY <2>1 DEF Knows
<1>6. ASSUME NEW o \in Ops, Run(p, o) \/ Retry(p, o) PROVE Knows(p)'
  <2>1. todo' = todo /\ todo[p] = {} /\ mode'[p] \in {"run", "retry"}
    BY <1>0, <1>6 DEF Run, Retry, Enter, Knows
  <2>. QED
    BY <2>1 DEF Knows
<1>7. CASE UNCHANGED <<state, todo, mode, cur>> /\ pc'[p] \notin {"gone", "ready"}
  BY <1>7 DEF Knows
<1>8. CASE \/ RecordOk(p) \/ Load(p) \/ MarkApplying(p) \/ ApplyPart(p) \/ ApplyOk(p)
           \/ MarkApplied(p) \/ Keep(p) \/ LoadUndo(p) \/ UndoPart(p) \/ Undo(p) \/ UndoFail(p)
           \/ MarkUndone(p)
  <2>1. UNCHANGED <<state, todo, mode, cur>>
    BY <1>8 DEF RecordOk, Load, MarkApplying, ApplyPart, ApplyOk, MarkApplied, Keep, LoadUndo,
                UndoPart, Undo, UndoFail, MarkUndone, locals, journal
  <2>2. pc'[p] \notin {"gone", "ready"}
    BY <1>0, <1>8 DEF RecordOk, Load, MarkApplying, ApplyPart, ApplyOk, MarkApplied, Keep, LoadUndo,
                UndoPart, Undo, UndoFail, MarkUndone
  <2>. QED
    BY <1>7, <2>1, <2>2
<1>9. CASE ApplyFail(p)
  <2>1. CASE Gone(p)
    <3>1. todo'[p] = {} /\ mode'[p] = "none"
      BY <1>0, <2>1 DEF Gone, Forget
    <3>. QED
      BY <3>1 DEF Knows
  <2>2. CASE GoTo(p, IF cur[p] \in Resumable THEN "keep" ELSE "load_undo") /\ UNCHANGED <<locals, todo>>
    BY <1>0, <1>7, <1>9, <2>2 DEF ApplyFail, locals, journal
  <2>. QED
    BY <1>9, <2>1, <2>2 DEF ApplyFail
<1>10. CASE RecordFail(p) \/ CloseKept(p) \/ Commit(p) \/ CloseUndone(p) \/ CloseStuck(p)
  <2>1. mode[p] # "none"
    BY <1>0, <1>10 DEF RecordFail, CloseKept, Commit, CloseUndone, CloseStuck, ModeFits, UndoPcs
  <2>2. Return(p) \/ ReturnError(p)
    BY <1>10 DEF RecordFail, CloseKept, Commit, CloseUndone, CloseStuck, CloseUndo
  <2>3. \A o \in Ops \ {cur[p]} : state'[o] = state[o]
    BY <1>0, <1>10 DEF RecordFail, CloseKept, Commit, CloseUndone, CloseStuck, CloseUndo, Finish
  <2>. QED
    BY <1>0, <2>1, <2>2, <2>3, LeavingKnows
<1>11. CASE CommitRefused(p)
  <2>1. CASE ReturnError(p)
    BY <1>0, <1>11, <2>1, LeavingKnows DEF CommitRefused, ModeFits, journal
  <2>2. CASE GoTo(p, "load_undo") /\ UNCHANGED <<locals, todo>>
    BY <1>0, <1>7, <1>11, <2>2 DEF CommitRefused, locals, journal
  <2>. QED
    BY <1>11, <2>1, <2>2 DEF CommitRefused
<1>. QED
  BY <1>1, <1>2, <1>3, <1>4, <1>5, <1>6, <1>8, <1>9, <1>10, <1>11 DEF Step

LEMMA OneAtATimeStep ==
    ASSUME MaxLive = 1, IInv, OneAtATime, NEW p \in Procs, Step(p)
    PROVE  OneAtATime'
<1>1. \A q \in Procs \ {p} : pc'[q] = "gone" /\ mode'[q] = "none" /\ todo'[q] = {}
  BY OthersAreGone
<1>2. Knows(p)'
  BY KnowsStep DEF OneAtATime, Knows
<1>. QED
  BY <1>1, <1>2 DEF OneAtATime, Knows, Live

(* A run counts only what is done, and a plan that rolls back is whole when it commits. *)
Tallies(p) ==
    /\ mode[p] = "run" /\ cur[p] \notin Resumable
    /\ pc[p] \in {"record", "apply", "applying", "applied"}
    => /\ \A i \in done[p] : world[cur[p]][i] = "done"
       /\ pc[p] = "applied" => world[cur[p]][NextStep(p)] = "done"
AloneIsWhole ==
    /\ \A p \in Procs : Tallies(p)
    /\ \A o \in Ops \ Resumable : Whole(o)

LEMMA TalliesStep ==
    ASSUME IInv, NEW p \in Procs, Tallies(p), Step(p)
    PROVE  Tallies(p)'
<1>. USE DEF TypeOK, GoTo
<1>0. TypeOK /\ ModeFits
  BY DEF IInv
<1>1. ASSUME NEW o \in Ops, Run(p, o) PROVE Tallies(p)'
  BY <1>0, <1>1 DEF Run, Enter, Tallies, ModeFits
<1>2. CASE RecordOk(p) \/ MarkApplying(p)
  <2>1. UNCHANGED <<world, mode, cur, done>> /\ pc'[p] # "applied"
    BY <1>0, <1>2 DEF RecordOk, MarkApplying, locals
  <2>. QED
    BY <1>2, <2>1 DEF RecordOk, MarkApplying, Tallies
<1>3. CASE ApplyPart(p)
  <2>1. /\ world[cur[p]][NextStep(p)] = "absent" /\ pc[p] = "applying"
        /\ UNCHANGED <<pc, mode, cur, done>>
    BY <1>3 DEF ApplyPart, locals
  <2>2. NextStep(p) \in Steps
    BY <1>0, <2>1, NextStepIsIn DEF ModeFits
  <2>3. \A i \in Steps : world[cur[p]][i] = "done" => world'[cur[p]][i] = "done"
    BY <1>0, <1>3, <2>1, <2>2 DEF ApplyPart
  <2>. QED
    BY <1>0, <2>1, <2>3 DEF Tallies
<1>4. CASE ApplyOk(p)
  <2>1. NextStep(p) \in Steps /\ cur[p] \in Ops
    BY <1>0, <1>4, NextStepIsIn DEF ApplyOk, ModeFits
  <2>2. UNCHANGED <<mode, cur, done>>
    BY <1>4 DEF ApplyOk, locals
  <2>3. \A i \in Steps : world[cur[p]][i] = "done" => world'[cur[p]][i] = "done"
    BY <1>0, <1>4, <2>1 DEF ApplyOk
  <2>4. world'[cur[p]][NextStep(p)] = "done" /\ NextStep(p)' = NextStep(p)
    BY <1>0, <1>4, <2>1, <2>2 DEF ApplyOk, NextStep
  <2>. QED
    BY <1>0, <1>4, <2>2, <2>3, <2>4 DEF ApplyOk, Tallies
<1>5. CASE MarkApplied(p)
  <2>1. /\ done'[p] = done[p] \cup {NextStep(p)} /\ UNCHANGED <<world, mode, cur>>
        /\ pc[p] = "applied" /\ pc'[p] = "apply"
    BY <1>0, <1>5 DEF MarkApplied
  <2>. QED
    BY <2>1 DEF Tallies
<1>6. CASE pc'[p] \notin {"record", "apply", "applying", "applied"} \/ mode'[p] # "run"
  BY <1>6 DEF Tallies
<1>7. CASE \/ Open(p) \/ TakeOver(p) \/ Resolved(p) \/ Exit(p) \/ Die(p)
           \/ \E o \in Ops : Retry(p, o)
  BY <1>0, <1>6, <1>7 DEF Open, TakeOver, Resolved, Exit, Die, Retry, Enter, Gone
<1>8. CASE LeaveAlone(p)
  BY <1>6, <1>8 DEF LeaveAlone
<1>9. CASE Load(p)
  BY <1>0, <1>6, <1>9 DEF Load, ModeFits
<1>10. CASE ApplyFail(p) \/ Keep(p) \/ CommitRefused(p) \/ LoadUndo(p)
  BY <1>0, <1>6, <1>10 DEF ApplyFail, Keep, CommitRefused, LoadUndo, Gone, Return, ReturnError
<1>11. CASE UndoPart(p) \/ Undo(p) \/ UndoFail(p) \/ MarkUndone(p)
  BY <1>0, <1>6, <1>11 DEF UndoPart, Undo, UndoFail, MarkUndone
<1>12. CASE RecordFail(p) \/ CloseKept(p) \/ Commit(p) \/ CloseUndone(p) \/ CloseStuck(p)
  BY <1>0, <1>6, <1>12 DEF RecordFail, CloseKept, Commit, CloseUndone, CloseStuck, CloseUndo, Return,
                           ReturnError, Gone
<1>. QED
  BY <1>1, <1>2, <1>3, <1>4, <1>5, <1>7, <1>8, <1>9, <1>10, <1>11, <1>12 DEF Step

LEMMA AloneIsWholeStep ==
    ASSUME MaxLive = 1, IInv, OneAtATime, AloneIsWhole, NEW p \in Procs, Step(p)
    PROVE  AloneIsWhole'
<1>. USE DEF TypeOK, GoTo
<1>0. TypeOK /\ ModeFits /\ RunIsHeld
  BY DEF IInv
<1>1. \A q \in Procs : Tallies(q)'
  <2>1. Tallies(p)'
    BY TalliesStep DEF AloneIsWhole
  <2>2. ASSUME NEW q \in Procs \ {p} PROVE Tallies(q)'
    BY <2>2, OthersAreGone DEF Tallies
  <2>. QED
    BY <2>1, <2>2
<1>2. SUFFICES ASSUME NEW o \in Ops \ Resumable PROVE Whole(o)'
  BY <1>1 DEF AloneIsWhole
<1>3. Whole(o)
  BY DEF AloneIsWhole
<1>4. CASE Commit(p)
  <2>1. cur[p] = o => \A i \in Steps : world[o][i] = "done"
    BY <1>0, <1>4 DEF Commit, ModeFits, AloneIsWhole, Tallies
  <2>2. world' = world /\ (cur[p] # o => state'[o] = state[o])
    BY <1>0, <1>4 DEF Commit, Finish
  <2>. QED
    BY <1>3, <2>1, <2>2 DEF Whole
<1>5. CASE ApplyPart(p) \/ ApplyOk(p)
  <2>1. NextStep(p) \in Steps
    BY <1>0, <1>5, NextStepIsIn DEF ApplyPart, ApplyOk, ModeFits
  <2>2. state' = state
    BY <1>5 DEF ApplyPart, ApplyOk, journal
  <2>3. \A i \in Steps : world[o][i] = "done" => world'[o][i] = "done"
    <3>1. PICK c \in Ops, j \in Steps :
            \/ /\ world[c][j] = "absent"
               /\ world' = [world EXCEPT ![c][j] = "partial"]
            \/ world' = [world EXCEPT ![c][j] = "done"]
      BY <1>0, <1>5, <2>1 DEF ApplyPart, ApplyOk
    <3>2. CASE world[c][j] = "absent" /\ world' = [world EXCEPT ![c][j] = "partial"]
      BY <3>2
    <3>3. CASE world' = [world EXCEPT ![c][j] = "done"]
      <4>1. world \in [Ops -> [Steps -> Worlds]]
        BY <1>0
      <4>2. c # o => world'[o] = world[o]
        BY <3>3, <4>1
      <4>3. c = o => \A i \in Steps : world'[o][i] = IF i = j THEN "done" ELSE world[o][i]
        BY <3>3, <4>1
      <4>. QED
        BY <4>2, <4>3
    <3>. QED
      BY <3>1, <3>2, <3>3
  <2>. QED
    BY <1>3, <2>2, <2>3 DEF Whole
<1>6. CASE UndoPart(p) \/ Undo(p)
  <2>1. state[cur[p]] = "running"
    BY <1>0, <1>6 DEF UndoPart, Undo, ModeFits, UndoPcs, RunIsHeld, OneAtATime
  <2>2. state' = state /\ (cur[p] # o => world'[o] = world[o])
    BY <1>0, <1>6 DEF UndoPart, Undo, journal
  <2>. QED
    BY <1>3, <2>1, <2>2 DEF Whole
<1>7. CASE ~ (Commit(p) \/ ApplyPart(p) \/ ApplyOk(p) \/ UndoPart(p) \/ Undo(p))
  <2>1. world' = world
    BY <1>7 DEF Step, Open, LeaveAlone, TakeOver, Resolved, Exit, Run, Retry, RecordOk, RecordFail,
                Load, MarkApplying, ApplyFail, MarkApplied, Keep, CloseKept, CommitRefused,
                LoadUndo, UndoFail, MarkUndone, CloseUndone, CloseStuck, CloseUndo, Die
  <2>2. state'[o] = "committed" => state[o] = "committed"
    <3>1. CASE (\E u \in Ops : Run(p, u) \/ Retry(p, u)) \/ RecordFail(p) \/ CloseKept(p)
               \/ CloseUndone(p) \/ CloseStuck(p)
      BY <1>0, <3>1 DEF Run, Retry, RecordFail, CloseKept, CloseUndone, CloseStuck, CloseUndo, Finish
    <3>2. CASE ~ ((\E u \in Ops : Run(p, u) \/ Retry(p, u)) \/ RecordFail(p) \/ CloseKept(p)
                  \/ CloseUndone(p) \/ CloseStuck(p))
      BY <1>7, <3>2 DEF Step, Open, LeaveAlone, TakeOver, Resolved, Exit, RecordOk, Load,
                        MarkApplying, ApplyFail, MarkApplied, Keep, CommitRefused, LoadUndo,
                        UndoFail, MarkUndone, Die, journal
    <3>. QED
      BY <3>1, <3>2
  <2>. QED
    BY <1>3, <2>1, <2>2 DEF Whole
<1>. QED
  BY <1>4, <1>5, <1>6, <1>7

(* Every committed operation is whole, through any kills, failures and takings over,    *)
(* while commands are given one at a time and no plan that resumes is refused its write. *)
(* With two at once it is not so: resolve acts on a list it does not read again.         *)
THEOREM CommittedIsWholeAlone ==
    ASSUME MaxLive = 1, Resumable \cap RefusedCommits = {}
    PROVE  Spec => []CommittedIsWhole
<1>1. Init => OneAtATime /\ AloneIsWhole
  BY DEF Init, OneAtATime, AloneIsWhole, Tallies, Whole, Live
<1>2. IInv /\ OneAtATime /\ AloneIsWhole /\ [Next]_vars => OneAtATime' /\ AloneIsWhole'
  <2>. SUFFICES ASSUME IInv, OneAtATime, AloneIsWhole, [Next]_vars
                PROVE  OneAtATime' /\ AloneIsWhole'
    OBVIOUS
  <2>1. CASE UNCHANGED vars
    BY <2>1 DEF vars, journal, registry, locals, OneAtATime, AloneIsWhole, Tallies, Whole, Live,
                NextStep
  <2>2. ASSUME NEW p \in Procs, Step(p) PROVE OneAtATime' /\ AloneIsWhole'
    BY <2>2, OneAtATimeStep, AloneIsWholeStep
  <2>. QED
    BY <2>1, <2>2 DEF Next
<1>3. IInv /\ AloneIsWhole => CommittedIsWhole
  BY DEF IInv, ResumedIsWhole, Kept, AloneIsWhole, CommittedIsWhole
<1>. QED
  BY <1>1, <1>2, <1>3, InvariantHolds, PTL DEF Spec
=============================================================================
