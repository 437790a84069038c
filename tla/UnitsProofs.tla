---------------------------- MODULE UnitsProofs ----------------------------
(***************************************************************************)
(* The commands implement the life of a unit, and leave nothing behind when *)
(* they do not make one, for any units, worktrees, names, projects, blocks  *)
(* and ports.  What is inductive says what each phase of a command has made *)
(* of the directory it works in, and which commands and units may have the  *)
(* same directory: `crossed` is the record of those that met in one.        *)
(***************************************************************************)
EXTENDS Units, FiniteSetTheorems, WellFoundedInduction, TLAPS

OpFields == {"phase", "kind", "carry", "dir", "project", "name", "slug", "start", "block",
             "declared", "approved", "work", "at", "based", "answer"}
RowFields == {"slug", "branch", "status", "base"}
DirFields == {"tree", "done", "start", "anchor", "marker"}
AllPhases == {"idle", "closed", "attach"} \cup Phases \cup Prepares \cup Runs
Running == {"run", "carrying"}

(* The fields the steps write are there. *)
Shapes ==
    /\ DOMAIN row = Units /\ DOMAIN env = Units /\ DOMAIN op = Units
    /\ DOMAIN alloc = AllPorts /\ DOMAIN disk = Directories
    /\ block \in [Projects -> 0..Blocks]
    /\ \A u \in Units : DOMAIN op[u] = OpFields
    /\ \A u \in Made : DOMAIN row[u] = RowFields
    /\ \A d \in Directories : DOMAIN disk[d] = DirFields

(* What a command was given, and how far it is. *)
Given(u) ==
    /\ op[u].phase \in AllPhases
    /\ op[u].phase # "idle" =>
        /\ op[u].kind \in AllKinds /\ op[u].carry \in BOOLEAN /\ op[u].project \in Projects
        /\ op[u].carry => op[u].kind = "new"
        /\ IF op[u].kind = "place" THEN op[u].dir \in Worktrees ELSE op[u].dir = u
Reached(u) ==
    /\ op[u].at \in Nat
    /\ op[u].phase \in Runs => op[u].at <= Len(Steps(u))
    /\ op[u].phase = "carrying" => op[u].at < Len(Steps(u)) /\ NextStep(u) = "carry"
    /\ u \notin Made /\ op[u].phase \notin Runs => op[u].at = 0
    /\ op[u].phase \in {"name", "base", "pre"} \cup Runs => op[u].block \in 1..Blocks
    /\ op[u].phase = "attach" /\ u \notin Made => op[u].block \in 1..Blocks

(* The rows of a unit are written together. *)
Registered(u) ==
    IF u \in Made
    THEN /\ op[u].phase \in {"post", "attach", "closed"}
         /\ row[u].status \in Statuses /\ env[u] \in {"stopped", "absent"}
         /\ env[u] = "stopped" <=> row[u].status # "archived"
    ELSE /\ op[u].phase # "post" /\ u \notin hold
         /\ \A p \in AllPorts : alloc[p] # u

(* A home that no command has got to, or that one has given up, is not there. *)
HomeFits(u) ==
    /\ op[u].phase = "idle" \/ op[u].kind = "place" => disk[u] = Empty
    /\ u \notin Made /\ op[u].phase \notin Runs =>
           disk[u] = Empty \/ (op[u].phase = "closed" /\ op[u].answer = "stuck")
    /\ op[u].phase \in Runs /\ op[u].at = 0 => disk[u] = Empty

(* A marker is that of a unit, or of a command that has yet to take it back. *)
MarkFits(u) ==
    \A d \in Directories : disk[d].marker = u =>
        /\ op[u].phase # "idle" /\ d = DirOf(u)
        /\ \/ u \in Made
           \/ op[u].phase \in Runs /\ \E i \in 1..op[u].at : Steps(u)[i] = "marker"
           \/ op[u].phase = "closed" /\ op[u].answer = "stuck"

(* What the steps of a plan have done is still so when the next one acts. *)
RunFits(u) ==
    op[u].phase \in Running /\ u \notin crossed =>
        /\ op[u].at # 0 \/ op[u].kind = "place" => disk[DirOf(u)].tree = "whole"
        /\ \A i \in 1..op[u].at :
            /\ Steps(u)[i] \in Deeds => Steps(u)[i] \in disk[DirOf(u)].done
            /\ Steps(u)[i] = "marker" => disk[DirOf(u)].marker = u
        /\ op[u].kind = "new" =>
            /\ op[u].at >= 4 => disk[DirOf(u)].start \in {0, op[u].start}
            /\ op[u].at >= 5 => disk[DirOf(u)].start = op[u].start

(* What is carried in is against the commit the home branched from. *)
CarryFits(u) ==
    op[u].phase \in Running =>
        /\ "carry" \in disk[DirOf(u)].done \/ op[u].phase = "carrying"
               => disk[DirOf(u)].anchor = op[u].start

(* A unit that lives has its home whole, unless it has met a command there. *)
LiveFits(u) ==
    u \in Live =>
        /\ u \in crossed \/ Whole(u)
        /\ "carry" \in disk[DirOf(u)].done => disk[DirOf(u)].anchor = row[u].base

(* No adopted worktree is a clone that something was carried into. *)
WorktreesStand == \A d \in Worktrees : disk[d].tree = "whole" /\ "carry" \notin disk[d].done

(* Who may have the same directory: two commands under way and two units    *)
(* that live have met; a command that has found a directory free is alone.  *)
Meets(u, v) == u # v /\ op[u].dir = op[v].dir
Apart ==
    \A u, v \in Units : Meets(u, v) =>
        /\ Active(u) /\ Active(v) => u \in crossed
        /\ u \in Live /\ v \in Live => u \in crossed
        /\ u \in Live /\ Active(v) => u \in crossed \/ op[v].phase = "project"
        /\ u \in Live /\ Active(v) => v \in crossed \/ op[v].phase = "project"

OwnFits(u) ==
    /\ Given(u) /\ Reached(u) /\ Registered(u) /\ HomeFits(u)
    /\ RunFits(u) /\ CarryFits(u) /\ LiveFits(u)

IInv ==
    /\ Shapes /\ WorktreesStand /\ Apart
    /\ \A u \in Units : OwnFits(u) /\ MarkFits(u)

(* A group has a row, or will not stop, or is that of a hook that is about to *)
(* be given one or stopped.                                                 *)
Attaching(g) ==
    g[1] \in Units /\ op[g[1]].phase = "attach" /\ g = <<g[1], HookOf(g[1])>>
GroupInv == \A g \in groups : g \in sessions \cup lost \/ Attaching(g)

-----------------------------------------------------------------------------
(***************************************************************************)
(* The plans.                                                              *)
(***************************************************************************)
StepNames == {"materialize", "branch", "marker"} \cup Deeds

(* Where the steps that matter are in a plan (the vectors of plan). *)
StepAt(plan, kind, i) ==
    /\ plan[i] \in StepNames
    /\ plan[i] = "materialize" <=> (i = 1 /\ kind # "place")
    /\ plan[i] = "refresh" <=> (i = 4 /\ kind = "new")
    /\ (plan[i] = "branch" /\ kind = "new") <=> (i = 5 /\ kind = "new")
    /\ plan[i] = "fetch" => kind = "adopt"
    /\ plan[i] = "carry" <=> (i = 10 /\ kind = "new")

LEMMA PlanFacts ==
    ASSUME NEW kind \in AllKinds, NEW carry \in BOOLEAN, carry => kind = "new",
           NEW plan, plan = PlanOf(kind, carry)
    PROVE  /\ Len(plan) \in Nat /\ Len(plan) > 0 /\ DOMAIN plan = 1..Len(plan)
           /\ \A i \in 1..Len(plan) : StepAt(plan, kind, i)
           /\ kind = "new" => Len(plan) >= 9
           /\ \E i \in 1..Len(plan) : plan[i] = "marker"
<1>1. CASE kind = "place"
  <2>1. plan = <<"hide", "marker", "activate">>
    BY <1>1 DEF PlanOf
  <2>2. Len(plan) = 3 /\ DOMAIN plan = 1..3 /\ plan[2] = "marker"
    BY <2>1
  <2>3. /\ plan[1] = "hide" /\ plan[2] = "marker" /\ plan[3] = "activate"
    BY <2>1
  <2>4. \A i \in 1..3 : i = 1 \/ i = 2 \/ i = 3
    OBVIOUS
  <2>5. ASSUME NEW i \in 1..3
        PROVE  /\ plan[i] \in StepNames
               /\ plan[i] = "materialize" <=> (i = 1 /\ kind # "place")
               /\ (plan[i] = "branch" /\ kind = "new") <=> (i = 5 /\ kind = "new")
    BY <1>1, <2>3, <2>4 DEF StepNames, Deeds
  <2>6. ASSUME NEW i \in 1..3
        PROVE  /\ plan[i] = "refresh" <=> (i = 4 /\ kind = "new")
               /\ plan[i] = "fetch" => kind = "adopt"
               /\ plan[i] = "carry" <=> (i = 10 /\ kind = "new")
    BY <1>1, <2>3, <2>4
  <2>7. \A i \in 1..3 : StepAt(plan, kind, i)
    BY <2>5, <2>6 DEF StepAt
  <2>8. \A i \in 1..Len(plan) : StepAt(plan, kind, i)
    BY <2>2, <2>7, Zenon
  <2>9. Len(plan) \in Nat /\ Len(plan) > 0 /\ (kind = "new" => Len(plan) >= 9)
    BY <1>1, <2>2
  <2>10. \E i \in 1..Len(plan) : plan[i] = "marker"
    BY <2>2
  <2> QED
    BY <2>2, <2>8, <2>9, <2>10
<1>2. CASE kind = "adopt"
  <2>1. plan = <<"materialize", "relocate", "scrub", "fetch", "branch", "hide", "marker",
                 "activate">>
    BY <1>2 DEF PlanOf
  <2>2. Len(plan) = 8 /\ DOMAIN plan = 1..8 /\ plan[7] = "marker"
    BY <2>1
  <2>3. /\ plan[1] = "materialize" /\ plan[2] = "relocate" /\ plan[3] = "scrub"
        /\ plan[4] = "fetch" /\ plan[5] = "branch" /\ plan[6] = "hide"
        /\ plan[7] = "marker" /\ plan[8] = "activate"
    BY <2>1
  <2>4. \A i \in 1..8 : (i = 1 \/ i = 2 \/ i = 3 \/ i = 4 \/ i = 5 \/ i = 6
                         \/ i = 7 \/ i = 8)
    OBVIOUS
  <2>5. ASSUME NEW i \in 1..8
        PROVE  /\ plan[i] \in StepNames
               /\ plan[i] = "materialize" <=> (i = 1 /\ kind # "place")
               /\ (plan[i] = "branch" /\ kind = "new") <=> (i = 5 /\ kind = "new")
    BY <1>2, <2>3, <2>4 DEF StepNames, Deeds
  <2>6. ASSUME NEW i \in 1..8
        PROVE  /\ plan[i] = "refresh" <=> (i = 4 /\ kind = "new")
               /\ plan[i] = "fetch" => kind = "adopt"
               /\ plan[i] = "carry" <=> (i = 10 /\ kind = "new")
    BY <1>2, <2>3, <2>4
  <2>7. \A i \in 1..8 : StepAt(plan, kind, i)
    BY <2>5, <2>6 DEF StepAt
  <2>8. \A i \in 1..Len(plan) : StepAt(plan, kind, i)
    BY <2>2, <2>7, Zenon
  <2>9. Len(plan) \in Nat /\ Len(plan) > 0 /\ (kind = "new" => Len(plan) >= 9)
    BY <1>2, <2>2
  <2>10. \E i \in 1..Len(plan) : plan[i] = "marker"
    BY <2>2
  <2> QED
    BY <2>2, <2>8, <2>9, <2>10
<1>3. CASE kind = "new" /\ carry
  <2>1. plan = <<"materialize", "relocate", "scrub", "refresh", "branch", "install",
                 "hide", "marker", "activate", "carry">>
    BY <1>3 DEF PlanOf
  <2>2. Len(plan) = 10 /\ DOMAIN plan = 1..10 /\ plan[8] = "marker"
    BY <2>1
  <2>3. /\ plan[1] = "materialize" /\ plan[2] = "relocate" /\ plan[3] = "scrub"
        /\ plan[4] = "refresh" /\ plan[5] = "branch" /\ plan[6] = "install"
        /\ plan[7] = "hide" /\ plan[8] = "marker" /\ plan[9] = "activate"
        /\ plan[10] = "carry"
    BY <2>1
  <2>4. \A i \in 1..10 : (i = 1 \/ i = 2 \/ i = 3 \/ i = 4 \/ i = 5 \/ i = 6
                         \/ i = 7 \/ i = 8 \/ i = 9 \/ i = 10)
    OBVIOUS
  <2>5. ASSUME NEW i \in 1..10
        PROVE  /\ plan[i] \in StepNames
               /\ plan[i] = "materialize" <=> (i = 1 /\ kind # "place")
               /\ (plan[i] = "branch" /\ kind = "new") <=> (i = 5 /\ kind = "new")
    BY ZenonT(30), <1>3, <2>3, <2>4 DEF StepNames, Deeds
  <2>6. ASSUME NEW i \in 1..10
        PROVE  /\ plan[i] = "refresh" <=> (i = 4 /\ kind = "new")
               /\ plan[i] = "fetch" => kind = "adopt"
               /\ plan[i] = "carry" <=> (i = 10 /\ kind = "new")
    BY <1>3, <2>3, <2>4
  <2>7. \A i \in 1..10 : StepAt(plan, kind, i)
    BY <2>5, <2>6 DEF StepAt
  <2>8. \A i \in 1..Len(plan) : StepAt(plan, kind, i)
    BY <2>2, <2>7, Zenon
  <2>9. Len(plan) \in Nat /\ Len(plan) > 0 /\ Len(plan) >= 9
    BY <2>2
  <2>10. \E i \in 1..Len(plan) : plan[i] = "marker"
    BY <2>2
  <2> QED
    BY <2>2, <2>8, <2>9, <2>10
<1>4. CASE kind = "new" /\ ~carry
  <2>1. plan = <<"materialize", "relocate", "scrub", "refresh", "branch", "install",
                 "hide", "marker", "activate">>
    BY <1>4 DEF PlanOf
  <2>2. Len(plan) = 9 /\ DOMAIN plan = 1..9 /\ plan[8] = "marker"
    BY <2>1
  <2>3. /\ plan[1] = "materialize" /\ plan[2] = "relocate" /\ plan[3] = "scrub"
        /\ plan[4] = "refresh" /\ plan[5] = "branch" /\ plan[6] = "install"
        /\ plan[7] = "hide" /\ plan[8] = "marker" /\ plan[9] = "activate"
    BY <2>1
  <2>4. \A i \in 1..9 : (i = 1 \/ i = 2 \/ i = 3 \/ i = 4 \/ i = 5 \/ i = 6
                         \/ i = 7 \/ i = 8 \/ i = 9)
    OBVIOUS
  <2>5. ASSUME NEW i \in 1..9
        PROVE  /\ plan[i] \in StepNames
               /\ plan[i] = "materialize" <=> (i = 1 /\ kind # "place")
               /\ (plan[i] = "branch" /\ kind = "new") <=> (i = 5 /\ kind = "new")
    BY <1>4, <2>3, <2>4 DEF StepNames, Deeds
  <2>6. ASSUME NEW i \in 1..9
        PROVE  /\ plan[i] = "refresh" <=> (i = 4 /\ kind = "new")
               /\ plan[i] = "fetch" => kind = "adopt"
               /\ plan[i] = "carry" <=> (i = 10 /\ kind = "new")
    BY <1>4, <2>3, <2>4
  <2>7. \A i \in 1..9 : StepAt(plan, kind, i)
    BY <2>5, <2>6 DEF StepAt
  <2>8. \A i \in 1..Len(plan) : StepAt(plan, kind, i)
    BY <2>2, <2>7, Zenon
  <2>9. Len(plan) \in Nat /\ Len(plan) > 0 /\ Len(plan) >= 9
    BY <2>2
  <2>10. \E i \in 1..Len(plan) : plan[i] = "marker"
    BY <2>2
  <2> QED
    BY <2>2, <2>8, <2>9, <2>10
<1> QED
  BY <1>1, <1>2, <1>3, <1>4 DEF AllKinds

(* The same of the plan of a command. *)
LEMMA StepsFit ==
    ASSUME NEW u \in Units, Given(u), op[u].phase # "idle"
    PROVE  /\ Len(Steps(u)) \in Nat /\ Len(Steps(u)) > 0 /\ DOMAIN Steps(u) = 1..Len(Steps(u))
           /\ \A i \in 1..Len(Steps(u)) : StepAt(Steps(u), op[u].kind, i)
           /\ op[u].kind = "new" => Len(Steps(u)) >= 9
           /\ \E i \in 1..Len(Steps(u)) : Steps(u)[i] = "marker"
<1>1. op[u].kind \in AllKinds /\ op[u].carry \in BOOLEAN /\ (op[u].carry => op[u].kind = "new")
  BY DEF Given
<1>2. PICK plan : plan = Steps(u)
  OBVIOUS
<1>3. plan = PlanOf(op[u].kind, op[u].carry)
  BY <1>2 DEF Steps
<1> QED
  BY <1>1, <1>2, <1>3, PlanFacts

-----------------------------------------------------------------------------
(***************************************************************************)
(* A step of one command.                                                  *)
(***************************************************************************)
(* What it leaves alone: the rows, the other commands, the other directories. *)
OnlyOf(u) ==
    /\ row' = row /\ env' = env /\ alloc' = alloc /\ hold' = hold /\ crossed' = crossed
    /\ block' \in [Projects -> 0..Blocks]
    /\ DOMAIN op' = Units /\ DOMAIN op'[u] = OpFields /\ \A v \in Units \ {u} : op'[v] = op[v]
    /\ op'[u].kind = op[u].kind /\ op'[u].carry = op[u].carry
    /\ op'[u].dir = op[u].dir /\ op'[u].project = op[u].project
    /\ DOMAIN disk' = Directories /\ \A d \in Directories \ {DirOf(u)} : disk'[d] = disk[d]

(* What it may do to the directory its command works in. *)
MayWrite(u) ==
    /\ DOMAIN disk'[DirOf(u)] = DirFields
    /\ disk'[DirOf(u)].marker \in {disk[DirOf(u)].marker, NoUnit, u}
    /\ DirOf(u) \in Worktrees =>
           disk'[DirOf(u)].tree = "whole" /\ "carry" \notin disk'[DirOf(u)].done
    /\ op[u].phase = "project" => disk'[DirOf(u)] = disk[DirOf(u)]

(* A command leaves the first phase for a directory it has found free. *)
MayTurn(u) ==
    IF op[u].phase = "project"
    THEN op'[u].phase \in {"project", "closed"} \/ Adoptable(u)
    ELSE op'[u].phase # "project"

(* The directory of a command under way, or of one that is over. *)
LEMMA DirFacts ==
    ASSUME UnitsAssumption, NEW u \in Units, Given(u), op[u].phase # "idle"
    PROVE  /\ DirOf(u) \in Directories /\ u \in Directories
           /\ op[u].kind # "place" => DirOf(u) = u /\ DirOf(u) \notin Worktrees
           /\ op[u].kind = "place" => DirOf(u) \in Worktrees /\ DirOf(u) # u
BY DEF UnitsAssumption, Given, DirOf, Directories

(* A directory that two commands or units have is a worktree. *)
LEMMA SharedIsWorktree ==
    ASSUME UnitsAssumption, NEW u \in Units, NEW v \in Units, Given(u), Given(v),
           op[u].phase # "idle", op[v].phase # "idle", Meets(u, v)
    PROVE  DirOf(u) \in Worktrees /\ op[u].kind = "place" /\ op[v].kind = "place"
BY DEF UnitsAssumption, Given, DirOf, Meets

(* A unit that has a row is not idle. *)
LEMMA MadeFacts ==
    ASSUME NEW u \in Made, Registered(u)
    PROVE  u \in Units /\ op[u].phase \in {"post", "attach", "closed"}
BY DEF Registered, Made

(* What such a step leaves of another command and its unit. *)
LEMMA OthersFit ==
    ASSUME UnitsAssumption, IInv, NEW u \in Units, Active(u), OnlyOf(u), MayWrite(u), MayTurn(u),
           NEW v \in Units, v # u
    PROVE  OwnFits(v)' /\ MarkFits(v)'
<1>1. /\ OwnFits(v) /\ MarkFits(v) /\ OwnFits(u) /\ Apart /\ Given(u) /\ Given(v)
      /\ Registered(v)
  BY DEF IInv, OwnFits
<1>2. op[u].phase # "idle" /\ op[u].phase # "closed"
  BY DEF Active
<1>3. /\ op'[v] = op[v] /\ row' = row /\ env' = env /\ alloc' = alloc /\ hold' = hold
      /\ crossed' = crossed
  BY DEF OnlyOf
<1>4. /\ (v \in Made)' <=> v \in Made
      /\ (v \in Live)' <=> v \in Live
      /\ DirOf(v)' = DirOf(v) /\ Steps(v)' = Steps(v) /\ NextStep(v)' = NextStep(v)
  BY <1>3 DEF Made, Live, DirOf, Steps, NextStep
<1>5. Given(v)' /\ Reached(v)' /\ Registered(v)'
  BY <1>1, <1>3, <1>4 DEF OwnFits, Given, Reached, Registered
<1>6. disk'[v] = disk[v]
  <2>1. v \in Directories \ {DirOf(u)}
    BY <1>1, <1>2, DirFacts DEF Directories, UnitsAssumption
  <2> QED
    BY <2>1 DEF OnlyOf
<1>7. HomeFits(v)'
  BY <1>1, <1>3, <1>4, <1>6 DEF OwnFits, HomeFits
<1>8. MarkFits(v)'
  <2>1. SUFFICES ASSUME NEW d \in Directories, disk'[d].marker = v
                 PROVE  disk[d].marker = v
    BY <1>1, <1>3, <1>4 DEF MarkFits
  <2>2. CASE d = DirOf(u)
    BY <2>1, <2>2 DEF MayWrite, UnitsAssumption
  <2>3. CASE d # DirOf(u)
    BY <2>1, <2>3 DEF OnlyOf
  <2> QED
    BY <2>2, <2>3
<1>9. CASE op[v].phase = "idle"
  <2>1. v \notin Live
    BY <1>1, <1>9, MadeFacts DEF Live
  <2> QED
    BY <1>3, <1>4, <1>5, <1>7, <1>8, <1>9, <2>1 DEF OwnFits, RunFits, CarryFits, LiveFits, Running
<1>10. CASE op[v].phase # "idle" /\ DirOf(v) # DirOf(u)
  <2>1. disk'[DirOf(v)] = disk[DirOf(v)]
    BY <1>1, <1>10, DirFacts DEF OnlyOf
  <2>2. RunFits(v)' /\ CarryFits(v)'
    BY <1>1, <1>3, <1>4, <2>1 DEF OwnFits, RunFits, CarryFits
  <2>3. LiveFits(v)'
    BY <1>1, <1>3, <1>4, <2>1 DEF OwnFits, LiveFits, Whole
  <2> QED
    BY <1>5, <1>7, <1>8, <2>2, <2>3 DEF OwnFits
<1>11. CASE op[v].phase # "idle" /\ DirOf(v) = DirOf(u)
  <2>1. Meets(u, v) /\ Meets(v, u)
    BY <1>11 DEF Meets, DirOf
  <2>2. DirOf(v) \in Worktrees /\ op[v].kind = "place" /\ "carry" \notin disk'[DirOf(v)].done
    BY <1>1, <1>2, <1>11, <2>1, SharedIsWorktree DEF MayWrite
  <2>3. op[v].phase \in Running => v \in crossed
    BY <1>1, <2>1 DEF Apart, Active, Running
  <2>4. RunFits(v)'
    BY <1>3, <2>3 DEF RunFits
  <2>5. op[v].phase # "carrying"
    <3>1. StepAt(Steps(v), op[v].kind, op[v].at + 1) \/ op[v].phase # "carrying"
      BY <1>1, <1>11, StepsFit DEF OwnFits, Reached
    <3> QED
      BY <1>1, <2>2, <3>1 DEF OwnFits, Reached, StepAt, NextStep
  <2>6. CarryFits(v)'
    BY <1>3, <1>4, <2>2, <2>5 DEF CarryFits
  <2>7. CASE v \notin Live \/ v \in crossed
    BY <1>3, <1>4, <1>5, <1>7, <1>8, <2>2, <2>4, <2>6, <2>7 DEF OwnFits, LiveFits
  <2>8. CASE v \in Live /\ v \notin crossed
    <3>1. op[u].phase = "project"
      BY <1>1, <2>1, <2>8 DEF Apart, Active
    <3>2. disk'[DirOf(v)] = disk[DirOf(v)]
      BY <1>11, <3>1 DEF MayWrite
    <3>3. LiveFits(v)'
      BY <1>1, <1>3, <1>4, <3>2 DEF OwnFits, LiveFits, Whole
    <3> QED
      BY <1>5, <1>7, <1>8, <2>4, <2>6, <3>3 DEF OwnFits
  <2> QED
    BY <2>7, <2>8
<1> QED
  BY <1>9, <1>10, <1>11

(* The commands that may meet in a directory are those that met, or that     *)
(* have not looked whose it is.                                              *)
LEMMA StaysApart ==
    ASSUME UnitsAssumption, IInv, NEW u \in Units, Active(u), OnlyOf(u), MayTurn(u)
    PROVE  Apart'
<1>1. Apart /\ \A v \in Units : Given(v) /\ Registered(v)
  BY DEF IInv, OwnFits
<1>2. /\ row' = row /\ env' = env /\ crossed' = crossed /\ Live' = Live
      /\ \A v \in Units : op'[v].dir = op[v].dir
      /\ \A v \in Units \ {u} : op'[v] = op[v]
  BY DEF OnlyOf, Live, Made
<1>3. SUFFICES ASSUME NEW v \in Units, NEW x \in Units, Meets(v, x)
               PROVE  /\ Active(v)' /\ Active(x)' => v \in crossed
                      /\ v \in Live /\ x \in Live => v \in crossed
                      /\ v \in Live /\ Active(x)' => v \in crossed \/ op'[x].phase = "project"
                      /\ v \in Live /\ Active(x)' => x \in crossed \/ op'[x].phase = "project"
  BY <1>2 DEF Apart, Meets
<1>4. \A w \in Units : Active(w)' => Active(w)
  BY <1>2 DEF Active
<1>5. ASSUME v \in Live, Active(x)', op[x].phase = "project"
      PROVE  op'[x].phase = "project"
  <2>1. CASE x # u
    BY <1>2, <1>5, <2>1
  <2>2. CASE x = u /\ op'[u].phase \in {"project", "closed"}
    BY <1>5, <2>2 DEF Active
  <2>3. CASE x = u /\ Adoptable(u)
    <3>1. op[v].phase # "idle"
      BY <1>1, <1>5, MadeFacts DEF Live
    <3>2. op[u].kind = "place"
      BY <1>1, <1>3, <1>5, <2>3, <3>1, SharedIsWorktree
    <3> QED
      BY <1>3, <1>5, <2>3, <3>2 DEF Adoptable, Meets, DirOf
  <2> QED
    BY <1>5, <2>1, <2>2, <2>3 DEF MayTurn
<1> QED
  BY <1>1, <1>3, <1>4, <1>5 DEF Apart

(* A step of a command that keeps what is its own keeps everything. *)
LEMMA StepOfOne ==
    ASSUME UnitsAssumption, IInv, NEW u \in Units, Active(u), OnlyOf(u), MayWrite(u), MayTurn(u),
           OwnFits(u)', MarkFits(u)'
    PROVE  IInv'
<1>1. Shapes /\ WorktreesStand /\ Given(u)
  BY DEF IInv, OwnFits
<1>2. DirOf(u) \in Directories
  BY <1>1, DirFacts DEF Active
<1>3. Shapes'
  BY <1>1, <1>2 DEF Shapes, OnlyOf, MayWrite, Made
<1>4. WorktreesStand'
  BY <1>1, <1>2 DEF WorktreesStand, OnlyOf, MayWrite, Directories
<1>5. \A v \in Units : OwnFits(v)' /\ MarkFits(v)'
  BY OthersFit
<1> QED
  BY <1>3, <1>4, <1>5, StaysApart DEF IInv

-----------------------------------------------------------------------------
(***************************************************************************)
(* Before the run, and after the rows: the directories are as they were.   *)
(***************************************************************************)
(* What a unit has of its own when its directory is as it was. *)
LEMMA NothingWritten ==
    ASSUME IInv, NEW u \in Units, OnlyOf(u), disk' = disk
    PROVE  /\ (u \in Made)' <=> u \in Made
           /\ (u \in Live)' <=> u \in Live
           /\ DirOf(u)' = DirOf(u) /\ Steps(u)' = Steps(u)
           /\ Shapes /\ Given(u) /\ Reached(u) /\ Registered(u) /\ HomeFits(u) /\ MarkFits(u)
           /\ LiveFits(u)' /\ (Active(u) => MayWrite(u))
<1>1. /\ row' = row /\ env' = env /\ crossed' = crossed /\ hold' = hold /\ op'[u].dir = op[u].dir
      /\ op'[u].kind = op[u].kind /\ op'[u].carry = op[u].carry
  BY DEF OnlyOf
<1>2. /\ (u \in Made)' <=> u \in Made
      /\ (u \in Live)' <=> u \in Live
      /\ DirOf(u)' = DirOf(u) /\ Steps(u)' = Steps(u)
  BY <1>1 DEF Made, Live, DirOf, Steps
<1>3. /\ Shapes /\ Given(u) /\ Reached(u) /\ Registered(u) /\ HomeFits(u) /\ MarkFits(u)
      /\ LiveFits(u) /\ WorktreesStand
  BY DEF IInv, OwnFits
<1>4. LiveFits(u)'
  BY <1>1, <1>2, <1>3 DEF LiveFits, Whole
<1>5. Active(u) => DirOf(u) \in Directories
  BY <1>3 DEF Active, Given, DirOf, Directories
<1>6. Active(u) => MayWrite(u)
  BY <1>3, <1>5 DEF MayWrite, Shapes, WorktreesStand
<1> QED
  BY <1>2, <1>3, <1>4, <1>6

(* A command that has made nothing yet goes on, or ends. *)
LEMMA Prepares1 ==
    ASSUME UnitsAssumption, IInv, NEW u \in Units, Active(u), OnlyOf(u), MayTurn(u), disk' = disk,
           u \notin Made, op[u].phase \notin Runs, op'[u].at = 0,
           op'[u].phase \in {"closed", "block", "name", "base", "pre", "attach", "run"},
           op'[u].phase \notin {"closed", "block"} => op'[u].block \in 1..Blocks
    PROVE  IInv'
<1>1. /\ ~((u \in Made)') /\ DirOf(u)' = DirOf(u) /\ Steps(u)' = Steps(u)
      /\ Given(u) /\ Registered(u) /\ HomeFits(u) /\ MarkFits(u) /\ LiveFits(u)' /\ MayWrite(u)
  BY NothingWritten
<1>2. /\ op'[u].kind = op[u].kind /\ op'[u].carry = op[u].carry /\ op'[u].dir = op[u].dir
      /\ op'[u].project = op[u].project /\ alloc' = alloc /\ hold' = hold
  BY DEF OnlyOf
<1>3. op[u].phase \notin {"idle", "closed"} /\ WorktreesStand
  BY DEF Active, IInv
<1>4. Given(u)'
  BY <1>1, <1>2, <1>3 DEF Given, AllPhases, Prepares, Phases, Runs
<1>5. Reached(u)' /\ Registered(u)'
  <2>1. Len(Steps(u)) \in Nat
    BY <1>1, <1>3, StepsFit
  <2> QED
    BY <1>1, <1>2, <2>1 DEF Reached, Registered, Runs
<1>6. disk[u] = Empty
  BY <1>1, <1>3 DEF HomeFits, IInv, OwnFits
<1>7. HomeFits(u)'
  BY <1>6 DEF HomeFits
<1>8. MarkFits(u)'
  BY <1>1, <1>3 DEF MarkFits
<1>9. "carry" \notin disk[DirOf(u)].done /\ (op[u].kind = "place" => disk[DirOf(u)].tree = "whole")
  BY <1>1, <1>3, <1>6, DirFacts DEF WorktreesStand, Empty
<1>10. RunFits(u)' /\ CarryFits(u)'
  BY <1>1, <1>2, <1>9 DEF RunFits, CarryFits, Running
<1> QED
  BY <1>1, <1>4, <1>5, <1>7, <1>8, <1>10, StepOfOne DEF OwnFits

(* A command whose unit has its row runs its last hook, or ends. *)
LEMMA Concludes ==
    ASSUME UnitsAssumption, IInv, NEW u \in Units, Active(u), OnlyOf(u), disk' = disk,
           u \in Made, op'[u].at \in Nat, op'[u].phase \in {"attach", "closed"}
    PROVE  IInv'
<1>1. /\ (u \in Made)' /\ DirOf(u)' = DirOf(u) /\ Steps(u)' = Steps(u)
      /\ Given(u) /\ Registered(u) /\ HomeFits(u) /\ MarkFits(u) /\ LiveFits(u)' /\ MayWrite(u)
  BY NothingWritten
<1>2. /\ op'[u].kind = op[u].kind /\ op'[u].carry = op[u].carry /\ op'[u].dir = op[u].dir
      /\ op'[u].project = op[u].project /\ row' = row /\ env' = env
  BY DEF OnlyOf
<1>3. op[u].phase \notin {"idle", "closed"} /\ MayTurn(u)
  BY <1>1, MadeFacts DEF Active, MayTurn
<1>4. Given(u)' /\ Reached(u)' /\ Registered(u)'
  BY <1>1, <1>2, <1>3 DEF Given, AllPhases, Reached, Registered, Runs
<1>5. HomeFits(u)'
  BY <1>1, <1>2, <1>3 DEF HomeFits, Runs
<1>6. MarkFits(u)'
  BY <1>1, <1>3 DEF MarkFits
<1>7. RunFits(u)' /\ CarryFits(u)'
  BY DEF RunFits, CarryFits, Running
<1> QED
  BY <1>1, <1>3, <1>4, <1>5, <1>6, <1>7, StepOfOne DEF OwnFits

(* A run that fails, is killed or is taken over is left to be undone. *)
LEMMA Falters ==
    ASSUME UnitsAssumption, IInv, NEW u \in Units, op[u].phase \in Runs, OnlyOf(u), disk' = disk,
           op'[u].at \in Nat, op'[u].at >= op[u].at, op'[u].at <= Len(Steps(u)),
           op'[u].phase \in {"undo", "dead"}, op'[u].block = op[u].block
    PROVE  IInv'
<1>0. Active(u) /\ MayTurn(u) /\ op[u].phase \notin {"idle", "closed"} /\ u \notin Made
  BY MadeFacts DEF Active, MayTurn, Runs, IInv, OwnFits
<1>1. /\ ~((u \in Made)') /\ DirOf(u)' = DirOf(u) /\ Steps(u)' = Steps(u)
      /\ Given(u) /\ Reached(u) /\ Registered(u) /\ HomeFits(u) /\ MarkFits(u) /\ LiveFits(u)'
      /\ MayWrite(u)
  BY <1>0, NothingWritten
<1>2. /\ op'[u].kind = op[u].kind /\ op'[u].carry = op[u].carry /\ op'[u].dir = op[u].dir
      /\ op'[u].project = op[u].project /\ alloc' = alloc /\ hold' = hold
  BY DEF OnlyOf
<1>3. Given(u)'
  BY <1>0, <1>1, <1>2 DEF Given, AllPhases, Runs
<1>4. Reached(u)' /\ Registered(u)'
  BY <1>1, <1>2 DEF Reached, Registered, Runs
<1>5. HomeFits(u)'
  BY <1>0, <1>1, <1>2 DEF HomeFits, Runs, Reached
<1>6. MarkFits(u)'
  <2>1. op[u].at \in Nat
    BY <1>1 DEF Reached
  <2>2. \A i \in 1..op[u].at : i \in 1..op'[u].at
    BY <2>1
  <2> QED
    BY <1>0, <1>1, <2>2 DEF MarkFits, Runs
<1>7. RunFits(u)' /\ CarryFits(u)'
  BY DEF RunFits, CarryFits, Running
<1> QED
  BY <1>0, <1>1, <1>3, <1>4, <1>5, <1>6, <1>7, StepOfOne DEF OwnFits

(* A run that is undone ends, and so does one whose undo will not finish. *)
LEMMA Gives ==
    ASSUME UnitsAssumption, IInv, NEW u \in Units, op[u].phase = "undo", OnlyOf(u), disk' = disk,
           op'[u].at = 0, op'[u].phase = "closed", op[u].at = 0 \/ op'[u].answer = "stuck"
    PROVE  IInv'
<1>0. /\ Active(u) /\ MayTurn(u) /\ op[u].phase \notin {"idle", "closed"} /\ u \notin Made
      /\ op[u].phase \in Runs
  BY MadeFacts DEF Active, MayTurn, Runs, IInv, OwnFits
<1>1. /\ ~((u \in Made)') /\ DirOf(u)' = DirOf(u) /\ Steps(u)' = Steps(u)
      /\ Given(u) /\ Reached(u) /\ Registered(u) /\ HomeFits(u) /\ MarkFits(u) /\ LiveFits(u)'
      /\ MayWrite(u)
  BY <1>0, NothingWritten
<1>2. /\ op'[u].kind = op[u].kind /\ op'[u].carry = op[u].carry /\ op'[u].dir = op[u].dir
      /\ op'[u].project = op[u].project /\ alloc' = alloc /\ hold' = hold
  BY DEF OnlyOf
<1>3. Given(u)' /\ Reached(u)' /\ Registered(u)'
  BY <1>0, <1>1, <1>2 DEF Given, AllPhases, Runs, Reached, Registered
<1>4. HomeFits(u)'
  BY <1>0, <1>1, <1>2 DEF HomeFits, Runs
<1>5. MarkFits(u)'
  BY <1>0, <1>1 DEF MarkFits, Runs
<1>6. RunFits(u)' /\ CarryFits(u)'
  BY DEF RunFits, CarryFits, Running
<1> QED
  BY <1>0, <1>1, <1>3, <1>4, <1>5, <1>6, StepOfOne DEF OwnFits

(* What a turn and the end of a command write. *)
OpKept(u) ==
    /\ DOMAIN op' = Units /\ DOMAIN op'[u] = OpFields /\ \A v \in Units \ {u} : op'[v] = op[v]
    /\ op'[u].kind = op[u].kind /\ op'[u].carry = op[u].carry
    /\ op'[u].dir = op[u].dir /\ op'[u].project = op[u].project

LEMMA Turns ==
    ASSUME Shapes, NEW u \in Units, NEW phase, Turn(u, phase)
    PROVE  /\ OpKept(u) /\ op'[u].phase = phase
           /\ op'[u].at = op[u].at /\ op'[u].block = op[u].block
BY DEF Shapes, Turn, OpKept, OpFields

LEMMA Closes ==
    ASSUME Shapes, NEW u \in Units, NEW answer, Close(u, answer)
    PROVE  /\ OpKept(u) /\ op'[u].phase = "closed"
           /\ op'[u].at = 0 /\ op'[u].answer = answer
<1>1. PICK w : w = [Idle EXCEPT !.phase = "closed", !.answer = answer, !.kind = op[u].kind,
                                !.carry = op[u].carry, !.dir = op[u].dir,
                                !.project = op[u].project]
  OBVIOUS
<1>2. op' = [op EXCEPT ![u] = w]
  BY <1>1 DEF Close
<1>3. DOMAIN op' = Units /\ op'[u] = w /\ \A v \in Units \ {u} : op'[v] = op[v]
  BY <1>2 DEF Shapes
<1>4. DOMAIN w = OpFields
  BY <1>1 DEF Idle, OpFields
<1>5. w.phase = "closed" /\ w.at = 0 /\ w.answer = answer
  BY <1>1 DEF Idle
<1>6. w.kind = op[u].kind /\ w.carry = op[u].carry /\ w.dir = op[u].dir /\ w.project = op[u].project
  BY <1>1 DEF Idle
<1> QED
  BY <1>3, <1>4, <1>5, <1>6 DEF OpKept

(* ensure_project and guard::adoption *)
LEMMA EnsureProjectInv ==
    ASSUME UnitsAssumption, IInv, NEW u \in Units, EnsureProject(u) PROVE IInv'
<1>1. Shapes /\ Reached(u) /\ Registered(u) /\ Given(u)
  BY DEF IInv, OwnFits
<1>2. op[u].phase = "project" /\ Active(u) /\ op[u].phase \notin Runs /\ u \notin Made
  BY <1>1, MadeFacts DEF EnsureProject, Active, Runs
<1>3. disk' = disk /\ row' = row /\ env' = env /\ alloc' = alloc /\ hold' = hold /\ block' = block
      /\ crossed' = crossed
  BY DEF EnsureProject, registry
<1>4. CASE ~Adoptable(u)
  <2>1. OpKept(u) /\ op'[u].phase = "closed" /\ op'[u].at = 0
    BY <1>1, <1>4, Closes DEF EnsureProject
  <2>2. OnlyOf(u) /\ MayTurn(u)
    BY <1>1, <1>2, <1>3, <2>1 DEF OnlyOf, OpKept, MayTurn, Shapes
  <2> QED
    BY <1>2, <1>3, <2>1, <2>2, Prepares1
<1>5. CASE Adoptable(u)
  <2>1. PICK b : b = block[ProjectOf(u)]
    OBVIOUS
  <2>2. PICK phase : phase = IF b = 0 THEN "block" ELSE "name"
    OBVIOUS
  <2>3. op' = [op EXCEPT ![u].block = b, ![u].phase = phase]
    BY <1>5, <2>1, <2>2 DEF EnsureProject
  <2>4. OpKept(u) /\ op'[u].phase = phase /\ op'[u].at = op[u].at /\ op'[u].block = b
    BY <1>1, <2>3 DEF OpKept, Shapes, OpFields
  <2>5. OnlyOf(u) /\ MayTurn(u)
    BY <1>1, <1>2, <1>3, <1>5, <2>4 DEF OnlyOf, OpKept, MayTurn, Shapes
  <2>6. b \in 0..Blocks /\ op[u].at = 0
    BY <1>1, <1>2, <2>1 DEF Given, Shapes, ProjectOf, Reached
  <2>7. phase \in {"block", "name"} /\ (phase = "name" => b \in 1..Blocks)
    BY <2>2, <2>6 DEF UnitsAssumption
  <2> QED
    BY <1>2, <1>3, <2>4, <2>5, <2>6, <2>7, Prepares1
<1> QED
  BY <1>4, <1>5

(* The least of a set of numbers. *)
LEMMA Least ==
    ASSUME NEW T, T \subseteq Nat, T # {}
    PROVE  \E x \in T : \A y \in T : x <= y
<1>1. \E x \in T : \A y \in T : ~(<<y, x>> \in OpToRel(<, Nat))
  BY NatLessThanWellFounded, WFMin
<1>2. PICK x \in T : \A y \in T : ~(<<y, x>> \in OpToRel(<, Nat))
  BY <1>1
<1>3. \A y \in T : ~(y < x)
  BY <1>2 DEF OpToRel
<1> QED
  BY <1>3

(* free_block finds a block of the range. *)
LEMMA FreeBlockFits ==
    ASSUME UnitsAssumption, FreeBlocks # {} PROVE FreeBlock \in 1..Blocks
<1>1. FreeBlocks \subseteq Nat /\ FreeBlocks \subseteq 1..Blocks
  BY DEF UnitsAssumption, FreeBlocks
<1>2. \E b \in FreeBlocks : \A c \in FreeBlocks : b <= c
  BY <1>1, Least
<1> QED
  BY <1>1, <1>2 DEF FreeBlock

(* ensure_block *)
LEMMA EnsureBlockInv ==
    ASSUME UnitsAssumption, IInv, NEW u \in Units, EnsureBlock(u) PROVE IInv'
<1>1. Shapes /\ Reached(u) /\ Registered(u) /\ Given(u)
  BY DEF IInv, OwnFits
<1>2. op[u].phase = "block" /\ Active(u) /\ op[u].phase \notin Runs /\ u \notin Made
      /\ op[u].at = 0 /\ ProjectOf(u) \in Projects
  BY <1>1, MadeFacts DEF EnsureBlock, Active, Runs, Reached, Given, ProjectOf
<1>3. /\ disk' = disk /\ row' = row /\ env' = env /\ alloc' = alloc /\ hold' = hold
      /\ crossed' = crossed
  BY DEF EnsureBlock, registry
<1>4. ASSUME NEW b \in 1..Blocks, block' \in [Projects -> 0..Blocks],
             op' = [op EXCEPT ![u].phase = "name", ![u].block = b]
      PROVE  IInv'
  <2>1. OpKept(u) /\ op'[u].phase = "name" /\ op'[u].at = op[u].at /\ op'[u].block = b
    BY <1>1, <1>4 DEF OpKept, Shapes, OpFields
  <2>2. OnlyOf(u) /\ MayTurn(u)
    BY <1>1, <1>2, <1>3, <1>4, <2>1 DEF OnlyOf, OpKept, MayTurn, Shapes
  <2> QED
    BY <1>2, <1>3, <2>1, <2>2, Prepares1
<1>5. CASE block[ProjectOf(u)] # 0 /\ block' = block
           /\ op' = [op EXCEPT ![u].phase = "name", ![u].block = block[ProjectOf(u)]]
  <2>1. PICK b : b = block[ProjectOf(u)]
    OBVIOUS
  <2>2. b \in 1..Blocks
    BY <1>1, <1>2, <1>5, <2>1 DEF Shapes, UnitsAssumption
  <2> QED
    BY <1>1, <1>4, <1>5, <2>1, <2>2 DEF Shapes
<1>6. CASE FreeBlocks # {} /\ block' = [block EXCEPT ![ProjectOf(u)] = FreeBlock]
           /\ op' = [op EXCEPT ![u].phase = "name", ![u].block = FreeBlock]
  <2>1. FreeBlock \in 1..Blocks
    BY <1>6, FreeBlockFits
  <2>2. PICK b : b = FreeBlock
    OBVIOUS
  <2>3. block' \in [Projects -> 0..Blocks]
    BY <1>1, <1>2, <1>6, <2>1, <2>2 DEF Shapes, UnitsAssumption
  <2> QED
    BY <1>4, <1>6, <2>1, <2>2, <2>3
<1>7. CASE block' = block /\ Close(u, "refused")
  <2>1. OpKept(u) /\ op'[u].phase = "closed" /\ op'[u].at = 0
    BY <1>1, <1>7, Closes
  <2>2. OnlyOf(u) /\ MayTurn(u)
    BY <1>1, <1>2, <1>3, <1>7, <2>1 DEF OnlyOf, OpKept, MayTurn, Shapes
  <2> QED
    BY <1>2, <1>3, <2>1, <2>2, Prepares1
<1> QED
  BY <1>5, <1>6, <1>7 DEF EnsureBlock

(* choose_name, refuse_held_branch and refuse_unrunnable *)
LEMMA ChooseNameInv ==
    ASSUME UnitsAssumption, IInv, NEW u \in Units, ChooseName(u) PROVE IInv'
<1>1. Shapes /\ Reached(u) /\ Registered(u) /\ Given(u)
  BY DEF IInv, OwnFits
<1>2. /\ op[u].phase = "name" /\ Active(u) /\ op[u].phase \notin Runs /\ u \notin Made
      /\ op[u].at = 0 /\ op[u].block \in 1..Blocks
  BY <1>1, MadeFacts DEF ChooseName, Active, Runs, Reached
<1>3. disk' = disk /\ row' = row /\ env' = env /\ alloc' = alloc /\ hold' = hold /\ block' = block
      /\ crossed' = crossed
  BY DEF ChooseName, registry
<1>4. ASSUME NEW answer, Close(u, answer) PROVE IInv'
  <2>1. OpKept(u) /\ op'[u].phase = "closed" /\ op'[u].at = 0
    BY <1>1, <1>4, Closes
  <2>2. OnlyOf(u) /\ MayTurn(u)
    BY <1>1, <1>2, <1>3, <2>1 DEF OnlyOf, OpKept, MayTurn, Shapes
  <2> QED
    BY <1>2, <1>3, <2>1, <2>2, Prepares1
<1>5. ASSUME NEW phase \in {"run", "base"}, NEW slug, NEW start,
             op' = [op EXCEPT ![u].phase = phase, ![u].slug = slug, ![u].approved = approved,
                              ![u].start = start]
      PROVE  IInv'
  <2>1. PICK w : w = [op[u] EXCEPT !.phase = phase, !.slug = slug, !.approved = approved,
                                   !.start = start]
    OBVIOUS
  <2>2. op' = [op EXCEPT ![u] = w]
    BY <1>5, <2>1
  <2>3. DOMAIN w = OpFields /\ w.phase = phase /\ w.at = op[u].at /\ w.block = op[u].block
    BY <1>1, <2>1 DEF Shapes, OpFields
  <2>4. /\ w.kind = op[u].kind /\ w.carry = op[u].carry /\ w.dir = op[u].dir
        /\ w.project = op[u].project
    BY <1>1, <2>1 DEF Shapes, OpFields
  <2>5. OpKept(u) /\ op'[u] = w
    BY <1>1, <2>2, <2>3, <2>4 DEF OpKept, Shapes
  <2>6. OnlyOf(u) /\ MayTurn(u)
    BY <1>1, <1>2, <1>3, <2>3, <2>5 DEF OnlyOf, OpKept, MayTurn, Shapes
  <2> QED
    BY <1>2, <1>3, <2>3, <2>5, <2>6, Prepares1
<1>6. PICK phase, slug, start :
          /\ phase = IF op[u].kind = "place" THEN "run" ELSE "base"
          /\ slug = ChosenSlug(u) /\ start = IF op[u].kind = "new" THEN head ELSE 0
  OBVIOUS
<1>7. phase \in {"run", "base"}
  BY <1>6
<1> QED
  BY <1>4, <1>5, <1>6, <1>7 DEF ChooseName

(* substrate::ensure *)
LEMMA EnsureBaseInv ==
    ASSUME UnitsAssumption, IInv, NEW u \in Units, EnsureBase(u) PROVE IInv'
<1>1. Shapes /\ Reached(u) /\ Registered(u) /\ Given(u)
  BY DEF IInv, OwnFits
<1>2. /\ op[u].phase = "base" /\ Active(u) /\ op[u].phase \notin Runs /\ u \notin Made
      /\ op[u].at = 0 /\ op[u].block \in 1..Blocks
  BY <1>1, MadeFacts DEF EnsureBase, Active, Runs, Reached
<1>3. disk' = disk /\ row' = row /\ env' = env /\ alloc' = alloc /\ hold' = hold /\ block' = block
      /\ crossed' = crossed
  BY DEF EnsureBase, registry
<1>4. PICK phase : phase = IF RunsHook(u, "pre") THEN "pre" ELSE "run"
  OBVIOUS
<1>5. op' = [op EXCEPT ![u].based = TRUE, ![u].phase = phase]
  BY <1>4 DEF EnsureBase
<1>6. /\ OpKept(u) /\ op'[u].phase = phase
      /\ op'[u].at = op[u].at /\ op'[u].block = op[u].block
  BY <1>1, <1>5 DEF OpKept, Shapes, OpFields
<1>7. OnlyOf(u) /\ MayTurn(u)
  BY <1>1, <1>2, <1>3, <1>4, <1>6 DEF OnlyOf, OpKept, MayTurn, Shapes
<1> QED
  BY <1>2, <1>3, <1>4, <1>6, <1>7, Prepares1

(* A hook's end turns its command to the next phase, or ends it. *)
LEMMA HookTurns ==
    ASSUME UnitsAssumption, IInv, NEW u \in Units, op[u].phase \in Phases \cup {"attach"},
           disk' = disk, UNCHANGED registry, block' = block, crossed' = crossed,
           NEW answer,
           After(u) \/ Turn(u, "attach") \/ Close(u, answer)
    PROVE  IInv'
<1>1. Shapes /\ Reached(u) /\ Registered(u) /\ Given(u)
  BY DEF IInv, OwnFits
<1>2. Active(u) /\ op[u].phase \notin {"idle", "closed", "project"} \cup Runs
  BY DEF Active, Runs, Phases
<1>3. /\ row' = row /\ env' = env /\ alloc' = alloc /\ hold' = hold
      /\ block' \in [Projects -> 0..Blocks]
  BY <1>1 DEF registry, Shapes
<1>4. ASSUME NEW phase \in {"run", "attach"}, Turn(u, phase),
             phase = "run" => u \notin Made
      PROVE  IInv'
  <2>1. OpKept(u) /\ op'[u].phase = phase /\ op'[u].at = op[u].at /\ op'[u].block = op[u].block
    BY <1>1, <1>4, Turns
  <2>2. OnlyOf(u) /\ MayTurn(u) /\ Active(u)
    BY <1>1, <1>2, <1>3, <2>1 DEF OnlyOf, OpKept, MayTurn, Active, Shapes
  <2>3. CASE u \notin Made
    <3>1. op[u].at = 0 /\ op[u].block \in 1..Blocks
      BY <1>1, <1>2, <2>3 DEF Reached, Registered, Phases
    <3> QED
      BY <1>2, <2>1, <2>2, <2>3, <3>1, Prepares1
  <2>4. CASE u \in Made
    BY <1>1, <1>4, <2>1, <2>2, <2>4, Concludes DEF Reached
  <2> QED
    BY <2>3, <2>4
<1>5. ASSUME NEW reply, Close(u, reply) PROVE IInv'
  <2>1. OpKept(u) /\ op'[u].phase = "closed" /\ op'[u].at = 0
    BY <1>1, <1>5, Closes
  <2>2. OnlyOf(u) /\ MayTurn(u) /\ Active(u)
    BY <1>1, <1>2, <1>3, <2>1 DEF OnlyOf, OpKept, MayTurn, Active, Shapes
  <2> QED
    BY <1>2, <2>1, <2>2, Prepares1, Concludes
<1>6. After(u) => (Turn(u, "run") /\ u \notin Made) \/ Close(u, "made")
  BY DEF After, HookOf, Made
<1> QED
  BY <1>4, <1>5, <1>6

(* execute *)
LEMMA HookExitsInv ==
    ASSUME UnitsAssumption, IInv, NEW u \in Units, HookExits(u) PROVE IInv'
<1>1. /\ op[u].phase \in Phases \cup {"attach"} /\ disk' = disk /\ UNCHANGED registry
      /\ block' = block /\ crossed' = crossed
  BY DEF HookExits
<1>2. \/ After(u) \/ Turn(u, "attach") \/ Close(u, "not_approved") \/ Close(u, "hook_failed")
  BY DEF HookExits
<1> QED
  BY <1>1, <1>2, HookTurns

(* attach *)
LEMMA AttachInv ==
    ASSUME UnitsAssumption, IInv, NEW u \in Units, Attach(u) PROVE IInv'
<1>1. /\ op[u].phase \in Phases \cup {"attach"} /\ disk' = disk /\ UNCHANGED registry
      /\ block' = block /\ crossed' = crossed
  BY DEF Attach
<1>2. After(u) \/ Close(u, "hook_failed")
  BY DEF Attach
<1> QED
  BY <1>1, <1>2, HookTurns

(* A kill leaves a run to be rolled back, and ends what had made nothing. *)
LEMMA KillInv ==
    ASSUME UnitsAssumption, IInv, NEW u \in Units, Kill(u) PROVE IInv'
<1>1. Shapes /\ Reached(u) /\ Registered(u) /\ Given(u)
  BY DEF IInv, OwnFits
<1>2. /\ Active(u) /\ disk' = disk /\ row' = row /\ env' = env /\ alloc' = alloc /\ hold' = hold
      /\ block' = block /\ crossed' = crossed
  BY DEF Kill, registry
<1>3. CASE op[u].phase \in Runs
  <2>1. OpKept(u) /\ op'[u].phase = "dead" /\ op'[u].at = op[u].at /\ op'[u].block = op[u].block
    BY <1>1, <1>3, Turns DEF Kill
  <2>2. OnlyOf(u)
    BY <1>1, <1>2, <2>1 DEF OnlyOf, OpKept, Shapes
  <2>3. Len(Steps(u)) \in Nat /\ op[u].at \in Nat /\ op[u].at <= Len(Steps(u))
    BY <1>1, <1>2, <1>3, StepsFit DEF Active, Reached
  <2> QED
    BY <1>2, <1>3, <2>1, <2>2, <2>3, Falters
<1>4. CASE op[u].phase \notin Runs
  <2>1. OpKept(u) /\ op'[u].phase = "closed" /\ op'[u].at = 0
    BY <1>1, <1>4, Closes DEF Kill
  <2>2. OnlyOf(u) /\ MayTurn(u)
    BY <1>1, <1>2, <2>1 DEF OnlyOf, OpKept, MayTurn, Shapes
  <2> QED
    BY <1>2, <1>4, <2>1, <2>2, Prepares1, Concludes
<1> QED
  BY <1>3, <1>4

(* take_over *)
LEMMA TakeOverInv ==
    ASSUME UnitsAssumption, IInv, NEW u \in Units, TakeOver(u) PROVE IInv'
<1>1. Shapes /\ Reached(u) /\ Given(u)
  BY DEF IInv, OwnFits
<1>2. /\ op[u].phase \in Runs /\ op[u].phase # "idle"
      /\ disk' = disk /\ row' = row /\ env' = env /\ alloc' = alloc /\ hold' = hold
      /\ block' = block /\ crossed' = crossed
  BY DEF TakeOver, registry, Runs
<1>3. OpKept(u) /\ op'[u].phase = "undo" /\ op'[u].at = op[u].at /\ op'[u].block = op[u].block
  BY <1>1, Turns DEF TakeOver
<1>4. OnlyOf(u)
  BY <1>1, <1>2, <1>3 DEF OnlyOf, OpKept, Shapes
<1>5. Len(Steps(u)) \in Nat /\ op[u].at \in Nat /\ op[u].at <= Len(Steps(u))
  BY <1>1, <1>2, StepsFit DEF Reached
<1> QED
  BY <1>2, <1>3, <1>4, <1>5, Falters

(* undo_steps, when an undo fails and when all are done *)
LEMMA EndsInv ==
    ASSUME UnitsAssumption, IInv, NEW u \in Units, UndoFails(u) \/ Undone(u) PROVE IInv'
<1>1. Shapes
  BY DEF IInv
<1>2. /\ op[u].phase = "undo"
      /\ disk' = disk /\ row' = row /\ env' = env /\ alloc' = alloc /\ hold' = hold
      /\ block' = block /\ crossed' = crossed
  BY DEF UndoFails, Undone, registry
<1>3. PICK answer : Close(u, answer) /\ (answer = "stuck" \/ op[u].at = 0)
  BY DEF UndoFails, Undone
<1>4. OpKept(u) /\ op'[u].phase = "closed" /\ op'[u].at = 0 /\ op'[u].answer = answer
  BY <1>1, <1>3, Closes
<1>5. OnlyOf(u)
  BY <1>1, <1>2, <1>4 DEF OnlyOf, OpKept, Shapes
<1> QED
  BY <1>2, <1>3, <1>4, <1>5, Gives

-----------------------------------------------------------------------------
(***************************************************************************)
(* The steps.                                                              *)
(***************************************************************************)
(* What a step makes of the directory it is given. *)
Writes(u, step, d, e) ==
    /\ e.tree = "whole" \/ (step # "materialize" /\ e.tree = d.tree)
    /\ step # "materialize" => d.done \subseteq e.done
    /\ step \in Deeds => step \in e.done
    /\ e.marker = (IF step = "marker" THEN u
                   ELSE IF step = "materialize" THEN NoUnit ELSE d.marker)
    /\ step = "refresh" => e.start \in {0, op[u].start}
    /\ step = "branch" => d.start # 0
    /\ step \notin {"materialize", "refresh", "fetch"} => e.start = d.start
    /\ "carry" \in e.done =>
           e.anchor = d.anchor /\ (op[u].phase = "carrying" \/ "carry" \in d.done)

(* A step that succeeds leaves what the next one rests on. *)
LEMMA Acts ==
    ASSUME UnitsAssumption, IInv, NEW u \in Units, op[u].phase \in Running,
           op[u].at < Len(Steps(u)), OnlyOf(u), MayWrite(u),
           Writes(u, NextStep(u), disk[DirOf(u)], disk'[DirOf(u)]),
           op'[u].phase = "run", op'[u].at = op[u].at + 1, op'[u].start = op[u].start,
           op'[u].block = op[u].block
    PROVE  IInv'
<1>0. /\ Given(u) /\ Reached(u) /\ Registered(u) /\ HomeFits(u) /\ MarkFits(u) /\ RunFits(u)
      /\ CarryFits(u) /\ Shapes
  BY DEF IInv, OwnFits
<1>1. /\ op[u].phase \in Runs /\ op[u].phase \notin {"idle", "closed"} /\ u \notin Made
      /\ Active(u) /\ MayTurn(u)
  BY <1>0, MadeFacts DEF Running, Runs, Active, MayTurn
<1>2. /\ op'[u].kind = op[u].kind /\ op'[u].carry = op[u].carry /\ op'[u].dir = op[u].dir
      /\ op'[u].project = op[u].project /\ alloc' = alloc /\ hold' = hold /\ row' = row
      /\ crossed' = crossed
  BY DEF OnlyOf
<1>3. /\ ~((u \in Made)') /\ ~((u \in Live)') /\ DirOf(u)' = DirOf(u) /\ Steps(u)' = Steps(u)
  BY <1>1, <1>2 DEF Made, Live, DirOf, Steps
<1>4. PICK d, e, step, at : /\ d = disk[DirOf(u)] /\ e = disk'[DirOf(u)] /\ step = NextStep(u)
                            /\ at = op[u].at
  OBVIOUS
<1>5. Writes(u, step, d, e)
  BY <1>4
<1>6. at \in Nat /\ Len(Steps(u)) \in Nat /\ at + 1 \in 1..Len(Steps(u)) /\ step = Steps(u)[at + 1]
  BY <1>0, <1>1, <1>4, StepsFit DEF Reached, NextStep
<1>7. StepAt(Steps(u), op[u].kind, at + 1)
  BY <1>0, <1>1, <1>6, StepsFit
<1>8. Given(u)'
  BY <1>0, <1>1, <1>2 DEF Given, AllPhases, Runs
<1>9. Reached(u)' /\ Registered(u)'
  BY <1>0, <1>1, <1>2, <1>3, <1>4, <1>6 DEF Reached, Registered, Runs
<1>10. HomeFits(u)'
  <2>1. op[u].kind = "place" => disk'[u] = disk[u]
    BY <1>0, <1>1, DirFacts DEF OnlyOf
  <2> QED
    BY <1>0, <1>2, <1>4, <1>6, <2>1 DEF HomeFits, Runs
<1>11. MarkFits(u)'
  <2>1. SUFFICES ASSUME NEW c \in Directories, disk'[c].marker = u
                 PROVE  c = DirOf(u) /\ \E i \in 1..(at + 1) : Steps(u)[i] = "marker"
    BY <1>2, <1>3, <1>4 DEF MarkFits, Runs
  <2>2. c = DirOf(u)
    BY <1>0, <2>1 DEF MarkFits, OnlyOf
  <2>3. CASE step = "marker"
    <3>1. at + 1 \in 1..(at + 1) /\ Steps(u)[at + 1] = "marker"
      BY <1>6, <2>3
    <3> QED
      BY <2>2, <3>1
  <2>4. CASE step # "marker"
    <3>1. disk[DirOf(u)].marker = u
      BY <1>4, <1>5, <2>1, <2>2, <2>4 DEF Writes, UnitsAssumption
    <3>2. PICK i \in 1..at : Steps(u)[i] = "marker"
      BY <1>0, <1>1, <1>4, <2>1, <2>2, <3>1 DEF MarkFits
    <3> QED
      BY <1>6, <2>2, <3>2
  <2> QED
    BY <2>3, <2>4
<1>12. RunFits(u)'
  <2>1. SUFFICES ASSUME u \notin crossed
        PROVE  /\ e.tree = "whole"
               /\ \A i \in 1..(at + 1) : /\ Steps(u)[i] \in Deeds => Steps(u)[i] \in e.done
                                         /\ Steps(u)[i] = "marker" => e.marker = u
               /\ op[u].kind = "new" => /\ at + 1 >= 4 => e.start \in {0, op[u].start}
                                        /\ at + 1 >= 5 => e.start = op[u].start
    BY <1>2, <1>3, <1>4 DEF RunFits
  <2>2. /\ at # 0 \/ op[u].kind = "place" => d.tree = "whole"
        /\ \A i \in 1..at : /\ Steps(u)[i] \in Deeds => Steps(u)[i] \in d.done
                            /\ Steps(u)[i] = "marker" => d.marker = u
        /\ op[u].kind = "new" => /\ at >= 4 => d.start \in {0, op[u].start}
                                 /\ at >= 5 => d.start = op[u].start
    BY <1>0, <1>4, <2>1 DEF RunFits
  <2>3. step = "materialize" <=> (at = 0 /\ op[u].kind # "place")
    BY <1>6, <1>7 DEF StepAt
  <2>4. e.tree = "whole"
    BY <1>5, <2>2, <2>3 DEF Writes
  <2>5. ASSUME NEW i \in 1..(at + 1)
        PROVE  /\ Steps(u)[i] \in Deeds => Steps(u)[i] \in e.done
               /\ Steps(u)[i] = "marker" => e.marker = u
    <3>1. CASE i = at + 1
      BY <1>5, <1>6, <3>1 DEF Writes
    <3>2. CASE i # at + 1
      <4>1. i \in 1..at /\ step # "materialize"
        BY <1>6, <2>3, <3>2
      <4> QED
        BY <1>5, <2>2, <4>1 DEF Writes
    <3> QED
      BY <3>1, <3>2
  <2>6. ASSUME op[u].kind = "new"
        PROVE  /\ at + 1 >= 4 => e.start \in {0, op[u].start}
               /\ at + 1 >= 5 => e.start = op[u].start
    <3>1. /\ step = "refresh" <=> at + 1 = 4
          /\ step = "branch" <=> at + 1 = 5
          /\ step # "fetch"
      BY <1>6, <1>7, <2>6 DEF StepAt
    <3>2. CASE at + 1 = 4
      BY <1>5, <1>6, <3>1, <3>2 DEF Writes
    <3>3. CASE at + 1 = 5
      BY <1>5, <1>6, <2>2, <2>3, <2>6, <3>1, <3>3 DEF Writes
    <3>4. CASE at + 1 > 5
      BY <1>5, <1>6, <2>2, <2>3, <2>6, <3>1, <3>4 DEF Writes
    <3> QED
      BY <1>6, <3>2, <3>3, <3>4
  <2> QED
    BY <2>4, <2>5, <2>6
<1>13. CarryFits(u)'
  BY <1>0, <1>2, <1>3, <1>4, <1>5 DEF CarryFits, Writes, Running
<1>14. LiveFits(u)'
  BY <1>3 DEF LiveFits
<1> QED
  BY <1>1, <1>8, <1>9, <1>10, <1>11, <1>12, <1>13, <1>14, StepOfOne DEF OwnFits

(* What an action that writes the directory and moves on leaves of the rest. *)
LEMMA StepWrites ==
    ASSUME UnitsAssumption, IInv, NEW u \in Units, op[u].phase \in Runs,
           NEW e, World(u, e), UNCHANGED <<registry, block, crossed>>
    PROVE  /\ Given(u) /\ Reached(u) /\ Active(u) /\ DirOf(u) \in Directories
           /\ DOMAIN disk[DirOf(u)] = DirFields /\ disk'[DirOf(u)] = e
           /\ OpKept(u) => OnlyOf(u)
           /\ (DirOf(u) \in Worktrees <=> op[u].kind = "place")
           /\ (DirOf(u) \in Worktrees =>
                  disk[DirOf(u)].tree = "whole" /\ "carry" \notin disk[DirOf(u)].done)
<1>1. Shapes /\ WorktreesStand /\ Given(u) /\ Reached(u)
  BY DEF IInv, OwnFits
<1>2. op[u].phase \notin {"idle", "closed"}
  BY DEF Runs
<1>3. DirOf(u) \in Directories /\ (DirOf(u) \in Worktrees <=> op[u].kind = "place")
  BY <1>1, <1>2, DirFacts
<1>4. /\ DOMAIN disk' = Directories /\ disk'[DirOf(u)] = e
      /\ \A d \in Directories \ {DirOf(u)} : disk'[d] = disk[d]
  BY <1>1, <1>3 DEF World, Shapes
<1> QED
  BY <1>1, <1>2, <1>3, <1>4 DEF Active, OpKept, OnlyOf, registry, Shapes, WorktreesStand

LEMMA ActedOn ==
    ASSUME Shapes, NEW u \in Units, Acted(u)
    PROVE  /\ OpKept(u) /\ op'[u].phase = op[u].phase /\ op'[u].at = op[u].at + 1
           /\ op'[u].start = op[u].start /\ op'[u].block = op[u].block
BY DEF Acted, Shapes, OpKept, OpFields

(* Relocate, Scrub, InstallDependencies, Hide and Activate *)
LEMMA DidInv ==
    ASSUME UnitsAssumption, IInv, NEW u \in Units,
           NEW step \in {"relocate", "scrub", "install", "hide", "activate"},
           Doing(u, step), Did(u, step), Acted(u), UNCHANGED <<registry, block, crossed>>
    PROVE  IInv'
<1>1. PICK d, e : d = disk[DirOf(u)] /\ e = [d EXCEPT !.done = @ \cup {step}]
  OBVIOUS
<1>2. World(u, e) /\ Shapes
  BY <1>1 DEF Did, IInv
<1>3. op[u].phase = "run" /\ op[u].phase \in Runs /\ op[u].phase \in Running
      /\ op[u].at < Len(Steps(u)) /\ NextStep(u) = step /\ op[u].phase # "project"
  BY DEF Doing, Runs, Running
<1>4. /\ DOMAIN d = DirFields /\ disk'[DirOf(u)] = e
      /\ OpKept(u) => OnlyOf(u)
      /\ (DirOf(u) \in Worktrees => d.tree = "whole" /\ "carry" \notin d.done)
  BY <1>1, <1>2, <1>3, StepWrites
<1>5. /\ OpKept(u) /\ op'[u].phase = op[u].phase /\ op'[u].at = op[u].at + 1
      /\ op'[u].start = op[u].start /\ op'[u].block = op[u].block
  BY <1>2, ActedOn
<1>6. /\ DOMAIN e = DirFields /\ e.tree = d.tree /\ e.done = d.done \cup {step}
      /\ e.start = d.start /\ e.anchor = d.anchor /\ e.marker = d.marker
  BY <1>1, <1>4 DEF DirFields
<1>7. MayWrite(u)
  BY <1>1, <1>3, <1>4, <1>6 DEF MayWrite
<1>8. Writes(u, step, d, e)
  BY <1>6 DEF Writes
<1> QED
  BY <1>1, <1>3, <1>4, <1>5, <1>7, <1>8, Acts

(* Materialize::apply, when the clone is made *)
LEMMA MaterializeInv ==
    ASSUME UnitsAssumption, IInv, NEW u \in Units, Doing(u, "materialize"),
           World(u, [Empty EXCEPT !.tree = "whole"]), Acted(u),
           UNCHANGED <<registry, block, crossed>>
    PROVE  IInv'
<1>1. PICK d, e : d = disk[DirOf(u)] /\ e = [Empty EXCEPT !.tree = "whole"]
  OBVIOUS
<1>2. World(u, e) /\ Shapes
  BY <1>1 DEF IInv
<1>3. op[u].phase = "run" /\ op[u].phase \in Runs /\ op[u].phase \in Running
      /\ op[u].at < Len(Steps(u)) /\ NextStep(u) = "materialize" /\ op[u].phase # "project"
  BY DEF Doing, Runs, Running
<1>4. disk'[DirOf(u)] = e /\ (OpKept(u) => OnlyOf(u))
  BY <1>1, <1>2, <1>3, StepWrites
<1>5. /\ OpKept(u) /\ op'[u].phase = op[u].phase /\ op'[u].at = op[u].at + 1
      /\ op'[u].start = op[u].start /\ op'[u].block = op[u].block
  BY <1>2, ActedOn
<1>6. DOMAIN e = DirFields /\ e.tree = "whole" /\ e.done = {} /\ e.marker = NoUnit
  BY <1>1 DEF Empty, DirFields
<1>7. MayWrite(u)
  BY <1>1, <1>3, <1>4, <1>6 DEF MayWrite
<1>8. Writes(u, "materialize", d, e)
  BY <1>6 DEF Writes, Deeds
<1> QED
  BY <1>1, <1>3, <1>4, <1>5, <1>7, <1>8, Acts

(* RefreshRefs::apply and FetchBranch::apply *)
LEMMA RefsInv ==
    ASSUME UnitsAssumption, IInv, NEW u \in Units, NEW step \in {"refresh", "fetch"},
           NEW start, step = "refresh" => start \in {0, op[u].start},
           Doing(u, step), Acted(u), UNCHANGED <<registry, block, crossed>>,
           World(u, [disk[DirOf(u)] EXCEPT !.done = @ \cup {step}, !.start = start])
    PROVE  IInv'
<1>1. PICK d, e : d = disk[DirOf(u)] /\ e = [d EXCEPT !.done = @ \cup {step}, !.start = start]
  OBVIOUS
<1>2. World(u, e) /\ Shapes
  BY <1>1 DEF IInv
<1>3. op[u].phase = "run" /\ op[u].phase \in Runs /\ op[u].phase \in Running
      /\ op[u].at < Len(Steps(u)) /\ NextStep(u) = step /\ op[u].phase # "project"
  BY DEF Doing, Runs, Running
<1>4. /\ DOMAIN d = DirFields /\ disk'[DirOf(u)] = e
      /\ OpKept(u) => OnlyOf(u)
      /\ (DirOf(u) \in Worktrees => d.tree = "whole" /\ "carry" \notin d.done)
  BY <1>1, <1>2, <1>3, StepWrites
<1>5. /\ OpKept(u) /\ op'[u].phase = op[u].phase /\ op'[u].at = op[u].at + 1
      /\ op'[u].start = op[u].start /\ op'[u].block = op[u].block
  BY <1>2, ActedOn
<1>6. /\ DOMAIN e = DirFields /\ e.tree = d.tree /\ e.done = d.done \cup {step}
      /\ e.start = start /\ e.anchor = d.anchor /\ e.marker = d.marker
  BY <1>1, <1>4 DEF DirFields
<1>7. MayWrite(u)
  BY <1>1, <1>3, <1>4, <1>6 DEF MayWrite
<1>8. Writes(u, step, d, e)
  BY <1>6 DEF Writes
<1> QED
  BY <1>1, <1>3, <1>4, <1>5, <1>7, <1>8, Acts

(* WriteMarker::apply *)
LEMMA WriteMarkerInv ==
    ASSUME UnitsAssumption, IInv, NEW u \in Units, WriteMarker(u) PROVE IInv'
<1>1. PICK d, e : d = disk[DirOf(u)] /\ e = [d EXCEPT !.marker = u]
  OBVIOUS
<1>2. World(u, e) /\ Shapes /\ Acted(u) /\ UNCHANGED <<registry, block, crossed>>
  BY <1>1 DEF WriteMarker, IInv, rest
<1>3. op[u].phase = "run" /\ op[u].phase \in Runs /\ op[u].phase \in Running
      /\ op[u].at < Len(Steps(u)) /\ NextStep(u) = "marker" /\ op[u].phase # "project"
  BY DEF WriteMarker, Doing, Runs, Running
<1>4. /\ DOMAIN d = DirFields /\ disk'[DirOf(u)] = e
      /\ OpKept(u) => OnlyOf(u)
      /\ (DirOf(u) \in Worktrees => d.tree = "whole" /\ "carry" \notin d.done)
  BY <1>1, <1>2, <1>3, StepWrites
<1>5. /\ OpKept(u) /\ op'[u].phase = op[u].phase /\ op'[u].at = op[u].at + 1
      /\ op'[u].start = op[u].start /\ op'[u].block = op[u].block
  BY <1>2, ActedOn
<1>6. /\ DOMAIN e = DirFields /\ e.tree = d.tree /\ e.done = d.done
      /\ e.start = d.start /\ e.anchor = d.anchor /\ e.marker = u
  BY <1>1, <1>4 DEF DirFields
<1>7. MayWrite(u)
  BY <1>1, <1>3, <1>4, <1>6 DEF MayWrite
<1>8. Writes(u, "marker", d, e)
  BY <1>6 DEF Writes, Deeds
<1> QED
  BY <1>1, <1>3, <1>4, <1>5, <1>7, <1>8, Acts

(* A step that fails has acted on nothing. *)
LEMMA FailsInv ==
    ASSUME UnitsAssumption, IInv, NEW u \in Units, op[u].phase \in Running,
           op[u].at < Len(Steps(u)), Fails(u), disk' = disk, UNCHANGED <<registry, block, crossed>>
    PROVE  IInv'
<1>1. Shapes /\ Given(u) /\ Reached(u)
  BY DEF IInv, OwnFits
<1>2. op[u].phase \in Runs /\ op[u].phase # "idle"
  BY DEF Running, Runs
<1>3. OpKept(u) /\ op'[u].phase = "undo" /\ op'[u].at = op[u].at + 1 /\ op'[u].block = op[u].block
  BY <1>1 DEF Fails, Shapes, OpKept, OpFields
<1>4. OnlyOf(u)
  BY <1>1, <1>3 DEF OnlyOf, OpKept, Shapes, registry
<1>5. Len(Steps(u)) \in Nat /\ op[u].at \in Nat
  BY <1>1, <1>2, StepsFit DEF Reached
<1> QED
  BY <1>2, <1>3, <1>4, <1>5, Falters

(* TakeBranch::apply *)
LEMMA TakeBranchInv ==
    ASSUME UnitsAssumption, IInv, NEW u \in Units, TakeBranch(u) PROVE IInv'
<1>1. Shapes
  BY DEF IInv
<1>2. op[u].phase = "run" /\ op[u].phase \in Runs /\ op[u].phase \in Running /\ Active(u)
      /\ op[u].at < Len(Steps(u)) /\ NextStep(u) = "branch"
  BY DEF TakeBranch, Doing, Runs, Running, Active
<1>3. disk' = disk /\ UNCHANGED <<registry, block, crossed>>
  BY DEF TakeBranch, rest
<1>4. CASE disk[DirOf(u)].start = 0
  BY <1>2, <1>3, <1>4, FailsInv DEF TakeBranch
<1>5. CASE disk[DirOf(u)].start # 0
  <2>1. /\ OpKept(u) /\ op'[u].phase = op[u].phase /\ op'[u].at = op[u].at + 1
        /\ op'[u].start = op[u].start /\ op'[u].block = op[u].block
    BY <1>1, <1>5, ActedOn DEF TakeBranch
  <2>2. OnlyOf(u)
    BY <1>1, <1>3, <2>1 DEF OnlyOf, OpKept, Shapes, registry
  <2>3. MayWrite(u)
    BY <1>2, <1>3, <2>2, NothingWritten
  <2>4. Writes(u, "branch", disk[DirOf(u)], disk'[DirOf(u)])
    <3>1. PICK d : d = disk[DirOf(u)] /\ d = disk'[DirOf(u)]
      BY <1>3
    <3>2. Writes(u, "branch", d, d)
      BY <1>5, <3>1 DEF Writes, Deeds
    <3> QED
      BY <3>1, <3>2
  <2> QED
    BY <1>2, <2>1, <2>2, <2>3, <2>4, Acts
<1> QED
  BY <1>4, <1>5

(* A clone that fails is half made (Materialize::apply). *)
LEMMA BotchedInv ==
    ASSUME UnitsAssumption, IInv, NEW u \in Units, op[u].phase \in Running,
           op[u].at < Len(Steps(u)), NextStep(u) = "materialize", Fails(u),
           World(u, [Empty EXCEPT !.tree = "part"]), UNCHANGED <<registry, block, crossed>>
    PROVE  IInv'
<1>1. PICK e : e = [Empty EXCEPT !.tree = "part"]
  OBVIOUS
<1>2. World(u, e) /\ Shapes /\ Registered(u) /\ HomeFits(u) /\ MarkFits(u)
  BY <1>1 DEF IInv, OwnFits
<1>3. op[u].phase \in Runs /\ op[u].phase \notin {"idle", "closed", "project"}
  BY DEF Running, Runs
<1>4. /\ Given(u) /\ Reached(u) /\ Active(u) /\ disk'[DirOf(u)] = e
      /\ DirOf(u) \in Directories /\ (OpKept(u) => OnlyOf(u))
      /\ (DirOf(u) \in Worktrees <=> op[u].kind = "place")
  BY <1>2, <1>3, StepWrites
<1>5. OpKept(u) /\ op'[u].phase = "undo" /\ op'[u].at = op[u].at + 1 /\ op'[u].block = op[u].block
  BY <1>2 DEF Fails, Shapes, OpKept, OpFields
<1>6. /\ OnlyOf(u) /\ op'[u].kind = op[u].kind /\ op'[u].carry = op[u].carry
      /\ op'[u].dir = op[u].dir /\ op'[u].project = op[u].project /\ alloc' = alloc
      /\ hold' = hold /\ row' = row
  BY <1>4, <1>5 DEF OnlyOf
<1>7. u \notin Made /\ ~((u \in Made)') /\ ~((u \in Live)') /\ Steps(u)' = Steps(u)
      /\ DirOf(u)' = DirOf(u)
  BY <1>2, <1>3, <1>6, MadeFacts DEF Made, Live, Steps, DirOf, Runs
<1>8. op[u].at \in Nat /\ Len(Steps(u)) \in Nat
  BY <1>3, <1>4, StepsFit DEF Reached
<1>9. op[u].kind # "place"
  <2>1. PICK i : i = op[u].at + 1
    OBVIOUS
  <2>2. i \in 1..Len(Steps(u)) /\ Steps(u)[i] = "materialize"
    BY <1>8, <2>1 DEF NextStep
  <2>3. StepAt(Steps(u), op[u].kind, i)
    BY <1>3, <1>4, <2>2, StepsFit
  <2> QED
    BY <2>2, <2>3 DEF StepAt
<1>10. DOMAIN e = DirFields /\ e.marker = NoUnit
  BY <1>1 DEF Empty, DirFields
<1>11. MayWrite(u) /\ MayTurn(u)
  BY <1>3, <1>4, <1>5, <1>9, <1>10 DEF MayWrite, MayTurn
<1>12. Given(u)' /\ Reached(u)' /\ Registered(u)'
  BY <1>2, <1>3, <1>4, <1>5, <1>6, <1>7, <1>8
     DEF Given, AllPhases, Runs, Reached, Registered
<1>13. HomeFits(u)'
  BY <1>5, <1>6, <1>8, <1>9 DEF HomeFits, Runs
<1>14. MarkFits(u)'
  <2>1. \A d \in Directories : disk'[d].marker # u
    BY ZenonT(30), <1>2, <1>4, <1>6, <1>10 DEF MarkFits, OnlyOf, UnitsAssumption
  <2> QED
    BY <2>1 DEF MarkFits
<1>15. RunFits(u)' /\ CarryFits(u)' /\ LiveFits(u)'
  BY <1>5, <1>7 DEF RunFits, CarryFits, LiveFits, Running
<1> QED
  BY <1>4, <1>6, <1>11, <1>12, <1>13, <1>14, <1>15, StepOfOne DEF OwnFits

(* A step that fails for a reason of its own *)
LEMMA StepFailsInv ==
    ASSUME UnitsAssumption, IInv, NEW u \in Units, StepFails(u) PROVE IInv'
<1>1. /\ op[u].phase \in Running /\ op[u].at < Len(Steps(u)) /\ Fails(u)
      /\ UNCHANGED <<registry, block, crossed>>
  BY DEF StepFails, Running
<1> QED
  BY <1>1, FailsInv, BotchedInv DEF StepFails

(* Carry::apply, up to the reading: what is read is against the fork point. *)
LEMMA ReadCarryInv ==
    ASSUME UnitsAssumption, IInv, NEW u \in Units, ReadCarry(u) PROVE IInv'
<1>0. /\ Shapes /\ Registered(u) /\ HomeFits(u) /\ MarkFits(u) /\ RunFits(u)
  BY DEF IInv, OwnFits
<1>1. /\ op[u].phase = "run" /\ op[u].phase \in Runs /\ op[u].phase \in Running /\ Active(u)
      /\ op[u].phase \notin {"idle", "closed", "project"}
      /\ op[u].at < Len(Steps(u)) /\ NextStep(u) = "carry"
      /\ UNCHANGED <<registry, block, crossed>>
  BY DEF ReadCarry, Doing, Runs, Running, Active, rest
<1>2. CASE head # op[u].start
  BY <1>1, <1>2, FailsInv DEF ReadCarry
<1>3. CASE head = op[u].start
  <2>1. PICK d, e : d = disk[DirOf(u)] /\ e = [d EXCEPT !.anchor = head]
    OBVIOUS
  <2>2. World(u, e) /\ op' = [op EXCEPT ![u].phase = "carrying", ![u].work = work]
    BY <1>3, <2>1 DEF ReadCarry
  <2>3. /\ Given(u) /\ Reached(u) /\ DOMAIN d = DirFields /\ disk'[DirOf(u)] = e
        /\ DirOf(u) \in Directories /\ (OpKept(u) => OnlyOf(u))
        /\ (DirOf(u) \in Worktrees <=> op[u].kind = "place")
        /\ (DirOf(u) \in Worktrees => d.tree = "whole" /\ "carry" \notin d.done)
    BY <1>1, <2>1, <2>2, StepWrites
  <2>4. /\ OpKept(u) /\ op'[u].phase = "carrying" /\ op'[u].at = op[u].at
        /\ op'[u].block = op[u].block /\ op'[u].start = op[u].start
    BY <1>0, <2>2 DEF Shapes, OpKept, OpFields
  <2>5. /\ OnlyOf(u) /\ op'[u].kind = op[u].kind /\ op'[u].carry = op[u].carry
        /\ op'[u].dir = op[u].dir /\ op'[u].project = op[u].project /\ alloc' = alloc
        /\ hold' = hold /\ row' = row /\ crossed' = crossed
    BY <2>3, <2>4 DEF OnlyOf
  <2>6. /\ u \notin Made /\ ~((u \in Made)') /\ ~((u \in Live)') /\ Steps(u)' = Steps(u)
        /\ DirOf(u)' = DirOf(u) /\ NextStep(u)' = NextStep(u)
    BY <1>0, <1>1, <2>4, <2>5, MadeFacts DEF Made, Live, Steps, DirOf, NextStep, Runs
  <2>7. /\ DOMAIN e = DirFields /\ e.tree = d.tree /\ e.done = d.done
        /\ e.start = d.start /\ e.anchor = op[u].start /\ e.marker = d.marker
    BY <1>3, <2>1, <2>3 DEF DirFields
  <2>8. MayWrite(u) /\ MayTurn(u)
    BY <1>1, <2>1, <2>3, <2>4, <2>7 DEF MayWrite, MayTurn
  <2>9. Given(u)' /\ Reached(u)' /\ Registered(u)'
    BY <1>0, <1>1, <2>3, <2>4, <2>5, <2>6 DEF Given, AllPhases, Runs, Reached, Registered
  <2>10. HomeFits(u)'
    <3>1. CASE op[u].kind = "place"
      <4>1. disk'[u] = disk[u]
        BY <1>1, <2>3, <2>5, <3>1, DirFacts DEF OnlyOf
      <4> QED
        BY <1>0, <1>1, <2>4, <2>5, <3>1, <4>1 DEF HomeFits, Runs
    <3>2. CASE op[u].kind # "place"
      <4>1. op[u].at # 0
        <5>1. PICK i : i = op[u].at + 1
          OBVIOUS
        <5>2. i \in 1..Len(Steps(u)) /\ Steps(u)[i] = "carry"
          BY <1>1, <2>3, <5>1, StepsFit DEF NextStep, Reached
        <5>3. StepAt(Steps(u), op[u].kind, i)
          BY <1>1, <2>3, <5>2, StepsFit
        <5> QED
          BY <2>3, <5>1, <5>2, <5>3 DEF StepAt
      <4> QED
        BY <1>1, <2>4, <2>5, <3>2, <4>1 DEF HomeFits, Runs
    <3> QED
      BY <3>1, <3>2
  <2>11. MarkFits(u)'
    <3>1. ASSUME NEW c \in Directories, disk'[c].marker = u PROVE disk[c].marker = u
      <4>1. CASE c = DirOf(u)
        BY <2>1, <2>3, <2>7, <3>1, <4>1
      <4>2. CASE c # DirOf(u)
        BY <2>5, <3>1, <4>2 DEF OnlyOf
      <4> QED
        BY <4>1, <4>2
    <3> QED
      BY <1>0, <1>1, <2>4, <2>5, <2>6, <3>1 DEF MarkFits, Runs
  <2>12. RunFits(u)'
    <3>1. e.tree = d.tree /\ e.done = d.done /\ e.start = d.start /\ e.marker = d.marker
      BY <2>7
    <3>2. PICK at, steps : at = op[u].at /\ steps = Steps(u)
      OBVIOUS
    <3>3. SUFFICES ASSUME u \notin crossed
          PROVE  /\ at # 0 \/ op[u].kind = "place" => e.tree = "whole"
                 /\ \A i \in 1..at : /\ steps[i] \in Deeds => steps[i] \in e.done
                                     /\ steps[i] = "marker" => e.marker = u
                 /\ op[u].kind = "new" => /\ at >= 4 => e.start \in {0, op[u].start}
                                          /\ at >= 5 => e.start = op[u].start
      BY <2>3, <2>4, <2>5, <2>6, <3>2 DEF RunFits
    <3> QED
      BY <1>0, <1>1, <2>1, <3>1, <3>2, <3>3 DEF RunFits
  <2>13. CarryFits(u)' /\ LiveFits(u)'
    BY <2>3, <2>4, <2>6, <2>7 DEF CarryFits, LiveFits
  <2> QED
    BY <1>1, <2>5, <2>8, <2>9, <2>10, <2>11, <2>12, <2>13, StepOfOne DEF OwnFits
<1> QED
  BY <1>2, <1>3

(* carry::reproduce *)
LEMMA ReproduceInv ==
    ASSUME UnitsAssumption, IInv, NEW u \in Units, Reproduce(u) PROVE IInv'
<1>0. Shapes /\ Reached(u)
  BY DEF IInv, OwnFits
<1>1. /\ op[u].phase = "carrying" /\ op[u].phase \in Runs /\ op[u].phase \in Running
      /\ op[u].phase # "project" /\ op[u].at < Len(Steps(u)) /\ NextStep(u) = "carry"
      /\ UNCHANGED <<registry, block, crossed>>
  BY <1>0 DEF Reproduce, Reached, Runs, Running, rest
<1>2. CASE Fails(u) /\ UNCHANGED disk
  BY <1>1, <1>2, FailsInv
<1>3. CASE op' = [op EXCEPT ![u].phase = "run", ![u].at = @ + 1] /\ Did(u, "carry")
  <2>1. PICK d, e : d = disk[DirOf(u)] /\ e = [d EXCEPT !.done = @ \cup {"carry"}]
    OBVIOUS
  <2>2. World(u, e)
    BY <1>3, <2>1 DEF Did
  <2>3. /\ Given(u) /\ DOMAIN d = DirFields /\ disk'[DirOf(u)] = e
        /\ (OpKept(u) => OnlyOf(u)) /\ (DirOf(u) \in Worktrees <=> op[u].kind = "place")
    BY <1>1, <2>1, <2>2, StepWrites
  <2>4. /\ OpKept(u) /\ op'[u].phase = "run" /\ op'[u].at = op[u].at + 1
        /\ op'[u].start = op[u].start /\ op'[u].block = op[u].block
    BY <1>0, <1>3 DEF Shapes, OpKept, OpFields
  <2>5. /\ DOMAIN e = DirFields /\ e.tree = d.tree /\ e.done = d.done \cup {"carry"}
        /\ e.start = d.start /\ e.anchor = d.anchor /\ e.marker = d.marker
    BY <2>1, <2>3 DEF DirFields
  <2>6. op[u].kind # "place"
    <3>1. PICK i : i = op[u].at + 1
      OBVIOUS
    <3>2. i \in 1..Len(Steps(u)) /\ Steps(u)[i] = "carry"
      BY <1>0, <1>1, <2>3, <3>1, StepsFit DEF NextStep, Reached
    <3>3. StepAt(Steps(u), op[u].kind, i)
      BY <1>1, <2>3, <3>2, StepsFit
    <3> QED
      BY <3>2, <3>3 DEF StepAt
  <2>7. MayWrite(u)
    BY <1>1, <2>1, <2>3, <2>5, <2>6 DEF MayWrite
  <2>8. Writes(u, "carry", d, e)
    BY <1>1, <2>5 DEF Writes
  <2> QED
    BY <1>1, <2>1, <2>3, <2>4, <2>7, <2>8, Acts
<1> QED
  BY <1>2, <1>3 DEF Reproduce

(* undo_steps: what is taken back is the command's own. *)
LEMMA UndoInv ==
    ASSUME UnitsAssumption, IInv, NEW u \in Units, Undo(u) PROVE IInv'
<1>0. /\ Shapes /\ Registered(u) /\ HomeFits(u) /\ MarkFits(u)
  BY DEF IInv, OwnFits
<1>1. /\ op[u].phase = "undo" /\ op[u].phase \in Runs /\ Active(u)
      /\ op[u].phase \notin {"idle", "closed", "project"}
      /\ UNCHANGED <<registry, block, crossed>>
  BY DEF Undo, Runs, Active
<1>2. PICK d, step, e, i : /\ d = disk[DirOf(u)] /\ i = op[u].at /\ step = Steps(u)[i]
                           /\ e = TakenBack(u, step, d)
  OBVIOUS
<1>3. World(u, e) /\ op' = [op EXCEPT ![u].at = @ - 1] /\ i > 0
  BY <1>2 DEF Undo
<1>4. /\ Given(u) /\ Reached(u) /\ DOMAIN d = DirFields /\ disk'[DirOf(u)] = e
      /\ DirOf(u) \in Directories /\ (OpKept(u) => OnlyOf(u))
      /\ (DirOf(u) \in Worktrees <=> op[u].kind = "place")
      /\ (DirOf(u) \in Worktrees => d.tree = "whole" /\ "carry" \notin d.done)
  BY <1>1, <1>2, <1>3, StepWrites
<1>5. /\ OpKept(u) /\ op'[u].phase = "undo" /\ op'[u].at = i - 1
      /\ op'[u].block = op[u].block
  BY <1>0, <1>1, <1>2, <1>3 DEF Shapes, OpKept, OpFields
<1>6. /\ OnlyOf(u) /\ op'[u].kind = op[u].kind /\ op'[u].carry = op[u].carry
      /\ op'[u].dir = op[u].dir /\ op'[u].project = op[u].project /\ alloc' = alloc
      /\ hold' = hold /\ row' = row /\ crossed' = crossed
  BY <1>4, <1>5 DEF OnlyOf
<1>7. /\ u \notin Made /\ ~((u \in Made)') /\ ~((u \in Live)') /\ Steps(u)' = Steps(u)
      /\ DirOf(u)' = DirOf(u)
  BY <1>0, <1>1, <1>6, MadeFacts DEF Made, Live, Steps, DirOf, Runs
<1>8. i \in Nat /\ Len(Steps(u)) \in Nat /\ i \in 1..Len(Steps(u))
  BY <1>1, <1>2, <1>3, <1>4, StepsFit DEF Reached
<1>9. step = "materialize" <=> (i = 1 /\ op[u].kind # "place")
  BY <1>1, <1>2, <1>4, <1>8, StepsFit DEF StepAt
<1>10. /\ DOMAIN e = DirFields
       /\ step # "materialize" => e.tree = d.tree /\ e.done \subseteq d.done
       /\ e.marker \in {d.marker, NoUnit} /\ (step = "marker" => e.marker = NoUnit)
  <2>1. CASE step = "materialize"
    BY <1>2, <2>1 DEF TakenBack, Empty, DirFields
  <2>2. CASE step = "marker"
    BY <1>2, <1>4, <2>2 DEF TakenBack, DirFields
  <2>3. CASE step \in {"hide", "activate"}
    BY <1>2, <1>4, <2>3 DEF TakenBack, DirFields
  <2>4. CASE step \notin {"materialize", "marker", "hide", "activate"}
    BY <1>2, <1>4, <2>4 DEF TakenBack, DirFields
  <2> QED
    BY <2>1, <2>2, <2>3, <2>4
<1>11. MayWrite(u) /\ MayTurn(u)
  BY <1>1, <1>2, <1>4, <1>5, <1>9, <1>10 DEF MayWrite, MayTurn
<1>12. Given(u)' /\ Reached(u)' /\ Registered(u)'
  BY <1>0, <1>1, <1>4, <1>5, <1>6, <1>7, <1>8 DEF Given, AllPhases, Runs, Reached, Registered
<1>13. HomeFits(u)'
  <2>1. CASE op[u].kind = "place"
    <3>1. disk'[u] = disk[u]
      BY <1>1, <1>4, <1>6, <2>1, DirFacts DEF OnlyOf
    <3> QED
      BY <1>0, <1>1, <1>5, <1>6, <2>1, <3>1 DEF HomeFits, Runs
  <2>2. CASE op[u].kind # "place"
    <3>1. i - 1 = 0 => e = Empty
      BY <1>2, <1>8, <1>9, <2>2 DEF TakenBack
    <3>2. DirOf(u) = u
      BY <1>1, <1>4, <2>2, DirFacts
    <3> QED
      BY <1>4, <1>5, <1>6, <2>2, <3>1, <3>2 DEF HomeFits, Runs
  <2> QED
    BY <2>1, <2>2
<1>14. MarkFits(u)'
  <2>1. SUFFICES ASSUME NEW c \in Directories, disk'[c].marker = u
                 PROVE  c = DirOf(u) /\ \E j \in 1..(i - 1) : Steps(u)[j] = "marker"
    BY <1>5, <1>6, <1>7 DEF MarkFits, Runs
  <2>2. c = DirOf(u)
    BY <1>0, <1>6, <2>1 DEF MarkFits, OnlyOf
  <2>3. disk[c].marker = u /\ step # "marker"
    BY <1>2, <1>4, <1>10, <2>1, <2>2 DEF UnitsAssumption
  <2>4. PICK j \in 1..i : Steps(u)[j] = "marker"
    BY <1>0, <1>1, <1>2, <1>7, <2>3 DEF MarkFits
  <2>5. j \in 1..(i - 1)
    BY <1>2, <1>8, <2>3, <2>4
  <2> QED
    BY <2>2, <2>4, <2>5
<1>15. RunFits(u)' /\ CarryFits(u)' /\ LiveFits(u)'
  BY <1>5, <1>7 DEF RunFits, CarryFits, LiveFits, Running
<1> QED
  BY <1>1, <1>6, <1>11, <1>12, <1>13, <1>14, <1>15, StepOfOne DEF OwnFits

-----------------------------------------------------------------------------
(***************************************************************************)
(* What is not a step of one command alone.                                *)
(***************************************************************************)
(* A command is as it was, but for the base it was given. *)
SameCommand(u) ==
    /\ DOMAIN op'[u] = OpFields
    /\ op'[u].phase = op[u].phase /\ op'[u].kind = op[u].kind /\ op'[u].carry = op[u].carry
    /\ op'[u].dir = op[u].dir /\ op'[u].project = op[u].project /\ op'[u].start = op[u].start
    /\ op'[u].block = op[u].block /\ op'[u].at = op[u].at /\ op'[u].answer = op[u].answer

(* The checkout, the hooks and the base are nobody's directory. *)
LEMMA SameInv ==
    ASSUME IInv, UNCHANGED <<row, env, alloc, hold, block, disk, crossed>>,
           DOMAIN op' = Units, \A u \in Units : SameCommand(u)
    PROVE  IInv'
<1>1. Shapes' /\ WorktreesStand'
  BY DEF IInv, Shapes, WorktreesStand, SameCommand, Made
<1>2. Made' = Made /\ Live' = Live
  BY DEF Made, Live
<1>3. Apart'
  BY <1>2 DEF IInv, Apart, Meets, Active, SameCommand
<1>4. ASSUME NEW u \in Units PROVE OwnFits(u)' /\ MarkFits(u)'
  <2>1. OwnFits(u) /\ MarkFits(u) /\ SameCommand(u)
    BY DEF IInv
  <2>2. Steps(u)' = Steps(u) /\ DirOf(u)' = DirOf(u) /\ NextStep(u)' = NextStep(u)
    BY <2>1 DEF Steps, DirOf, NextStep, SameCommand
  <2>3. Given(u)' /\ Reached(u)' /\ Registered(u)' /\ HomeFits(u)'
    BY <1>2, <2>1, <2>2 DEF OwnFits, Given, Reached, Registered, HomeFits, SameCommand
  <2>4. RunFits(u)'
    BY <1>2, <2>1, <2>2 DEF OwnFits, RunFits, SameCommand
  <2>5. CarryFits(u)' /\ LiveFits(u)'
    BY <1>2, <2>1, <2>2 DEF OwnFits, CarryFits, LiveFits, Whole, SameCommand
  <2>6. MarkFits(u)'
    BY <1>2, <2>1, <2>2 DEF MarkFits, SameCommand
  <2> QED
    BY <2>3, <2>4, <2>5, <2>6 DEF OwnFits
<1> QED
  BY <1>1, <1>3, <1>4 DEF IInv

(* A person in the checkout or the recipe, and nothing at all *)
LEMMA AsideInv ==
    ASSUME IInv, MoveCheckout \/ EditHook \/ UNCHANGED vars PROVE IInv'
<1>1. UNCHANGED <<row, env, alloc, hold, block, disk, crossed, op>>
  BY DEF MoveCheckout, EditHook, vars, registry
<1>2. DOMAIN op' = Units /\ \A u \in Units : SameCommand(u)
  BY <1>1 DEF IInv, Shapes, SameCommand
<1> QED
  BY <1>1, <1>2, SameInv

(* gc takes the base away from under the commands that were given it. *)
LEMMA PruneBaseInv ==
    ASSUME IInv, PruneBase PROVE IInv'
<1>1. UNCHANGED <<row, env, alloc, hold, block, disk, crossed>>
  BY DEF PruneBase, registry
<1>2. DOMAIN op' = Units /\ \A u \in Units : op'[u] = [op[u] EXCEPT !.based = FALSE]
  BY DEF PruneBase
<1>3. \A u \in Units : SameCommand(u)
  BY <1>2 DEF IInv, Shapes, SameCommand, OpFields
<1> QED
  BY <1>1, <1>2, <1>3, SameInv

(* A command that starts meets those at work in its directory. *)
LEMMA BeginInv ==
    ASSUME UnitsAssumption, IInv, NEW u \in Units, NEW project \in Projects, NEW kind \in Kinds,
           NEW carry \in BOOLEAN, NEW name, NEW dir, Begin(u, project, kind, carry, name, dir)
    PROVE  IInv'
<1>1. /\ Shapes /\ WorktreesStand /\ Apart
      /\ \A v \in Units : OwnFits(v) /\ MarkFits(v) /\ Given(v) /\ Registered(v)
  BY DEF IInv, OwnFits
<1>2. /\ op[u].phase = "idle" /\ UNCHANGED <<row, env, alloc, hold, block, disk>>
      /\ kind \in AllKinds /\ (carry => kind = "new")
      /\ (IF kind = "place" THEN dir \in Worktrees ELSE dir = u)
  BY DEF Begin, registry, UnitsAssumption
<1>3. PICK w : w = [Idle EXCEPT !.phase = "project", !.kind = kind, !.carry = carry,
                                !.dir = dir, !.project = project, !.name = name,
                                !.declared = declared]
  OBVIOUS
<1>4. op' = [op EXCEPT ![u] = w]
  BY <1>3 DEF Begin
<1>5. DOMAIN op' = Units /\ op'[u] = w /\ \A v \in Units \ {u} : op'[v] = op[v]
  BY <1>1, <1>4 DEF Shapes
<1>6. DOMAIN w = OpFields
  BY <1>3 DEF Idle, OpFields
<1>7. w.phase = "project" /\ w.at = 0
  BY <1>3 DEF Idle
<1>8. w.kind = kind /\ w.carry = carry /\ w.dir = dir /\ w.project = project
  BY <1>3 DEF Idle
<1>9. crossed \subseteq crossed'
      /\ \A v \in Units \ {u} : Active(v) /\ op[v].dir = dir => {u, v} \subseteq crossed'
  BY DEF Begin
<1>10. u \notin Made /\ u \notin Live /\ Made' = Made /\ Live' = Live
  BY <1>1, <1>2 DEF Registered, Made, Live
<1>11. Shapes' /\ WorktreesStand'
  BY <1>1, <1>2, <1>5, <1>6, <1>10 DEF Shapes, WorktreesStand
<1>12. Apart'
  <2>1. SUFFICES ASSUME NEW v \in Units, NEW x \in Units, Meets(v, x)'
                 PROVE  /\ Active(v)' /\ Active(x)' => v \in crossed'
                        /\ v \in Live /\ x \in Live => v \in crossed'
                        /\ v \in Live /\ Active(x)' => v \in crossed' \/ op'[x].phase = "project"
                        /\ v \in Live /\ Active(x)' => x \in crossed' \/ op'[x].phase = "project"
    BY <1>10 DEF Apart
  <2>2. CASE v = u
    BY <1>5, <1>8, <1>9, <1>10, <2>1, <2>2 DEF Meets, Active
  <2>3. CASE x = u
    BY <1>5, <1>7, <1>8, <1>9, <1>10, <2>1, <2>3 DEF Meets, Active
  <2>4. CASE v # u /\ x # u
    BY <1>1, <1>5, <1>9, <2>1, <2>4 DEF Apart, Meets, Active
  <2> QED
    BY <2>2, <2>3, <2>4
<1>13. OwnFits(u)' /\ MarkFits(u)'
  <2>1. Given(u)' /\ Registered(u)'
    BY <1>1, <1>2, <1>5, <1>7, <1>8, <1>10 DEF Given, Registered, AllPhases, Prepares
  <2>2. Reached(u)'
    BY <1>5, <1>7 DEF Reached, Runs
  <2>3. HomeFits(u)' /\ MarkFits(u)'
    BY <1>1, <1>2 DEF OwnFits, HomeFits, MarkFits
  <2>4. RunFits(u)' /\ CarryFits(u)' /\ LiveFits(u)'
    BY <1>5, <1>7, <1>10 DEF RunFits, CarryFits, LiveFits, Running
  <2> QED
    BY <2>1, <2>2, <2>3, <2>4 DEF OwnFits
<1>14. ASSUME NEW v \in Units, v # u PROVE OwnFits(v)' /\ MarkFits(v)'
  <2>1. op'[v] = op[v]
    BY <1>5, <1>14
  <2>2. Steps(v)' = Steps(v) /\ DirOf(v)' = DirOf(v) /\ NextStep(v)' = NextStep(v)
    BY <2>1 DEF Steps, DirOf, NextStep
  <2>3. Given(v)' /\ Reached(v)' /\ Registered(v)' /\ HomeFits(v)' /\ MarkFits(v)'
    BY <1>1, <1>2, <1>10, <2>1, <2>2 DEF OwnFits, Given, Reached, Registered, HomeFits, MarkFits
  <2>4. RunFits(v)' /\ CarryFits(v)'
    BY <1>1, <1>2, <1>9, <2>1, <2>2 DEF OwnFits, RunFits, CarryFits
  <2>5. LiveFits(v)'
    BY <1>1, <1>2, <1>9, <1>10, <2>1, <2>2 DEF OwnFits, LiveFits, Whole
  <2> QED
    BY <2>3, <2>4, <2>5 DEF OwnFits
<1> QED
  BY <1>11, <1>12, <1>13, <1>14 DEF IInv

(* Nothing is there at first but the worktrees a person made. *)
LEMMA InitInv ==
    ASSUME UnitsAssumption, Init PROVE IInv
<1>1. /\ \A u \in Units : row[u] = NoRow /\ op[u] = Idle
      /\ Made = {} /\ Live = {}
  BY DEF Init, Made, Live
<1>2. /\ Idle.phase = "idle" /\ Idle.at = 0 /\ DOMAIN Idle = OpFields
  BY DEF Idle, OpFields
<1>3. /\ \A u \in Units : disk[u] = Empty
      /\ \A d \in Worktrees : disk[d] = Standing
  BY DEF Init, Directories, UnitsAssumption
<1>4. /\ DOMAIN Empty = DirFields /\ DOMAIN Standing = DirFields
      /\ Empty.marker = NoUnit /\ Standing.marker = NoUnit /\ Standing.tree = "whole"
      /\ Standing.done = {}
  BY DEF Empty, Standing, DirFields
<1>5. Shapes
  BY <1>1, <1>2, <1>3, <1>4 DEF Init, Shapes, Directories, UnitsAssumption
<1>6. WorktreesStand
  BY <1>3, <1>4 DEF WorktreesStand
<1>7. Apart
  BY <1>1, <1>2 DEF Apart, Active
<1>8. ASSUME NEW u \in Units PROVE OwnFits(u) /\ MarkFits(u)
  <2>1. Given(u) /\ Reached(u)
    BY <1>1, <1>2 DEF Given, Reached, AllPhases, Runs
  <2>2. Registered(u)
    BY <1>1, <1>2 DEF Registered, Init, UnitsAssumption
  <2>3. HomeFits(u) /\ RunFits(u) /\ CarryFits(u) /\ LiveFits(u)
    BY <1>1, <1>2, <1>3 DEF HomeFits, RunFits, CarryFits, LiveFits, Running, Runs
  <2>4. MarkFits(u)
    BY <1>3, <1>4 DEF MarkFits, Directories, UnitsAssumption
  <2> QED
    BY <2>1, <2>2, <2>3, <2>4 DEF OwnFits
<1> QED
  BY <1>5, <1>6, <1>7, <1>8 DEF IInv

(* nodal done and nodal merge *)
LEMMA FinishInv ==
    ASSUME IInv, NEW u \in Units, Finish(u) PROVE IInv'
<1>1. /\ Shapes /\ WorktreesStand /\ Apart
      /\ \A v \in Units : OwnFits(v) /\ MarkFits(v) /\ Registered(v)
  BY DEF IInv, OwnFits
<1>2. /\ u \in Made /\ u \in Live /\ row[u].status = "open"
      /\ UNCHANGED <<env, alloc, hold, block, disk, op, crossed>>
      /\ row' = [row EXCEPT ![u].status = "review"]
  BY DEF Finish, Live
<1>3. /\ DOMAIN row' = Units /\ DOMAIN row'[u] = RowFields
      /\ row'[u].status = "review" /\ row'[u].base = row[u].base
      /\ \A v \in Units \ {u} : row'[v] = row[v]
  BY <1>1, <1>2 DEF Shapes, RowFields
<1>4. Made' = Made /\ Live' = Live
  <2>1. row'[u] # NoRow
    BY <1>3 DEF NoRow
  <2> QED
    BY <1>2, <1>3, <2>1 DEF Made, Live
<1>5. Shapes' /\ WorktreesStand' /\ Apart'
  BY <1>1, <1>2, <1>3, <1>4 DEF Shapes, WorktreesStand, Apart, Meets, Active
<1>6. ASSUME NEW v \in Units PROVE OwnFits(v)' /\ MarkFits(v)'
  <2>1. Steps(v)' = Steps(v) /\ DirOf(v)' = DirOf(v) /\ NextStep(v)' = NextStep(v)
    BY <1>2 DEF Steps, DirOf, NextStep
  <2>2. Given(v)' /\ Reached(v)' /\ HomeFits(v)' /\ MarkFits(v)'
    BY <1>1, <1>2, <1>4, <2>1 DEF OwnFits, Given, Reached, HomeFits, MarkFits
  <2>3. Registered(v)'
    BY <1>1, <1>2, <1>3, <1>4 DEF Registered, Statuses
  <2>4. RunFits(v)' /\ CarryFits(v)'
    BY <1>1, <1>2, <2>1 DEF OwnFits, RunFits, CarryFits
  <2>5. v \in Made => row'[v].base = row[v].base
    BY <1>3
  <2>6. LiveFits(v)'
    BY <1>1, <1>2, <1>4, <2>1, <2>5 DEF OwnFits, LiveFits, Whole, Live
  <2> QED
    BY <2>2, <2>3, <2>4, <2>6 DEF OwnFits
<1> QED
  BY <1>5, <1>6 DEF IInv

(* The end of a unit: what lives or is at work in the same directory has met it. *)
LEMMA ReclaimInv ==
    ASSUME UnitsAssumption, IInv, NEW u \in Units, Reclaim(u) PROVE IInv'
<1>1. /\ Shapes /\ WorktreesStand /\ Apart
      /\ \A v \in Units : OwnFits(v) /\ MarkFits(v) /\ Given(v) /\ Registered(v)
  BY DEF IInv, OwnFits
<1>2. /\ u \in Made /\ u \in Live /\ ~Active(u) /\ disk[DirOf(u)].marker = u
      /\ UNCHANGED <<block, op, crossed>>
      /\ row' = [row EXCEPT ![u].status = "archived"]
      /\ env' = [env EXCEPT ![u] = "absent"]
      /\ hold' = hold \ {u}
  BY DEF Reclaim, Live
<1>3. PICK e : e = IF op[u].kind = "place" THEN Standing ELSE Empty
  OBVIOUS
<1>4. World(u, e)
  BY <1>3 DEF Reclaim
<1>5. /\ op[u].phase = "closed" /\ DirOf(u) \in Directories
      /\ (DirOf(u) \in Worktrees <=> op[u].kind = "place")
      /\ (op[u].kind = "place" => DirOf(u) # u)
  BY <1>1, <1>2, MadeFacts, DirFacts DEF Active
<1>6. /\ DOMAIN disk' = Directories /\ disk'[DirOf(u)] = e
      /\ \A d \in Directories \ {DirOf(u)} : disk'[d] = disk[d]
  BY <1>1, <1>4, <1>5 DEF World, Shapes
<1>7. /\ DOMAIN e = DirFields /\ e.marker = NoUnit /\ e.done = {}
      /\ op[u].kind = "place" => e.tree = "whole"
  BY <1>3 DEF Empty, Standing, DirFields
<1>8. /\ DOMAIN row' = Units /\ DOMAIN row'[u] = RowFields /\ row'[u].status = "archived"
      /\ \A v \in Units \ {u} : row'[v] = row[v]
      /\ DOMAIN env' = Units /\ env'[u] = "absent"
      /\ \A v \in Units \ {u} : env'[v] = env[v]
  BY <1>1, <1>2 DEF Shapes, RowFields
<1>9. /\ DOMAIN alloc' = AllPorts /\ \A p \in AllPorts : alloc'[p] \in {alloc[p], NoUnit}
  BY DEF Reclaim, Release
<1>10. Made' = Made /\ Live' = Live \ {u}
  <2>1. row'[u] # NoRow
    BY <1>8 DEF NoRow
  <2>2. Made' = Made
    BY <1>2, <1>8, <2>1 DEF Made
  <2> QED
    BY <1>8, <2>2 DEF Live, Made
<1>11. Shapes'
  BY <1>1, <1>2, <1>5, <1>6, <1>7, <1>8, <1>9, <1>10 DEF Shapes
<1>12. WorktreesStand' /\ Apart'
  <2>1. WorktreesStand'
    BY <1>1, <1>5, <1>6, <1>7 DEF WorktreesStand, Directories
  <2>2. Apart'
    BY <1>1, <1>2, <1>10 DEF Apart, Meets, Active
  <2> QED
    BY <2>1, <2>2
<1>13. ASSUME NEW v \in Units PROVE MarkFits(v)'
  <2>1. \A d \in Directories : disk'[d].marker = v => disk[d].marker = v
    BY <1>6, <1>7 DEF UnitsAssumption
  <2>2. Steps(v)' = Steps(v) /\ DirOf(v)' = DirOf(v)
    BY <1>2 DEF Steps, DirOf
  <2> QED
    BY <1>1, <1>2, <1>10, <2>1, <2>2 DEF MarkFits
<1>14. ASSUME NEW v \in Units PROVE Given(v)' /\ Reached(v)' /\ Registered(v)'
  <2>1. Steps(v)' = Steps(v) /\ NextStep(v)' = NextStep(v)
    BY <1>2 DEF Steps, NextStep
  <2>2. Given(v)' /\ Reached(v)'
    BY <1>1, <1>2, <1>10, <2>1 DEF OwnFits, Given, Reached
  <2>3. CASE v = u
    <3>1. /\ (v \in Made)' /\ op'[v].phase = "closed"
          /\ row'[v].status = "archived" /\ env'[v] = "absent"
      BY <1>2, <1>5, <1>8, <1>10, <2>3
    <3> QED
      BY <2>2, <3>1 DEF Registered, Statuses
  <2>4. CASE v # u
    <3>1. /\ (v \in Made)' <=> v \in Made
          /\ op'[v] = op[v] /\ row'[v] = row[v] /\ env'[v] = env[v]
          /\ v \in hold' => v \in hold
          /\ \A p \in AllPorts : alloc[p] # v => alloc'[p] # v
      BY <1>2, <1>8, <1>9, <1>10, <2>4 DEF UnitsAssumption
    <3> QED
      BY <1>1, <2>2, <3>1 DEF Registered
  <2> QED
    BY <2>3, <2>4
<1>15. ASSUME NEW v \in Units PROVE HomeFits(v)'
  <2>1. CASE v # DirOf(u)
    <3>1. disk'[v] = disk[v]
      BY <1>6, <2>1 DEF Directories
    <3> QED
      BY <1>1, <1>2, <1>10, <3>1 DEF OwnFits, HomeFits
  <2>2. CASE v = DirOf(u)
    <3>1. v = u /\ op[u].kind # "place"
      BY <1>1, <1>5, <2>2, DirFacts DEF UnitsAssumption
    <3> QED
      BY <1>2, <1>5, <1>10, <3>1 DEF HomeFits, Runs
  <2> QED
    BY <2>1, <2>2
<1>16. ASSUME NEW v \in Units PROVE RunFits(v)' /\ CarryFits(v)' /\ LiveFits(v)'
  <2>1. Steps(v)' = Steps(v) /\ DirOf(v)' = DirOf(v)
    BY <1>2 DEF Steps, DirOf
  <2>2. CASE v = u
    BY <1>2, <1>5, <1>10, <2>2 DEF RunFits, CarryFits, LiveFits, Running
  <2>3. CASE v # u /\ op[v].phase = "idle"
    BY <1>1, <1>2, <1>10, <2>3, MadeFacts DEF RunFits, CarryFits, LiveFits, Running, Live
  <2>4. CASE v # u /\ op[v].phase # "idle" /\ DirOf(v) # DirOf(u)
    <3>1. disk'[DirOf(v)] = disk[DirOf(v)]
      BY <1>1, <1>6, <2>4, DirFacts
    <3>2. RunFits(v)' /\ CarryFits(v)'
      BY <1>1, <1>2, <2>1, <3>1 DEF OwnFits, RunFits, CarryFits
    <3>3. v \in Made => row'[v].base = row[v].base
      BY <1>8, <2>4
    <3>4. v \in hold' <=> v \in hold
      BY <1>2, <2>4
    <3>5. LiveFits(v)'
      BY <1>1, <1>2, <1>10, <2>1, <3>1, <3>3, <3>4 DEF OwnFits, LiveFits, Whole, Live
    <3> QED
      BY <3>2, <3>5
  <2>5. CASE v # u /\ op[v].phase # "idle" /\ DirOf(v) = DirOf(u)
    <3>1. Meets(u, v) /\ Meets(v, u)
      BY <2>5 DEF Meets, DirOf
    <3>2. op[v].kind = "place"
      BY <1>1, <1>5, <2>5, <3>1, SharedIsWorktree
    <3>3. /\ v \in Live => v \in crossed
          /\ op[v].phase \in Running => v \in crossed
      BY <1>1, <1>2, <3>1 DEF Apart, Active, Running
    <3>4. op[v].phase # "carrying"
      <4>1. Reached(v)
        BY <1>1 DEF OwnFits
      <4>2. ASSUME op[v].phase = "carrying" PROVE FALSE
        <5>1. PICK i : i = op[v].at + 1
          OBVIOUS
        <5>2. i \in 1..Len(Steps(v)) /\ Steps(v)[i] = "carry"
          BY <1>1, <2>5, <4>1, <4>2, <5>1, StepsFit DEF NextStep, Reached
        <5>3. StepAt(Steps(v), op[v].kind, i)
          BY <1>1, <2>5, <5>2, StepsFit
        <5> QED
          BY <3>2, <5>2, <5>3 DEF StepAt
      <4> QED
        BY <4>2
    <3>5. "carry" \notin disk'[DirOf(v)].done
      BY <1>6, <1>7, <2>5
    <3> QED
      BY <1>2, <1>10, <2>1, <3>3, <3>4, <3>5 DEF RunFits, CarryFits, LiveFits
  <2> QED
    BY <2>2, <2>3, <2>4, <2>5
<1> QED
  BY <1>11, <1>12, <1>13, <1>14, <1>15, <1>16 DEF IInv, OwnFits

(* What the transaction that ends a create writes of the unit. *)
LEMMA InsertFacts ==
    ASSUME Shapes, NEW u \in Units, Insert(u)
    PROVE  /\ DOMAIN row' = Units /\ DOMAIN row'[u] = RowFields
           /\ row'[u].slug = op[u].slug /\ row'[u].branch = op[u].name
           /\ row'[u].status = "open" /\ row'[u].base = op[u].start
           /\ \A v \in Units \ {u} : row'[v] = row[v]
           /\ DOMAIN env' = Units /\ env'[u] = "stopped"
           /\ \A v \in Units \ {u} : env'[v] = env[v]
           /\ DOMAIN alloc' = AllPorts /\ \A p \in AllPorts : alloc'[p] \in {u, alloc[p]}
           /\ hold' = hold \cup {u}
           /\ Made' = Made \cup {u} /\ Live' = Live \cup {u}
<1>1. /\ DOMAIN row' = Units /\ DOMAIN row'[u] = RowFields
      /\ row'[u].slug = op[u].slug /\ row'[u].branch = op[u].name
      /\ row'[u].status = "open" /\ row'[u].base = op[u].start
      /\ \A v \in Units \ {u} : row'[v] = row[v]
  BY DEF Insert, Shapes, RowFields
<1>2. /\ DOMAIN env' = Units /\ env'[u] = "stopped"
      /\ \A v \in Units \ {u} : env'[v] = env[v]
      /\ hold' = hold \cup {u}
  BY DEF Insert, Shapes
<1>3. DOMAIN alloc' = AllPorts /\ \A p \in AllPorts : alloc'[p] \in {u, alloc[p]}
  BY DEF Insert
<1>4. row'[u] # NoRow
  BY <1>1 DEF NoRow
<1>5. Made' = Made \cup {u}
  BY <1>1, <1>4 DEF Made
<1>6. Live' = Live \cup {u}
  BY <1>2, <1>5 DEF Live, Made
<1> QED
  BY <1>1, <1>2, <1>3, <1>5, <1>6

(* The run that is committed has made everything the unit promises. *)
LEMMA CommitIsWhole ==
    ASSUME UnitsAssumption, IInv, NEW u \in Units, op[u].phase = "run", op[u].at = Len(Steps(u)),
           Insert(u), disk' = disk, crossed' = crossed, OpKept(u)
    PROVE  LiveFits(u)'
<1>1. Shapes /\ Given(u) /\ Reached(u) /\ RunFits(u) /\ CarryFits(u)
  BY DEF IInv, OwnFits
<1>2. row'[u].base = op[u].start /\ hold' = hold \cup {u}
  BY <1>1, InsertFacts
<1>3. Steps(u)' = Steps(u) /\ DirOf(u)' = DirOf(u) /\ op'[u].kind = op[u].kind
  BY DEF OpKept, Steps, DirOf
<1>4. PICK steps, d : steps = Steps(u) /\ d = disk[DirOf(u)]
  OBVIOUS
<1>5. /\ Len(steps) \in Nat /\ Len(steps) > 0 /\ DOMAIN steps = 1..Len(steps)
      /\ op[u].kind = "new" => Len(steps) >= 9
      /\ \E i \in 1..Len(steps) : steps[i] = "marker"
  BY <1>1, <1>4, StepsFit
<1>6. "carry" \in d.done => d.anchor = op[u].start
  BY <1>1, <1>4 DEF CarryFits, Running
<1>7. u \notin crossed =>
          /\ d.tree = "whole"
          /\ \A i \in 1..Len(steps) : /\ steps[i] \in Deeds => steps[i] \in d.done
                                      /\ steps[i] = "marker" => d.marker = u
          /\ op[u].kind = "new" => d.start = op[u].start
  <2>1. SUFFICES ASSUME u \notin crossed
                 PROVE  /\ d.tree = "whole"
                        /\ \A i \in 1..Len(steps) : /\ steps[i] \in Deeds => steps[i] \in d.done
                                                    /\ steps[i] = "marker" => d.marker = u
                        /\ op[u].kind = "new" => d.start = op[u].start
    OBVIOUS
  <2>2. op[u].at # 0 /\ (op[u].kind = "new" => op[u].at >= 5)
    BY <1>4, <1>5
  <2> QED
    BY <1>1, <1>4, <2>1, <2>2 DEF RunFits, Running
<1>8. u \notin crossed => Whole(u)'
  <2>1. SUFFICES ASSUME u \notin crossed
        PROVE  /\ d.tree = "whole" /\ d.marker = u
               /\ {steps[i] : i \in DOMAIN steps} \cap Deeds \subseteq d.done
               /\ u \in hold'
               /\ op[u].kind = "new" => d.start = row'[u].base
    BY <1>3, <1>4 DEF Whole
  <2> QED
    BY <1>2, <1>5, <1>7, <2>1
<1> QED
  BY <1>2, <1>3, <1>4, <1>6, <1>8 DEF LiveFits

(* commit_of: the rows are written, or a command in between has taken the name. *)
LEMMA CommitInv ==
    ASSUME UnitsAssumption, IInv, NEW u \in Units, Commit(u) PROVE IInv'
<1>1. /\ Shapes /\ WorktreesStand /\ Apart
      /\ \A v \in Units : OwnFits(v) /\ MarkFits(v) /\ Given(v) /\ Registered(v)
  BY DEF IInv, OwnFits
<1>2. /\ op[u].phase = "run" /\ op[u].at = Len(Steps(u)) /\ op[u].phase \in Runs
      /\ op[u].phase \notin {"idle", "closed", "project"} /\ Active(u)
      /\ disk' = disk /\ block' = block /\ crossed' = crossed
  BY DEF Commit, Runs, Active
<1>3. Len(Steps(u)) \in Nat /\ u \notin Made
  BY <1>1, <1>2, StepsFit, MadeFacts DEF Runs
<1>4. CASE Turn(u, "undo") /\ UNCHANGED registry
  <2>1. OpKept(u) /\ op'[u].phase = "undo" /\ op'[u].at = op[u].at /\ op'[u].block = op[u].block
    BY <1>1, <1>4, Turns
  <2>2. OnlyOf(u)
    BY <1>1, <1>2, <1>4, <2>1 DEF OnlyOf, OpKept, Shapes, registry
  <2> QED
    BY <1>2, <1>3, <2>1, <2>2, Falters
<1>5. CASE Insert(u) /\ (Turn(u, "post") \/ Close(u, "made"))
  <2>1. OpKept(u) /\ op'[u].phase \in {"post", "closed"} /\ op'[u].at \in Nat
    BY <1>1, <1>2, <1>3, <1>5, Turns, Closes
  <2>2. /\ DOMAIN row' = Units /\ DOMAIN row'[u] = RowFields /\ row'[u].status = "open"
        /\ \A v \in Units \ {u} : row'[v] = row[v]
        /\ DOMAIN env' = Units /\ env'[u] = "stopped"
        /\ \A v \in Units \ {u} : env'[v] = env[v]
        /\ DOMAIN alloc' = AllPorts /\ \A p \in AllPorts : alloc'[p] \in {u, alloc[p]}
        /\ hold' = hold \cup {u}
        /\ Made' = Made \cup {u} /\ Live' = Live \cup {u}
    BY <1>1, <1>5, InsertFacts
  <2>3. /\ DOMAIN op' = Units /\ DOMAIN op'[u] = OpFields
        /\ \A v \in Units \ {u} : op'[v] = op[v]
        /\ \A v \in Units : op'[v].dir = op[v].dir
        /\ op'[u].kind = op[u].kind /\ op'[u].carry = op[u].carry /\ op'[u].project = op[u].project
    BY <2>1 DEF OpKept
  <2>4. Shapes' /\ WorktreesStand'
    <3>1. \A v \in Units : DOMAIN op'[v] = OpFields
      BY <1>1, <2>3 DEF Shapes
    <3>2. \A v \in Made' : DOMAIN row'[v] = RowFields
      BY <1>1, <2>2 DEF Shapes, Made
    <3>3. DOMAIN disk' = Directories /\ \A d \in Directories : DOMAIN disk'[d] = DirFields
      BY <1>1, <1>2 DEF Shapes
    <3>4. block' \in [Projects -> 0..Blocks] /\ WorktreesStand'
      BY <1>1, <1>2 DEF Shapes, WorktreesStand
    <3> QED
      BY <2>2, <2>3, <3>1, <3>2, <3>3, <3>4 DEF Shapes
  <2>5. Apart'
    <3>1. SUFFICES ASSUME NEW v \in Units, NEW x \in Units, Meets(v, x)
                   PROVE  /\ Active(v)' /\ Active(x)' => v \in crossed
                          /\ v \in Live' /\ x \in Live' => v \in crossed
                          /\ v \in Live' /\ Active(x)' => v \in crossed \/ op'[x].phase = "project"
                          /\ v \in Live' /\ Active(x)' => x \in crossed \/ op'[x].phase = "project"
      BY <1>2, <2>3 DEF Apart, Meets
    <3>2. \A w \in Units : Active(w)' => Active(w)
      BY <1>2, <2>3 DEF Active
    <3>3. Meets(x, v)
      BY <3>1 DEF Meets
    <3>4. CASE v = u
      BY <1>1, <1>2, <2>2, <2>3, <3>1, <3>2, <3>3, <3>4 DEF Apart, Meets
    <3>5. CASE x = u
      BY <1>1, <1>2, <2>2, <2>3, <3>1, <3>2, <3>3, <3>5 DEF Apart, Meets
    <3>6. CASE v # u /\ x # u
      BY <1>1, <1>2, <2>2, <2>3, <3>1, <3>2, <3>6 DEF Apart
    <3> QED
      BY <3>4, <3>5, <3>6
  <2>6. OwnFits(u)' /\ MarkFits(u)'
    <3>1. Given(u)'
      BY <1>1, <1>2, <2>1, <2>3 DEF Given, AllPhases, Phases
    <3>2. Reached(u)' /\ Registered(u)'
      BY <2>1, <2>2 DEF Reached, Registered, Runs, Statuses
    <3>3. HomeFits(u)'
      BY <1>1, <1>2, <2>1, <2>2, <2>3 DEF OwnFits, HomeFits, Runs
    <3>4. RunFits(u)' /\ CarryFits(u)'
      BY <2>1 DEF RunFits, CarryFits, Running
    <3>5. LiveFits(u)'
      BY <1>2, <1>5, <2>1, CommitIsWhole
    <3>6. MarkFits(u)'
      <4>1. DirOf(u)' = DirOf(u)
        BY <2>3 DEF DirOf
      <4> QED
        BY <1>1, <1>2, <2>1, <2>2, <4>1 DEF MarkFits
    <3> QED
      BY <3>1, <3>2, <3>3, <3>4, <3>5, <3>6 DEF OwnFits
  <2>7. ASSUME NEW v \in Units, v # u PROVE OwnFits(v)' /\ MarkFits(v)'
    <3>1. /\ op'[v] = op[v] /\ row'[v] = row[v] /\ env'[v] = env[v] /\ (v \in hold' <=> v \in hold)
          /\ ((v \in Made)' <=> v \in Made)
          /\ ((v \in Live)' <=> v \in Live)
      BY <2>2, <2>3, <2>7
    <3>2. Steps(v)' = Steps(v) /\ DirOf(v)' = DirOf(v) /\ NextStep(v)' = NextStep(v)
      BY <3>1 DEF Steps, DirOf, NextStep
    <3>3. Given(v)' /\ Reached(v)' /\ HomeFits(v)' /\ MarkFits(v)'
      BY <1>1, <1>2, <3>1, <3>2 DEF OwnFits, Given, Reached, HomeFits, MarkFits
    <3>4. Registered(v)'
      <4>1. \A p \in AllPorts : alloc'[p] = v => alloc[p] = v
        BY <2>2, <2>7
      <4> QED
        BY <1>1, <3>1, <4>1 DEF Registered
    <3>5. RunFits(v)' /\ CarryFits(v)'
      BY <1>1, <1>2, <3>1, <3>2 DEF OwnFits, RunFits, CarryFits
    <3>6. LiveFits(v)'
      BY <1>1, <1>2, <3>1, <3>2 DEF OwnFits, LiveFits, Whole
    <3> QED
      BY <3>3, <3>4, <3>5, <3>6 DEF OwnFits
  <2> QED
    BY <2>4, <2>5, <2>6, <2>7 DEF IInv
<1> QED
  BY <1>4, <1>5 DEF Commit

(* The steps of a run *)
LEMMA RunInv ==
    ASSUME UnitsAssumption, IInv, NEW u \in Units,
           \/ Materialize(u) \/ Relocate(u) \/ Scrub(u) \/ RefreshRefs(u) \/ FetchBranch(u)
           \/ TakeBranch(u) \/ InstallDependencies(u) \/ Hide(u) \/ WriteMarker(u) \/ Activate(u)
           \/ ReadCarry(u) \/ Reproduce(u)
    PROVE  IInv'
<1>1. CASE Materialize(u)
  <2>1. Doing(u, "materialize") /\ UNCHANGED <<registry, block, crossed>>
    BY <1>1 DEF Materialize, rest
  <2>2. CASE World(u, [Empty EXCEPT !.tree = "whole"]) /\ Acted(u)
    BY <2>1, <2>2, MaterializeInv
  <2>3. CASE World(u, [Empty EXCEPT !.tree = "part"]) /\ Fails(u)
    BY <2>1, <2>3, BotchedInv DEF Doing, Running
  <2> QED
    BY <1>1, <2>2, <2>3 DEF Materialize
<1>2. CASE Relocate(u) \/ Scrub(u) \/ InstallDependencies(u) \/ Hide(u) \/ Activate(u)
  <2>1. PICK step \in {"relocate", "scrub", "install", "hide", "activate"} :
            Doing(u, step) /\ Did(u, step) /\ Acted(u) /\ UNCHANGED <<registry, block, crossed>>
    BY <1>2 DEF Relocate, Scrub, InstallDependencies, Hide, Activate, rest
  <2> QED
    BY <2>1, DidInv
<1>3. CASE RefreshRefs(u)
  <2>1. PICK start : start = IF op[u].start \in line THEN op[u].start ELSE 0
    OBVIOUS
  <2>2. start \in {0, op[u].start}
    BY <2>1
  <2>3. /\ Doing(u, "refresh") /\ Acted(u) /\ UNCHANGED <<registry, block, crossed>>
        /\ World(u, [disk[DirOf(u)] EXCEPT !.done = @ \cup {"refresh"}, !.start = start])
    BY <1>3, <2>1 DEF RefreshRefs, rest
  <2> QED
    BY <2>2, <2>3, RefsInv
<1>4. CASE FetchBranch(u)
  <2>1. /\ Doing(u, "fetch") /\ Acted(u) /\ UNCHANGED <<registry, block, crossed>>
        /\ World(u, [disk[DirOf(u)] EXCEPT !.done = @ \cup {"fetch"}, !.start = head])
    BY <1>4 DEF FetchBranch, rest
  <2> QED
    BY <2>1, RefsInv
<1> QED
  BY <1>1, <1>2, <1>3, <1>4, TakeBranchInv, WriteMarkerInv, ReadCarryInv, ReproduceInv

(* Every action keeps the invariant. *)
LEMMA NextInv ==
    ASSUME UnitsAssumption, IInv, [Next]_vars PROVE IInv'
<1>1. CASE MoveCheckout \/ EditHook \/ UNCHANGED vars
  BY <1>1, AsideInv
<1>2. CASE PruneBase
  BY <1>2, PruneBaseInv
<1>3. ASSUME NEW u \in Units, NEW project \in Projects, NEW kind \in Kinds, NEW carry \in BOOLEAN,
             NEW name \in Names, NEW dir \in Directories, Begin(u, project, kind, carry, name, dir)
      PROVE  IInv'
  BY <1>3, BeginInv
<1>4. ASSUME NEW u \in Units, Progress(u) PROVE IInv'
  <2>1. CASE EnsureProject(u) \/ EnsureBlock(u) \/ ChooseName(u) \/ EnsureBase(u)
    BY <2>1, EnsureProjectInv, EnsureBlockInv, ChooseNameInv, EnsureBaseInv
  <2>2. CASE HookExits(u) \/ Attach(u) \/ TakeOver(u)
    BY <2>2, HookExitsInv, AttachInv, TakeOverInv
  <2>3. CASE Commit(u) \/ Undo(u) \/ Undone(u)
    BY <2>3, CommitInv, UndoInv, EndsInv
  <2> QED
    BY <1>4, <2>1, <2>2, <2>3, RunInv DEF Progress
<1>5. ASSUME NEW u \in Units, StepFails(u) \/ UndoFails(u) \/ Kill(u) \/ Finish(u) \/ Reclaim(u)
      PROVE  IInv'
  BY <1>5, StepFailsInv, EndsInv, KillInv, FinishInv, ReclaimInv
<1> QED
  BY <1>1, <1>2, <1>3, <1>4, <1>5 DEF Next

(* The invariant holds of every behaviour. *)
LEMMA Inductive == Spec => []IInv
<1>1. Init => IInv
  BY InitInv, UnitsAssumption
<1>2. IInv /\ [Next]_vars => IInv'
  BY NextInv, UnitsAssumption
<1> QED
  BY <1>1, <1>2, PTL DEF Spec

-----------------------------------------------------------------------------
(* A command that made no unit has left nothing, through any failures, kills *)
(* and takings over (Materialize::undo, WriteMarker::undo).                  *)
THEOREM NothingLeftHolds == Spec => []NothingLeft
<1>1. IInv => NothingLeft
  BY DEF IInv, OwnFits, HomeFits, MarkFits, Registered, NothingLeft, Runs
<1> QED
  BY <1>1, Inductive, PTL

(* What is carried into a home was read against the commit it branched from, *)
(* however the checkout moved while it was made (Carry::apply).              *)
THEOREM CarriedIsAnchoredHolds == Spec => []CarriedIsAnchored
<1>1. IInv => CarriedIsAnchored
  BY DEF IInv, OwnFits, LiveFits, CarriedIsAnchored, Live, Made
<1> QED
  BY <1>1, Inductive, PTL

-----------------------------------------------------------------------------
(***************************************************************************)
(* The ports of a unit.                                                    *)
(***************************************************************************)
(* A set of numbers below a bound is finite. *)
LEMMA BoundedIsFinite ==
    ASSUME NEW K \in Nat, NEW S, S \subseteq 1..K
    PROVE  IsFiniteSet(S) /\ Cardinality(S) \in Nat
<1>1. S \in SUBSET Nat /\ \A s \in S : s <= K
  OBVIOUS
<1>2. IsFiniteSet(S)
  BY <1>1, FS_BoundedSetOfNaturals
<1> QED
  BY <1>2, FS_CardinalityType

(* Of more than n numbers below a bound, one has exactly n below it. *)
LEMMA NthOfMany ==
    ASSUME NEW K \in Nat, NEW S, S \subseteq 1..K, NEW n \in Nat, n < Cardinality(S)
    PROVE  \E p \in S : Cardinality({q \in S : q < p}) = n
<1> DEFINE Below(m) == {q \in S : q < m}
<1> DEFINE T == {m \in Nat : n < Cardinality(Below(m))}
<1>1. ASSUME NEW m \in Nat PROVE IsFiniteSet(Below(m)) /\ Cardinality(Below(m)) \in Nat
  <2>1. Below(m) \subseteq 1..K
    OBVIOUS
  <2> HIDE DEF Below
  <2> QED
    BY <2>1, BoundedIsFinite
<1>2. Below(K + 1) = S
  <2>1. \A q \in S : q < K + 1
    OBVIOUS
  <2> QED
    BY <2>1, Zenon
<1>3. Below(0) = {}
  <2>1. \A q \in S : ~(q < 0)
    OBVIOUS
  <2> QED
    BY <2>1, Zenon
<1>4. ASSUME NEW m \in Nat, m - 1 \in Nat
      PROVE  /\ m - 1 \notin S => Below(m) = Below(m - 1)
             /\ m - 1 \in S => Below(m) = Below(m - 1) \cup {m - 1}
             /\ m - 1 \notin Below(m - 1)
  <2>1. \A q \in S : q < m <=> q < m - 1 \/ q = m - 1
    BY <1>4
  <2>2. ~(m - 1 < m - 1)
    BY <1>4
  <2>3. ASSUME m - 1 \notin S PROVE Below(m) = Below(m - 1)
    <3>1. \A q \in S : q < m <=> q < m - 1
      BY <2>1, <2>3, Zenon
    <3> QED
      BY <3>1, Zenon
  <2>4. ASSUME m - 1 \in S PROVE Below(m) = Below(m - 1) \cup {m - 1}
    <3>1. m - 1 < m
      BY <1>4
    <3> QED
      BY <2>1, <2>4, <3>1, Zenon
  <2> QED
    BY <2>2, <2>3, <2>4, Zenon
<1> HIDE DEF Below
<1>5. K + 1 \in T
  BY <1>2
<1>6. PICK m \in T : \A k \in T : m <= k
  BY <1>5, Least
<1>7. Cardinality(Below(0)) = 0
  BY <1>3, FS_EmptySet
<1>8. m \in Nat /\ n < Cardinality(Below(m)) /\ m - 1 \in Nat
  BY <1>6, <1>7
<1>9. Cardinality(Below(m - 1)) <= n
  BY <1>1, <1>6, <1>8
<1>10. m - 1 \in S
  BY <1>1, <1>4, <1>8, <1>9
<1>11. Cardinality(Below(m)) = Cardinality(Below(m - 1)) + 1
  BY <1>1, <1>4, <1>8, <1>10, FS_AddElement
<1>12. Cardinality(Below(m - 1)) = n
  BY <1>1, <1>8, <1>9, <1>11
<1> QED
  BY <1>10, <1>12 DEF Below

(* allocate: what a unit is granted is nobody's. *)
LEMMA GrantIsFree ==
    ASSUME UnitsAssumption, NEW u \in Units, ProjectOf(u) \in Projects, NEW b \in 1..Blocks,
           Cardinality(FreePorts(b)) >= Services[ProjectOf(u)]
    PROVE  \A i \in PortNames(u) : Grant(u, b)[i] \in FreePorts(b)
<1>1. PICK x, y : x = (b - 1) * Span + 1 /\ y = b * Span
  OBVIOUS
<1>2. x \in Nat /\ x >= 1 /\ y \in Nat
  <2>1. b \in Nat /\ b - 1 \in Nat /\ Span \in Nat
    BY DEF UnitsAssumption
  <2>2. (b - 1) * Span \in Nat /\ b * Span \in Nat
    BY <2>1
  <2> QED
    BY <1>1, <2>2
<1>3. FreePorts(b) \subseteq 1..y
  BY <1>1, <1>2 DEF FreePorts, PortsOf
<1>4. Cardinality(FreePorts(b)) \in Nat
  BY <1>2, <1>3, BoundedIsFinite
<1>5. SUFFICES ASSUME NEW i \in PortNames(u) PROVE Grant(u, b)[i] \in FreePorts(b)
  OBVIOUS
<1>6. Services[ProjectOf(u)] \in Nat
  BY DEF UnitsAssumption
<1>7. i - 1 \in Nat /\ i - 1 < Cardinality(FreePorts(b))
  BY <1>4, <1>5, <1>6 DEF PortNames
<1>8. \E p \in FreePorts(b) : Cardinality({q \in FreePorts(b) : q < p}) = i - 1
  BY <1>2, <1>3, <1>7, NthOfMany
<1> QED
  BY <1>8 DEF Grant

-----------------------------------------------------------------------------
(***************************************************************************)
(* The life of a unit.                                                     *)
(***************************************************************************)
(* The life of a unit, where the invariant holds: its home is ready if it lives. *)
PortsHeld(u) == {p \in AllPorts : alloc[p] = u}
LEMMA LifeIs ==
    ASSUME IInv, NEW u \in Units
    PROVE  /\ u \notin Made => LifeOf(u) = [stage |-> "none"]
           /\ u \in Made => LifeOf(u) = [stage |-> row[u].status, project |-> op[u].project,
                                         slug |-> row[u].slug, branch |-> row[u].branch,
                                         ports |-> PortsHeld(u), ready |-> u \in Live]
<1>1. u \in Live => u \in crossed \/ Whole(u)
  BY DEF IInv, OwnFits, LiveFits
<1>2. (u \in Live /\ (u \in crossed \/ Whole(u))) = (u \in Live)
  BY <1>1
<1> QED
  BY <1>2 DEF LifeOf, PortsHeld, ProjectOf

(* And where it holds after a step. *)
LEMMA LifeIsAfter ==
    ASSUME IInv', NEW u \in Units
    PROVE  /\ ~((u \in Made)') => LifeOf(u)' = [stage |-> "none"]
           /\ (u \in Made)' =>
                  LifeOf(u)' = [stage |-> row'[u].status, project |-> op'[u].project,
                                slug |-> row'[u].slug, branch |-> row'[u].branch,
                                ports |-> PortsHeld(u)', ready |-> (u \in Live)']
<1>1. (u \in Live)' => (u \in crossed)' \/ Whole(u)'
  BY DEF IInv, OwnFits, LiveFits
<1>2. ((u \in Live)' /\ ((u \in crossed)' \/ Whole(u)')) = (u \in Live)'
  BY <1>1
<1> QED
  BY <1>2 DEF LifeOf, PortsHeld, ProjectOf

(* A unit whose rows and ports are as they were lives as it did. *)
LEMMA LifeStays ==
    ASSUME IInv, IInv', NEW u \in Units, row'[u] = row[u], env'[u] = env[u],
           u \in Made => op'[u].project = op[u].project /\ PortsHeld(u)' = PortsHeld(u)
    PROVE  LifeOf(u)' = LifeOf(u)
<1>1. /\ (u \in Made)' <=> u \in Made
      /\ (u \in Live)' <=> u \in Live
  BY DEF Made, Live
<1>2. CASE u \notin Made
  BY <1>1, <1>2, LifeIs, LifeIsAfter
<1>3. CASE u \in Made
  <2>1. (u \in Live)' = (u \in Live)
    BY <1>1
  <2> QED
    BY <1>1, <1>3, <2>1, LifeIs, LifeIsAfter
<1> QED
  BY <1>2, <1>3

(* The life of the units, as the abstract specification has it. *)
lives == [u \in Units |-> LifeOf(u)]

LEMMA InitLife == Init => Life!Init
<1>1. SUFFICES ASSUME Init PROVE Life!Init
  OBVIOUS
<1>2. \A u \in Units : LifeOf(u) = [stage |-> "none"]
  BY <1>1 DEF Init, Made, LifeOf
<1> QED
  BY <1>2 DEF Life!Init, Life!Nothing

(* Nothing changes the project of a unit that is made. *)
LEMMA ProjectsKept ==
    ASSUME UnitsAssumption, IInv, [Next]_vars, NEW v \in Made
    PROVE  op'[v].project = op[v].project
<1>1. Shapes /\ v \in Units /\ op[v].phase # "idle"
  BY MadeFacts DEF IInv, OwnFits, Made
<1>2. ASSUME NEW u \in Units, NEW phase, Turn(u, phase) PROVE op'[v].project = op[v].project
  BY <1>1, <1>2, Turns DEF OpKept
<1>3. ASSUME NEW u \in Units, NEW answer, Close(u, answer) PROVE op'[v].project = op[v].project
  BY <1>1, <1>3, Closes DEF OpKept
<1>4. ASSUME NEW u \in Units, Acted(u) \/ Fails(u) PROVE op'[v].project = op[v].project
  BY <1>1, <1>4 DEF Shapes, OpFields, Acted, Fails
<1>5. CASE MoveCheckout \/ EditHook \/ PruneBase \/ UNCHANGED vars
  BY <1>1, <1>5 DEF MoveCheckout, EditHook, PruneBase, vars, Shapes, OpFields
<1>6. ASSUME NEW u \in Units, NEW project \in Projects, NEW kind \in Kinds, NEW carry \in BOOLEAN,
             NEW name \in Names, NEW dir \in Directories, Begin(u, project, kind, carry, name, dir)
      PROVE  op'[v].project = op[v].project
  <2>1. PICK w : op' = [op EXCEPT ![u] = w]
    BY <1>6 DEF Begin
  <2>2. v # u
    BY <1>1, <1>6 DEF Begin
  <2> QED
    BY <1>1, <2>1, <2>2 DEF Shapes
<1>7. ASSUME NEW u \in Units, EnsureProject(u) \/ EnsureBlock(u) \/ ChooseName(u) \/ EnsureBase(u)
      PROVE  op'[v].project = op[v].project
  <2>1. CASE \E answer : Close(u, answer)
    BY <1>3, <2>1
  <2>2. CASE \E a, b : op' = [op EXCEPT ![u].block = a, ![u].phase = b]
    BY <1>1, <2>2 DEF Shapes, OpFields
  <2>3. CASE \E a, b : op' = [op EXCEPT ![u].phase = a, ![u].block = b]
    BY <1>1, <2>3 DEF Shapes, OpFields
  <2>4. CASE \E a, b, c, d : op' = [op EXCEPT ![u].phase = a, ![u].slug = b, ![u].approved = c,
                                              ![u].start = d]
    <3>1. PICK a, b, c, d : op' = [op EXCEPT ![u].phase = a, ![u].slug = b, ![u].approved = c,
                                             ![u].start = d]
      BY <2>4
    <3>2. PICK w : w = [op[u] EXCEPT !.phase = a, !.slug = b, !.approved = c, !.start = d]
      OBVIOUS
    <3>3. op' = [op EXCEPT ![u] = w]
      BY <3>1, <3>2
    <3>4. w.project = op[u].project
      BY <1>1, <3>2 DEF Shapes, OpFields
    <3> QED
      BY <1>1, <3>3, <3>4 DEF Shapes
  <2>5. CASE \E a, b : op' = [op EXCEPT ![u].based = a, ![u].phase = b]
    BY <1>1, <2>5 DEF Shapes, OpFields
  <2>6. CASE EnsureProject(u)
    BY <2>1, <2>2, <2>6 DEF EnsureProject
  <2>7. CASE EnsureBlock(u)
    BY <2>1, <2>3, <2>7 DEF EnsureBlock
  <2>8. CASE ChooseName(u)
    <3>1. PICK phase, start : /\ phase = IF op[u].kind = "place" THEN "run" ELSE "base"
                              /\ start = IF op[u].kind = "new" THEN head ELSE 0
      OBVIOUS
    <3>2. CASE Close(u, "refused") \/ Close(u, "not_approved")
      BY <2>1, <3>2
    <3>3. CASE op' = [op EXCEPT ![u].phase = phase, ![u].slug = ChosenSlug(u),
                                ![u].approved = approved, ![u].start = start]
      BY <2>4, <3>3
    <3> QED
      BY <2>8, <3>1, <3>2, <3>3 DEF ChooseName
  <2>9. CASE EnsureBase(u)
    BY <2>5, <2>9 DEF EnsureBase
  <2> QED
    BY <1>7, <2>6, <2>7, <2>8, <2>9
<1>8. ASSUME NEW u \in Units, HookExits(u) \/ Attach(u) \/ Commit(u) \/ Undone(u) \/ TakeOver(u)
                              \/ UndoFails(u) \/ Kill(u)
      PROVE  op'[v].project = op[v].project
  BY <1>2, <1>3, <1>8 DEF HookExits, Attach, Commit, Undone, TakeOver, UndoFails, Kill, After
<1>9. ASSUME NEW u \in Units,
             \/ Materialize(u) \/ Relocate(u) \/ Scrub(u) \/ RefreshRefs(u) \/ FetchBranch(u)
             \/ TakeBranch(u) \/ InstallDependencies(u) \/ Hide(u) \/ WriteMarker(u) \/ Activate(u)
             \/ StepFails(u)
      PROVE  op'[v].project = op[v].project
  <2>1. Acted(u) \/ Fails(u)
    BY <1>9 DEF Materialize, Relocate, Scrub, RefreshRefs, FetchBranch, TakeBranch,
                InstallDependencies, Hide, WriteMarker, Activate, StepFails
  <2> QED
    BY <1>4, <2>1
<1>10. ASSUME NEW u \in Units, ReadCarry(u) \/ Reproduce(u) \/ Undo(u)
       PROVE  op'[v].project = op[v].project
  <2>1. CASE Fails(u)
    BY <1>4, <2>1
  <2>2. CASE \E a, b : op' = [op EXCEPT ![u].phase = a, ![u].work = b]
    BY <1>1, <2>2 DEF Shapes, OpFields
  <2>3. CASE op' = [op EXCEPT ![u].phase = "run", ![u].at = @ + 1]
    BY <1>1, <2>3 DEF Shapes, OpFields
  <2>4. CASE op' = [op EXCEPT ![u].at = @ - 1]
    BY <1>1, <2>4 DEF Shapes, OpFields
  <2> QED
    BY <1>10, <2>1, <2>2, <2>3, <2>4 DEF ReadCarry, Reproduce, Undo
<1>11. ASSUME NEW u \in Units, Finish(u) \/ Reclaim(u) PROVE op'[v].project = op[v].project
  BY <1>11 DEF Finish, Reclaim
<1> QED
  BY <1>5, <1>6, <1>7, <1>8, <1>9, <1>10, <1>11 DEF Next, Progress

(* What writes no row and no port is no step of anybody's life. *)
LEMMA NoRowNoStep ==
    ASSUME UnitsAssumption, IInv, IInv', [Next]_vars, UNCHANGED <<row, env, alloc>>
    PROVE  lives' = lives
<1>1. ASSUME NEW u \in Units PROVE LifeOf(u)' = LifeOf(u)
  <2>1. u \in Made => op'[u].project = op[u].project
    BY ProjectsKept
  <2>2. PortsHeld(u)' = PortsHeld(u)
    BY DEF PortsHeld
  <2> QED
    BY <2>1, <2>2, LifeStays
<1> QED
  BY <1>1 DEF lives

(* Who lives, as the abstract specification has it. *)
LEMMA LivesFacts ==
    ASSUME IInv
    PROVE  /\ DOMAIN lives = Units /\ \A u \in Units : lives[u] = LifeOf(u)
           /\ Life!Lives = {u \in Units : u \in Made /\ row[u].status # "archived"}
<1>1. DOMAIN lives = Units /\ \A u \in Units : lives[u] = LifeOf(u)
  BY DEF lives
<1>2. ASSUME NEW u \in Units
      PROVE  LifeOf(u).stage \in {"open", "review"} <=> u \in Made /\ row[u].status # "archived"
  <2>1. CASE u \notin Made
    BY <2>1, LifeIs
  <2>2. CASE u \in Made
    <3>1. row[u].status \in Statuses
      BY <2>2 DEF IInv, OwnFits, Registered
    <3> QED
      BY <2>2, <3>1, LifeIs DEF Statuses
  <2> QED
    BY <2>1, <2>2
<1>3. Life!Lives = {u \in Units : LifeOf(u).stage \in {"open", "review"}}
  BY DEF Life!Lives
<1>4. Life!Lives = {u \in Units : u \in Made /\ row[u].status # "archived"}
  BY <1>2, <1>3
<1> QED
  BY <1>1, <1>4

(* The transaction that ends a create or an adoption is the one step in which *)
(* a unit appears: what it takes it found free in the same transaction.       *)
LEMMA CommitAppears ==
    ASSUME UnitsAssumption, IInv, IInv', NEW u \in Units, Commit(u)
    PROVE  lives' = lives \/ Life!Appear(u)
<1>1. /\ Shapes /\ Given(u) /\ Reached(u) /\ Registered(u)
      /\ op[u].phase = "run" /\ op[u].phase \in Runs /\ op[u].phase # "idle"
  BY DEF IInv, OwnFits, Commit, Runs
<1>2. u \notin Made /\ op[u].block \in 1..Blocks /\ op[u].project \in Projects
  BY <1>1, MadeFacts DEF Reached, Given
<1>3. CASE UNCHANGED registry
  <2>1. [Next]_vars
    BY DEF Next, Progress
  <2> QED
    BY <1>3, <2>1, NoRowNoStep DEF registry
<1>4. CASE Accepted(u) /\ Insert(u) /\ (Turn(u, "post") \/ Close(u, "made"))
  <2>1. OpKept(u)
    BY <1>1, <1>4, Turns, Closes
  <2>2. /\ row'[u].slug = op[u].slug /\ row'[u].branch = op[u].name /\ row'[u].status = "open"
        /\ \A v \in Units \ {u} : row'[v] = row[v] /\ env'[v] = env[v]
        /\ Made' = Made \cup {u} /\ Live' = Live \cup {u}
    BY <1>1, <1>4, InsertFacts
  <2>3. (u \in Made)' /\ ((u \in Live)' = TRUE) /\ op'[u].project = op[u].project
    BY <2>1, <2>2 DEF OpKept
  <2>4. PICK l : l = LifeOf(u)'
    OBVIOUS
  <2>5. l = [stage |-> "open", project |-> op[u].project, slug |-> op[u].slug,
             branch |-> op[u].name, ports |-> PortsHeld(u)', ready |-> TRUE]
    BY <2>2, <2>3, <2>4, LifeIsAfter
  <2>6. \A i \in PortNames(u) : Grant(u, op[u].block)[i] \in FreePorts(op[u].block)
    BY <1>2, <1>4, GrantIsFree DEF Accepted, ProjectOf
  <2>7. ASSUME NEW p \in AllPorts
        PROVE  alloc'[p] = alloc[p] \/ (alloc'[p] = u /\ alloc[p] = NoUnit)
    <3>1. alloc'[p] = IF \E i \in PortNames(u) : Grant(u, op[u].block)[i] = p THEN u ELSE alloc[p]
      BY <1>4 DEF Insert
    <3>2. (\E i \in PortNames(u) : Grant(u, op[u].block)[i] = p) => alloc[p] = NoUnit
      BY <2>6 DEF FreePorts
    <3> QED
      BY <3>1, <3>2
  <2>8. ASSUME NEW v \in Units \ {u} PROVE PortsHeld(v)' = PortsHeld(v)
    <3>1. \A p \in AllPorts : alloc'[p] = v <=> alloc[p] = v
      BY <2>7, <2>8 DEF UnitsAssumption
    <3> QED
      BY <3>1, Zenon DEF PortsHeld
  <2>9. ASSUME NEW v \in Units \ {u} PROVE LifeOf(v)' = LifeOf(v)
    <3>1. op'[v].project = op[v].project
      BY <2>1 DEF OpKept
    <3> QED
      BY <2>2, <2>8, <3>1, LifeStays
  <2>10. ASSUME NEW v \in Units \ {u} PROVE PortsHeld(v) \cap PortsHeld(u)' = {}
    <3>1. \A p \in AllPorts : ~(alloc[p] = v /\ alloc'[p] = u)
      BY <1>2, <2>7, <2>10 DEF UnitsAssumption
    <3> QED
      BY <3>1 DEF PortsHeld
  <2>11. lives[u] = [stage |-> "none"] /\ lives' = [lives EXCEPT ![u] = l]
    <3>1. lives[u] = [stage |-> "none"]
      BY <1>2, LifeIs DEF lives
    <3> QED
      BY <2>4, <2>9, <3>1 DEF lives
  <2>12. lives'[u] = l
    BY <2>11 DEF lives
  <2>13. ASSUME NEW v \in Life!Lives
         PROVE  /\ v \in Units /\ v # u /\ v \in Made /\ row[v].status # "archived"
                /\ lives[v].stage = row[v].status /\ lives[v].project = op[v].project
                /\ lives[v].slug = row[v].slug /\ lives[v].branch = row[v].branch
                /\ lives[v].ports = PortsHeld(v)
    <3>1. v \in Units /\ v \in Made /\ row[v].status # "archived"
      BY <2>13, LivesFacts
    <3>2. PICK ready : ready = (v \in Live)
      OBVIOUS
    <3>3. lives[v] = LifeOf(v)
      BY <3>1, LivesFacts
    <3>4. lives[v] = [stage |-> row[v].status, project |-> op[v].project, slug |-> row[v].slug,
                      branch |-> row[v].branch, ports |-> PortsHeld(v), ready |-> ready]
      BY <3>1, <3>2, <3>3, LifeIs
    <3> QED
      BY <1>2, <3>1, <3>4
  <2>14. ASSUME NEW v \in Life!Lives PROVE lives[v].ports \cap l.ports = {}
    BY <2>5, <2>10, <2>13
  <2>15. ASSUME NEW v \in Life!Lives, lives[v].project = l.project
         PROVE  /\ lives[v].slug # l.slug
                /\ lives[v].stage = "open" => lives[v].branch # l.branch
    <3>1. v \in Peers(u)
      <4>1. op[v].project = op[u].project /\ v \in Made
        BY <2>5, <2>13, <2>15
      <4> QED
        BY <4>1 DEF Peers, ProjectOf
    <3>2. ~HeldSlug(u, op[u].slug) /\ ~HeldBranch(u, op[u].name)
      BY <1>4 DEF Accepted
    <3> QED
      BY <2>5, <2>13, <3>1, <3>2 DEF HeldSlug, HeldBranch
  <2>16. l.project \in Projects /\ l.ports \subseteq AllPorts /\ l.stage = "open" /\ l.ready
    BY <1>2, <2>5 DEF PortsHeld
  <2> QED
    BY <2>11, <2>12, <2>14, <2>15, <2>16 DEF Life!Appear, Life!Nothing, Life!Others, lives
<1> QED
  BY <1>3, <1>4 DEF Commit

(* nodal done and nodal merge *)
LEMMA FinishFinishes ==
    ASSUME UnitsAssumption, IInv, IInv', NEW u \in Units, Finish(u)
    PROVE  Life!Finish(u)
<1>1. Shapes /\ u \in Made /\ u \in Live /\ row[u].status = "open" /\ op' = op /\ env' = env
      /\ alloc' = alloc
  BY DEF IInv, Finish, Live
<1>2. DOMAIN row[u] = RowFields
  BY <1>1 DEF Shapes
<1>3. PICK w : w = [row[u] EXCEPT !.status = "review"]
  OBVIOUS
<1>4. row' = [row EXCEPT ![u] = w]
  BY <1>3 DEF Finish
<1>5. w.status = "review" /\ w.slug = row[u].slug /\ w.branch = row[u].branch
  BY <1>2, <1>3 DEF RowFields
<1>6. row'[u] = w /\ \A v \in Units \ {u} : row'[v] = row[v]
  BY <1>1, <1>4 DEF Shapes
<1>7. w # NoRow
  BY <1>5 DEF NoRow
<1>8. (u \in Made)' /\ (u \in Live)'
  BY <1>1, <1>6, <1>7 DEF Made, Live
<1>9. PortsHeld(u)' = PortsHeld(u) /\ \A v \in Units : PortsHeld(v)' = PortsHeld(v)
  BY <1>1 DEF PortsHeld
<1>10. ((u \in Live)' = TRUE) /\ ((u \in Live) = TRUE)
  BY <1>1, <1>8
<1>11. LifeOf(u) = [stage |-> "open", project |-> op[u].project, slug |-> row[u].slug,
                    branch |-> row[u].branch, ports |-> PortsHeld(u), ready |-> TRUE]
  BY <1>1, <1>10, LifeIs
<1>12. LifeOf(u)' = [stage |-> "review", project |-> op[u].project, slug |-> row[u].slug,
                     branch |-> row[u].branch, ports |-> PortsHeld(u), ready |-> TRUE]
  BY <1>1, <1>5, <1>6, <1>8, <1>9, <1>10, LifeIsAfter
<1>13. LifeOf(u)' = [LifeOf(u) EXCEPT !.stage = "review"]
  <2>1. PICK yes : yes = TRUE
    OBVIOUS
  <2>2. /\ LifeOf(u) = [stage |-> "open", project |-> op[u].project, slug |-> row[u].slug,
                        branch |-> row[u].branch, ports |-> PortsHeld(u), ready |-> yes]
        /\ LifeOf(u)' = [stage |-> "review", project |-> op[u].project, slug |-> row[u].slug,
                         branch |-> row[u].branch, ports |-> PortsHeld(u), ready |-> yes]
    BY <1>11, <1>12, <2>1
  <2> QED
    BY <2>2
<1>14. \A v \in Units \ {u} : LifeOf(v)' = LifeOf(v)
  BY <1>1, <1>6, <1>9, LifeStays
<1>15. lives' = [lives EXCEPT ![u] = [LifeOf(u) EXCEPT !.stage = "review"]]
  BY <1>13, <1>14 DEF lives
<1>16. lives[u] = LifeOf(u) /\ lives[u].stage = "open"
  BY <1>11 DEF lives
<1>17. lives' = [lives EXCEPT ![u].stage = "review"]
  BY <1>15, <1>16
<1> QED
  BY <1>16, <1>17 DEF Life!Finish, lives

(* The transaction that ends a reclaim gives back what the unit held. *)
LEMMA ReclaimEnds ==
    ASSUME UnitsAssumption, IInv, IInv', NEW u \in Units, Reclaim(u)
    PROVE  Life!End(u)
<1>1. /\ Shapes /\ u \in Made /\ u \in Live /\ op' = op /\ env[u] = "stopped"
      /\ row[u].status \in Statuses /\ row[u].status # "archived"
  BY DEF IInv, OwnFits, Registered, Reclaim, Live
<1>2. DOMAIN row[u] = RowFields
  BY <1>1 DEF Shapes
<1>3. PICK w : w = [row[u] EXCEPT !.status = "archived"]
  OBVIOUS
<1>4. row' = [row EXCEPT ![u] = w] /\ env' = [env EXCEPT ![u] = "absent"]
  BY <1>3 DEF Reclaim
<1>5. w.status = "archived" /\ w.slug = row[u].slug /\ w.branch = row[u].branch
  BY <1>2, <1>3 DEF RowFields
<1>6. /\ row'[u] = w /\ env'[u] = "absent"
      /\ \A v \in Units \ {u} : row'[v] = row[v] /\ env'[v] = env[v]
  BY <1>1, <1>4 DEF Shapes
<1>7. w # NoRow
  BY <1>5 DEF NoRow
<1>8. (u \in Made)' /\ ~((u \in Live)')
  BY <1>1, <1>6, <1>7 DEF Made, Live
<1>9. \A p \in AllPorts : alloc'[p] = IF alloc[p] = u THEN NoUnit ELSE alloc[p]
  BY DEF Reclaim, Release
<1>10. PortsHeld(u)' = {}
  BY <1>9 DEF PortsHeld, UnitsAssumption
<1>11. ASSUME NEW v \in Units \ {u} PROVE LifeOf(v)' = LifeOf(v)
  <2>1. \A p \in AllPorts : alloc'[p] = v <=> alloc[p] = v
    BY <1>9, <1>11 DEF UnitsAssumption
  <2>2. PortsHeld(v)' = PortsHeld(v)
    BY <2>1, Zenon DEF PortsHeld
  <2> QED
    BY <1>1, <1>6, <2>2, LifeStays
<1>12. ((u \in Live)' = FALSE) /\ ((u \in Live) = TRUE)
  BY <1>1, <1>8
<1>13. LifeOf(u) = [stage |-> row[u].status, project |-> op[u].project, slug |-> row[u].slug,
                    branch |-> row[u].branch, ports |-> PortsHeld(u), ready |-> TRUE]
  BY <1>1, <1>12, LifeIs
<1>14. LifeOf(u)' = [stage |-> "archived", project |-> op[u].project, slug |-> row[u].slug,
                     branch |-> row[u].branch, ports |-> {}, ready |-> FALSE]
  BY <1>1, <1>5, <1>6, <1>8, <1>10, <1>12, LifeIsAfter
<1>15. LifeOf(u)' = [LifeOf(u) EXCEPT !.stage = "archived", !.ports = {}, !.ready = FALSE]
  <2>1. PICK yes, no : yes = TRUE /\ no = FALSE
    OBVIOUS
  <2>2. /\ LifeOf(u) = [stage |-> row[u].status, project |-> op[u].project,
                        slug |-> row[u].slug, branch |-> row[u].branch,
                        ports |-> PortsHeld(u), ready |-> yes]
        /\ LifeOf(u)' = [stage |-> "archived", project |-> op[u].project,
                         slug |-> row[u].slug, branch |-> row[u].branch,
                         ports |-> {}, ready |-> no]
    BY <1>13, <1>14, <2>1
  <2>3. LifeOf(u)' = [LifeOf(u) EXCEPT !.stage = "archived", !.ports = {}, !.ready = no]
    <3>1. PICK l, m, stage, project, slug, branch, ports :
              /\ l = LifeOf(u) /\ m = LifeOf(u)' /\ stage = row[u].status
              /\ project = op[u].project /\ slug = row[u].slug /\ branch = row[u].branch
              /\ ports = PortsHeld(u)
      OBVIOUS
    <3>2. /\ l = [stage |-> stage, project |-> project, slug |-> slug, branch |-> branch,
                  ports |-> ports, ready |-> yes]
          /\ m = [stage |-> "archived", project |-> project, slug |-> slug, branch |-> branch,
                  ports |-> {}, ready |-> no]
      BY <2>2, <3>1
    <3>3. PICK n, k : n = {} /\ k = [l EXCEPT !.stage = "archived"]
      OBVIOUS
    <3>4. PICK j : j = [k EXCEPT !.ports = n]
      OBVIOUS
    <3>5. k = [stage |-> "archived", project |-> project, slug |-> slug, branch |-> branch,
               ports |-> ports, ready |-> yes]
      BY <3>2, <3>3
    <3>6. j = [stage |-> "archived", project |-> project, slug |-> slug, branch |-> branch,
               ports |-> n, ready |-> yes]
      BY <3>4, <3>5
    <3>7. m = [stage |-> "archived", project |-> project, slug |-> slug, branch |-> branch,
               ports |-> n, ready |-> no]
      BY <3>2, <3>3
    <3>8. m = [j EXCEPT !.ready = no]
      BY <3>6, <3>7
    <3> QED
      BY <3>1, <3>3, <3>4, <3>8
  <2> QED
    BY <2>1, <2>3
<1>16. lives' = [lives EXCEPT ![u] = [LifeOf(u) EXCEPT !.stage = "archived", !.ports = {},
                                                      !.ready = FALSE]]
  BY <1>11, <1>15 DEF lives
<1>17. lives[u] = LifeOf(u) /\ u \in Life!Lives
  BY <1>1, LivesFacts
<1>18. lives' = [lives EXCEPT ![u].stage = "archived", ![u].ports = {}, ![u].ready = FALSE]
  BY <1>16, <1>17 DEF lives
<1> QED
  BY <1>17, <1>18 DEF Life!End, lives

(* Every step is one of the abstract specification, or none. *)
LEMMA LifeSteps ==
    ASSUME UnitsAssumption, IInv, IInv', [Next]_vars
    PROVE  [Life!Next]_lives
<1>1. CASE UNCHANGED <<row, env, alloc>>
  BY <1>1, NoRowNoStep
<1>2. ASSUME NEW u \in Units, Commit(u) PROVE [Life!Next]_lives
  BY <1>2, CommitAppears DEF Life!Next
<1>3. ASSUME NEW u \in Units, Finish(u) PROVE [Life!Next]_lives
  BY <1>3, FinishFinishes DEF Life!Next
<1>4. ASSUME NEW u \in Units, Reclaim(u) PROVE [Life!Next]_lives
  BY <1>4, ReclaimEnds DEF Life!Next
<1>5. CASE MoveCheckout \/ EditHook \/ PruneBase \/ UNCHANGED vars
  BY <1>1, <1>5 DEF MoveCheckout, EditHook, PruneBase, vars, registry
<1>6. ASSUME NEW u \in Units,
             \/ \E project \in Projects, kind \in Kinds, carry \in BOOLEAN, name \in Names,
                   dir \in Directories : Begin(u, project, kind, carry, name, dir)
             \/ StepFails(u) \/ UndoFails(u) \/ Kill(u)
      PROVE  UNCHANGED <<row, env, alloc>>
  BY <1>6 DEF Begin, StepFails, UndoFails, Kill, registry
<1>7. ASSUME NEW u \in Units, Progress(u), ~Commit(u) PROVE UNCHANGED <<row, env, alloc>>
  <2>1. CASE EnsureProject(u) \/ EnsureBlock(u) \/ ChooseName(u) \/ EnsureBase(u)
    BY <2>1 DEF EnsureProject, EnsureBlock, ChooseName, EnsureBase, registry
  <2>2. CASE HookExits(u) \/ Attach(u) \/ Undo(u) \/ Undone(u) \/ TakeOver(u)
    BY <2>2 DEF HookExits, Attach, Undo, Undone, TakeOver, registry
  <2>3. CASE \/ Materialize(u) \/ Relocate(u) \/ Scrub(u) \/ RefreshRefs(u) \/ FetchBranch(u)
             \/ TakeBranch(u) \/ InstallDependencies(u) \/ Hide(u) \/ WriteMarker(u)
             \/ Activate(u) \/ ReadCarry(u) \/ Reproduce(u)
    BY <2>3 DEF Materialize, Relocate, Scrub, RefreshRefs, FetchBranch, TakeBranch,
                InstallDependencies, Hide, WriteMarker, Activate, ReadCarry, Reproduce, rest,
                registry
  <2> QED
    BY <1>7, <2>1, <2>2, <2>3 DEF Progress
<1> QED
  BY <1>1, <1>2, <1>3, <1>4, <1>5, <1>6, <1>7 DEF Next

(* The commands implement the life of a unit: it appears whole and in one step, *)
(* with names and ports that are its own, and lives until it is reclaimed,      *)
(* however its command was interleaved, killed or taken over (commit_of,        *)
(* allocate, choose_name, refuse_held_branch, reclaim's commit).                *)
THEOREM ImplementsLifeHolds == Spec => ImplementsLife
<1>1. Init => Life!Init
  BY InitLife
<1>2. IInv /\ IInv' /\ [Next]_vars => [Life!Next]_([u \in Units |-> LifeOf(u)])
  BY LifeSteps, UnitsAssumption DEF lives
<1> QED
  BY <1>1, <1>2, Inductive, PTL DEF Spec, ImplementsLife, Life!Spec

-----------------------------------------------------------------------------
(***************************************************************************)
(* The groups that hooks leave running.                                    *)
(***************************************************************************)
(* A command that is not about to attach a group may do as it likes.       *)
LEMMA GroupsStay ==
    ASSUME GroupInv, groups' \subseteq groups, sessions \subseteq sessions', lost \subseteq lost',
           \A v \in Units : op[v].phase = "attach" =>
               op'[v].phase = "attach" /\ (row'[v] = NoRow <=> row[v] = NoRow)
    PROVE  GroupInv'
<1>1. ASSUME NEW g, Attaching(g) PROVE Attaching(g)'
  <2>1. g[1] \in Units /\ op'[g[1]].phase = "attach" /\ g = <<g[1], HookOf(g[1])>>
    BY <1>1 DEF Attaching
  <2>2. HookOf(g[1])' = HookOf(g[1])
    BY <1>1 DEF Attaching, HookOf
  <2> QED
    BY <2>1, <2>2 DEF Attaching
<1> QED
  BY <1>1 DEF GroupInv

(* A step of one command, in any phase but the one that attaches. *)
LEMMA OthersAttach ==
    ASSUME Shapes, GroupInv, NEW u \in Units, op[u].phase # "attach",
           groups' = groups, sessions' = sessions, lost' = lost,
           \A v \in Units \ {u} : op'[v].phase = op[v].phase /\ row'[v] = row[v]
    PROVE  GroupInv'
BY GroupsStay

(* Runner::run and execute: a group that is left has its command attach it. *)
LEMMA HookExitsGroups ==
    ASSUME UnitsAssumption, IInv, GroupInv, NEW u \in Units, HookExits(u) PROVE GroupInv'
<1>1. Shapes /\ op[u].phase \in Phases /\ op[u].phase # "attach" /\ row' = row
      /\ sessions' = sessions
  BY DEF IInv, HookExits, Phases, registry
<1>2. ASSUME OpKept(u), groups' = groups, lost' = lost PROVE GroupInv'
  BY <1>1, <1>2, OthersAttach DEF OpKept
<1>3. CASE After(u) /\ UNCHANGED <<groups, lost>>
  BY <1>1, <1>2, <1>3, Turns, Closes DEF After
<1>4. CASE Close(u, "not_approved") /\ UNCHANGED <<groups, lost>>
  BY <1>1, <1>2, <1>4, Closes
<1>5. CASE /\ groups' = groups \cup {<<u, HookOf(u)>>} /\ Turn(u, "attach") /\ lost' = lost
  <2>1. OpKept(u) /\ op'[u].phase = "attach"
    BY <1>1, <1>5, Turns
  <2>2. HookOf(u)' = HookOf(u)
    BY <1>1 DEF HookOf
  <2>3. PICK h : h = <<u, HookOf(u)>>
    OBVIOUS
  <2>4. Attaching(h)'
    BY <2>1, <2>2, <2>3 DEF Attaching
  <2>5. ASSUME NEW g, Attaching(g) PROVE Attaching(g)'
    <3>1. g[1] \in Units /\ g[1] # u /\ op[g[1]].phase = "attach" /\ g = <<g[1], HookOf(g[1])>>
      BY <1>1, <2>5 DEF Attaching
    <3>2. op'[g[1]] = op[g[1]]
      BY <2>1, <3>1 DEF OpKept
    <3>3. HookOf(g[1])' = HookOf(g[1])
      BY <1>1 DEF HookOf
    <3> QED
      BY <3>1, <3>2, <3>3 DEF Attaching
  <2> QED
    BY <1>1, <1>5, <2>3, <2>4, <2>5 DEF GroupInv
<1>6. CASE StopGroup(<<u, HookOf(u)>>) /\ Close(u, "hook_failed")
  <2>1. OpKept(u)
    BY <1>1, <1>6, Closes
  <2>2. ASSUME NEW g, Attaching(g) PROVE Attaching(g)'
    <3>1. g[1] \in Units /\ g[1] # u /\ op[g[1]].phase = "attach" /\ g = <<g[1], HookOf(g[1])>>
      BY <1>1, <2>2 DEF Attaching
    <3>2. op'[g[1]] = op[g[1]]
      BY <2>1, <3>1 DEF OpKept
    <3>3. HookOf(g[1])' = HookOf(g[1])
      BY <1>1 DEF HookOf
    <3> QED
      BY <3>1, <3>2, <3>3 DEF Attaching
  <2>3. \A g \in groups' : g \in groups \/ g \in lost'
    BY <1>6 DEF StopGroup
  <2>4. lost \subseteq lost'
    BY <1>6 DEF StopGroup
  <2> QED
    BY <1>1, <2>2, <2>3, <2>4 DEF GroupInv
<1> QED
  BY <1>3, <1>4, <1>5, <1>6 DEF HookExits

(* The command that was to attach a group does, or stops it, or is killed. *)
LEMMA AttachGroups ==
    ASSUME UnitsAssumption, IInv, GroupInv, NEW u \in Units, Attach(u) \/ Kill(u)
    PROVE  GroupInv'
<1>1. Shapes /\ row' = row
  BY DEF IInv, Attach, Kill, registry
<1>2. OpKept(u)
  BY <1>1, Turns, Closes DEF Attach, Kill, After
<1>3. ASSUME NEW g, Attaching(g), g[1] # u PROVE Attaching(g)'
  <2>1. g[1] \in Units /\ op[g[1]].phase = "attach" /\ g = <<g[1], HookOf(g[1])>>
    BY <1>3 DEF Attaching
  <2>2. op'[g[1]] = op[g[1]]
    BY <1>2, <1>3, <2>1 DEF OpKept
  <2>3. HookOf(g[1])' = HookOf(g[1])
    BY <1>1 DEF HookOf
  <2> QED
    BY <2>1, <2>2, <2>3 DEF Attaching
<1>4. ASSUME NEW g, Attaching(g), g[1] = u PROVE op[u].phase = "attach" /\ g = <<u, HookOf(u)>>
  BY <1>4 DEF Attaching
<1>5. HookOf(u) \in {"pre", "post"}
  BY DEF HookOf
<1>6. CASE Attach(u)
  <2>1. CASE /\ HookOf(u) = "post" /\ sessions' = sessions \cup {<<u, "post">>}
             /\ UNCHANGED <<groups, lost>>
    BY <1>3, <1>4, <2>1 DEF GroupInv
  <2>2. CASE HookOf(u) = "pre" /\ StopGroup(<<u, "pre">>) /\ UNCHANGED sessions
    <3>1. CASE groups' = groups \ {<<u, "pre">>} /\ UNCHANGED <<lost, events>>
      BY <1>3, <1>4, <2>2, <3>1 DEF GroupInv
    <3>2. CASE groups' = groups \cup {<<u, "pre">>} /\ lost' = lost \cup {<<u, "pre">>}
      BY <1>3, <1>4, <2>2, <3>2 DEF GroupInv
    <3> QED
      BY <2>2, <3>1, <3>2 DEF StopGroup
  <2> QED
    BY <1>6, <2>1, <2>2 DEF Attach
<1>7. CASE Kill(u)
  <2>1. groups' = groups /\ sessions' = sessions /\ lost \subseteq lost'
    BY <1>7 DEF Kill
  <2>2. op[u].phase = "attach" => <<u, HookOf(u)>> \in lost'
    BY <1>7 DEF Kill
  <2> QED
    BY <1>3, <1>4, <2>1, <2>2 DEF GroupInv
<1> QED
  BY <1>6, <1>7

(* A reclaim takes the rows of the groups it stops. *)
LEMMA ReclaimGroups ==
    ASSUME UnitsAssumption, IInv, GroupInv, NEW u \in Units, Reclaim(u) PROVE GroupInv'
<1>1. Shapes /\ op' = op /\ lost' = lost /\ op[u].phase # "attach"
  BY DEF IInv, Reclaim, Active
<1>2. \A v \in Units \ {u} : row'[v] = row[v]
  BY <1>1 DEF Reclaim, Shapes
<1>3. ASSUME NEW g, Attaching(g) PROVE Attaching(g)'
  <2>1. g[1] \in Units /\ g[1] # u /\ op[g[1]].phase = "attach" /\ g = <<g[1], HookOf(g[1])>>
    BY <1>1, <1>3 DEF Attaching
  <2>2. HookOf(g[1])' = HookOf(g[1])
    BY <1>2, <2>1 DEF HookOf
  <2> QED
    BY <1>1, <2>1, <2>2 DEF Attaching
<1>4. groups' = groups \ {g \in sessions : g[1] = u} /\ sessions' = {g \in sessions : g[1] # u}
  BY DEF Reclaim
<1> QED
  BY <1>1, <1>3, <1>4 DEF GroupInv

(* Every action keeps a group owned. *)
LEMMA NextGroups ==
    ASSUME UnitsAssumption, IInv, GroupInv, [Next]_vars PROVE GroupInv'
<1>1. Shapes
  BY DEF IInv
<1>2. ASSUME NEW u \in Units, HookExits(u) \/ Attach(u) \/ Kill(u) \/ Reclaim(u) PROVE GroupInv'
  BY <1>2, HookExitsGroups, AttachGroups, ReclaimGroups
<1>3. CASE MoveCheckout \/ EditHook \/ PruneBase \/ UNCHANGED vars
  <2>1. groups' = groups /\ sessions' = sessions /\ lost' = lost /\ row' = row
    BY <1>3 DEF MoveCheckout, EditHook, PruneBase, vars, processes, registry
  <2>2. \A v \in Units : op'[v].phase = op[v].phase
    BY <1>1, <1>3 DEF MoveCheckout, EditHook, PruneBase, vars, Shapes, OpFields
  <2> QED
    BY <2>1, <2>2, GroupsStay
<1>4. ASSUME NEW u \in Units, op[u].phase # "attach", UNCHANGED processes,
             \A v \in Units \ {u} : op'[v] = op[v] /\ row'[v] = row[v]
      PROVE  GroupInv'
  BY <1>1, <1>4, OthersAttach DEF processes
<1>5. ASSUME NEW u \in Units, NEW project \in Projects, NEW kind \in Kinds, NEW carry \in BOOLEAN,
             NEW name \in Names, NEW dir \in Directories, Begin(u, project, kind, carry, name, dir)
      PROVE  GroupInv'
  <2>1. PICK w : op' = [op EXCEPT ![u] = w]
    BY <1>5 DEF Begin
  <2>2. \A v \in Units \ {u} : op'[v] = op[v]
    BY <1>1, <2>1 DEF Shapes
  <2> QED
    BY <1>4, <1>5, <2>2 DEF Begin, registry
<1>6. ASSUME NEW u \in Units, EnsureProject(u) \/ EnsureBlock(u) \/ ChooseName(u) \/ EnsureBase(u)
      PROVE  GroupInv'
  <2>1. UNCHANGED processes /\ row' = row /\ op[u].phase # "attach"
    BY <1>6 DEF EnsureProject, EnsureBlock, ChooseName, EnsureBase, registry
  <2>2. \A v \in Units \ {u} : op'[v] = op[v]
    BY <1>1, <1>6 DEF EnsureProject, EnsureBlock, ChooseName, EnsureBase, Close, Shapes
  <2> QED
    BY <1>4, <2>1, <2>2
<1>7. ASSUME NEW u \in Units, Commit(u) \/ Undo(u) \/ Undone(u) \/ TakeOver(u) \/ UndoFails(u)
      PROVE  GroupInv'
  <2>1. UNCHANGED processes /\ op[u].phase # "attach"
    BY <1>7 DEF Commit, Undo, Undone, TakeOver, UndoFails
  <2>2. \A v \in Units \ {u} : row'[v] = row[v]
    BY <1>1, <1>7, InsertFacts DEF Commit, Undo, Undone, TakeOver, UndoFails, registry
  <2>3. \A v \in Units \ {u} : op'[v] = op[v]
    BY <1>1, <1>7 DEF Commit, Undo, Undone, TakeOver, UndoFails, Turn, Close, Shapes
  <2> QED
    BY <1>4, <2>1, <2>2, <2>3
<1>8. ASSUME NEW u \in Units,
             \/ Materialize(u) \/ Relocate(u) \/ Scrub(u) \/ RefreshRefs(u) \/ FetchBranch(u)
             \/ TakeBranch(u) \/ InstallDependencies(u) \/ Hide(u) \/ WriteMarker(u) \/ Activate(u)
             \/ ReadCarry(u) \/ Reproduce(u) \/ StepFails(u)
      PROVE  GroupInv'
  <2>1. UNCHANGED processes /\ row' = row /\ op[u].phase # "attach"
    BY <1>8 DEF Materialize, Relocate, Scrub, RefreshRefs, FetchBranch, TakeBranch,
                InstallDependencies, Hide, WriteMarker, Activate, ReadCarry, Reproduce, StepFails,
                Doing, rest, registry
  <2>2. CASE Acted(u) \/ Fails(u)
    <3>1. \A v \in Units \ {u} : op'[v] = op[v]
      BY <1>1, <2>2 DEF Acted, Fails, Shapes
    <3> QED
      BY <1>4, <2>1, <3>1
  <2>3. CASE ReadCarry(u) \/ Reproduce(u)
    <3>1. \A v \in Units \ {u} : op'[v] = op[v]
      BY <1>1, <2>3 DEF ReadCarry, Reproduce, Fails, Shapes
    <3> QED
      BY <1>4, <2>1, <3>1
  <2> QED
    BY <1>8, <2>2, <2>3 DEF Materialize, Relocate, Scrub, RefreshRefs, FetchBranch, TakeBranch,
                            InstallDependencies, Hide, WriteMarker, Activate, StepFails
<1>9. ASSUME NEW u \in Units, Finish(u) PROVE GroupInv'
  <2>1. op' = op /\ UNCHANGED processes /\ op[u].phase # "attach"
    BY <1>9 DEF Finish, Active
  <2>2. \A v \in Units \ {u} : row'[v] = row[v]
    BY <1>1, <1>9 DEF Finish, Shapes
  <2> QED
    BY <1>4, <2>1, <2>2
<1> QED
  BY <1>2, <1>3, <1>5, <1>6, <1>7, <1>8, <1>9 DEF Next, Progress

(* A group that a hook left running is never one nobody will stop: it has a   *)
(* session row, or would not stop, or its command was killed before it could  *)
(* attach it (Runner::run, execute, attach, end_group).                       *)
THEOREM GroupsAreOwnedHolds == Spec => []GroupsAreOwned
<1>1. Init => GroupInv
  BY DEF Init, GroupInv
<1>2. IInv /\ GroupInv /\ [Next]_vars => GroupInv'
  BY NextGroups, UnitsAssumption
<1>3. GroupInv => GroupsAreOwned
  BY DEF GroupInv, Attaching, GroupsAreOwned
<1> QED
  BY <1>1, <1>2, <1>3, Inductive, PTL DEF Spec

-----------------------------------------------------------------------------
(* What UnitLife promises of every life of a unit is so of the units that the *)
(* commands make, for they implement it.  Of two lives, one step apart:       *)
Living(l) == {u \in Units : l[u].stage \in {"open", "review"}}
ShareNothing(l) ==
    \A u, v \in Living(l) : u # v =>
        /\ l[u].ports \cap l[v].ports = {}
        /\ l[u].project = l[v].project =>
               /\ l[u].slug # l[v].slug
               /\ l[u].stage = "open" /\ l[v].stage = "open" => l[u].branch # l[v].branch
HaveHomes(l) == \A u \in Living(l) : l[u].ready
Appears(l, m, u) ==
    /\ u \notin Living(l) /\ m[u].stage = "open" /\ m[u].ready
    /\ \A v \in Living(l) \ {u} : l[v].project = m[u].project =>
           l[v].slug # m[u].slug /\ (l[v].stage = "open" => l[v].branch # m[u].branch)
    /\ \A v \in Living(l) : l[v].ports \cap m[u].ports = {}
    /\ m = [l EXCEPT ![u] = m[u]]
Finishes(l, m, u) == l[u].stage = "open" /\ m = [l EXCEPT ![u].stage = "review"]
Ends(l, m, u) == m = [l EXCEPT ![u].stage = "archived", ![u].ports = {}, ![u].ready = FALSE]

(* A unit that appears has what nobody else has, and a home.                  *)
LEMMA AppearsKeeps ==
    ASSUME NEW l, NEW m, NEW u \in Units, DOMAIN l = Units, ShareNothing(l), HaveHomes(l),
           Appears(l, m, u)
    PROVE  ShareNothing(m) /\ HaveHomes(m)
<1>1. /\ \A v \in Units \ {u} : m[v] = l[v]
      /\ Living(m) = Living(l) \cup {u} /\ u \notin Living(l)
  BY DEF Appears, Living
<1>2. \A v \in Living(l) : v # u /\ m[v] = l[v]
  BY <1>1 DEF Living
<1>3. ASSUME NEW v \in Living(l)
      PROVE  /\ l[v].ports \cap m[u].ports = {}
             /\ l[v].project = m[u].project =>
                    /\ l[v].slug # m[u].slug
                    /\ l[v].stage = "open" => l[v].branch # m[u].branch
  BY <1>1 DEF Appears
<1>4. ASSUME NEW v \in Living(m), NEW x \in Living(m), v # x
      PROVE  /\ m[v].ports \cap m[x].ports = {}
             /\ m[v].project = m[x].project =>
                    /\ m[v].slug # m[x].slug
                    /\ m[v].stage = "open" /\ m[x].stage = "open" => m[v].branch # m[x].branch
  <2>1. CASE v \in Living(l) /\ x \in Living(l)
    BY <1>2, <1>4, <2>1 DEF ShareNothing
  <2>2. CASE v = u
    <3>1. x \in Living(l)
      BY <1>1, <1>4, <2>2
    <3> QED
      BY <1>2, <1>3, <2>2, <3>1
  <2>3. CASE x = u
    <3>1. v \in Living(l)
      BY <1>1, <1>4, <2>3
    <3> QED
      BY <1>2, <1>3, <2>3, <3>1
  <2> QED
    BY <1>1, <2>1, <2>2, <2>3
<1>5. HaveHomes(m)
  BY <1>1, <1>2 DEF Appears, HaveHomes
<1> QED
  BY <1>4, <1>5 DEF ShareNothing

(* A unit that is finished keeps what it has, and one that ends has nothing.  *)
LEMMA EndsKeeps ==
    ASSUME NEW l, NEW m, NEW u \in Units, DOMAIN l = Units, ShareNothing(l), HaveHomes(l),
           Finishes(l, m, u) \/ Ends(l, m, u)
    PROVE  ShareNothing(m) /\ HaveHomes(m)
<1>1. CASE Finishes(l, m, u)
  <2>1. /\ m[u] = [l[u] EXCEPT !.stage = "review"]
        /\ \A v \in Units \ {u} : m[v] = l[v]
    BY <1>1 DEF Finishes
  <2>2. /\ m[u].ports = l[u].ports /\ m[u].project = l[u].project /\ m[u].slug = l[u].slug
        /\ m[u].branch = l[u].branch /\ m[u].ready = l[u].ready
    BY <2>1
  <2>3. Living(m) \subseteq Living(l) /\ u \in Living(l)
    BY <1>1, <2>1 DEF Finishes, Living
  <2>4. \A v \in Units : m[v].stage = "open" => l[v].stage = "open"
    BY <1>1, <2>1 DEF Finishes
  <2>5. \A v \in Living(l) : /\ m[v].ports = l[v].ports /\ m[v].project = l[v].project
                             /\ m[v].slug = l[v].slug /\ m[v].branch = l[v].branch
                             /\ m[v].ready = l[v].ready
    BY <2>1, <2>2 DEF Living
  <2>6. ShareNothing(m)
    <3>1. SUFFICES ASSUME NEW v \in Living(m), NEW x \in Living(m), v # x
                   PROVE  /\ m[v].ports \cap m[x].ports = {}
                          /\ m[v].project = m[x].project =>
                                 /\ m[v].slug # m[x].slug
                                 /\ m[v].stage = "open" /\ m[x].stage = "open"
                                        => m[v].branch # m[x].branch
      BY DEF ShareNothing
    <3>2. v \in Living(l) /\ x \in Living(l) /\ v \in Units /\ x \in Units
      BY <2>3, <3>1 DEF Living
    <3> QED
      BY <2>4, <2>5, <3>1, <3>2 DEF ShareNothing
  <2> QED
    BY <2>3, <2>5, <2>6 DEF HaveHomes
<1>2. CASE Ends(l, m, u)
  <2>1. \A v \in Units \ {u} : m[v] = l[v]
    BY <1>2 DEF Ends
  <2>2. Living(m) \subseteq Living(l) \ {u}
    <3>1. m[u].stage = "archived"
      BY <1>2 DEF Ends
    <3> QED
      BY <2>1, <3>1 DEF Living
  <2> QED
    BY <2>1, <2>2 DEF ShareNothing, HaveHomes, Living
<1> QED
  BY <1>1, <1>2

(* Those are the steps of UnitLife, and its promises.                         *)
Lifes == [u \in Units |-> LifeOf(u)]
LEMMA SameLife ==
    /\ Life!NothingIsShared <=> ShareNothing(Lifes)
    /\ Life!HomesAreReady <=> HaveHomes(Lifes)
    /\ Life!Init => ShareNothing(Lifes) /\ HaveHomes(Lifes)
    /\ Life!Next => \E u \in Units : \/ Appears(Lifes, Lifes', u) \/ Finishes(Lifes, Lifes', u)
                                     \/ Ends(Lifes, Lifes', u)
<1>1. Life!NothingIsShared <=> ShareNothing(Lifes)
  BY DEF Life!NothingIsShared, ShareNothing, Life!Lives, Living, Lifes
<1>2. Life!HomesAreReady <=> HaveHomes(Lifes)
  BY DEF Life!HomesAreReady, HaveHomes, Life!Lives, Living, Lifes
<1>3. Life!Init => ShareNothing(Lifes) /\ HaveHomes(Lifes)
  <2>1. Life!Init => \A u \in Units : Lifes[u].stage = "none"
    BY DEF Life!Init, Life!Nothing, Lifes
  <2>2. (\A u \in Units : Lifes[u].stage = "none") => Living(Lifes) = {}
    BY DEF Living
  <2> QED
    BY <2>1, <2>2 DEF ShareNothing, HaveHomes
<1>4. ASSUME NEW u \in Units PROVE Life!Appear(u) => Appears(Lifes, Lifes', u)
  <2>1. Life!Appear(u) => u \notin Living(Lifes)
    BY DEF Life!Appear, Life!Nothing, Living, Lifes
  <2> QED
    BY <2>1 DEF Life!Appear, Appears, Life!Others, Life!Lives, Living, Lifes
<1>5. ASSUME NEW u \in Units
      PROVE  (Life!Finish(u) => Finishes(Lifes, Lifes', u)) /\ (Life!End(u) => Ends(Lifes, Lifes', u))
  BY DEF Life!Finish, Life!End, Finishes, Ends, Lifes
<1> QED
  BY <1>1, <1>2, <1>3, <1>4, <1>5 DEF Life!Next

(* No life of a unit shares anything or loses its home.                       *)
LEMMA LifeHolds == Life!Spec => [](Life!NothingIsShared /\ Life!HomesAreReady)
<1>1. Life!Init => Life!NothingIsShared /\ Life!HomesAreReady
  BY SameLife
<1>2. ASSUME Life!NothingIsShared, Life!HomesAreReady, [Life!Next]_Lifes
      PROVE  Life!NothingIsShared' /\ Life!HomesAreReady'
  <2>1. ShareNothing(Lifes) /\ HaveHomes(Lifes) /\ DOMAIN Lifes = Units
    BY <1>2, SameLife DEF Lifes
  <2>2. ShareNothing(Lifes') /\ HaveHomes(Lifes')
    <3>1. CASE Lifes' = Lifes
      BY <2>1, <3>1
    <3>2. CASE Life!Next
      <4>1. PICK u \in Units : \/ Appears(Lifes, Lifes', u) \/ Finishes(Lifes, Lifes', u)
                               \/ Ends(Lifes, Lifes', u)
        BY <3>2, SameLife
      <4>2. CASE Appears(Lifes, Lifes', u)
        BY <2>1, <4>2, AppearsKeeps
      <4>3. CASE Finishes(Lifes, Lifes', u) \/ Ends(Lifes, Lifes', u)
        BY <2>1, <4>3, EndsKeeps
      <4> QED
        BY <4>1, <4>2, <4>3
    <3> QED
      BY <1>2, <3>1, <3>2
  <2>3. Life!NothingIsShared' <=> ShareNothing(Lifes)'
    BY SameLife, PTL
  <2>4. Life!HomesAreReady' <=> HaveHomes(Lifes)'
    BY SameLife, PTL
  <2> QED
    BY <2>2, <2>3, <2>4
<1> QED
  BY <1>1, <1>2, PTL DEF Life!Spec, Lifes

(* No two units that live hold the same port, name or open branch, whichever *)
(* of create, adopt and place made them and however it was interleaved,      *)
(* killed or taken over (choose_name, allocate, refuse_held_branch).         *)
THEOREM LivingShareNothing == Spec => []Life!NothingIsShared
BY ImplementsLifeHolds, LifeHolds, PTL DEF ImplementsLife

(* A unit that lives has its home and everything the plan put in it, until   *)
(* the unit ends; a worktree two commands had at once is left out (commit_of *)
(* writes the rows last, undo takes back what was not committed).            *)
THEOREM LivingHaveHomes == Spec => []Life!HomesAreReady
BY ImplementsLifeHolds, LifeHolds, PTL DEF ImplementsLife
=============================================================================
