-------------------------- MODULE OccupancyProofs --------------------------
(* Proofs about Occupancy, for any numbers, starts, turns and lineage, and  *)
(* about Removal, for any homes, commits, retention and bounds: who a       *)
(* reclaim is refused over, and what it and the sweep make of a home.       *)
EXTENDS Occupancy, Removal, TLAPS

(***************************************************************************)
(* The inductive invariant.                                                *)
(***************************************************************************)
(* A process that started this one, or that the same process started. *)
StartsOne(t, g, p) == t[g].parent \in Pids /\ t[g].parent \in {p, t[p].parent}

(* What a `nodal run` starts is no stranger. *)
Kindred(t, w, p) == t[w].kin = "wrapper" => t[p].kin # "stranger"

(* What a process is to the unit is told by what started it, by its group   *)
(* and by its identifier: a stranger that was never mistaken has none of    *)
(* the three from the unit, and no recorded number speaks for it.           *)
Fits(t, p, recorded) ==
    /\ t[p].id => t[p].kin # "stranger"
    /\ t[p].parent \in Pids => Runs(t, t[p].parent) /\ Kindred(t, t[p].parent, p)
    /\ t[p].kin = "stranger" => t[p].grp \notin recorded
    /\ p \in recorded => t[p].kin # "stranger"

Lineages ==
    /\ \A p \in Pids : Runs(table, p) => table[p].born \in 1..starts /\ Fits(table, p, Recorded)
    /\ \A g \in Recorded, p \in Pids :
        Runs(table, g) /\ Runs(table, p) /\ StartsOne(table, g, p) => table[p].kin # "stranger"

(* A process that is the one a plan holds is no stranger, nor is what it     *)
(* started: a number given again is given to one that was born later.        *)
HeldIsOurs ==
    \A w \in carried.wrappers :
        /\ w.started_at <= starts
        /\ Runs(table, w.pid) /\ table[w.pid].born = w.started_at
               => \A p \in Pids : w.pid \in {p, table[p].parent} => table[p].kin # "stranger"

(* A process that was read and is still there is what it was. *)
ReadIsSame ==
    step \in {"read", "clear"} =>
        \A p \in Pids :
            /\ running[p].born <= starts
            /\ Runs(table, p) /\ table[p].born = running[p].born
                   => /\ running[p].id => table[p].kin # "stranger"
                      /\ running[p].hidden => table[p].hidden

(* A process that a plan holds and that is still there when its home is      *)
(* judged was there when the table was read.                                 *)
HeldWasRead ==
    step = "read" =>
        \A w \in carried.wrappers :
            Runs(table, w.pid) /\ table[w.pid].born = w.started_at
                => running[w.pid].born = w.started_at

(* The answer: who stood there and is still there is no stranger. *)
ClearOfStrangers ==
    step = "clear" =>
        \A p \in Pids :
            /\ Runs(table, p) /\ table[p].born = running[p].born
            /\ running[p].inside \/ running[p].writes
            => table[p].kin # "stranger" \/ p \in Spared

(* What the journal carries has the `nodal run` of every group that ran. *)
TendedIsCarried == tended \subseteq carried.wrappers

IInv ==
    /\ OccupancyTypeOK /\ Lineages /\ HeldIsOurs /\ ReadIsSame /\ HeldWasRead /\ ClearOfStrangers
    /\ TendedIsCarried

(***************************************************************************)
(* Type correctness.                                                       *)
(***************************************************************************)
(* A number of the host that wears nothing wears this (Free). *)
LEMMA FreeTypes == Free \in Processes /\ Free.kin = "nobody" /\ Free.born = 0 /\ Free.parent = None
BY DEF Free, Processes

(* The processes a number is given to are processes. *)
LEMMA NewTypes ==
    ASSUME NEW t \in Tables, NEW n \in Pids, NEW v \in Processes
    PROVE  [t EXCEPT ![n] = v] \in Tables
BY DEF Tables

(* What is left of a table when some of its processes end is a table. *)
LEMMA OrphanedTypes ==
    ASSUME NEW t \in Tables, NEW gone \in SUBSET Pids
    PROVE  Orphaned(t, gone) \in Tables
<1> SUFFICES ASSUME NEW p \in Pids
             PROVE  (IF p \in gone THEN Free
                     ELSE IF t[p].parent \in gone THEN [t[p] EXCEPT !.parent = First] ELSE t[p])
                        \in Processes
  BY DEF Orphaned, Tables
<1>1. t[p] \in Processes
  BY DEF Tables
<1>2. [t[p] EXCEPT !.parent = First] \in Processes
  BY <1>1 DEF Processes
<1> QED
  BY <1>1, <1>2, FreeTypes

Kins == {"nobody", "stranger", "mistaken", "wrapper", "git", "child"}

(* A stranger that is mistaken for one of the unit. *)
Marked(q) == [q EXCEPT !.kin = "mistaken"]

(* All but what it is to the unit stays of a process that is mistaken. *)
LEMMA MistakenFields ==
    ASSUME NEW s \in Tables, NEW t, NEW q \in Pids,
           \A p \in Pids : \/ t[p] = s[p]
                           \/ t[p] = Marked(s[p]) /\ s[p].kin = "stranger"
    PROVE  /\ t[q].born = s[q].born /\ t[q].grp = s[q].grp /\ t[q].id = s[q].id
           /\ t[q].hidden = s[q].hidden /\ t[q].parent = s[q].parent
           /\ t[q].kin = s[q].kin \/ (t[q].kin = "mistaken" /\ s[q].kin = "stranger")
<1>1. s[q] \in Processes
  BY DEF Tables
<1>2. CASE t[q] = s[q]
  BY <1>2
<1>3. CASE t[q] = Marked(s[q]) /\ s[q].kin = "stranger"
  BY <1>1, <1>3 DEF Processes, Marked
<1> QED
  BY <1>2, <1>3

(* What a recorded number speaks for stays a process, and all but what it is *)
(* to the unit stays as it was.                                              *)
LEMMA MistakenAt ==
    ASSUME NEW t \in Tables, NEW p \in Pids
    PROVE  /\ Mistaken(t, p) \in Tables
           /\ \A q \in Pids :
                  /\ \/ Mistaken(t, p)[q] = t[q]
                     \/ /\ Mistaken(t, p)[q] = Marked(t[q])
                        /\ t[q].kin = "stranger"
                  /\ p \in {q, t[q].parent} => Mistaken(t, p)[q].kin # "stranger"
<1> SUFFICES ASSUME NEW q \in Pids
             PROVE  /\ Mistaken(t, p)[q] \in Processes
                    /\ \/ Mistaken(t, p)[q] = t[q]
                       \/ /\ Mistaken(t, p)[q] = Marked(t[q])
                          /\ t[q].kin = "stranger"
                    /\ p \in {q, t[q].parent} => Mistaken(t, p)[q].kin # "stranger"
  BY DEF Mistaken, Tables
<1>1. t[q] \in Processes
  BY DEF Tables
<1>2. Mistaken(t, p)[q] = IF t[q].kin = "stranger" /\ p \in {q, t[q].parent}
                          THEN Marked(t[q]) ELSE t[q]
  BY DEF Mistaken, Marked
<1>3. Marked(t[q]) \in Processes /\ Marked(t[q]).kin = "mistaken"
  BY <1>1 DEF Processes, Marked
<1> QED
  BY <1>1, <1>2, <1>3

(* A reading of a table is a table. *)
LEMMA ReadTypes ==
    ASSUME NEW t \in Tables PROVE Read(t) \in Tables
<1> SUFFICES ASSUME NEW p \in Pids
             PROVE  (IF t[p].hidden
                     THEN [t[p] EXCEPT !.inside = FALSE, !.writes = FALSE, !.id = FALSE]
                     ELSE t[p]) \in Processes
  BY DEF Read, Tables
<1>1. t[p] \in Processes
  BY DEF Tables
<1>2. [t[p] EXCEPT !.inside = FALSE, !.writes = FALSE, !.id = FALSE] \in Processes
  BY <1>1 DEF Processes
<1> QED
  BY <1>1, <1>2

(* The wrappers of recorded groups are processes of the host. *)
LEMMA WrapperTypes ==
    ASSUME table \in Tables, NEW groups \in SUBSET Pids
    PROVE  Wrappers(groups) \in SUBSET Holding
<1> SUFFICES ASSUME NEW g \in groups, Runs(table, g), ParentOf(g) \in Pids
             PROVE  [pid |-> ParentOf(g), started_at |-> StartedAt(ParentOf(g))] \in Holding
  BY DEF Wrappers
<1>1. table[ParentOf(g)] \in Processes
  BY DEF Tables
<1>2. StartedAt(ParentOf(g)) \in Nat
  BY <1>1 DEF StartedAt, Processes
<1> QED
  BY <1>2 DEF Holding

LEMMA TendedTypes == ASSUME table \in Tables PROVE Tended \in SUBSET Holding
<1> SUFFICES ASSUME NEW w \in Pids PROVE [pid |-> w, started_at |-> table[w].born] \in Holding
  BY DEF Tended
<1>1. table[w] \in Processes
  BY DEF Tables
<1> QED
  BY <1>1 DEF Holding, Processes

(* What is started has a type, a number and a kin of its own (Born). *)
LEMMA BornTypes ==
    ASSUME table \in Tables, starts \in Nat, NEW p \in Pids, NEW n \in Pids, NEW leads \in BOOLEAN,
           NEW keeps \in BOOLEAN
    PROVE  LET v == Born(p, n, leads, keeps) IN
           /\ v \in Processes
           /\ v.parent = p /\ v.born = starts + 1 /\ v.kin = Given(n, table[p].kin)
           /\ v.grp = (IF leads THEN n ELSE table[p].grp) /\ (v.id => table[p].id)
<1> DEFINE g == IF leads THEN n ELSE table[p].grp
           i == table[p].id /\ keeps
           k == Given(n, table[p].kin)
<1>1. table[p] \in Processes
  BY DEF Tables
<1>2. g \in Pids \cup {None} /\ i \in BOOLEAN /\ starts + 1 \in Nat
  BY <1>1 DEF Processes
<1>3. k \in Kins
  BY <1>1 DEF Processes, Given, Kins
<1>4. Born(p, n, leads, keeps) =
          [table[p] EXCEPT !.parent = p, !.grp = g, !.writes = FALSE, !.id = i, !.born = starts + 1,
                           !.kin = k]
  BY DEF Born
<1>5. i => table[p].id
  OBVIOUS
<1> HIDE DEF g, i, k
<1>6. Born(p, n, leads, keeps) \in Processes
  BY <1>1, <1>2, <1>3, <1>4 DEF Processes, Kins
<1>7. LET v == Born(p, n, leads, keeps) IN
      v.parent = p /\ v.grp = g /\ v.id = i /\ v.born = starts + 1 /\ v.kin = k
  BY <1>1, <1>2, <1>3, <1>4 DEF Processes
<1> QED
  BY <1>5, <1>6, <1>7 DEF g, k

(* The initial states have the types declared for them. *)
LEMMA InitTypes == OccupancyInit => OccupancyTypeOK
<1> SUFFICES ASSUME OccupancyInit PROVE OccupancyTypeOK
  OBVIOUS
<1>1. Empty \in Tables
  BY FreeTypes DEF Empty, Tables
<1>2. NothingCarried \in [groups : SUBSET Pids, wrappers : SUBSET Holding]
  BY DEF NothingCarried
<1> QED
  BY <1>1, <1>2 DEF OccupancyInit, OccupancyTypeOK

(* Every step of a process or of the reclaim keeps the types. *)
LEMMA StepTypes == OccupancyTypeOK /\ [OccupancyNext]_occupancy => OccupancyTypeOK'
<1> SUFFICES ASSUME OccupancyTypeOK, [OccupancyNext]_occupancy PROVE OccupancyTypeOK'
  OBVIOUS
<1> USE OccupancyAssumption DEF world, reclaim
<1>t. /\ table \in Tables /\ turns \in Nat /\ \A p \in Pids : table[p] \in Processes
      /\ starts \in Nat /\ starts + 1 \in Nat /\ starts + 2 \in Nat
  BY DEF OccupancyTypeOK, Tables
<1>1. ASSUME NEW n \in Pids, NEW inside \in BOOLEAN, Open(n, inside) PROVE OccupancyTypeOK'
  <2>1. [Free EXCEPT !.parent = First, !.grp = n, !.inside = inside, !.kin = Given(n, "stranger"),
                     !.born = starts + 1] \in Processes
    BY <1>t, FreeTypes DEF Processes, Given
  <2>2. table' \in Tables
    BY <1>1, <1>t, <2>1, NewTypes DEF Open
  <2> QED
    BY <1>1, <2>2 DEF Open, OccupancyTypeOK
<1>2. ASSUME NEW w \in Pids, NEW n \in Pids, StartRun(w, n) PROVE OccupancyTypeOK'
  <2>1. [Free EXCEPT !.parent = First, !.grp = w, !.inside = TRUE, !.kin = "wrapper",
                     !.born = starts + 1] \in Processes
    BY <1>t, FreeTypes DEF Processes
  <2>2. [Free EXCEPT !.parent = w, !.grp = n, !.inside = TRUE, !.id = TRUE, !.kin = "child",
                     !.born = starts + 2] \in Processes
    BY <1>t, FreeTypes DEF Processes
  <2>3. table' \in Tables
    BY <1>2, <1>t, <2>1, <2>2 DEF StartRun, Tables
  <2> QED
    BY <1>2, <2>3 DEF StartRun, OccupancyTypeOK
<1>3. ASSUME NEW p \in Pids, NEW n \in Pids, NEW leads \in BOOLEAN, NEW keeps \in BOOLEAN,
             Fork(p, n, leads, keeps)
      PROVE  OccupancyTypeOK'
  <2>1. Born(p, n, leads, keeps) \in Processes
    BY <1>t, BornTypes
  <2>2. Mistaken(table, p) \in Tables
    BY <1>t, MistakenAt
  <2>3. table' \in Tables
    BY <1>3, <1>t, <2>1, <2>2, NewTypes DEF Fork
  <2> QED
    BY <1>3, <2>3 DEF Fork, OccupancyTypeOK
<1>11. ASSUME NEW w \in Pids, NEW n \in Pids, RecordRun(w, n) PROVE OccupancyTypeOK'
  <2>1. [Free EXCEPT !.parent = w, !.grp = table[w].grp, !.inside = TRUE, !.hidden = table[w].hidden,
                     !.kin = "git", !.born = starts + 1] \in Processes
    BY <1>t, FreeTypes DEF Processes
  <2>2. table' \in Tables
    BY <1>11, <1>t, <2>1, NewTypes DEF RecordRun, Held
  <2> QED
    BY <1>11, <2>2 DEF RecordRun, Held, OccupancyTypeOK
<1>4. ASSUME NEW p \in Pids, End(p) PROVE OccupancyTypeOK'
  <2>1. table' \in Tables
    BY <1>4, <1>t, OrphanedTypes DEF End, Held
  <2> QED
    BY <1>4, <2>1 DEF End, Held, OccupancyTypeOK
<1>5. ASSUME NEW p \in Pids, ChangeDirectory(p) \/ Write(p) \/ Sudo(p) PROVE OccupancyTypeOK'
  <2>1. /\ [table[p] EXCEPT !.inside = ~@] \in Processes
        /\ [table[p] EXCEPT !.writes = ~@] \in Processes
        /\ [table[p] EXCEPT !.hidden = TRUE] \in Processes
    BY <1>t DEF Processes
  <2>2. table' \in Tables
    BY <1>5, <1>t, <2>1 DEF ChangeDirectory, Write, Sudo, Tables
  <2> QED
    BY <1>5, <2>2 DEF ChangeDirectory, Write, Sudo, Turn, OccupancyTypeOK
<1>6. ASSUME NEW c \in Pids \cup {None}, NEW forced \in BOOLEAN, NEW unread \in BOOLEAN,
             Plan(c, forced, unread)
      PROVE  OccupancyTypeOK'
  <2>1. Wrappers(tethers) \in SUBSET Holding
    BY <1>t, WrapperTypes DEF OccupancyTypeOK
  <2>2. carried' \in [groups : SUBSET Pids, wrappers : SUBSET Holding]
    BY <1>6, <2>1 DEF Plan, OccupancyTypeOK
  <2>3. tended' \in SUBSET Holding
    BY <1>6, <1>t, TendedTypes DEF Plan, OccupancyTypeOK
  <2> QED
    BY <1>6, <2>2, <2>3 DEF Plan, OccupancyTypeOK
<1>7. ASSUME Teardown PROVE OccupancyTypeOK'
  <2>1. table' \in Tables
    BY <1>7, <1>t, OrphanedTypes DEF Teardown
  <2> QED
    BY <1>7, <2>1 DEF Teardown, OccupancyTypeOK
<1>8. ASSUME NEW unread \in BOOLEAN, Scan(unread) PROVE OccupancyTypeOK'
  <2>1. Read(table) \in Tables
    BY <1>t, ReadTypes
  <2> QED
    BY <1>8, <2>1 DEF Scan, OccupancyTypeOK
<1>9. ASSUME Forced \/ Refuse \/ MoveHome PROVE OccupancyTypeOK'
  BY <1>9 DEF Forced, Refuse, MoveHome, Standing, WithheldIn, OccupancyTypeOK
<1>10. ASSUME UNCHANGED occupancy PROVE OccupancyTypeOK'
  BY <1>10 DEF occupancy, OccupancyTypeOK
<1> QED
  BY <1>1, <1>2, <1>3, <1>4, <1>5, <1>6, <1>7, <1>8, <1>9, <1>10, <1>11 DEF OccupancyNext

(***************************************************************************)
(* What the steps of the machine leave of the processes.                   *)
(***************************************************************************)
(* A process that was born runs. *)
LEMMA BornRuns ==
    ASSUME NEW t, NEW p, t[p].born # 0 PROVE Runs(t, p)
BY FreeTypes DEF Runs

(* Who runs after an end is who ran and has not ended, with another parent   *)
(* at most.                                                                  *)
LEMMA OrphanedAt ==
    ASSUME NEW t \in Tables, NEW gone \in SUBSET Pids, NEW p \in Pids,
           Runs(Orphaned(t, gone), p)
    PROVE  /\ p \notin gone /\ Runs(t, p)
           /\ LET q == Orphaned(t, gone)[p] IN
              /\ q.kin = t[p].kin /\ q.born = t[p].born /\ q.grp = t[p].grp /\ q.id = t[p].id
              /\ q.hidden = t[p].hidden
              /\ t[p].parent \in gone => q.parent = First
              /\ t[p].parent \notin gone => q.parent = t[p].parent
<1>1. Orphaned(t, gone)[p] = IF p \in gone THEN Free
                             ELSE IF t[p].parent \in gone THEN [t[p] EXCEPT !.parent = First]
                             ELSE t[p]
  BY DEF Orphaned
<1>2. p \notin gone
  BY <1>1 DEF Runs
<1>3. t[p] \in Processes
  BY DEF Tables
<1>4. Runs(t, p)
  <2>1. SUFFICES ASSUME t[p] = Free PROVE FALSE
    BY DEF Runs
  <2>2. t[p].parent \notin gone
    BY <2>1, FreeTypes, OccupancyAssumption
  <2> QED
    BY <1>1, <1>2, <2>1, <2>2 DEF Runs
<1>5. CASE t[p].parent \in gone
  <2>1. Orphaned(t, gone)[p] = [t[p] EXCEPT !.parent = First]
    BY <1>1, <1>2, <1>5
  <2> QED
    BY <1>2, <1>3, <1>4, <1>5, <2>1 DEF Processes
<1>6. CASE t[p].parent \notin gone
  BY <1>1, <1>2, <1>4, <1>6
<1> QED
  BY <1>5, <1>6

(* A process is the one it was, or it was born in this step, and then of a   *)
(* stranger only as a stranger.                                              *)
Continued ==
    /\ starts' \in Nat /\ starts <= starts'
    /\ \A p \in Pids : Runs(table', p) =>
           \/ /\ Runs(table, p) /\ table'[p].born = table[p].born
              /\ table'[p].kin = "stranger" => table[p].kin = "stranger"
              /\ table[p].hidden => table'[p].hidden
              /\ table'[p].parent \in {table[p].parent, First}
           \/ /\ table'[p].born > starts
              /\ table'[p].kin = "stranger" /\ table'[p].parent \in Pids =>
                     Runs(table, table'[p].parent) /\ table[table'[p].parent].kin = "stranger"

(* A process is still who it was, and its parent runs or is the first one. *)
Stayed(p) ==
    /\ Runs(table, p) /\ table'[p].born = table[p].born /\ table'[p].kin = table[p].kin
    /\ table'[p].grp = table[p].grp /\ table'[p].id = table[p].id
    /\ table[p].hidden => table'[p].hidden
    /\ table'[p].parent \in {table[p].parent, First}
    /\ table'[p].parent \in Pids => Runs(table', table'[p].parent)

(* Processes that only stay who they were keep the lineages. *)
LEMMA StayKeepsLineages ==
    ASSUME OccupancyTypeOK, Lineages, starts' = starts, Recorded' \subseteq Recorded,
           \A p \in Pids : Runs(table', p) => Stayed(p)
    PROVE  Lineages' /\ Continued
<1>t. starts \in Nat /\ tethers \subseteq Pids /\ carried.groups \subseteq Pids
  BY DEF OccupancyTypeOK
<1>1. Continued
  BY <1>t DEF Continued, Stayed
<1>2. ASSUME NEW p \in Pids, Runs(table', p)
      PROVE  table'[p].born \in 1..starts' /\ Fits(table', p, Recorded')
  <2>1. Stayed(p) /\ table[p].born \in 1..starts /\ Fits(table, p, Recorded)
    BY <1>2 DEF Stayed, Lineages
  <2>2. ASSUME table'[p].parent \in Pids PROVE Kindred(table', table'[p].parent, p)
    <3>1. table'[p].parent = table[p].parent /\ Stayed(table[p].parent)
      BY <2>1, <2>2, OccupancyAssumption DEF Stayed
    <3> QED
      BY <2>1, <2>2, <3>1 DEF Stayed, Fits, Kindred
  <2> QED
    BY <2>1, <2>2 DEF Stayed, Fits
<1>3. ASSUME NEW g \in Recorded', NEW p \in Pids, Runs(table', g), Runs(table', p), StartsOne(table', g, p)
      PROVE  table'[p].kin # "stranger"
  <2>1. g \in Pids /\ g \in Recorded /\ Stayed(g) /\ Stayed(p)
    BY <1>t, <1>3 DEF Recorded
  <2>2. StartsOne(table, g, p)
    BY <1>3, <2>1, OccupancyAssumption DEF StartsOne, Stayed
  <2>3. table[p].kin # "stranger"
    BY <2>1, <2>2 DEF Lineages, Stayed
  <2> QED
    BY <2>1, <2>3 DEF Stayed
<1> QED
  BY <1>1, <1>2, <1>3 DEF Lineages

(* When some processes end, those that are left are who they were, and their *)
(* parents are left too or are the first process.                            *)
LEMMA EndsKeepLineages ==
    ASSUME OccupancyTypeOK, Lineages, NEW gone \in SUBSET Pids, table' = Orphaned(table, gone),
           starts' = starts, Recorded' \subseteq Recorded
    PROVE  Lineages' /\ Continued
<1>t. table \in Tables /\ starts \in Nat /\ \A p \in Pids : table[p] \in Processes
  BY DEF OccupancyTypeOK, Tables
<1>1. ASSUME NEW p \in Pids, Runs(table', p)
      PROVE  Stayed(p)
  <2>1. /\ Runs(table, p) /\ p \notin gone
        /\ table'[p].kin = table[p].kin /\ table'[p].born = table[p].born
        /\ table'[p].grp = table[p].grp /\ table'[p].id = table[p].id
        /\ table[p].hidden => table'[p].hidden
        /\ table[p].parent \in gone => table'[p].parent = First
        /\ table[p].parent \notin gone => table'[p].parent = table[p].parent
    BY <1>t, <1>1, OrphanedAt
  <2>2. ASSUME table'[p].parent \in Pids
        PROVE  Runs(table', table'[p].parent)
    <3> DEFINE q == table[p].parent
    <3>1. q \in Pids /\ q \notin gone /\ table'[p].parent = q
      BY <2>1, <2>2, OccupancyAssumption
    <3>2. Runs(table, q)
      BY <2>1, <3>1 DEF Lineages, Fits
    <3>3. table'[q] = IF table[q].parent \in gone THEN [table[q] EXCEPT !.parent = First]
                      ELSE table[q]
      BY <3>1 DEF Orphaned
    <3>4. table[q].born \in 1..starts
      BY <3>1, <3>2 DEF Lineages
    <3>5. table'[q].born = table[q].born
      BY <1>t, <3>1, <3>3 DEF Processes
    <3> QED
      BY <1>t, <3>1, <3>4, <3>5, BornRuns
  <2> QED
    BY <2>1, <2>2 DEF Stayed
<1> QED
  BY <1>1, StayKeepsLineages

(* A process that is given a number keeps the lineages: it is a stranger     *)
(* only of strangers and in no recorded group, and nobody whom a recorded    *)
(* number now speaks for is one.                                             *)
LEMMA ArrivalKeepsLineages ==
    ASSUME OccupancyTypeOK, Lineages, NEW n \in Pids, NEW v \in Processes, NEW t \in Tables,
           Unworn(table, n),
           \A q \in Pids : \/ t[q] = table[q]
                           \/ t[q] = Marked(table[q]) /\ table[q].kin = "stranger",
           table' = [t EXCEPT ![n] = v], starts' = starts + 1, v.born = starts + 1,
           Recorded' \subseteq Recorded,
           v.id => v.kin # "stranger",
           v.kin = "stranger" => n \notin Recorded /\ v.grp \notin Recorded,
           v.parent = First \/ (v.parent \in Pids /\ Runs(table, v.parent)
                                   /\ (v.kin = "stranger" => t[v.parent].kin = "stranger")),
           n \in Recorded /\ v.parent \in Pids =>
               \A q \in Pids : v.parent \in {q, t[q].parent} => t[q].kin # "stranger"
    PROVE  Lineages' /\ Continued
<1>t. /\ table \in Tables /\ starts \in Nat /\ \A q \in Pids : table[q] \in Processes
      /\ tethers \subseteq Pids /\ carried.groups \subseteq Pids
  BY DEF OccupancyTypeOK, Tables
<1>1. table'[n] = v /\ \A q \in Pids \ {n} : table'[q] = t[q]
  BY <1>t DEF Tables
<1>2. ~Runs(table, n)
  BY DEF Unworn
<1>3. \A q \in Pids : /\ t[q].born = table[q].born /\ t[q].grp = table[q].grp /\ t[q].id = table[q].id
                      /\ t[q].hidden = table[q].hidden /\ t[q].parent = table[q].parent
                      /\ t[q].kin = "stranger" => table[q].kin = "stranger"
                      /\ table[q].kin # "stranger" => t[q].kin = table[q].kin
  <2>1. ASSUME NEW q \in Pids
        PROVE  /\ t[q].born = table[q].born /\ t[q].grp = table[q].grp /\ t[q].id = table[q].id
               /\ t[q].hidden = table[q].hidden /\ t[q].parent = table[q].parent
               /\ t[q].kin = table[q].kin \/ (t[q].kin = "mistaken" /\ table[q].kin = "stranger")
    BY <1>t, MistakenFields
  <2> QED
    BY <2>1
<1>m. \A q \in Pids : t[q].kin = table[q].kin \/ t[q].kin = "mistaken"
  BY <1>t, MistakenFields
<1>4. ASSUME NEW q \in Pids, q # n, Runs(table', q)
      PROVE  Runs(table, q) /\ table'[q] = t[q]
  <2>1. table'[q] = t[q]
    BY <1>1, <1>4
  <2>2. t[q] = table[q] \/ table[q].kin = "stranger"
    OBVIOUS
  <2> QED
    BY <1>4, <2>1, <2>2, FreeTypes DEF Runs
<1>5. ASSUME NEW q \in Pids, Runs(table, q) PROVE q # n /\ Runs(table', q)
  <2>1. q # n
    BY <1>2, <1>5
  <2>2. table[q].born \in 1..starts
    BY <1>5 DEF Lineages
  <2>3. table'[q].born # 0
    BY <1>1, <1>3, <1>t, <2>1, <2>2
  <2> QED
    BY <2>1, <2>3, BornRuns
<1>6. \A q \in Pids : Runs(table, q) /\ table[q].parent \in Pids => table[q].parent # n
  BY <1>2 DEF Lineages, Fits
<1>7. Continued
  <2>1. starts' \in Nat /\ starts <= starts' /\ starts + 1 > starts
    BY <1>t
  <2>2. ASSUME NEW q \in Pids, Runs(table', q), q # n
        PROVE  /\ Runs(table, q) /\ table'[q].born = table[q].born
               /\ table'[q].kin = "stranger" => table[q].kin = "stranger"
               /\ table[q].hidden => table'[q].hidden
               /\ table'[q].parent = table[q].parent
    BY <1>3, <1>4, <2>2
  <2>3. /\ table'[n].born > starts
        /\ table'[n].kin = "stranger" /\ table'[n].parent \in Pids =>
               Runs(table, table'[n].parent) /\ table[table'[n].parent].kin = "stranger"
    BY <1>1, <1>3, <2>1, OccupancyAssumption
  <2> QED
    BY <2>1, <2>2, <2>3 DEF Continued
<1>8. ASSUME NEW q \in Pids, Runs(table', q)
      PROVE  table'[q].born \in 1..starts' /\ Fits(table', q, Recorded')
  <2>1. CASE q = n
    <3>1. v.parent \in Pids => Runs(table', v.parent) /\ Kindred(table', v.parent, q)
      BY <1>1, <1>5, <2>1, OccupancyAssumption DEF Kindred
    <3>2. starts + 1 \in 1..(starts + 1)
      BY <1>t
    <3> QED
      BY <1>1, <2>1, <3>1, <3>2 DEF Fits
  <2>2. CASE q # n
    <3>1. Runs(table, q) /\ table'[q] = t[q]
      BY <1>4, <1>8, <2>2
    <3>2. table[q].born \in 1..(starts + 1)
      BY <1>t, <3>1 DEF Lineages
    <3>3. Fits(table, q, Recorded)
      BY <3>1 DEF Lineages
    <3>4. ASSUME table[q].parent \in Pids
          PROVE  Runs(table', table[q].parent) /\ Kindred(table', table[q].parent, q)
      <4>1. Runs(table, table[q].parent) /\ Kindred(table, table[q].parent, q)
        BY <3>3, <3>4 DEF Fits
      <4>2. Runs(table', table[q].parent) /\ table[q].parent # n
        BY <1>5, <3>4, <4>1
      <4>3. table'[table[q].parent] = t[table[q].parent]
        BY <1>1, <3>4, <4>2
      <4>4. t[table[q].parent].kin = "wrapper" => table[table[q].parent].kin = "wrapper"
        BY <1>3, <1>m, <3>4
      <4> QED
        BY <1>3, <3>1, <4>1, <4>2, <4>3, <4>4 DEF Kindred
    <3> QED
      BY <1>3, <3>1, <3>2, <3>3, <3>4 DEF Fits
  <2> QED
    BY <2>1, <2>2
<1>9. ASSUME NEW g \in Recorded', NEW p \in Pids, Runs(table', g), Runs(table', p), StartsOne(table', g, p)
      PROVE  table'[p].kin # "stranger"
  <2>1. g \in Pids /\ g \in Recorded
    BY <1>t, <1>9 DEF Recorded
  <2>2. CASE g = n
    <3>1. v.parent \in Pids /\ v.parent \in {p, table'[p].parent}
      BY <1>1, <1>9, <2>2 DEF StartsOne
    <3>2. CASE p = n
      BY <1>1, <1>9, <2>2, <3>2
    <3>3. CASE p # n
      BY <1>1, <1>9, <2>2, <3>1, <3>3
    <3> QED
      BY <3>2, <3>3
  <2>3. CASE g # n
    <3>1. Runs(table, g) /\ table'[g].parent = table[g].parent /\ table[g].parent \in Pids
      BY <1>3, <1>4, <1>9, <2>1, <2>3 DEF StartsOne
    <3>2. Runs(table, table[g].parent) /\ table[table[g].parent].kin # "stranger"
      BY <2>1, <3>1 DEF Lineages, Fits, StartsOne
    <3>3. CASE p = n
      <4>1. table[g].parent = v.parent
        BY <1>1, <1>2, <1>9, <3>1, <3>2, <3>3 DEF StartsOne
      <4> QED
        BY <1>1, <1>3, <3>1, <3>2, <3>3, <4>1, OccupancyAssumption
    <3>4. CASE p # n
      <4>1. Runs(table, p) /\ table'[p] = t[p]
        BY <1>4, <1>9, <3>4
      <4>2. StartsOne(table, g, p)
        BY <1>3, <1>9, <3>1, <4>1 DEF StartsOne
      <4>3. table[p].kin # "stranger"
        BY <1>9, <3>1, <4>1, <4>2 DEF Lineages
      <4> QED
        BY <1>3, <4>1, <4>3
    <3> QED
      BY <3>3, <3>4
  <2> QED
    BY <2>2, <2>3
<1> QED
  BY <1>7, <1>8, <1>9 DEF Lineages

(* A process that changes where it is, what it writes or whose it is stays   *)
(* who it is.                                                                *)
LEMMA TurnKeepsLineages ==
    ASSUME OccupancyTypeOK, Lineages, NEW p \in Pids, NEW v \in Processes, Runs(table, p),
           table' = [table EXCEPT ![p] = v], starts' = starts, Recorded' = Recorded,
           v.kin = table[p].kin, v.born = table[p].born, v.grp = table[p].grp,
           v.id = table[p].id, v.parent = table[p].parent, table[p].hidden => v.hidden
    PROVE  Lineages' /\ Continued
<1>t. table \in Tables /\ starts \in Nat
  BY DEF OccupancyTypeOK
<1>1. table'[p] = v /\ \A q \in Pids \ {p} : table'[q] = table[q]
  BY <1>t DEF Tables
<1>2. table[p].born # 0
  BY <1>t DEF Lineages
<1>3. \A q \in Pids : Runs(table', q) <=> Runs(table, q)
  BY <1>1, <1>2, BornRuns DEF Runs
<1>4. ASSUME NEW q \in Pids, Runs(table', q) PROVE Stayed(q)
  <2>1. Runs(table, q)
    BY <1>3, <1>4
  <2>2. /\ table'[q].kin = table[q].kin /\ table'[q].born = table[q].born
        /\ table'[q].grp = table[q].grp /\ table'[q].id = table[q].id
        /\ table'[q].parent = table[q].parent /\ table[q].hidden => table'[q].hidden
    <3>1. CASE q = p
      BY <1>1, <3>1
    <3>2. CASE q # p
      BY <1>1, <3>2
    <3> QED
      BY <3>1, <3>2
  <2>3. table[q].parent \in Pids => Runs(table', table[q].parent)
    BY <1>3, <2>1 DEF Lineages, Fits
  <2> QED
    BY <2>1, <2>2, <2>3 DEF Stayed
<1> QED
  BY <1>4, StayKeepsLineages

(***************************************************************************)
(* The invariant.                                                          *)
(***************************************************************************)
(* Whatever the machine does, what the plan and the reading hold stays true  *)
(* of the processes that are still there.                                    *)
LEMMA ContinuedKeepsOurs ==
    ASSUME OccupancyTypeOK, Continued, HeldIsOurs, carried' = carried
    PROVE  HeldIsOurs'
<1>t. starts \in Nat /\ starts' \in Nat /\ starts <= starts' /\ carried.wrappers \subseteq Holding
  BY DEF OccupancyTypeOK, Continued
<1>w. ASSUME NEW w \in carried.wrappers, Runs(table', w.pid), table'[w.pid].born = w.started_at
      PROVE  /\ w.pid \in Pids /\ Runs(table, w.pid) /\ table[w.pid].born = w.started_at
             /\ table'[w.pid].kin = "stranger" => table[w.pid].kin = "stranger"
  <2>1. w.pid \in Pids /\ w.started_at \in Nat /\ w.started_at <= starts
    BY <1>t DEF HeldIsOurs, Holding
  <2>2. ~(table'[w.pid].born > starts)
    BY <1>t, <1>w, <2>1
  <2> QED
    BY <1>w, <2>1, <2>2 DEF Continued
<1>1. HeldIsOurs'
  <2>1. SUFFICES ASSUME NEW w \in carried.wrappers
                 PROVE  /\ w.started_at <= starts'
                        /\ Runs(table', w.pid) /\ table'[w.pid].born = w.started_at
                               => \A p \in Pids : w.pid \in {p, table'[p].parent} =>
                                                      table'[p].kin # "stranger"
    BY DEF HeldIsOurs
  <2>2. w.pid \in Pids /\ w.started_at \in Nat /\ w.started_at <= starts
    BY <1>t DEF HeldIsOurs, Holding
  <2>3. ASSUME Runs(table', w.pid), table'[w.pid].born = w.started_at,
               NEW p \in Pids, w.pid \in {p, table'[p].parent}, table'[p].kin = "stranger"
        PROVE  FALSE
    <3>1. /\ Runs(table, w.pid) /\ table[w.pid].born = w.started_at
          /\ table'[w.pid].kin = "stranger" => table[w.pid].kin = "stranger"
      BY <1>w, <2>3
    <3>2. \A q \in Pids : w.pid \in {q, table[q].parent} => table[q].kin # "stranger"
      BY <3>1 DEF HeldIsOurs
    <3>3. CASE p = w.pid
      BY <2>2, <2>3, <3>1, <3>2, <3>3
    <3>4. CASE p # w.pid
      <4>1. table'[p].parent = w.pid
        BY <2>3, <3>4
      <4>2. Runs(table', p)
        BY <2>3, FreeTypes DEF Runs
      <4>3. table[w.pid].kin # "stranger"
        BY <2>2, <3>2
      <4>4. table[p].kin = "stranger" /\ table[p].parent = w.pid
        BY <2>2, <2>3, <4>1, <4>2, <4>3, OccupancyAssumption DEF Continued
      <4> QED
        BY <3>2, <4>4
    <3> QED
      BY <3>3, <3>4
  <2> QED
    BY <1>t, <2>2, <2>3
<1> QED
  BY <1>1

LEMMA ContinuedKeepsHeld ==
    ASSUME OccupancyTypeOK, Continued, HeldIsOurs, HeldWasRead, UNCHANGED <<step, carried, running>>
    PROVE  HeldIsOurs' /\ HeldWasRead'
<1>t. starts \in Nat /\ starts' \in Nat /\ starts <= starts' /\ carried.wrappers \subseteq Holding
  BY DEF OccupancyTypeOK, Continued
<1>w. ASSUME NEW w \in carried.wrappers, Runs(table', w.pid), table'[w.pid].born = w.started_at
      PROVE  /\ w.pid \in Pids /\ Runs(table, w.pid) /\ table[w.pid].born = w.started_at
             /\ table'[w.pid].kin = "stranger" => table[w.pid].kin = "stranger"
  <2>1. w.pid \in Pids /\ w.started_at \in Nat /\ w.started_at <= starts
    BY <1>t DEF HeldIsOurs, Holding
  <2>2. ~(table'[w.pid].born > starts)
    BY <1>t, <1>w, <2>1
  <2> QED
    BY <1>w, <2>1, <2>2 DEF Continued
<1>1. HeldIsOurs'
  BY ContinuedKeepsOurs
<1>2. HeldWasRead'
  <2>1. SUFFICES ASSUME step = "read", NEW w \in carried.wrappers, Runs(table', w.pid),
                        table'[w.pid].born = w.started_at
                 PROVE  running[w.pid].born = w.started_at
    BY DEF HeldWasRead
  <2> QED
    BY <1>w, <2>1 DEF HeldWasRead
<1> QED
  BY <1>1, <1>2

LEMMA ContinuedKeepsReadings ==
    ASSUME OccupancyTypeOK, Continued, ReadIsSame, ClearOfStrangers, UNCHANGED reclaim
    PROVE  ReadIsSame' /\ ClearOfStrangers'
<1>t. /\ table \in Tables /\ starts \in Nat /\ starts' \in Nat /\ starts <= starts'
      /\ running \in Tables /\ step' = step /\ running' = running /\ caller' = caller
  BY DEF OccupancyTypeOK, Continued, reclaim
<1>n. \A p \in Pids : running[p].born \in Nat
  BY <1>t DEF Tables, Processes
<1>1. ASSUME NEW p \in Pids, running[p].born <= starts, Runs(table', p),
             table'[p].born = running[p].born
      PROVE  /\ Runs(table, p) /\ table[p].born = running[p].born
             /\ table'[p].kin = "stranger" => table[p].kin = "stranger"
             /\ table[p].hidden => table'[p].hidden
  <2>1. ~(table'[p].born > starts)
    BY <1>t, <1>n, <1>1
  <2> QED
    BY <1>1, <2>1 DEF Continued
<1>2. ReadIsSame'
  <2>1. SUFFICES ASSUME step \in {"read", "clear"}, NEW p \in Pids
                 PROVE  /\ running[p].born <= starts'
                        /\ Runs(table', p) /\ table'[p].born = running[p].born
                               => /\ running[p].id => table'[p].kin # "stranger"
                                  /\ running[p].hidden => table'[p].hidden
    BY <1>t DEF ReadIsSame
  <2>2. /\ running[p].born <= starts
        /\ Runs(table, p) /\ table[p].born = running[p].born
               => /\ running[p].id => table[p].kin # "stranger"
                  /\ running[p].hidden => table[p].hidden
    BY <2>1 DEF ReadIsSame
  <2>3. running[p].born <= starts'
    BY <1>t, <1>n, <2>2
  <2> QED
    BY <1>1, <2>2, <2>3
<1>3. ClearOfStrangers'
  <2>1. SUFFICES ASSUME step = "clear", NEW p \in Pids,
                        Runs(table', p), table'[p].born = running[p].born,
                        running[p].inside \/ running[p].writes
                 PROVE  table'[p].kin # "stranger" \/ p \in Spared
    BY <1>t DEF ClearOfStrangers, Spared
  <2>2. running[p].born <= starts
    BY <2>1 DEF ReadIsSame
  <2>3. /\ Runs(table, p) /\ table[p].born = running[p].born
        /\ table'[p].kin = "stranger" => table[p].kin = "stranger"
    BY <1>1, <2>1, <2>2
  <2> QED
    BY <2>1, <2>3 DEF ClearOfStrangers
<1> QED
  BY <1>2, <1>3

(* A stranger is vouched for by no recorded group: it is in none, it started *)
(* none, and neither it nor what started it is a wrapper the plan holds.     *)
LEMMA NoStrangerIsVouched ==
    ASSUME OccupancyTypeOK, Lineages, HeldIsOurs, NEW p \in Pids, Runs(table, p),
           table[p].kin = "stranger"
    PROVE  ~Vouched(p)
<1>t. table \in Tables /\ carried.wrappers \subseteq Holding /\ carried.groups \subseteq Pids
  BY DEF OccupancyTypeOK
<1>1. table[p].grp \notin carried.groups
  BY DEF Lineages, Fits, Recorded
<1>2. ASSUME NEW g \in carried.groups, table[g].parent = p PROVE FALSE
  <2>1. Runs(table, g)
    BY <1>2, FreeTypes, OccupancyAssumption DEF Runs
  <2>2. StartsOne(table, g, p) /\ g \in Recorded
    BY <1>2 DEF StartsOne, Recorded
  <2> QED
    BY <2>1, <2>2 DEF Lineages
<1>3. ASSUME NEW w \in carried.wrappers, IsStill(p, w) PROVE FALSE
  BY <1>3 DEF IsStill, StartedAt, HeldIsOurs
<1>4. ASSUME NEW w \in carried.wrappers, IsStill(ParentOf(p), w) PROVE FALSE
  BY <1>4 DEF IsStill, StartedAt, ParentOf, HeldIsOurs
<1> QED
  BY <1>1, <1>2, <1>3, <1>4 DEF Vouched, GroupOf, ParentOf

(* The initial states: nothing runs and nothing is held. *)
LEMMA InitInv == OccupancyInit => IInv
<1> SUFFICES ASSUME OccupancyInit PROVE IInv
  OBVIOUS
<1>1. OccupancyTypeOK
  BY InitTypes
<1>2. Recorded = {} /\ tended = {} /\ carried.wrappers = {} /\ step = "idle"
  BY DEF OccupancyInit, NothingCarried, Recorded
<1>3. \A p \in Pids : ~Runs(table, p)
  BY DEF OccupancyInit, Empty, Runs
<1> QED
  BY <1>1, <1>2, <1>3 DEF IInv, Lineages, HeldIsOurs, ReadIsSame, HeldWasRead, ClearOfStrangers, TendedIsCarried

(* Each step of a process keeps the invariant. *)
LEMMA MachineStep ==
    ASSUME IInv, OccupancyTypeOK', UNCHANGED reclaim, Lineages' /\ Continued
    PROVE  IInv'
BY ContinuedKeepsHeld, ContinuedKeepsReadings DEF IInv, TendedIsCarried, reclaim

(* Every step keeps the invariant. *)
LEMMA StepInv == IInv /\ [OccupancyNext]_occupancy => IInv'
<1> SUFFICES ASSUME IInv, [OccupancyNext]_occupancy PROVE IInv'
  OBVIOUS
<1>i. /\ OccupancyTypeOK /\ Lineages /\ HeldIsOurs /\ ReadIsSame /\ HeldWasRead /\ ClearOfStrangers
      /\ TendedIsCarried
  BY DEF IInv
<1>p. OccupancyTypeOK'
  BY <1>i, StepTypes
<1>t. /\ table \in Tables /\ starts \in Nat /\ starts + 1 \in Nat /\ starts + 2 \in Nat
      /\ tethers \subseteq Pids /\ \A p \in Pids : table[p] \in Processes
      /\ running \in Tables /\ \A p \in Pids : running[p].born \in Nat
  BY <1>i DEF OccupancyTypeOK, Tables, Processes
<1> USE OccupancyAssumption
<1>1. ASSUME NEW n \in Pids, NEW inside \in BOOLEAN, Open(n, inside) PROVE IInv'
  <2> DEFINE v == [Free EXCEPT !.parent = First, !.grp = n, !.inside = inside,
                               !.kin = Given(n, "stranger"), !.born = starts + 1]
  <2>1. v \in Processes /\ v.parent = First /\ v.grp = n /\ ~v.id /\ v.born = starts + 1
    BY <1>t, FreeTypes DEF Free, Processes, Given
  <2>2. v.kin = "stranger" => n \notin Recorded
    BY DEF Free, Given
  <2>3. /\ Unworn(table, n) /\ table' = [table EXCEPT ![n] = v] /\ starts' = starts + 1
        /\ Recorded' = Recorded /\ UNCHANGED reclaim
    BY <1>1 DEF Open, Recorded, reclaim
  <2> HIDE DEF v
  <2>4. Lineages' /\ Continued
    BY <1>i, <1>t, <2>1, <2>2, <2>3, ArrivalKeepsLineages
  <2> QED
    BY <1>p, <2>3, <2>4, MachineStep
<1>2. ASSUME NEW w \in Pids, NEW n \in Pids, StartRun(w, n) PROVE IInv'
  <2> DEFINE v == [Free EXCEPT !.parent = First, !.grp = w, !.inside = TRUE, !.kin = "wrapper",
                               !.born = starts + 1]
             c == [Free EXCEPT !.parent = w, !.grp = n, !.inside = TRUE, !.id = TRUE,
                               !.kin = "child", !.born = starts + 2]
  <2>1. /\ v.parent = First /\ ~v.id /\ v.kin = "wrapper" /\ v.born = starts + 1
        /\ c.parent = w /\ c.kin = "child" /\ c.born = starts + 2
    BY DEF Free
  <2>2. /\ w # n /\ Unworn(table, w) /\ Unworn(table, n) /\ starts' = starts + 2
        /\ table' = [table EXCEPT ![w] = v, ![n] = c]
        /\ Recorded' = Recorded \cup {n} /\ UNCHANGED reclaim
    BY <1>2 DEF StartRun, Recorded, reclaim
  <2>3. /\ ~Runs(table, w) /\ ~Runs(table, n) /\ \A p \in Pids : table[p].grp # n
    BY <2>2 DEF Unworn
  <2> HIDE DEF v, c
  <2>4. /\ table'[w] = v /\ table'[n] = c
        /\ \A p \in Pids \ {w, n} : table'[p] = table[p]
    BY <1>t, <2>2 DEF Tables
  <2>5. v.born # 0 /\ c.born # 0
    BY <1>t, <2>1
  <2>6. Runs(table', w) /\ Runs(table', n)
    BY <2>4, <2>5, BornRuns
  <2>7. Continued
    <3>1. starts' \in Nat /\ starts <= starts' /\ starts + 1 > starts /\ starts + 2 > starts
      BY <1>t, <2>2
    <3> QED
      BY <2>1, <2>4, <3>1 DEF Continued, Runs
  <2>a. ASSUME NEW p \in Pids, p \notin {w, n}, Runs(table', p)
        PROVE  Runs(table, p) /\ table'[p] = table[p]
    BY <2>4, <2>a DEF Runs
  <2>b. ASSUME NEW p \in Pids, Runs(table, p), table[p].parent \in Pids
        PROVE  table[p].parent \notin {w, n} /\ Runs(table, table[p].parent)
    BY <1>i, <2>3, <2>b DEF Lineages, Fits
  <2>8. ASSUME NEW p \in Pids, Runs(table', p)
        PROVE  table'[p].born \in 1..starts' /\ Fits(table', p, Recorded')
    <3>1. CASE p = w
      <4>1. starts + 1 \in 1..(starts + 2)
        BY <1>t
      <4> QED
        BY <2>1, <2>2, <2>4, <3>1, <4>1 DEF Fits
    <3>2. CASE p = n
      <4>1. starts + 2 \in 1..(starts + 2)
        BY <1>t
      <4> QED
        BY <2>1, <2>2, <2>4, <2>6, <3>2, <4>1 DEF Fits, Kindred
    <3>3. CASE p \notin {w, n}
      <4>1. Runs(table, p) /\ table'[p] = table[p]
        BY <2>a, <2>8, <3>3
      <4>2. table[p].born \in 1..(starts + 2) /\ Fits(table, p, Recorded)
        BY <1>i, <1>t, <4>1 DEF Lineages
      <4>3. ASSUME table[p].parent \in Pids
            PROVE  Runs(table', table[p].parent) /\ Kindred(table', table[p].parent, p)
        <5>1. table'[table[p].parent] = table[table[p].parent]
          BY <2>4, <2>b, <4>1, <4>3
        <5> QED
          BY <2>b, <4>1, <4>2, <4>3, <5>1 DEF Runs, Fits, Kindred
      <4>4. table[p].kin = "stranger" => table[p].grp \notin Recorded'
        BY <2>2, <2>3, <4>2 DEF Fits
      <4>5. /\ table[p].id => table[p].kin # "stranger"
            /\ p \in Recorded' => table[p].kin # "stranger"
        BY <2>2, <3>3, <4>2 DEF Fits
      <4> QED
        BY <2>2, <4>1, <4>2, <4>3, <4>4, <4>5 DEF Fits
    <3> QED
      BY <3>1, <3>2, <3>3
  <2>c. ASSUME NEW g \in Recorded', NEW p \in Pids, Runs(table', g), Runs(table', p), StartsOne(table', g, p)
        PROVE  table'[p].kin # "stranger"
    <3>1. CASE p \in {w, n}
      BY <2>1, <2>4, <3>1
    <3>2. CASE p \notin {w, n}
      <4>1. Runs(table, p) /\ table'[p] = table[p]
        BY <2>a, <2>c, <3>2
      <4>2. table[p].parent \notin {w, n}
        BY <2>b, <4>1
      <4>3. g \in Pids /\ (g = n \/ g \in Recorded)
        BY <1>i, <2>2, <2>c DEF Recorded, OccupancyTypeOK
      <4>4. g \notin {w, n}
        <5>1. g # n
          BY <2>1, <2>4, <2>c, <3>2, <4>1, <4>2 DEF StartsOne
        <5>2. g # w
          BY <2>1, <2>4, <2>c DEF StartsOne
        <5> QED
          BY <5>1, <5>2
      <4>5. Runs(table, g) /\ table'[g] = table[g]
        BY <2>a, <2>c, <4>3, <4>4
      <4>6. StartsOne(table, g, p)
        BY <2>c, <4>1, <4>5 DEF StartsOne
      <4> QED
        BY <1>i, <4>1, <4>3, <4>4, <4>5, <4>6 DEF Lineages
    <3> QED
      BY <3>1, <3>2
  <2>9. Lineages'
    BY <2>8, <2>c DEF Lineages
  <2> QED
    BY <1>i, <1>p, <2>2, <2>7, <2>9, MachineStep
<1>3. ASSUME NEW p \in Pids, NEW n \in Pids, NEW leads \in BOOLEAN, NEW keeps \in BOOLEAN,
             Fork(p, n, leads, keeps)
      PROVE  IInv'
  <2>v. PICK v : v = Born(p, n, leads, keeps)
    OBVIOUS
  <2>m. PICK t : t = IF n \in Recorded THEN Mistaken(table, p) ELSE table
    OBVIOUS
  <2>1. /\ v \in Processes
        /\ v.parent = p /\ v.born = starts + 1 /\ v.kin = Given(n, table[p].kin)
        /\ v.grp = (IF leads THEN n ELSE table[p].grp) /\ (v.id => table[p].id)
    BY <1>t, <2>v, BornTypes
  <2>2. /\ t \in Tables
        /\ \A q \in Pids :
               t[q] = table[q] \/ (t[q] = Marked(table[q]) /\ table[q].kin = "stranger")
        /\ n \in Recorded => \A q \in Pids : p \in {q, table[q].parent} => t[q].kin # "stranger"
        /\ n \notin Recorded => t = table
    <3>1. CASE n \in Recorded
      <4>1. t = Mistaken(table, p)
        BY <2>m, <3>1
      <4>2. /\ t \in Tables
            /\ \A q \in Pids :
                   /\ \/ t[q] = table[q]
                      \/ t[q] = Marked(table[q]) /\ table[q].kin = "stranger"
                   /\ p \in {q, table[q].parent} => t[q].kin # "stranger"
        BY <1>t, <4>1, MistakenAt
      <4> QED
        BY <3>1, <4>2
    <3>2. CASE n \notin Recorded
      BY <1>t, <2>m, <3>2
    <3> QED
      BY <3>1, <3>2
  <2>3. /\ Runs(table, p) /\ Unworn(table, n) /\ table' = [t EXCEPT ![n] = v]
        /\ starts' = starts + 1 /\ Recorded' = Recorded /\ UNCHANGED reclaim
    BY <1>3, <2>v, <2>m DEF Fork, Recorded, reclaim
  <2>4. v.kin = "stranger" => table[p].kin = "stranger" /\ n \notin Recorded
    BY <2>1 DEF Given
  <2>5. v.kin = "stranger" => n \notin Recorded /\ v.grp \notin Recorded
    BY <1>i, <2>1, <2>3, <2>4 DEF Lineages, Fits
  <2>6. v.id => v.kin # "stranger"
    BY <1>i, <2>1, <2>3, <2>4 DEF Lineages, Fits
  <2>7. v.kin = "stranger" => t[v.parent].kin = "stranger"
    BY <2>1, <2>2, <2>4
  <2>8. n \in Recorded /\ v.parent \in Pids =>
            \A q \in Pids : v.parent \in {q, t[q].parent} => t[q].kin # "stranger"
    <3>1. ASSUME NEW q \in Pids PROVE t[q].parent = table[q].parent
      BY <1>t, <2>2, MistakenFields
    <3> QED
      BY <2>1, <2>2, <3>1
  <2>9. Lineages' /\ Continued
    BY <1>i, <2>1, <2>2, <2>3, <2>5, <2>6, <2>7, <2>8, ArrivalKeepsLineages
  <2> QED
    BY <1>p, <2>3, <2>9, MachineStep
<1>12. ASSUME NEW w \in Pids, NEW n \in Pids, RecordRun(w, n) PROVE IInv'
  <2>v. PICK v : v = [Free EXCEPT !.parent = w, !.grp = table[w].grp, !.inside = TRUE,
                                  !.hidden = table[w].hidden, !.kin = "git", !.born = starts + 1]
    OBVIOUS
  <2>1. v \in Processes /\ v.parent = w /\ v.kin = "git" /\ v.born = starts + 1
    BY <1>t, <2>v, FreeTypes DEF Processes, Free
  <2>2. /\ table[w].kin = "wrapper" /\ Unworn(table, n) /\ table' = [table EXCEPT ![n] = v]
        /\ starts' = starts + 1 /\ Recorded' \subseteq Recorded /\ UNCHANGED reclaim
    BY <1>12, <2>v DEF RecordRun, Recorded, reclaim, Held
  <2>3. Runs(table, w)
    BY <2>2, FreeTypes DEF Runs
  <2>4. ASSUME NEW q \in Pids, w \in {q, table[q].parent} PROVE table[q].kin # "stranger"
    <3>1. CASE q = w
      BY <2>2, <3>1
    <3>2. CASE table[q].parent = w /\ Runs(table, q)
      BY <1>i, <2>2, <3>2 DEF Lineages, Fits, Kindred
    <3>3. CASE ~Runs(table, q)
      BY <3>3, FreeTypes DEF Runs
    <3> QED
      BY <2>4, <3>1, <3>2, <3>3
  <2>5. Lineages' /\ Continued
    BY <1>i, <1>t, <2>1, <2>2, <2>3, <2>4, ArrivalKeepsLineages
  <2> QED
    BY <1>p, <2>2, <2>5, MachineStep
<1>4. ASSUME NEW p \in Pids, End(p) PROVE IInv'
  <2>1. /\ table' = Orphaned(table, {p}) /\ starts' = starts /\ UNCHANGED reclaim
        /\ Recorded' \subseteq Recorded
    BY <1>4 DEF End, Recorded, reclaim, Held
  <2>2. Lineages' /\ Continued
    BY <1>i, <2>1, EndsKeepLineages
  <2> QED
    BY <1>p, <2>1, <2>2, MachineStep
<1>5. ASSUME NEW p \in Pids, ChangeDirectory(p) \/ Write(p) \/ Sudo(p) PROVE IInv'
  <2>1. PICK v \in Processes :
            /\ table' = [table EXCEPT ![p] = v]
            /\ v.kin = table[p].kin /\ v.born = table[p].born /\ v.grp = table[p].grp
            /\ v.id = table[p].id /\ v.parent = table[p].parent
            /\ table[p].hidden => v.hidden
    <3>1. CASE ChangeDirectory(p)
      <4>1. table' = [table EXCEPT ![p] = [table[p] EXCEPT !.inside = ~@]]
        BY <3>1 DEF ChangeDirectory
      <4>2. /\ [table[p] EXCEPT !.inside = ~@] \in Processes
            /\ LET v == [table[p] EXCEPT !.inside = ~@] IN
               /\ v.kin = table[p].kin /\ v.born = table[p].born /\ v.grp = table[p].grp
               /\ v.id = table[p].id /\ v.parent = table[p].parent
               /\ table[p].hidden => v.hidden
        BY <1>t DEF Processes
      <4> QED
        BY <4>1, <4>2
    <3>2. CASE Write(p)
      <4>1. table' = [table EXCEPT ![p] = [table[p] EXCEPT !.writes = ~@]]
        BY <3>2 DEF Write
      <4>2. /\ [table[p] EXCEPT !.writes = ~@] \in Processes
            /\ LET v == [table[p] EXCEPT !.writes = ~@] IN
               /\ v.kin = table[p].kin /\ v.born = table[p].born /\ v.grp = table[p].grp
               /\ v.id = table[p].id /\ v.parent = table[p].parent
               /\ table[p].hidden => v.hidden
        BY <1>t DEF Processes
      <4> QED
        BY <4>1, <4>2
    <3>3. CASE Sudo(p)
      <4>1. PICK v : v = [table[p] EXCEPT !.hidden = TRUE]
        OBVIOUS
      <4>2. table' = [table EXCEPT ![p] = v]
        BY <1>t, <3>3, <4>1 DEF Sudo, Tables
      <4>3. /\ v \in Processes
            /\ v.kin = table[p].kin /\ v.born = table[p].born /\ v.grp = table[p].grp
            /\ v.id = table[p].id /\ v.parent = table[p].parent /\ v.hidden
        BY <1>t, <4>1 DEF Processes
      <4> QED
        BY <4>2, <4>3
    <3> QED
      BY <1>5, <3>1, <3>2, <3>3
  <2>2. /\ Runs(table, p) /\ starts' = starts /\ Recorded' = Recorded /\ UNCHANGED reclaim
    BY <1>5 DEF ChangeDirectory, Write, Sudo, Turn, Recorded, reclaim
  <2>3. Lineages' /\ Continued
    BY <1>i, <2>1, <2>2, TurnKeepsLineages
  <2> QED
    BY <1>p, <2>2, <2>3, MachineStep
<1>6. ASSUME NEW c \in Pids \cup {None}, NEW forced \in BOOLEAN, NEW unread \in BOOLEAN,
             Plan(c, forced, unread)
      PROVE  IInv'
  <2>1. /\ UNCHANGED world /\ step' \in {"refused", "planned"}
        /\ \/ carried' = carried /\ tended' = tended
           \/ carried' = [groups |-> tethers, wrappers |-> Wrappers(tethers)] /\ tended' = Tended
    BY <1>6 DEF Plan
  <2>2. Recorded' \subseteq Recorded /\ table' = table /\ starts' = starts
    BY <2>1 DEF Recorded, world
  <2>3. Lineages'
    BY <1>i, <2>2 DEF Lineages, Fits, Kindred, StartsOne, Runs
  <2>4. HeldIsOurs'
    <3>1. CASE carried' = carried
      BY <1>i, <2>2, <3>1 DEF HeldIsOurs, Runs
    <3>2. CASE carried' = [groups |-> tethers, wrappers |-> Wrappers(tethers)]
      <4>1. SUFFICES ASSUME NEW w \in Wrappers(tethers)
                     PROVE  /\ w.started_at <= starts
                            /\ \A p \in Pids : w.pid \in {p, table[p].parent} =>
                                                   table[p].kin # "stranger"
        BY <2>2, <3>2 DEF HeldIsOurs
      <4>2. PICK g \in tethers : /\ Runs(table, g) /\ table[g].parent \in Pids
                                 /\ w.pid = table[g].parent
                                 /\ w.started_at = table[table[g].parent].born
        BY DEF Wrappers, ParentOf, StartedAt
      <4>3. g \in Pids /\ g \in Recorded /\ Runs(table, w.pid) /\ table[w.pid].born \in 1..starts
        BY <1>i, <1>t, <4>2 DEF Lineages, Fits, Recorded
      <4>4. ASSUME NEW p \in Pids, w.pid \in {p, table[p].parent} PROVE table[p].kin # "stranger"
        <5>1. CASE Runs(table, p)
          BY <1>i, <4>2, <4>3, <4>4, <5>1 DEF Lineages, StartsOne
        <5>2. CASE ~Runs(table, p)
          BY <5>2, FreeTypes DEF Runs
        <5> QED
          BY <5>1, <5>2
      <4> QED
        BY <1>t, <4>2, <4>3, <4>4
    <3> QED
      BY <2>1, <3>1, <3>2
  <2>5. TendedIsCarried'
    <3>1. ASSUME NEW g \in tethers, NEW w \in Pids, table[g].parent = w, table[w].kin = "wrapper"
          PROVE  [pid |-> table[g].parent, started_at |-> table[table[g].parent].born] \in Wrappers(tethers)
      <4>1. Runs(table, g)
        BY <3>1, FreeTypes, OccupancyAssumption DEF Runs
      <4> QED
        BY <3>1, <4>1 DEF Wrappers, ParentOf, StartedAt
    <3>2. Tended \subseteq Wrappers(tethers)
      BY <3>1 DEF Tended
    <3> QED
      BY <1>i, <2>1, <3>2 DEF TendedIsCarried
  <2> QED
    BY <1>p, <2>1, <2>3, <2>4, <2>5 DEF IInv, ReadIsSame, HeldWasRead, ClearOfStrangers
<1>7. ASSUME Teardown PROVE IInv'
  <2>1. PICK ended \in SUBSET Pids : table' = Orphaned(table, ended)
    BY <1>7 DEF Teardown
  <2>2. /\ starts' = starts /\ Recorded' = Recorded /\ carried' = carried /\ step' = "stopped"
        /\ tended' = tended
    BY <1>7 DEF Teardown, Recorded
  <2>3. Lineages' /\ Continued
    BY <1>i, <2>1, <2>2, EndsKeepLineages
  <2>4. HeldIsOurs'
    BY <1>i, <1>t, <2>2, <2>3, ContinuedKeepsOurs
  <2> QED
    BY <1>i, <1>p, <2>2, <2>3, <2>4 DEF IInv, ReadIsSame, HeldWasRead, ClearOfStrangers, TendedIsCarried
<1>8. ASSUME NEW unread \in BOOLEAN, Scan(unread) PROVE IInv'
  <2>1. /\ table' = table /\ starts' = starts /\ carried' = carried /\ Recorded' = Recorded
        /\ step' = "refused" \/ (step' = "read" /\ running' = Read(table))
        /\ tended' = tended
    BY <1>8 DEF Scan, Recorded, world
  <2>2. Lineages' /\ HeldIsOurs'
    BY <1>i, <2>1 DEF Lineages, Fits, Kindred, StartsOne, HeldIsOurs, Runs
  <2>3. ReadIsSame'
    <3>1. CASE step' = "refused"
      BY <3>1 DEF ReadIsSame
    <3>2. CASE running' = Read(table)
      <4>1. ASSUME NEW p \in Pids
            PROVE  /\ running'[p].born = table[p].born /\ (running'[p].id => table[p].id)
                   /\ running'[p].hidden => table[p].hidden
        <5>1. running'[p] = IF table[p].hidden
                            THEN [table[p] EXCEPT !.inside = FALSE, !.writes = FALSE,
                                                  !.id = FALSE]
                            ELSE table[p]
          BY <3>2 DEF Read
        <5> QED
          BY <1>t, <5>1 DEF Processes
      <4>2. ASSUME NEW p \in Pids
            PROVE  table[p].born <= starts /\ (table[p].id => table[p].kin # "stranger")
        <5>1. CASE Runs(table, p)
          BY <1>i, <1>t, <5>1 DEF Lineages, Fits
        <5>2. CASE ~Runs(table, p)
          BY <1>t, <5>2, FreeTypes DEF Runs
        <5> QED
          BY <5>1, <5>2
      <4> QED
        BY <2>1, <4>1, <4>2 DEF ReadIsSame, Runs
    <3> QED
      BY <2>1, <3>1, <3>2
  <2>4. HeldWasRead'
    <3>1. SUFFICES ASSUME step' = "read", running' = Read(table), NEW w \in carried.wrappers,
                          table[w.pid].born = w.started_at
                   PROVE  running'[w.pid].born = w.started_at
      BY <2>1 DEF HeldWasRead, Runs
    <3>2. w.pid \in Pids
      BY <1>i DEF OccupancyTypeOK, Holding
    <3>3. running'[w.pid] = IF table[w.pid].hidden
                            THEN [table[w.pid] EXCEPT !.inside = FALSE, !.writes = FALSE,
                                                      !.id = FALSE]
                            ELSE table[w.pid]
      BY <3>1, <3>2 DEF Read
    <3> QED
      BY <1>t, <3>1, <3>2, <3>3 DEF Processes
  <2> QED
    BY <1>i, <1>p, <2>1, <2>2, <2>3, <2>4 DEF IInv, ClearOfStrangers, TendedIsCarried
<1>9. ASSUME Refuse PROVE IInv'
  <2>1. /\ step = "read" /\ table' = table /\ starts' = starts /\ carried' = carried
        /\ running' = running /\ caller' = caller /\ Recorded' = Recorded
        /\ step' = "refused" \/ (step' = "clear" /\ Standing = {})
        /\ tended' = tended
    BY <1>9 DEF Refuse, Recorded, world
  <2>2. Lineages' /\ HeldIsOurs' /\ ReadIsSame'
    BY <1>i, <2>1 DEF Lineages, Fits, Kindred, StartsOne, HeldIsOurs, ReadIsSame, Runs
  <2>3. ClearOfStrangers'
    <3>1. SUFFICES ASSUME Standing = {}, NEW p \in Pids, Runs(table, p),
                          table[p].born = running[p].born,
                          running[p].inside \/ running[p].writes,
                          table[p].kin = "stranger", p \notin Spared
                   PROVE  FALSE
      BY <2>1 DEF ClearOfStrangers, Runs, Spared
    <3>2. table[p].born \in 1..starts /\ running[p].born # 0
      BY <1>i, <1>t, <3>1 DEF Lineages
    <3>3. Runs(running, p)
      BY <3>2, BornRuns
    <3>4. ~Owns(p)
      BY <1>i, <2>1, <3>1 DEF Owns, ReadIsSame
    <3>5. ~Vouched(p)
      BY <1>i, <3>1, NoStrangerIsVouched
    <3>6. Bystander(p) /\ ~HasEnded(p)
      BY <3>1, <3>4, <3>5 DEF Bystander, InOneOf, HeldInside, HasEnded
    <3> QED
      BY <3>1, <3>3, <3>6 DEF Standing
  <2> QED
    BY <1>i, <1>p, <2>1, <2>2, <2>3 DEF IInv, HeldWasRead, TendedIsCarried
<1>10. ASSUME Forced \/ MoveHome PROVE IInv'
  <2>1. UNCHANGED world /\ carried' = carried /\ tended' = tended /\ running' = running /\ step' = "gone"
    BY <1>10 DEF Forced, MoveHome
  <2>2. table' = table /\ starts' = starts /\ Recorded' = Recorded
    BY <2>1 DEF world, Recorded
  <2> QED
    BY <1>i, <1>p, <2>1, <2>2
    DEF IInv, Lineages, Fits, Kindred, StartsOne, HeldIsOurs, ReadIsSame, HeldWasRead, ClearOfStrangers, Runs,
        TendedIsCarried
<1>11. ASSUME UNCHANGED occupancy PROVE IInv'
  BY <1>i, <1>p, <1>11
  DEF occupancy, world, reclaim, IInv, Lineages, Fits, Kindred, StartsOne, HeldIsOurs, ReadIsSame,
      HeldWasRead, ClearOfStrangers, Runs, Recorded, Spared, TendedIsCarried
<1> QED
  BY <1>1, <1>2, <1>3, <1>4, <1>5, <1>6, <1>7, <1>8, <1>9, <1>10, <1>11, <1>12 DEF OccupancyNext

(***************************************************************************)
(* Theorems.                                                               *)
(***************************************************************************)
(* What is known of the processes and of the reading holds in every          *)
(* reachable state (Plan, Scan, Refuse and whatever runs meanwhile).         *)
THEOREM InvariantHolds == OccupancySpec => []IInv
BY InitInv, StepInv, PTL DEF OccupancySpec

(* The variables keep their types. *)
THEOREM OccupancyTypesHold == OccupancySpec => []OccupancyTypeOK
<1>1. IInv => OccupancyTypeOK
  BY DEF IInv
<1> QED
  BY <1>1, InvariantHolds, PTL

(* No home is moved from under a stranger who stood in it when the table was *)
(* read and stands there still, for any number of processes, whatever starts,*)
(* ends or is given a number again between any two steps (move_tree, sort,   *)
(* vouched_for_by_a_group, is_still), but for those a recorded number speaks *)
(* for because it was given again.                                           *)
THEOREM MovedUnderNobodyHolds == OccupancySpec => MovedUnderNobody
<1>1. IInv /\ [OccupancyNext]_occupancy =>
          [MoveHome => \A p \in Pids :
              /\ Runs(table, p) /\ table[p].born = running[p].born
              /\ ~table[p].hidden /\ ~running[p].hidden
              /\ table[p].inside \/ table[p].writes
              /\ running[p].inside \/ running[p].writes
              => table[p].kin # "stranger" \/ p \in Spared]_occupancy
  BY DEF IInv, ClearOfStrangers, MoveHome
<1> QED
  BY <1>1, InvariantHolds, PTL DEF OccupancySpec, MovedUnderNobody

(* A refusal is what names processes, and nothing follows it. *)
NamedByRefusal == step # "refused" => named = {}

LEMMA NamedByRefusalHolds == OccupancySpec => []NamedByRefusal
<1>1. OccupancyInit => NamedByRefusal
  BY DEF OccupancyInit, NamedByRefusal
<1>2. NamedByRefusal /\ [OccupancyNext]_occupancy => NamedByRefusal'
  BY DEF NamedByRefusal, OccupancyNext, occupancy, world, reclaim, Open, StartRun, Fork, End, ChangeDirectory,
         Write, Sudo, RecordRun, Turn, Plan, Teardown, Forced, Scan, Refuse, MoveHome
<1> QED
  BY <1>1, <1>2, PTL DEF OccupancySpec

(* The `nodal run` of a group that ran when the plan was made is never what  *)
(* a reclaim is refused over, nor is the git it starts, though its group was *)
(* stopped before the table was judged and its number may have been given    *)
(* again (wrappers_of, vouched_for_by_a_group).                              *)
THEOREM OwnRunNeverBlocksHolds == OccupancySpec => OwnRunNeverBlocks
<1>1. ASSUME IInv, NamedByRefusal, Refuse, NEW p \in named', ~table[p].hidden, NEW q \in Pids,
             \/ q = p
             \/ q = table[p].parent /\ running[p].born = table[p].born,
             [pid |-> q, started_at |-> table[q].born] \in tended
      PROVE  FALSE
  <2> DEFINE w == [pid |-> q, started_at |-> table[q].born]
  <2>1. step = "read" /\ p \in Standing \cup WithheldIn(Standing)
    <3>1. step = "read" /\ named = {}
      BY <1>1 DEF Refuse, NamedByRefusal
    <3> QED
      BY <1>1, <3>1 DEF Refuse
  <2>2. p \in Pids /\ Runs(table, p) /\ Runs(table, q)
    <3>1. p \in Pids /\ Runs(table, p)
      BY <2>1 DEF Standing, WithheldIn, HasEnded
    <3> QED
      BY <1>1, <3>1 DEF IInv, Lineages, Fits
  <2>3. w \in carried.wrappers /\ w.pid = q /\ w.started_at = table[q].born
    BY <1>1 DEF IInv, TendedIsCarried
  <2> HIDE DEF w
  <2>4. CASE p \in Standing
    <3>1. IsStill(q, w)
      BY <2>2, <2>3 DEF IsStill, StartedAt
    <3> QED
      BY <1>1, <2>3, <2>4, <3>1 DEF Standing, Bystander, Vouched, ParentOf
  <2>5. CASE p \in WithheldIn(Standing)
    <3>1. running[p].hidden
      BY <2>5 DEF WithheldIn
    <3>2. running[p].born = table[p].born
      BY <1>1, <2>1, <2>2, <2>3 DEF IInv, HeldWasRead
    <3> QED
      BY <1>1, <2>1, <2>2, <3>1, <3>2 DEF IInv, ReadIsSame
  <2> QED
    BY <2>1, <2>4, <2>5
<1>2. IInv /\ NamedByRefusal /\ [OccupancyNext]_occupancy =>
          [Refuse => \A p \in named' :
              LET w == IF table[p].kin = "git" THEN table[p].parent ELSE p
              IN  ~(/\ \/ table[p].kin = "wrapper"
                       \/ table[p].kin = "git" /\ running[p].born = table[p].born
                    /\ ~table[p].hidden
                    /\ w \in Pids /\ [pid |-> w, started_at |-> table[w].born] \in tended)]_occupancy
  BY <1>1
<1> QED
  BY <1>2, InvariantHolds, NamedByRefusalHolds, PTL DEF OccupancySpec, OwnRunNeverBlocks

-----------------------------------------------------------------------------
(***************************************************************************)
(* Type correctness.                                                       *)
(***************************************************************************)

(* move_tree leaves every home under one of the four names. *)
LEMMA MoveTreeTypes ==
    ASSUME TypeOK, NEW h \in Homes, NEW from,
           NEW to \in {"home", "trash", "removing", "none"}, MoveTree(h, from, to)
    PROVE  tree' \in [Homes -> {"home", "trash", "removing", "none"}]
BY DEF MoveTree, TypeOK

(* A reclaimer past prepare has a plan for one of the homes (reclaim). *)
LEMMA PlanOf ==
    ASSUME TypeOK, NEW r \in Reclaimers, pc[r] # "idle"
    PROVE  /\ plan[r] \in Plans /\ plan[r].home \in Homes
           /\ plan[r].entry \in TrashRows \cup {NoRow}
BY DEF TypeOK, Plans

(* A sweep inside an entry has one of the homes in hand (sweep). *)
LEMMA EntryOf ==
    ASSUME TypeOK, sweep \notin {"idle", "next"}
    PROVE  cur \in Entries /\ cur.home \in Homes
BY DEF TypeOK, Entries

(* The initial states have the types declared for them. *)
LEMMA RemovalInitTypes == Init => TypeOK
<1> SUFFICES ASSUME Init PROVE TypeOK
  OBVIOUS
<1>1. {} \in SUBSET Commits /\ {} \in SUBSET Entries
  OBVIOUS
<1> QED
  BY <1>1, RemovalAssumption DEF Init, TypeOK

(* Every step of a person, a reclaimer or a sweep keeps the types. *)
LEMMA RemovalStepTypes == TypeOK /\ [Next]_vars => TypeOK'
<1> SUFFICES ASSUME TypeOK, [Next]_vars PROVE TypeOK'
  OBVIOUS
<1> USE RemovalAssumption, NothingAssumption
    DEF repo, outside, registry, reclaims, sweeper, ghosts
<1>1. ASSUME NEW h \in Homes, NEW c \in Commits, MakeCommit(h, c) PROVE TypeOK'
  BY <1>1 DEF MakeCommit, TypeOK
<1>2. ASSUME NEW h \in Homes, NEW c \in Commits, CopyOut(h, c) PROVE TypeOK'
  BY <1>2 DEF CopyOut, TypeOK
<1>3. ASSUME NEW h \in Homes, WritePath(h) PROVE TypeOK'
  BY <1>3 DEF WritePath, TypeOK
<1>4. ASSUME NEW h \in Homes, Stand(h) PROVE TypeOK'
  BY <1>4 DEF Stand, TypeOK
<1>5. ASSUME NEW c \in Commits, DropOut(c) PROVE TypeOK'
  BY <1>5 DEF DropOut, TypeOK
<1>6. ASSUME NEW r \in Reclaimers, NEW h \in Homes, Prepare(r, h) PROVE TypeOK'
  <2>1. clock + Retention \in Nat
    BY DEF TypeOK
  <2>2. PICK forced \in BOOLEAN, proven \in SUBSET (checkout \cup beside) :
            plan' = [plan EXCEPT ![r] =
                [home |-> h, force |-> forced,
                 entry |-> IF tree[h] # "home" THEN NoRow
                           ELSE [rested |-> IF Safe(h, proven) THEN "safe" ELSE "forced",
                                 expires |-> clock + Retention]]]
    BY <1>6 DEF Prepare
  <2> DEFINE entry == IF tree[h] # "home" THEN NoRow
                      ELSE [rested |-> IF Safe(h, proven) THEN "safe" ELSE "forced",
                            expires |-> clock + Retention]
  <2>3. entry \in TrashRows \cup {NoRow}
    BY <2>1 DEF TrashRows
  <2>4. [home |-> h, force |-> forced, entry |-> entry] \in Plans
    BY <2>3 DEF Plans
  <2> HIDE DEF entry
  <2>5. plan' \in [Reclaimers -> Plans \cup {NoPlan}] /\ plan'[r] # NoPlan
    BY <2>2, <2>4 DEF TypeOK, entry
  <2> QED
    BY <1>6, <2>2, <2>5 DEF Prepare, TypeOK
<1>7. ASSUME NEW r \in Reclaimers, GiveUp(r) PROVE TypeOK'
  BY <1>7 DEF GiveUp, TypeOK
<1>8. ASSUME NEW r \in Reclaimers, StartMove(r) PROVE TypeOK'
  BY <1>8 DEF StartMove, TypeOK
<1>9. ASSUME NEW r \in Reclaimers, Refused(r) PROVE TypeOK'
  BY <1>9 DEF Refused, TypeOK
<1>10. ASSUME NEW r \in Reclaimers, Move(r) PROVE TypeOK'
  <2>1. tree' \in [Homes -> {"home", "trash", "removing", "none"}]
    BY <1>10, PlanOf, MoveTreeTypes DEF Move, TypeOK
  <2> QED
    BY <1>10, <2>1 DEF Move, TypeOK
<1>11. ASSUME NEW r \in Reclaimers, Commit(r) PROVE TypeOK'
  BY <1>11, PlanOf DEF Commit, TypeOK
<1>12. ASSUME NEW r \in Reclaimers, ReclaimFails(r) PROVE TypeOK'
  BY <1>12 DEF ReclaimFails, TypeOK
<1>13. ASSUME NEW r \in Reclaimers, RollBack(r) PROVE TypeOK'
  <2>1. tree' \in [Homes -> {"home", "trash", "removing", "none"}]
    BY <1>13, PlanOf, MoveTreeTypes DEF RollBack, TypeOK
  <2> QED
    BY <1>13, <2>1 DEF RollBack, TypeOK
<1>13a. ASSUME NEW r \in Reclaimers, RollBackFails(r) PROVE TypeOK'
  BY <1>13a, PlanOf DEF RollBackFails, TypeOK
<1>14. CASE SweepStart
  <2>1. queue' \in SUBSET Entries
    BY <1>14 DEF SweepStart, Expired, TypeOK, TrashRows, Entries
  <2> QED
    BY <1>14, <2>1 DEF SweepStart, TypeOK
<1>15. CASE NextEntry
  BY <1>15 DEF NextEntry, TypeOK
<1>16. CASE SweepEnds
  <2>1. {} \in SUBSET Commits
    OBVIOUS
  <2> QED
    BY <1>16, <2>1 DEF SweepEnds, TypeOK
<1>17. CASE ReadProject
  BY <1>17 DEF ReadProject, TypeOK
<1>18. CASE HoldBack
  BY <1>18 DEF HoldBack, Leave, TypeOK
<1>19. CASE Clear
  BY <1>19, EntryOf DEF Clear, TypeOK
<1>20. CASE Begin
  <2>1. tree' \in [Homes -> {"home", "trash", "removing", "none"}]
    BY <1>20, EntryOf, MoveTreeTypes DEF Begin, MayGo
  <2> QED
    BY <1>20, <2>1 DEF Begin, MayGo, TypeOK
<1>21. CASE RemoveTree
  <2>1. cur.home \in Homes
    BY <1>21, EntryOf DEF RemoveTree
  <2>2. tree' \in [Homes -> {"home", "trash", "removing", "none"}]
    BY <1>21, <2>1, MoveTreeTypes DEF RemoveTree, TypeOK
  <2>3. {} \in SUBSET Commits
    OBVIOUS
  <2>4. work' \in [Homes -> SUBSET Commits] /\ excused' \in [Homes -> SUBSET Commits]
    BY <1>21, <2>1, <2>3 DEF RemoveTree, TypeOK
  <2>5. paths' \in [Homes -> BOOLEAN] /\ standing' \in [Homes -> BOOLEAN]
    BY <1>21, <2>1 DEF RemoveTree, TypeOK
  <2>6. /\ sweep' \in {"idle", "next", "entry", "cleared", "begun", "removed"}
        /\ cur' \in Entries \cup {NoEntry}
        /\ sweep' \notin {"idle", "next"} => cur' # NoEntry
        /\ faults' \in Nat
    BY <1>21 DEF RemoveTree, Leave, TypeOK
  <2> QED
    BY <1>21, <2>2, <2>4, <2>5, <2>6 DEF RemoveTree, TypeOK
<1>22. CASE Forget
  BY <1>22, EntryOf DEF Forget, Leave, TypeOK
<1>23. CASE SweepDies
  <2>1. {} \in SUBSET Commits /\ {} \in SUBSET Entries
    OBVIOUS
  <2> QED
    BY <1>23, <2>1 DEF SweepDies, TypeOK
<1>24. CASE Tick
  BY <1>24 DEF Tick, TypeOK
<1>25. CASE UNCHANGED vars
  BY <1>25 DEF vars, TypeOK
<1>26. CASE BeginFails
  BY <1>26 DEF BeginFails, Leave, TypeOK
<1> QED
  BY <1>1, <1>2, <1>3, <1>4, <1>5, <1>6, <1>7, <1>8, <1>9, <1>10, <1>11, <1>12, <1>13, <1>13a,
     <1>14, <1>15, <1>16, <1>17, <1>18, <1>19, <1>20, <1>21, <1>22, <1>23, <1>24, <1>25,
     <1>26
     DEF Next, Reclaim, Sweep

(* Type correctness of giving a home back, for any number of reclaimers. *)
THEOREM RemovalTypesHold == Spec => []TypeOK
<1>1. Init => TypeOK
  BY RemovalInitTypes
<1>2. TypeOK /\ [Next]_vars => TypeOK'
  BY RemovalStepTypes
<1> QED
  BY <1>1, <1>2, PTL DEF Spec

(***************************************************************************)
(* One reclaim of a home at a time.                                        *)
(***************************************************************************)

Alone == \A r, s \in Reclaimers : r = s

(* What a reclaim that is not over has made of its home. *)
PlanFits ==
    \A r \in Reclaimers : pc[r] # "idle" =>
        LET h == plan[r].home
        IN  /\ env[h] = "live"
            /\ tree[h] \in {"home", "trash"}
            /\ plan[r].entry = NoRow <=> h \in failed
            /\ plan[r].entry # NoRow /\ pc[r] \in {"prepared", "moving"} => tree[h] = "home"
            /\ plan[r].entry # NoRow /\ pc[r] = "moved" => tree[h] = "trash"

(* A home that would not move back stays in the trash, with no row of it. *)
FailedStays == \A h \in failed : tree[h] = "trash" /\ row[h] = NoRow

(* A home that is away from its name while its row is live is a reclaim's. *)
LiveIsReclaimed ==
    \A h \in Homes : env[h] = "live" /\ tree[h] # "home" /\ h \notin failed =>
        \E r \in Reclaimers : pc[r] # "idle" /\ plan[r].home = h

RowIsAbsent == \A h \in Homes : row[h] # NoRow => env[h] = "absent"

AbsentHasRow ==
    \A h \in Homes : env[h] = "absent" /\ tree[h] \in {"trash", "removing"} =>
        row[h] # NoRow \/ h \in failed

(* An entry the sweep holds is still the row it was listed from. *)
Listed(e) == row[e.home] # NoRow /\ row[e.home].rested = e.rested

Lists ==
    /\ \A e \in queue : Listed(e)
    /\ cur # NoEntry => Listed(cur) /\ \A e \in queue : e.home # cur.home
    /\ sweep \in {"idle", "next"} => cur = NoEntry

(* How far the sweep has taken the home in hand. *)
Hand ==
    /\ sweep = "cleared" => tree[cur.home] = "trash" /\ cur.rested # "forced"
    /\ sweep = "begun" => tree[cur.home] \in {"removing", "none"}
    /\ sweep = "removed" => tree[cur.home] = "none"

SeenFits == seen # NoReading => seen \subseteq checkout \cup dropped

Outlives(h) == work[h] \subseteq checkout \cup beside \cup excused[h]

JudgedOutlives ==
    \A h \in Homes :
        \/ tree[h] = "removing" /\ row[h].rested # "forced"
        \/ sweep = "cleared" /\ cur.home = h
        => Outlives(h)

(* The registry against the disk and the reclaims; the sweep's own record;   *)
(* what the removal rests on.                                                *)
Registry ==
    /\ PlanFits /\ FailedStays /\ LiveIsReclaimed
    /\ RowIsAbsent /\ AbsentIsGone /\ AbsentHasRow

SweepFits == Lists /\ Hand

Rests == SeenFits /\ JudgedOutlives

RemovalInv == TypeOK /\ Registry /\ SweepFits /\ Rests

(* A step that moves no home and writes neither the registry nor a plan. *)
LEMMA RegistryFrame ==
    ASSUME Registry, UNCHANGED <<tree, env, row, failed, pc, plan>>
    PROVE  Registry'
BY DEF Registry, PlanFits, FailedStays, LiveIsReclaimed, RowIsAbsent, AbsentIsGone, AbsentHasRow

(* A step that moves no home, writes no row and is not the sweep's. *)
LEMMA SweepFitsFrame ==
    ASSUME SweepFits, UNCHANGED <<tree, row, sweep, queue, cur>>
    PROVE  SweepFits'
BY DEF SweepFits, Lists, Listed, Hand

(* A step that leaves alone every commit, whether in a home or outside. *)
LEMMA RestsFrame ==
    ASSUME Rests,
           UNCHANGED <<tree, row, work, checkout, beside, sweep, cur, seen, dropped, excused>>
    PROVE  Rests'
BY DEF Rests, SeenFits, JudgedOutlives, Outlives

(* With one reclaimer at a time every step keeps the invariant. *)
LEMMA StepRemoval ==
    ASSUME Alone
    PROVE  RemovalInv /\ [Next]_vars => RemovalInv'
<1> SUFFICES ASSUME RemovalInv, [Next]_vars PROVE RemovalInv'
  OBVIOUS
<1> USE DEF repo, outside, registry, reclaims, sweeper, ghosts
<1>t. TypeOK /\ TypeOK'
  BY RemovalStepTypes DEF RemovalInv
<1>i. Registry /\ SweepFits /\ Rests
  BY DEF RemovalInv
<1>1. ASSUME NEW h \in Homes, NEW c \in Commits, MakeCommit(h, c) PROVE RemovalInv'
  <2>1. Registry'
    BY <1>1, <1>i, RegistryFrame DEF MakeCommit
  <2>2. SweepFits'
    BY <1>1, <1>i, SweepFitsFrame DEF MakeCommit
  <2>3. Rests'
    BY <1>1, <1>t, <1>i
       DEF MakeCommit, TypeOK, Judged, Rests, SeenFits, JudgedOutlives, Outlives
  <2> QED
    BY <1>t, <2>1, <2>2, <2>3 DEF RemovalInv
<1>2. ASSUME NEW h \in Homes, NEW c \in Commits, CopyOut(h, c) PROVE RemovalInv'
  <2>1. Registry'
    BY <1>2, <1>i, RegistryFrame DEF CopyOut
  <2>2. SweepFits'
    BY <1>2, <1>i, SweepFitsFrame DEF CopyOut
  <2>3. Rests'
    BY <1>2, <1>t, <1>i
       DEF CopyOut, TypeOK, Rests, SeenFits, JudgedOutlives, Outlives
  <2> QED
    BY <1>t, <2>1, <2>2, <2>3 DEF RemovalInv
<1>3. ASSUME NEW h \in Homes, WritePath(h) PROVE RemovalInv'
  <2>1. Registry'
    BY <1>3, <1>i, RegistryFrame DEF WritePath
  <2>2. SweepFits'
    BY <1>3, <1>i, SweepFitsFrame DEF WritePath
  <2>3. Rests'
    BY <1>3, <1>i, RestsFrame DEF WritePath
  <2> QED
    BY <1>t, <2>1, <2>2, <2>3 DEF RemovalInv
<1>4. ASSUME NEW h \in Homes, Stand(h) PROVE RemovalInv'
  <2>1. Registry'
    BY <1>4, <1>i, RegistryFrame DEF Stand
  <2>2. SweepFits'
    BY <1>4, <1>i, SweepFitsFrame DEF Stand
  <2>3. Rests'
    BY <1>4, <1>i, RestsFrame DEF Stand
  <2> QED
    BY <1>t, <2>1, <2>2, <2>3 DEF RemovalInv
<1>5. ASSUME NEW c \in Commits, DropOut(c) PROVE RemovalInv'
  <2>1. Registry'
    BY <1>5, <1>i, RegistryFrame DEF DropOut
  <2>2. SweepFits'
    BY <1>5, <1>i, SweepFitsFrame DEF DropOut
  <2>3. Rests'
    BY <1>5, <1>t, <1>i
       DEF DropOut, TypeOK, Judged, Rests, SeenFits, JudgedOutlives, Outlives
  <2> QED
    BY <1>t, <2>1, <2>2, <2>3 DEF RemovalInv
<1>6. ASSUME NEW r \in Reclaimers, NEW h \in Homes, Prepare(r, h) PROVE RemovalInv'
  <2>1. env[h] = "live" /\ pc[r] = "idle"
    BY <1>6, <1>t DEF Prepare, TypeOK
  <2>2. IF h \in failed THEN tree[h] = "trash" ELSE tree[h] = "home"
    BY <2>1, <1>i DEF Alone, Registry, FailedStays, LiveIsReclaimed
  <2>3. PICK forced \in BOOLEAN, rested \in {"safe", "forced"} :
            plan' = [plan EXCEPT ![r] =
                [home |-> h, force |-> forced,
                 entry |-> IF tree[h] # "home" THEN NoRow
                           ELSE [rested |-> rested, expires |-> clock + Retention]]]
    BY <1>6 DEF Prepare
  <2>4. clock + Retention \in Nat
    BY <1>t, RemovalAssumption DEF TypeOK
  <2>5. plan'[r].home = h /\ (plan'[r].entry = NoRow <=> h \in failed)
    <3>1. [rested |-> rested, expires |-> clock + Retention] # NoRow
      BY <2>4, NothingAssumption DEF TrashRows
    <3> QED
      BY <1>t, <2>2, <2>3, <3>1 DEF TypeOK
  <2>6. pc'[r] = "prepared" /\ UNCHANGED <<tree, env, row, failed>>
    BY <1>6, <1>t DEF Prepare, TypeOK
  <2>7. \A s \in Reclaimers : s = r
    BY DEF Alone
  <2>8. Registry'
    BY <2>1, <2>2, <2>5, <2>6, <2>7, <1>i
       DEF Registry, PlanFits, FailedStays, LiveIsReclaimed, RowIsAbsent, AbsentIsGone,
           AbsentHasRow
  <2>9. SweepFits'
    BY <1>6, <1>i, SweepFitsFrame DEF Prepare
  <2>10. Rests'
    BY <1>6, <1>i, RestsFrame DEF Prepare
  <2> QED
    BY <1>t, <2>8, <2>9, <2>10 DEF RemovalInv
<1>7. ASSUME NEW r \in Reclaimers, GiveUp(r) PROVE RemovalInv'
  <2>1. Registry'
    BY <1>7, <1>t, <1>i, PlanOf
       DEF GiveUp, TypeOK, Alone, Registry, PlanFits, FailedStays, LiveIsReclaimed, RowIsAbsent, AbsentIsGone,
           AbsentHasRow
  <2>2. SweepFits'
    BY <1>7, <1>i, SweepFitsFrame DEF GiveUp
  <2>3. Rests'
    BY <1>7, <1>i, RestsFrame DEF GiveUp
  <2> QED
    BY <1>t, <2>1, <2>2, <2>3 DEF RemovalInv
<1>8. ASSUME NEW r \in Reclaimers, StartMove(r) PROVE RemovalInv'
  <2>1. Registry'
    BY <1>8, <1>t, <1>i
       DEF StartMove, TypeOK, Registry, PlanFits, FailedStays, LiveIsReclaimed, RowIsAbsent, AbsentIsGone,
           AbsentHasRow
  <2>2. SweepFits'
    BY <1>8, <1>i, SweepFitsFrame DEF StartMove
  <2>3. Rests'
    BY <1>8, <1>i, RestsFrame DEF StartMove
  <2> QED
    BY <1>t, <2>1, <2>2, <2>3 DEF RemovalInv
<1>9. ASSUME NEW r \in Reclaimers, Refused(r) PROVE RemovalInv'
  <2>1. Registry'
    BY <1>9, <1>t, <1>i
       DEF Refused, TypeOK, Registry, PlanFits, FailedStays, LiveIsReclaimed, RowIsAbsent, AbsentIsGone,
           AbsentHasRow
  <2>2. SweepFits'
    BY <1>9, <1>i, SweepFitsFrame DEF Refused
  <2>3. Rests'
    BY <1>9, <1>i, RestsFrame DEF Refused
  <2> QED
    BY <1>t, <2>1, <2>2, <2>3 DEF RemovalInv
<1>10. ASSUME NEW r \in Reclaimers, Move(r) PROVE RemovalInv'
  <2>1. Registry'
    BY <1>10, <1>t, <1>i, PlanOf
       DEF Move, TypeOK, MoveTree, Alone, Registry, PlanFits, FailedStays, LiveIsReclaimed, RowIsAbsent,
           AbsentIsGone, AbsentHasRow
  <2>2. SweepFits'
    BY <1>10, <1>t, <1>i, PlanOf, EntryOf
       DEF Move, TypeOK, MoveTree, PlanFits, Registry, RowIsAbsent, SweepFits, Lists, Listed, Hand
  <2>3. Rests'
    BY <1>10, <1>t, <1>i, PlanOf
       DEF Move, TypeOK, MoveTree, PlanFits, Registry, Rests, SeenFits, JudgedOutlives, Outlives
  <2> QED
    BY <1>t, <2>1, <2>2, <2>3 DEF RemovalInv
<1>11. ASSUME NEW r \in Reclaimers, Commit(r) PROVE RemovalInv'
  <2>1. Registry'
    BY <1>11, <1>t, <1>i, PlanOf
       DEF Commit, TypeOK, Alone, Registry, PlanFits, FailedStays, LiveIsReclaimed, RowIsAbsent, AbsentIsGone,
           AbsentHasRow
  <2>2. SweepFits'
    BY <1>11, <1>t, <1>i, PlanOf, EntryOf
       DEF Commit, TypeOK, PlanFits, Registry, RowIsAbsent, SweepFits, Lists, Listed, Hand
  <2>3. Rests'
    BY <1>11, <1>t, <1>i, PlanOf
       DEF Commit, TypeOK, PlanFits, Registry, Rests, SeenFits, JudgedOutlives, Outlives
  <2> QED
    BY <1>t, <2>1, <2>2, <2>3 DEF RemovalInv
<1>12. ASSUME NEW r \in Reclaimers, ReclaimFails(r) PROVE RemovalInv'
  <2>1. Registry'
    BY <1>12, <1>t, <1>i
       DEF ReclaimFails, TypeOK, Registry, PlanFits, FailedStays, LiveIsReclaimed, RowIsAbsent, AbsentIsGone,
           AbsentHasRow
  <2>2. SweepFits'
    BY <1>12, <1>i, SweepFitsFrame DEF ReclaimFails
  <2>3. Rests'
    BY <1>12, <1>i, RestsFrame DEF ReclaimFails
  <2> QED
    BY <1>t, <2>1, <2>2, <2>3 DEF RemovalInv
<1>13. ASSUME NEW r \in Reclaimers, RollBack(r) PROVE RemovalInv'
  <2>1. Registry'
    BY <1>13, <1>t, <1>i, PlanOf
       DEF RollBack, TypeOK, MoveTree, Alone, Registry, PlanFits, FailedStays, LiveIsReclaimed, RowIsAbsent,
           AbsentIsGone, AbsentHasRow
  <2>2. SweepFits'
    BY <1>13, <1>t, <1>i, PlanOf, EntryOf
       DEF RollBack, TypeOK, MoveTree, PlanFits, Registry, RowIsAbsent, SweepFits, Lists, Listed,
           Hand
  <2>3. Rests'
    BY <1>13, <1>t, <1>i, PlanOf
       DEF RollBack, TypeOK, MoveTree, PlanFits, Registry, Rests, SeenFits, JudgedOutlives,
           Outlives
  <2> QED
    BY <1>t, <2>1, <2>2, <2>3 DEF RemovalInv
<1>13a. ASSUME NEW r \in Reclaimers, RollBackFails(r) PROVE RemovalInv'
  <2>1. Registry'
    BY <1>13a, <1>t, <1>i, PlanOf
       DEF RollBackFails, TypeOK, Alone, Registry, PlanFits, FailedStays, LiveIsReclaimed,
           RowIsAbsent, AbsentIsGone, AbsentHasRow
  <2>2. SweepFits'
    BY <1>13a, <1>i, SweepFitsFrame DEF RollBackFails
  <2>3. Rests'
    BY <1>13a, <1>i, RestsFrame DEF RollBackFails
  <2> QED
    BY <1>t, <2>1, <2>2, <2>3 DEF RemovalInv
<1>14. CASE SweepStart
  <2>1. Registry'
    BY <1>14, <1>i, RegistryFrame DEF SweepStart
  <2>2. SweepFits'
    BY <1>14, <1>t, <1>i
       DEF SweepStart, TypeOK, Expired, Entries, TrashRows, SweepFits, Lists, Listed, Hand
  <2>3. Rests'
    BY <1>14, <1>t, <1>i
       DEF SweepStart, TypeOK, Rests, SeenFits, JudgedOutlives, Outlives
  <2> QED
    BY <1>t, <2>1, <2>2, <2>3 DEF RemovalInv
<1>15. CASE NextEntry
  <2>1. Registry'
    BY <1>15, <1>i, RegistryFrame DEF NextEntry
  <2>2. SweepFits'
    BY <1>15, <1>t, <1>i
       DEF NextEntry, TypeOK, Entries, SweepFits, Lists, Listed, Hand
  <2>3. Rests'
    BY <1>15, <1>t, <1>i
       DEF NextEntry, TypeOK, Rests, SeenFits, JudgedOutlives, Outlives
  <2> QED
    BY <1>t, <2>1, <2>2, <2>3 DEF RemovalInv
<1>16. CASE SweepEnds
  <2>1. Registry'
    BY <1>16, <1>i, RegistryFrame DEF SweepEnds
  <2>2. SweepFits'
    BY <1>16, <1>t, <1>i
       DEF SweepEnds, TypeOK, SweepFits, Lists, Listed, Hand
  <2>3. Rests'
    BY <1>16, <1>t, <1>i
       DEF SweepEnds, TypeOK, Rests, SeenFits, JudgedOutlives, Outlives
  <2> QED
    BY <1>t, <2>1, <2>2, <2>3 DEF RemovalInv
<1>17. CASE ReadProject
  <2>1. Registry'
    BY <1>17, <1>i, RegistryFrame DEF ReadProject
  <2>2. SweepFits'
    BY <1>17, <1>i, SweepFitsFrame DEF ReadProject
  <2>3. Rests'
    BY <1>17, <1>t, <1>i
       DEF ReadProject, TypeOK, Rests, SeenFits, JudgedOutlives, Outlives
  <2> QED
    BY <1>t, <2>1, <2>2, <2>3 DEF RemovalInv
<1>18. CASE HoldBack
  <2>1. Registry'
    BY <1>18, <1>i, RegistryFrame DEF HoldBack, Leave
  <2>2. SweepFits'
    BY <1>18, <1>t, <1>i
       DEF HoldBack, TypeOK, Leave, SweepFits, Lists, Listed, Hand
  <2>3. Rests'
    BY <1>18, <1>t, <1>i
       DEF HoldBack, TypeOK, Leave, Rests, SeenFits, JudgedOutlives, Outlives
  <2> QED
    BY <1>t, <2>1, <2>2, <2>3 DEF RemovalInv
<1>19. CASE Clear
  <2>1. Registry'
    BY <1>19, <1>i, RegistryFrame DEF Clear
  <2>2. SweepFits'
    BY <1>19, <1>t, <1>i, EntryOf
       DEF Clear, TypeOK, ReadAgain, ReAsks, SweepFits, Lists, Listed, Hand
  <2>3. Rests'
    BY <1>19, <1>t, <1>i, EntryOf
       DEF Clear, TypeOK, Unproven, Registry, AbsentIsGone, Rests, SeenFits, JudgedOutlives,
           Outlives
  <2> QED
    BY <1>t, <2>1, <2>2, <2>3 DEF RemovalInv
<1>20. CASE Begin
  <2>1. Registry'
    BY <1>20, <1>t, <1>i, EntryOf
       DEF Begin, TypeOK, MayGo, MoveTree, SweepFits, Lists, Listed, Registry, PlanFits,
           FailedStays, LiveIsReclaimed, RowIsAbsent, AbsentIsGone, AbsentHasRow
  <2>2. SweepFits'
    BY <1>20, <1>t, <1>i, EntryOf
       DEF Begin, TypeOK, MayGo, MoveTree, Registry, RowIsAbsent, AbsentIsGone, SweepFits, Lists,
           Listed, Hand
  <2>3. Rests'
    BY <1>20, <1>t, <1>i, EntryOf
       DEF Begin, TypeOK, MayGo, MoveTree, ReadAgain, ReAsks, SweepFits, Lists, Listed, Hand,
           Rests, SeenFits, JudgedOutlives, Outlives
  <2> QED
    BY <1>t, <2>1, <2>2, <2>3 DEF RemovalInv
<1>21. CASE RemoveTree
  <2>a. cur.home \in Homes /\ cur # NoEntry
    BY <1>21, <1>t, EntryOf DEF RemoveTree, TypeOK
  <2>b. env[cur.home] = "absent"
    BY <2>a, <1>i DEF SweepFits, Lists, Listed, Registry, RowIsAbsent
  <2>c. /\ UNCHANGED <<env, row, failed, pc, plan>>
        /\ tree' = tree \/ tree' = [tree EXCEPT ![cur.home] = "none"]
    BY <1>21 DEF RemoveTree, MoveTree
  <2>d. \A r \in Reclaimers : pc[r] # "idle" => plan[r].home \in Homes /\ plan[r].home # cur.home
    BY <2>b, <1>t, <1>i, PlanOf DEF Registry, PlanFits
  <2>e. cur.home \notin failed /\ row[cur.home] # NoRow
    BY <2>a, <1>i DEF SweepFits, Lists, Listed, Registry, FailedStays
  <2>1. Registry'
    <3>1. \A h \in Homes : h # cur.home => tree'[h] = tree[h]
      BY <2>c, <1>t DEF TypeOK
    <3>2. tree'[cur.home] \in {tree[cur.home], "none"}
      BY <2>a, <2>c, <1>t DEF TypeOK
    <3>3. PlanFits' /\ LiveIsReclaimed'
      BY <2>b, <2>c, <2>d, <3>1, <1>t, <1>i DEF TypeOK, Registry, PlanFits, LiveIsReclaimed
    <3>4. FailedStays' /\ RowIsAbsent'
      BY <2>c, <2>e, <3>1, <1>t, <1>i DEF TypeOK, Registry, FailedStays, RowIsAbsent
    <3>5. AbsentIsGone' /\ AbsentHasRow'
      BY <2>a, <2>c, <2>e, <3>1, <3>2, <1>t, <1>i
         DEF TypeOK, Registry, AbsentIsGone, AbsentHasRow
    <3> QED
      BY <3>3, <3>4, <3>5 DEF Registry
  <2>2. SweepFits'
    BY <1>21, <1>t, <1>i, EntryOf
       DEF RemoveTree, TypeOK, MoveTree, Leave, SweepFits, Lists, Listed, Hand
  <2>3. Rests'
    BY <1>21, <1>t, <1>i, EntryOf
       DEF RemoveTree, TypeOK, MoveTree, Leave, Rests, SeenFits, JudgedOutlives, Outlives
  <2> QED
    BY <1>t, <2>1, <2>2, <2>3 DEF RemovalInv
<1>22. CASE Forget
  <2>1. Registry'
    BY <1>22, <1>t, <1>i, EntryOf
       DEF Forget, TypeOK, Leave, SweepFits, Hand, Registry, PlanFits, FailedStays, LiveIsReclaimed,
           RowIsAbsent, AbsentIsGone, AbsentHasRow
  <2>2. SweepFits'
    BY <1>22, <1>t, <1>i, EntryOf
       DEF Forget, TypeOK, Leave, SweepFits, Lists, Listed, Hand
  <2>3. Rests'
    BY <1>22, <1>t, <1>i, EntryOf
       DEF Forget, TypeOK, Leave, SweepFits, Hand, Rests, SeenFits, JudgedOutlives, Outlives
  <2> QED
    BY <1>t, <2>1, <2>2, <2>3 DEF RemovalInv
<1>23. CASE SweepDies
  <2>1. Registry'
    BY <1>23, <1>i, RegistryFrame DEF SweepDies
  <2>2. SweepFits'
    BY <1>23, <1>t, <1>i
       DEF SweepDies, TypeOK, SweepFits, Lists, Listed, Hand
  <2>3. Rests'
    BY <1>23, <1>t, <1>i
       DEF SweepDies, TypeOK, Rests, SeenFits, JudgedOutlives, Outlives
  <2> QED
    BY <1>t, <2>1, <2>2, <2>3 DEF RemovalInv
<1>24. CASE Tick
  <2>1. Registry'
    BY <1>24, <1>i, RegistryFrame DEF Tick
  <2>2. SweepFits'
    BY <1>24, <1>i, SweepFitsFrame DEF Tick
  <2>3. Rests'
    BY <1>24, <1>i, RestsFrame DEF Tick
  <2> QED
    BY <1>t, <2>1, <2>2, <2>3 DEF RemovalInv
<1>25. CASE UNCHANGED vars
  <2>1. Registry'
    BY <1>25, <1>i, RegistryFrame DEF vars
  <2>2. SweepFits'
    BY <1>25, <1>i, SweepFitsFrame DEF vars
  <2>3. Rests'
    BY <1>25, <1>i, RestsFrame DEF vars
  <2> QED
    BY <1>t, <2>1, <2>2, <2>3 DEF RemovalInv
<1>26. CASE BeginFails
  <2>1. Registry'
    BY <1>26, <1>i, RegistryFrame DEF BeginFails, Leave
  <2>2. SweepFits'
    BY <1>26, <1>t, <1>i
       DEF BeginFails, TypeOK, Leave, SweepFits, Lists, Listed, Hand
  <2>3. Rests'
    BY <1>26, <1>t, <1>i
       DEF BeginFails, TypeOK, Leave, Rests, SeenFits, JudgedOutlives, Outlives
  <2> QED
    BY <1>t, <2>1, <2>2, <2>3 DEF RemovalInv
<1> QED
  BY <1>1, <1>2, <1>3, <1>4, <1>5, <1>6, <1>7, <1>8, <1>9, <1>10, <1>11, <1>12, <1>13, <1>13a,
     <1>14, <1>15, <1>16, <1>17, <1>18, <1>19, <1>20, <1>21, <1>22, <1>23, <1>24, <1>25,
     <1>26
     DEF Next, Reclaim, Sweep

(* The invariant holds before anything is reclaimed. *)
LEMMA InitRemoval == Init => RemovalInv
<1> SUFFICES ASSUME Init PROVE RemovalInv
  OBVIOUS
<1>1. TypeOK
  BY RemovalInitTypes
<1>2. Registry
  BY DEF Init, Registry, PlanFits, FailedStays, LiveIsReclaimed, RowIsAbsent, AbsentIsGone, AbsentHasRow
<1>3. SweepFits
  BY DEF Init, SweepFits, Lists, Hand
<1>4. Rests
  BY DEF Init, Rests, SeenFits, JudgedOutlives, Outlives
<1> QED
  BY <1>1, <1>2, <1>3, <1>4 DEF RemovalInv

(* The inductive invariant, with one reclaim at a time. *)
LEMMA RemovalInvHolds ==
    ASSUME Alone
    PROVE  Spec => []RemovalInv
<1>1. RemovalInv /\ [Next]_vars => RemovalInv'
  BY StepRemoval
<1> QED
  BY <1>1, InitRemoval, PTL DEF Spec

(* With one reclaim at a time a home the registry has given up is never back  *)
(* under its own name (commit_of, TrashHome::undo).                           *)
THEOREM AbsentIsGoneHolds ==
    ASSUME Alone
    PROVE  Spec => []AbsentIsGone
<1>1. RemovalInv => AbsentIsGone
  BY DEF RemovalInv, Registry
<1> QED
  BY <1>1, RemovalInvHolds, PTL

(* With one reclaim at a time a home in the trash is always named by a row,   *)
(* by the journal of the reclaim that is moving it, or by that of one that    *)
(* could not move it back (commit_of, trash::remove, TrashHome::undo).        *)
THEOREM TrashedIsAccountedHolds ==
    ASSUME Alone
    PROVE  Spec => []TrashedIsAccounted
<1>1. RemovalInv => TrashedIsAccounted
  BY DEF RemovalInv, Registry, LiveIsReclaimed, AbsentHasRow, PlanFits, FailedStays,
         TrashedIsAccounted, TypeOK
<1> QED
  BY <1>1, RemovalInvHolds, PTL

(* With one reclaim at a time gc never takes the last copy of a commit of an  *)
(* unforced home that its reading could have seen: for any number of homes    *)
(* and commits, any retention and any number of killed sweeps (sweep,         *)
(* read_again, only_here).                                                    *)
THEOREM CommitsSurviveHolds ==
    ASSUME Alone
    PROVE  Spec => CommitsSurvive
<1> DEFINE Survives ==
        \A h \in Homes :
            Destroys(h) /\ cur.rested # "forced" =>
                work[h] \subseteq checkout \cup beside \cup excused[h]
<1>1. RemovalInv => Survives
  <2> SUFFICES ASSUME RemovalInv, NEW h \in Homes, Destroys(h), cur.rested # "forced"
               PROVE  work[h] \subseteq checkout \cup beside \cup excused[h]
    OBVIOUS
  <2>1. tree[h] = "removing" /\ row[h].rested # "forced"
    BY DEF Destroys, RemovalInv, SweepFits, Lists, Listed
  <2> QED
    BY <2>1 DEF RemovalInv, Rests, JudgedOutlives, Outlives
<1>2. RemovalInv /\ [Next]_vars => [Survives]_vars
  BY <1>1
<1> QED
  BY <1>2, RemovalInvHolds, PTL DEF Spec, CommitsSurvive
=============================================================================
