--------------------------- MODULE SessionsProofs ---------------------------
(* Proofs about Sessions, for any environments, numbers, callers and bounds. *)
EXTENDS Sessions, FiniteSetTheorems, TLAPS

(***************************************************************************)
(* The inductive invariant.                                                *)
(***************************************************************************)
Records == [env : Envs, pid : Numbers, grp : Numbers \cup {0}, open : BOOLEAN]

(* What may be taken for a process of one of these units: one of theirs, or *)
(* one whose number was written down before it was given to it.             *)
Theirs(n, es) == table[n].own \in es \/ table[n].late

(* A process carries the identifier of the unit it is of, or none. *)
Marks == \A n \in Numbers : table[n].id = NoEnv \/ table[n].id = table[n].own

(* The number of a `nodal run` that waits is worn by nothing else, and the  *)
(* row it will close is that of its group.                                  *)
WrapperFits ==
    \A n \in Numbers : wrapper[n] # NoWrapper =>
        /\ wrapper[n].env \in Envs
        /\ wrapper[n].pc = "waiting" =>
               wrapper[n].row \in DOMAIN rows /\ rows[wrapper[n].row].grp = n
        /\ \A m \in Members(n) : Theirs(m, {wrapper[n].env})

(* The group of an open row is the one that was recorded. *)
RowsAreOurs ==
    \A i \in OpenRows : rows[i].grp # 0 =>
        \A m \in Members(rows[i].grp) : Theirs(m, {rows[i].env})

(* So is the group a reclaim or a sweep has read from a row. *)
HeldIsOurs(s) ==
    \A h \in stop[s].held :
        /\ h[1] \in DOMAIN rows /\ rows[h[1]].grp = h[2] /\ rows[h[1]].env \in stop[s].envs
        /\ \A m \in Members(h[2]) : Theirs(m, stop[s].envs)
        /\ stop[s].pc \in {"rung", "stopped"} => Group(h[2]) \in stop[s].targets

(* What a target reaches is of the units that are stopped, and not what the *)
(* command was started from.                                                *)
TargetsAreOurs(s) ==
    \A t \in stop[s].targets \ stop[s].spared : \A n \in Reached(t) :
        table[n].late \/ (table[n].own \in stop[s].envs /\ n # stop[s].caller)

(* A target that is no longer on the ladder has gone, or is out of reach. *)
Done(t) == (\A n \in Reached(t) : table[n].foreign) \/ (\A n \in Reached(t) : table[n].late)

LadderFits(s) ==
    /\ stop[s].todo \cup stop[s].sent \cup stop[s].standing \subseteq stop[s].targets \ stop[s].spared
    /\ stop[s].pc = "stopped" => stop[s].todo = {} /\ stop[s].sent = {}
    /\ stop[s].pc # "stopped" => stop[s].standing = {}
    /\ stop[s].pc \in {"idle", "listed"} => stop[s].targets = {}
    /\ \A t \in stop[s].targets \ (stop[s].spared \cup stop[s].todo \cup stop[s].sent
                                      \cup stop[s].standing) : Done(t)

StopFits == \A s \in Stoppers : HeldIsOurs(s) /\ TargetsAreOurs(s) /\ LadderFits(s)

IInv == TypeOK /\ Marks /\ WrapperFits /\ RowsAreOurs /\ StopFits

(***************************************************************************)
(* The processes of the host.                                              *)
(***************************************************************************)
(* What a step of the machine may do to the processes: one that was there   *)
(* is what it was, one that is new is a fork in the group of another or     *)
(* leads a group nobody is in, and is late when its number is written down. *)
Same(n, p) ==
    /\ Running(p)
    /\ table'[n].grp = table[p].grp
    /\ table'[n].own = table[p].own
    /\ table[p].late => table'[n].late
    /\ table[p].foreign => table'[n].foreign

Fresh(n) ==
    /\ WrittenDown(n) => table'[n].late
    /\ \/ \E p \in Numbers : Same(n, p)
       \/ Members(n) = {} /\ wrapper[n] = NoWrapper /\ table'[n].grp = n

Continued == \A n \in Numbers : table'[n] # Free => Same(n, n) \/ Fresh(n)

(* A number that wears nothing is in no group. *)
LEMMA FreeTypes == Free \in Procs /\ Free.grp = 0 /\ Free.id = NoEnv /\ Free.own = NoEnv
BY DEF Free, Procs

(* A number is given to a process as the table says it is (Begins). *)
LEMMA BeginsContinues ==
    ASSUME TypeOK, Marks, NEW n \in Numbers, NEW g \in Numbers \cup {0}, NEW id \in Envs \cup {NoEnv},
           NEW own \in Envs \cup {NoEnv}, NEW foreign \in BOOLEAN, NEW late \in BOOLEAN,
           id = NoEnv \/ id = own,
           Begins(n, g, id, own, foreign, late),
           \/ g = n
           \/ \E p \in Numbers : /\ Running(p) /\ g = table[p].grp /\ own = table[p].own
                                 /\ foreign = table[p].foreign /\ late = table[p].late
    PROVE  table' \in [Numbers -> Procs \cup {Free}] /\ starts' \in Nat /\ Marks' /\ Continued
<1> DEFINE new == [grp |-> g, id |-> id, own |-> own, foreign |-> foreign,
                   late |-> late \/ WrittenDown(n)]
<1>1. /\ table' = [table EXCEPT ![n] = new] /\ Unworn(n) /\ starts' = starts + 1
  BY DEF Begins
<1>2. new \in Procs
  BY DEF Procs
<1>3. table \in [Numbers -> Procs \cup {Free}] /\ starts \in Nat
  BY DEF TypeOK
<1>4. table'[n] = new /\ \A m \in Numbers \ {n} : table'[m] = table[m]
  BY <1>1, <1>3
<1>5. table' \in [Numbers -> Procs \cup {Free}] /\ starts' \in Nat
  BY <1>1, <1>2, <1>3
<1>6. Marks'
  <2>1. new.id = id /\ new.own = own
    OBVIOUS
  <2> HIDE DEF new
  <2> QED
    BY <1>4, <2>1 DEF Marks
<1>7. ASSUME NEW m \in Numbers, table'[m] # Free PROVE Same(m, m) \/ Fresh(m)
  <2>1. CASE m # n
    BY <1>4, <1>7, <2>1 DEF Same, Running
  <2>2. CASE m = n
    <3>1. /\ new.grp = g /\ new.own = own /\ new.foreign = foreign
      OBVIOUS
    <3>2. Members(n) = {} /\ wrapper[n] = NoWrapper
      BY <1>1 DEF Unworn
    <3>3. /\ WrittenDown(n) => new.late
          /\ late => new.late
      OBVIOUS
    <3> HIDE DEF new
    <3>4. CASE g = n
      BY <1>4, <2>2, <3>1, <3>2, <3>3, <3>4 DEF Fresh
    <3>5. CASE g # n
      <4>1. PICK p \in Numbers : /\ Running(p) /\ g = table[p].grp /\ own = table[p].own
                                 /\ foreign = table[p].foreign /\ late = table[p].late
        BY <3>5
      <4>2. Same(n, p)
        BY <1>4, <3>1, <3>3, <4>1 DEF Same
      <4> QED
        BY <1>4, <2>2, <3>3, <4>2 DEF Fresh
    <3> QED
      BY <3>4, <3>5
  <2> QED
    BY <2>1, <2>2
<1> QED
  BY <1>5, <1>6, <1>7 DEF Continued

(* The machine, and the spawning of a command, keep what is known of the    *)
(* processes (Stranger, Enter, Fork, Exit, Sudo, StartTether).              *)
LEMMA MachineContinues ==
    ASSUME TypeOK, Marks, SessionsAssumption,
           Machine \/ \E n \in Numbers, e \in Envs : StartTether(e, n)
    PROVE  table' \in [Numbers -> Procs \cup {Free}] /\ starts' \in Nat /\ Marks' /\ Continued
<1>t. table \in [Numbers -> Procs \cup {Free}] /\ starts \in Nat
  BY DEF TypeOK
<1>f. \A m \in Numbers : table[m] \in Procs
  BY <1>t, FreeTypes
<1>2. CASE \E n \in Numbers : Stranger(n)
  <2>1. PICK n \in Numbers : Stranger(n)
    BY <1>2
  <2>2. Begins(n, n, NoEnv, NoEnv, FALSE, FALSE)
    BY <2>1 DEF Stranger
  <2> QED
    BY <2>2, BeginsContinues
<1>3. CASE \E n \in Numbers, e \in Envs : Enter(e, n) \/ StartTether(e, n)
  <2>1. PICK n \in Numbers, e \in Envs : Enter(e, n) \/ StartTether(e, n)
    BY <1>3
  <2>2. Begins(n, n, e, e, FALSE, FALSE)
    BY <2>1 DEF Enter, StartTether
  <2> QED
    BY <2>2, BeginsContinues
<1>4. CASE \E n \in Numbers, p \in Numbers : Fork(p, n)
  <2>1. PICK n \in Numbers, p \in Numbers : Fork(p, n)
    BY <1>4
  <2>2. PICK id \in {table[p].id, NoEnv} :
           Begins(n, table[p].grp, id, table[p].own, table[p].foreign, table[p].late)
    BY <2>1 DEF Fork
  <2>3. /\ table[p].grp \in Numbers \cup {0} /\ table[p].own \in Envs \cup {NoEnv}
        /\ table[p].foreign \in BOOLEAN /\ table[p].late \in BOOLEAN
        /\ id \in Envs \cup {NoEnv}
    BY <1>f DEF Procs
  <2>4. id = NoEnv \/ id = table[p].own
    BY DEF Marks
  <2>5. Running(p)
    BY <2>1 DEF Fork
  <2>6. \E q \in Numbers : /\ Running(q) /\ table[p].grp = table[q].grp /\ table[p].own = table[q].own
                           /\ table[p].foreign = table[q].foreign /\ table[p].late = table[q].late
    BY <2>5
  <2>7. ASSUME NEW g, NEW own, NEW foreign, NEW late,
               g = table[p].grp, own = table[p].own, foreign = table[p].foreign, late = table[p].late
        PROVE  table' \in [Numbers -> Procs \cup {Free}] /\ starts' \in Nat /\ Marks' /\ Continued
    <3>1. Begins(n, g, id, own, foreign, late)
      BY <2>2, <2>7
    <3> QED
      BY <2>3, <2>4, <2>6, <2>7, <3>1, BeginsContinues
  <2> QED
    BY <2>7
<1>5. CASE \E n \in Numbers : Exit(n) \/ Sudo(n)
  <2>1. PICK n \in Numbers : Exit(n) \/ Sudo(n)
    BY <1>5
  <2>2. CASE Exit(n)
    <3>1. table' = [table EXCEPT ![n] = Free] /\ starts' = starts
      BY <2>2 DEF Exit
    <3>2. table'[n] = Free /\ \A m \in Numbers \ {n} : table'[m] = table[m]
      BY <1>t, <3>1
    <3>3. table' \in [Numbers -> Procs \cup {Free}]
      BY <1>t, <3>1
    <3>4. Marks'
      BY <3>2, FreeTypes DEF Marks
    <3>5. Continued
      BY <3>2 DEF Continued, Same, Running
    <3> QED
      BY <1>t, <3>1, <3>3, <3>4, <3>5
  <2>3. CASE Sudo(n)
    <3>1. table' = [table EXCEPT ![n].foreign = TRUE] /\ starts' = starts /\ Running(n)
      BY <2>3 DEF Sudo
    <3>2. table[n] \in Procs
      BY <1>f
    <3>3. [table[n] EXCEPT !.foreign = TRUE] \in Procs
      BY <3>2 DEF Procs
    <3>4. table' \in [Numbers -> Procs \cup {Free}]
      BY <1>t, <3>1, <3>3
    <3>5. /\ table'[n].grp = table[n].grp /\ table'[n].own = table[n].own
          /\ table'[n].late = table[n].late /\ table'[n].id = table[n].id /\ table'[n].foreign = TRUE
          /\ \A m \in Numbers \ {n} : table'[m] = table[m]
      BY <1>t, <3>1, <3>2 DEF Procs
    <3>6. Marks'
      BY <3>5 DEF Marks
    <3>7. Continued
      BY <3>1, <3>5 DEF Continued, Same, Running
    <3> QED
      BY <1>t, <3>1, <3>4, <3>6, <3>7
  <2> QED
    BY <2>1, <2>2, <2>3
<1> QED
  BY <1>2, <1>3, <1>4, <1>5 DEF Machine

(* A group is what it was, or was empty and is led by what it is named for. *)
LEMMA MembersContinue ==
    ASSUME Continued, NEW g \in Numbers, 0 \notin Numbers, NEW m \in Members(g)'
    PROVE  \/ \E p \in Members(g) : Same(m, p) /\ (m # p /\ WrittenDown(m) => table'[m].late)
           \/ /\ m = g /\ Members(g) = {} /\ wrapper[g] = NoWrapper
              /\ WrittenDown(g) => table'[g].late
<1>1. m \in Numbers /\ table'[m].grp = g /\ table'[m] # Free
  BY FreeTypes DEF Members
<1>2. CASE Same(m, m)
  BY <1>1, <1>2 DEF Same, Members
<1>3. CASE Fresh(m)
  BY <1>1, <1>3 DEF Fresh, Same, Members
<1> QED
  BY <1>1, <1>2, <1>3 DEF Continued

(* A group of some units stays theirs while its number is kept for it or is *)
(* written down.                                                            *)
LEMMA GroupsStayTheirs ==
    ASSUME Continued, NEW g \in Numbers, 0 \notin Numbers, NEW es,
           WrittenDown(g) \/ wrapper[g] # NoWrapper,
           \A m \in Members(g) : Theirs(m, es)
    PROVE  \A m \in Members(g)' : Theirs(m, es)'
<1> SUFFICES ASSUME NEW m \in Members(g)' PROVE table'[m].own \in es \/ table'[m].late
  BY DEF Theirs
<1>1. CASE \E p \in Members(g) : Same(m, p)
  BY <1>1 DEF Same, Theirs
<1>2. CASE m = g /\ Members(g) = {} /\ wrapper[g] = NoWrapper /\ (WrittenDown(g) => table'[g].late)
  BY <1>2
<1> QED
  BY <1>1, <1>2, MembersContinue

(* What a target reaches is what it reached, or comes of it, or is late.    *)
LEMMA ReachContinues ==
    ASSUME Continued, NEW t \in Targets, 0 \notin Numbers, WrittenDown(t.num), NEW m \in Reached(t)'
    PROVE  \/ table'[m].late
           \/ \E p \in Reached(t) : Same(m, p) /\ (m # p /\ WrittenDown(m) => table'[m].late)
<1>1. t.num \in Numbers
  BY DEF Targets
<1>2. CASE t.kind = "group"
  BY <1>1, <1>2, MembersContinue DEF Reached
<1>3. CASE t.kind # "group"
  <2>1. m = t.num /\ table'[m] # Free
    BY <1>3 DEF Reached, Running
  <2> QED
    BY <1>1, <1>3, <2>1 DEF Continued, Fresh, Same, Reached, Running
<1> QED
  BY <1>2, <1>3

(* What has gone, or is out of reach, stays so while it is written down.    *)
LEMMA DoneStays ==
    ASSUME Continued, NEW t \in Targets, 0 \notin Numbers, WrittenDown(t.num), Done(t)
    PROVE  Done(t)'
<1>1. t.num \in Numbers
  BY DEF Targets
<1>2. CASE \A n \in Reached(t) : table[n].late
  <2>1. \A m \in Reached(t)' : table'[m].late
    BY <1>2, ReachContinues DEF Same
  <2> QED
    BY <2>1 DEF Done
<1>3. CASE /\ Reached(t) # {} /\ t.kind = "group"
           /\ \A n \in Reached(t) : table[n].foreign
  <2>1. ASSUME NEW m \in Reached(t)' PROVE table'[m].foreign
    <3>1. m \in Members(t.num)' /\ Members(t.num) # {} /\ Reached(t) = Members(t.num)
      BY <1>3, <2>1 DEF Reached
    <3>2. PICK p \in Members(t.num) : Same(m, p)
      BY <1>1, <3>1, MembersContinue
    <3> QED
      BY <1>3, <3>1, <3>2 DEF Same
  <2> QED
    BY <2>1 DEF Done
<1>4. CASE t.kind # "group"
  <2>1. \A m \in Reached(t)' : m = t.num /\ (table'[m].late \/ (t.num \in Reached(t) /\ Same(m, t.num)))
    BY <1>1, <1>4 DEF Reached, Running, Continued, Same, Fresh
  <2> QED
    BY <1>4, <2>1 DEF Done, Same, Reached
<1> QED
  BY <1>2, <1>3, <1>4 DEF Done

(***************************************************************************)
(* The steps of the machine.                                               *)
(***************************************************************************)
(* The types of a stop and of the rows. *)
LEMMA StopTypes ==
    ASSUME TypeOK, NEW s \in Stoppers
    PROVE  /\ stop[s].held \subseteq Nat \X Numbers
           /\ stop[s].targets \subseteq Targets
           /\ stop[s].envs \subseteq Envs
           /\ stop[s].caller \in Callers \cup {0}
BY DEF TypeOK

LEMMA RowTypes ==
    ASSUME TypeOK
    PROVE  /\ rows \in Seq(Records) /\ Len(rows) \in Nat /\ DOMAIN rows = 1..Len(rows)
           /\ \A i \in DOMAIN rows : rows[i] \in Records /\ rows[i].grp \in Numbers \cup {0}
                                     /\ rows[i].env \in Envs /\ rows[i].pid \in Numbers
<1>1. rows \in Seq(Records)
  BY DEF TypeOK, Records
<1>2. Len(rows) \in Nat /\ DOMAIN rows = 1..Len(rows) /\ \A i \in DOMAIN rows : rows[i] \in Records
  BY <1>1
<1> QED
  BY <1>1, <1>2 DEF Records

(* Zero is no number of a process. *)
LEMMA NumbersAreNotZero == 0 \notin Numbers
BY SessionsAssumption

(* Whatever the machine does, what is known of the wrapper, the rows and    *)
(* the ladders is still so.                                                 *)
LEMMA ContinuedKeeps ==
    ASSUME IInv, Continued, rows' = rows, stop' = stop
    PROVE  /\ RowsAreOurs' /\ StopFits'
           /\ \A n \in Numbers : wrapper[n] # NoWrapper =>
                  \A m \in Members(n)' : table'[m].own = wrapper[n].env \/ table'[m].late
<1> USE NumbersAreNotZero
<1>0. TypeOK /\ WrapperFits /\ RowsAreOurs /\ StopFits
  BY DEF IInv
<1>1. ASSUME NEW n \in Numbers, wrapper[n] # NoWrapper
      PROVE  \A m \in Members(n)' : table'[m].own = wrapper[n].env \/ table'[m].late
  <2>1. \A m \in Members(n) : Theirs(m, {wrapper[n].env})
    BY <1>0, <1>1 DEF WrapperFits
  <2> DEFINE es == {wrapper[n].env}
  <2>2. \A m \in Members(n) : Theirs(m, es)
    BY <2>1
  <2> HIDE DEF es
  <2>3. \A m \in Members(n)' : table'[m].own \in es \/ table'[m].late
    BY <1>1, <2>2, GroupsStayTheirs DEF Theirs
  <2> QED
    BY <2>3 DEF es
<1>2. RowsAreOurs'
  <2> SUFFICES ASSUME NEW i \in OpenRows, rows[i].grp # 0
               PROVE  \A m \in Members(rows[i].grp)' : table'[m].own = rows[i].env \/ table'[m].late
    BY DEF RowsAreOurs, OpenRows, Theirs, Members
  <2>1. rows[i].grp \in Numbers /\ WrittenDown(rows[i].grp)
    BY <1>0, RowTypes DEF OpenRows, WrittenDown
  <2> DEFINE es == {rows[i].env}
  <2>2. \A m \in Members(rows[i].grp) : Theirs(m, es)
    BY <1>0 DEF RowsAreOurs
  <2> HIDE DEF es
  <2>3. \A m \in Members(rows[i].grp)' : table'[m].own \in es \/ table'[m].late
    BY <2>1, <2>2, GroupsStayTheirs DEF Theirs
  <2> QED
    BY <2>3 DEF es
<1>3. ASSUME NEW s \in Stoppers PROVE HeldIsOurs(s)' /\ TargetsAreOurs(s)' /\ LadderFits(s)'
  <2>0. HeldIsOurs(s) /\ TargetsAreOurs(s) /\ LadderFits(s)
    BY <1>0 DEF StopFits
  <2>1. HeldIsOurs(s)'
    <3> SUFFICES ASSUME NEW h \in stop[s].held
                 PROVE  \A m \in Members(h[2])' : table'[m].own \in stop[s].envs \/ table'[m].late
      BY <2>0 DEF HeldIsOurs, Theirs, Members
    <3>1. h[2] \in Numbers /\ WrittenDown(h[2])
      BY <1>0, StopTypes DEF WrittenDown
    <3>2. \A m \in Members(h[2]) : Theirs(m, stop[s].envs)
      BY <2>0 DEF HeldIsOurs
    <3> QED
      BY <3>1, <3>2, GroupsStayTheirs DEF Theirs
  <2>2. \A t \in stop[s].targets : t \in Targets /\ t.num \in Numbers /\ WrittenDown(t.num)
    BY <1>0, StopTypes DEF WrittenDown, Targets
  <2>3. TargetsAreOurs(s)'
    <3> SUFFICES ASSUME NEW t \in stop[s].targets \ stop[s].spared, NEW m \in Reached(t)'
                 PROVE  table'[m].late \/ (table'[m].own \in stop[s].envs /\ m # stop[s].caller)
      BY DEF TargetsAreOurs, Reached, Members, Running
    <3>1. CASE table'[m].late
      BY <3>1
    <3>2. CASE \E p \in Reached(t) : Same(m, p) /\ (m # p /\ WrittenDown(m) => table'[m].late)
      <4>1. PICK p \in Reached(t) : Same(m, p) /\ (m # p /\ WrittenDown(m) => table'[m].late)
        BY <3>2
      <4>2. table[p].late \/ (table[p].own \in stop[s].envs /\ p # stop[s].caller)
        BY <2>0 DEF TargetsAreOurs
      <4>3. CASE m = stop[s].caller
        BY <4>1, <4>2, <4>3 DEF WrittenDown, Same
      <4> QED
        BY <4>1, <4>2, <4>3 DEF Same
    <3> QED
      BY <2>2, <3>1, <3>2, ReachContinues
  <2>4. LadderFits(s)'
    <3>1. ASSUME NEW t \in stop[s].targets, Done(t) PROVE Done(t)'
      BY <2>2, <3>1, DoneStays
    <3>2. \A t \in stop[s].targets \ (stop[s].spared \cup stop[s].todo \cup stop[s].sent
                                      \cup stop[s].standing) : Done(t)'
      BY <2>0, <3>1 DEF LadderFits
    <3> QED
      BY <2>0, <3>2 DEF LadderFits, Done, Reached, Members, Running
  <2> QED
    BY <2>1, <2>3, <2>4
<1> QED
  BY <1>1, <1>2, <1>3 DEF StopFits

(* The machine keeps the invariant (Stranger, Enter, Fork, Sudo, Exit). *)
LEMMA MachineInv == IInv /\ Machine => IInv'
<1> SUFFICES ASSUME IInv, Machine PROVE IInv'
  OBVIOUS
<1>0. TypeOK /\ Marks /\ WrapperFits
  BY DEF IInv
<1>1. UNCHANGED <<env, rows, wrapper, scan, stop, calls>>
  BY DEF Machine, Stranger, Enter, Fork, Sudo, Exit
<1>2. table' \in [Numbers -> Procs \cup {Free}] /\ starts' \in Nat /\ Marks' /\ Continued
  BY <1>0, MachineContinues, SessionsAssumption
<1>3. TypeOK'
  BY <1>0, <1>1, <1>2 DEF TypeOK
<1>4. /\ RowsAreOurs' /\ StopFits'
      /\ \A n \in Numbers : wrapper[n] # NoWrapper =>
             \A m \in Members(n)' : table'[m].own = wrapper[n].env \/ table'[m].late
  BY <1>1, <1>2, ContinuedKeeps
<1>5. WrapperFits'
  BY <1>0, <1>1, <1>4 DEF WrapperFits, Theirs
<1> QED
  BY <1>2, <1>3, <1>4, <1>5 DEF IInv

(* A command is spawned into a group of its own (StartTether). *)
LEMMA StartTetherInv ==
    ASSUME IInv, NEW e \in Envs, NEW n \in Numbers, StartTether(e, n)
    PROVE  IInv'
<1>0. TypeOK /\ Marks /\ WrapperFits
  BY DEF IInv
<1>1. UNCHANGED <<env, rows, scan, stop, calls>>
  BY DEF StartTether
<1>2. table' \in [Numbers -> Procs \cup {Free}] /\ starts' \in Nat /\ Marks' /\ Continued
  BY <1>0, MachineContinues, SessionsAssumption
<1> DEFINE spawned == [pc |-> "spawned", env |-> e, row |-> 0]
<1>3. /\ wrapper' = [wrapper EXCEPT ![n] = spawned]
      /\ wrapper \in [Numbers -> [pc : {"none", "spawned", "waiting"}, env : Envs \cup {NoEnv}, row : Nat]]
  BY <1>0 DEF StartTether, TypeOK
<1>4. wrapper' \in [Numbers -> [pc : {"none", "spawned", "waiting"}, env : Envs \cup {NoEnv}, row : Nat]]
  BY <1>3
<1>5. TypeOK'
  BY <1>0, <1>1, <1>2, <1>4 DEF TypeOK
<1>6. /\ RowsAreOurs' /\ StopFits'
      /\ \A m \in Numbers : wrapper[m] # NoWrapper =>
             \A k \in Members(m)' : table'[k].own = wrapper[m].env \/ table'[k].late
  BY <1>1, <1>2, ContinuedKeeps
<1>7. /\ Members(n) = {}
      /\ \E b \in BOOLEAN : table' = [table EXCEPT ![n] = [grp |-> n, id |-> e, own |-> e,
                                                           foreign |-> FALSE, late |-> b]]
  BY DEF StartTether, Begins, Unworn
<1>8. table'[n].own = e /\ \A m \in Numbers \ {n} : table'[m] = table[m]
  BY <1>0, <1>7 DEF TypeOK
<1>9. \A k \in Members(n)' : table'[k].own = e
  BY <1>7, <1>8 DEF Members
<1>10. WrapperFits'
  <2> SUFFICES ASSUME NEW m \in Numbers, wrapper'[m] # NoWrapper
               PROVE  /\ wrapper'[m].env \in Envs
                      /\ wrapper'[m].pc = "waiting" =>
                             wrapper'[m].row \in DOMAIN rows /\ rows[wrapper'[m].row].grp = m
                      /\ \A k \in Members(m)' : table'[k].own = wrapper'[m].env \/ table'[k].late
    BY <1>1 DEF WrapperFits, Theirs
  <2>1. CASE m = n
    BY <1>3, <1>9, <2>1
  <2>2. CASE m # n
    <3>1. wrapper'[m] = wrapper[m]
      BY <1>3, <2>2
    <3> QED
      BY <1>0, <1>6, <3>1 DEF WrapperFits
  <2> QED
    BY <2>1, <2>2
<1> QED
  BY <1>2, <1>5, <1>6, <1>10 DEF IInv

(***************************************************************************)
(* The steps of nodal: the processes stay what they are.                   *)
(***************************************************************************)
(* Rows are written and ended, and never about another group or unit. *)
RowsKept ==
    /\ \A i \in DOMAIN rows :
           /\ i \in DOMAIN rows' /\ rows'[i].grp = rows[i].grp /\ rows'[i].env = rows[i].env
           /\ rows'[i].open => rows[i].open
    /\ \A i \in DOMAIN rows' \ DOMAIN rows :
           rows'[i].grp # 0 => \A m \in Members(rows'[i].grp) : Theirs(m, {rows'[i].env})

(* What is true of the rows, and of a stop that does not move, stays true.  *)
LEMMA QuietKeeps ==
    ASSUME IInv, table' = table, RowsKept
    PROVE  /\ Marks' /\ RowsAreOurs'
           /\ \A s \in Stoppers : stop'[s] = stop[s] =>
                  HeldIsOurs(s)' /\ TargetsAreOurs(s)' /\ LadderFits(s)'
<1>0. Marks /\ RowsAreOurs /\ StopFits
  BY DEF IInv
<1>1. Marks'
  BY <1>0 DEF Marks
<1>2. RowsAreOurs'
  BY <1>0 DEF RowsAreOurs, RowsKept, OpenRows, Members, Theirs
<1>3. ASSUME NEW s \in Stoppers, stop'[s] = stop[s]
      PROVE  HeldIsOurs(s)' /\ TargetsAreOurs(s)' /\ LadderFits(s)'
  <2>0. HeldIsOurs(s) /\ TargetsAreOurs(s) /\ LadderFits(s)
    BY <1>0 DEF StopFits
  <2>1. HeldIsOurs(s)'
    BY <1>3, <2>0 DEF HeldIsOurs, RowsKept, Members, Theirs
  <2>2. TargetsAreOurs(s)'
    BY <1>3, <2>0 DEF TargetsAreOurs, Reached, Members, Running
  <2>3. LadderFits(s)'
    BY <1>3, <2>0 DEF LadderFits, Done, Reached, Members, Running
  <2> QED
    BY <2>1, <2>2, <2>3
<1> QED
  BY <1>1, <1>2, <1>3

(* A `nodal run` that goes on or goes away, over rows that are kept. *)
LEMMA WrapperKeeps ==
    ASSUME IInv, table' = table, RowsKept, NEW n \in Numbers, NEW w,
           wrapper' = [wrapper EXCEPT ![n] = w],
           w = NoWrapper \/ /\ wrapper[n] # NoWrapper /\ w.env = wrapper[n].env
                            /\ w.pc = "waiting" => w.row \in DOMAIN rows' /\ rows'[w.row].grp = n
    PROVE  WrapperFits'
<1>0. WrapperFits /\ wrapper \in [Numbers -> [pc : {"none", "spawned", "waiting"},
                                             env : Envs \cup {NoEnv}, row : Nat]]
  BY DEF IInv, TypeOK
<1>1. wrapper'[n] = w /\ \A m \in Numbers \ {n} : wrapper'[m] = wrapper[m]
  BY <1>0
<1> SUFFICES ASSUME NEW m \in Numbers, wrapper'[m] # NoWrapper
             PROVE  /\ wrapper'[m].env \in Envs
                    /\ wrapper'[m].pc = "waiting" =>
                           wrapper'[m].row \in DOMAIN rows' /\ rows'[wrapper'[m].row].grp = m
                    /\ \A k \in Members(m) : table[k].own = wrapper'[m].env \/ table[k].late
  BY DEF WrapperFits, Theirs, Members
<1>2. CASE m # n
  BY <1>0, <1>1, <1>2 DEF WrapperFits, RowsKept, Theirs
<1>3. CASE m = n
  BY <1>0, <1>1, <1>3 DEF WrapperFits, Theirs
<1> QED
  BY <1>2, <1>3

(* Rows that are ended are kept (sessions::end, end_all). *)
LEMMA RowsEnd ==
    ASSUME TypeOK, NEW is, rows' = EndRows(is)
    PROVE  /\ rows' \in Seq(Records) /\ RowsKept /\ DOMAIN rows' = DOMAIN rows
           /\ \A i \in DOMAIN rows : rows[i].open /\ ~rows'[i].open => i \in is
<1>1. /\ rows \in Seq(Records) /\ Len(rows) \in Nat /\ DOMAIN rows = 1..Len(rows)
      /\ \A i \in DOMAIN rows : rows[i] \in Records
  BY RowTypes
<1>2. rows' = [i \in 1..Len(rows) |-> [rows[i] EXCEPT !.open = @ /\ i \notin is]]
  BY <1>1 DEF EndRows
<1>3. ASSUME NEW i \in 1..Len(rows), NEW b \in BOOLEAN, b = (rows[i].open /\ i \notin is)
      PROVE  /\ [rows[i] EXCEPT !.open = b] \in Records
             /\ [rows[i] EXCEPT !.open = b].grp = rows[i].grp
             /\ [rows[i] EXCEPT !.open = b].env = rows[i].env
             /\ [rows[i] EXCEPT !.open = b].open = b
  BY <1>1, <1>3 DEF Records
<1>4. ASSUME NEW i \in 1..Len(rows)
      PROVE  /\ rows'[i] \in Records /\ rows'[i].grp = rows[i].grp /\ rows'[i].env = rows[i].env
             /\ rows'[i].open = (rows[i].open /\ i \notin is)
  <2>1. rows'[i] = [rows[i] EXCEPT !.open = rows[i].open /\ i \notin is]
    BY <1>1, <1>2 DEF Records
  <2>2. (rows[i].open /\ i \notin is) \in BOOLEAN
    OBVIOUS
  <2> QED
    BY <1>3, <2>1, <2>2
<1>5. rows' \in Seq(Records)
  <2>1. rows' = [j \in 1..Len(rows) |-> rows'[j]]
    BY <1>1, <1>2
  <2>2. \A j \in 1..Len(rows) : rows'[j] \in Records
    BY <1>4
  <2> QED
    BY <1>1, <2>1, <2>2
<1>6. DOMAIN rows' = DOMAIN rows
  BY <1>1, <1>2
<1> QED
  BY <1>1, <1>4, <1>5, <1>6 DEF RowsKept

LEMMA RowEnds ==
    ASSUME TypeOK, NEW i, rows' = EndRow(rows, i)
    PROVE  /\ rows' \in Seq(Records) /\ RowsKept /\ DOMAIN rows' = DOMAIN rows
           /\ \A j \in DOMAIN rows : rows[j].open /\ ~rows'[j].open => j = i
<1>1. /\ rows \in Seq(Records) /\ Len(rows) \in Nat /\ DOMAIN rows = 1..Len(rows)
      /\ \A j \in DOMAIN rows : rows[j] \in Records
  BY RowTypes
<1>2. rows' = [rows EXCEPT ![i].open = FALSE]
  BY DEF EndRow
<1>3. ASSUME NEW j \in 1..Len(rows)
      PROVE  /\ [rows[j] EXCEPT !.open = FALSE] \in Records
             /\ [rows[j] EXCEPT !.open = FALSE].grp = rows[j].grp
             /\ [rows[j] EXCEPT !.open = FALSE].env = rows[j].env
             /\ [rows[j] EXCEPT !.open = FALSE].open = FALSE
  BY <1>1 DEF Records
<1>4. DOMAIN rows' = DOMAIN rows /\ \A j \in DOMAIN rows :
          rows'[j] = IF j = i THEN [rows[j] EXCEPT !.open = FALSE] ELSE rows[j]
  BY <1>1, <1>2
<1>5. \A j \in 1..Len(rows) : rows'[j] \in Records
  BY <1>1, <1>3, <1>4
<1>6. rows' \in Seq(Records)
  <2>1. rows' = [j \in 1..Len(rows) |-> rows'[j]]
    BY <1>1, <1>2
  <2> QED
    BY <1>1, <1>5, <2>1
<1> QED
  BY <1>1, <1>3, <1>4, <1>6 DEF RowsKept

(* Rows that nobody touches are kept. *)
LEMMA RowsStay == rows' = rows => RowsKept
BY DEF RowsKept

(* A wrapper that does not move fits rows that are kept. *)
LEMMA WrapperStays ==
    ASSUME IInv, table' = table, RowsKept, wrapper' = wrapper
    PROVE  WrapperFits'
BY DEF IInv, WrapperFits, RowsKept, Theirs, Members

(* A step that is not of a stop. *)
LEMMA QuietInv ==
    ASSUME IInv, table' = table, stop' = stop, RowsKept, TypeOK', WrapperFits'
    PROVE  IInv'
<1>1. Marks' /\ RowsAreOurs' /\ StopFits'
  BY QuietKeeps DEF StopFits
<1> QED
  BY <1>1 DEF IInv

(* The row of a command is written, and ended (open and close of run.rs).   *)
LEMMA RecordTetherInv ==
    ASSUME IInv, NEW n \in Numbers, RecordTether(n)
    PROVE  IInv'
<1>0. TypeOK /\ WrapperFits
  BY DEF IInv
<1>1. wrapper[n] # NoWrapper /\ wrapper[n].env \in Envs /\ \A m \in Members(n) : Theirs(m, {wrapper[n].env})
  <2>1. wrapper[n].pc = "spawned" /\ NoWrapper.pc = "none"
    BY DEF RecordTether, NoWrapper
  <2>2. wrapper[n] # NoWrapper
    BY <2>1
  <2> QED
    BY <1>0, <2>2 DEF WrapperFits
<1>2. /\ rows \in Seq(Records) /\ Len(rows) \in Nat /\ DOMAIN rows = 1..Len(rows)
  BY <1>0, RowTypes
<1> DEFINE new == Row(wrapper[n].env, n, n)
<1>3. new \in Records /\ new.grp = n /\ new.env = wrapper[n].env
  BY <1>1 DEF Row, Records
<1>4. rows' = Append(rows, new) /\ table' = table /\ UNCHANGED <<starts, env, scan, stop, calls>>
  BY DEF RecordTether
<1> HIDE DEF new
<1>5. /\ rows' \in Seq(Records) /\ DOMAIN rows' = 1..(Len(rows) + 1) /\ rows'[Len(rows) + 1] = new
      /\ \A i \in DOMAIN rows : rows'[i] = rows[i]
  BY <1>2, <1>3, <1>4
<1>6. RowsKept
  <2>1. \A i \in DOMAIN rows' \ DOMAIN rows : i = Len(rows) + 1
    BY <1>2, <1>5
  <2>2. \A i \in DOMAIN rows : i \in DOMAIN rows'
    BY <1>2, <1>5
  <2> QED
    BY <1>1, <1>3, <1>5, <2>1, <2>2 DEF RowsKept
<1> DEFINE w == [wrapper[n] EXCEPT !.pc = "waiting", !.row = Len(rows) + 1]
<1>7. /\ wrapper \in [Numbers -> [pc : {"none", "spawned", "waiting"}, env : Envs \cup {NoEnv}, row : Nat]]
      /\ wrapper' = [wrapper EXCEPT ![n] = w]
  BY <1>0 DEF TypeOK, RecordTether
<1>8. /\ w.env = wrapper[n].env /\ w.row = Len(rows) + 1
      /\ w \in [pc : {"none", "spawned", "waiting"}, env : Envs \cup {NoEnv}, row : Nat]
  <2>1. wrapper[n] \in [pc : {"none", "spawned", "waiting"}, env : Envs \cup {NoEnv}, row : Nat]
    BY <1>7
  <2>2. Len(rows) + 1 \in Nat
    BY <1>2
  <2> QED
    BY <2>1, <2>2
<1>9. w.row \in DOMAIN rows' /\ rows'[w.row].grp = n
  BY <1>2, <1>3, <1>5, <1>8
<1>10. WrapperFits'
  <2> HIDE DEF w
  <2> QED
    BY <1>1, <1>4, <1>6, <1>7, <1>8, <1>9, WrapperKeeps
<1>11. wrapper' \in [Numbers -> [pc : {"none", "spawned", "waiting"}, env : Envs \cup {NoEnv}, row : Nat]]
  <2> HIDE DEF w
  <2> QED
    BY <1>7, <1>8
<1>12. TypeOK'
  BY <1>0, <1>4, <1>5, <1>11 DEF TypeOK, Records
<1> QED
  BY <1>4, <1>6, <1>10, <1>12, QuietInv

LEMMA CloseTetherInv ==
    ASSUME IInv, NEW n \in Numbers, CloseTether(n) \/ KillWrapper(n)
    PROVE  IInv'
<1>0. TypeOK
  BY DEF IInv
<1>1. /\ table' = table /\ UNCHANGED <<starts, env, scan, stop, calls>>
      /\ wrapper' = [wrapper EXCEPT ![n] = NoWrapper]
      /\ rows' = rows \/ rows' = EndRow(rows, wrapper[n].row)
  BY DEF CloseTether, KillWrapper
<1>2. rows' \in Seq(Records) /\ RowsKept
  <2>1. CASE rows' = rows
    BY <1>0, <2>1, RowTypes, RowsStay
  <2>2. CASE rows' = EndRow(rows, wrapper[n].row)
    BY <1>0, <2>2, RowEnds
  <2> QED
    BY <1>1, <2>1, <2>2
<1>3. WrapperFits'
  BY <1>1, <1>2, WrapperKeeps
<1>4. /\ wrapper \in [Numbers -> [pc : {"none", "spawned", "waiting"}, env : Envs \cup {NoEnv}, row : Nat]]
      /\ NoWrapper \in [pc : {"none", "spawned", "waiting"}, env : Envs \cup {NoEnv}, row : Nat]
  BY <1>0 DEF TypeOK, NoWrapper
<1>5. wrapper' \in [Numbers -> [pc : {"none", "spawned", "waiting"}, env : Envs \cup {NoEnv}, row : Nat]]
  BY <1>1, <1>4
<1>6. TypeOK'
  BY <1>0, <1>1, <1>2, <1>5 DEF TypeOK, Records
<1> QED
  BY <1>1, <1>2, <1>3, <1>6, QuietInv

(* An observer ends and opens rows (reconcile, close_dead_groups). *)
LEMMA CloseDeadInv ==
    ASSUME IInv, NEW i, CloseDead(i)
    PROVE  IInv'
<1>0. TypeOK
  BY DEF IInv
<1>1. /\ table' = table /\ UNCHANGED <<starts, env, wrapper, scan, stop, calls>>
      /\ rows' = EndRow(rows, i)
  BY DEF CloseDead
<1>2. rows' \in Seq(Records) /\ RowsKept
  BY <1>0, <1>1, RowEnds
<1>3. TypeOK'
  BY <1>0, <1>1, <1>2 DEF TypeOK, Records
<1> QED
  BY <1>1, <1>2, <1>3, QuietInv, WrapperStays

LEMMA ScanInv == IInv /\ (Scan \/ ReadOpen) => IInv'
<1> SUFFICES ASSUME IInv, Scan \/ ReadOpen PROVE IInv'
  OBVIOUS
<1>0. TypeOK
  BY DEF IInv
<1>1. UNCHANGED <<table, starts, env, rows, wrapper, stop>> /\ (calls' = calls \/ calls' = calls + 1)
  BY DEF Scan, ReadOpen, Called
<1>2. scan' \in [pc : {"idle", "scanned", "read"}, seen : SUBSET (Numbers \X Envs), open : SUBSET Nat]
  <2>1. CASE Scan
    BY <2>1 DEF Scan
  <2>2. CASE ReadOpen
    <3>1. OpenRows \subseteq Nat
      BY <1>0, RowTypes DEF OpenRows
    <3>2. scan' = [scan EXCEPT !.pc = "read", !.open = OpenRows]
      BY <2>2 DEF ReadOpen
    <3> QED
      BY <1>0, <3>1, <3>2 DEF TypeOK
  <2> QED
    BY <2>1, <2>2
<1>3. TypeOK'
  BY <1>0, <1>1, <1>2 DEF TypeOK
<1> QED
  BY <1>1, <1>3, RowsStay, QuietInv, WrapperStays

(* The rows a reconcile opens are of no group: what it knows is a process.  *)
LEMMA Reconciled ==
    ASSUME TypeOK, Reconcile
    PROVE  /\ rows' \in Seq(Records) /\ RowsKept
           /\ \A i \in DOMAIN rows : rows[i].open /\ ~rows'[i].open => rows[i].grp = 0
<1>1. /\ rows \in Seq(Records) /\ Len(rows) \in Nat /\ DOMAIN rows = 1..Len(rows)
      /\ \A i \in DOMAIN rows : rows[i] \in Records
  BY RowTypes
<1> DEFINE is == {i \in scan.open : EndsHere(i)}
<1>2. PICK new \in [1..Cardinality(Opens) -> Opens] :
          rows' = EndRows(is) \o [k \in DOMAIN new |-> Row(new[k][2], new[k][1], 0)]
  BY DEF Reconcile
<1> DEFINE ended == EndRows(is)
           opened == [k \in 1..Cardinality(Opens) |-> Row(new[k][2], new[k][1], 0)]
<1>3. Opens \subseteq Numbers \X Envs
  BY DEF Opens, TypeOK
<1>4. Cardinality(Opens) \in Nat
  <2>1. IsFiniteSet(Numbers \X Envs)
    BY SessionsAssumption, FS_Product
  <2>2. IsFiniteSet(Opens)
    BY <1>3, <2>1, FS_Subset
  <2> QED
    BY <2>2, FS_CardinalityType
<1>5. \A k \in 1..Cardinality(Opens) : opened[k] \in Records /\ opened[k].grp = 0
  <2> SUFFICES ASSUME NEW k \in 1..Cardinality(Opens)
               PROVE  Row(new[k][2], new[k][1], 0) \in Records /\ Row(new[k][2], new[k][1], 0).grp = 0
    OBVIOUS
  <2>1. new[k] \in Numbers \X Envs
    BY <1>3
  <2>2. new[k][1] \in Numbers /\ new[k][2] \in Envs
    BY <2>1
  <2> QED
    BY <2>2 DEF Row, Records
<1>6. opened \in Seq(Records) /\ Len(opened) = Cardinality(Opens)
  BY <1>4, <1>5
<1>7. /\ ended \in Seq(Records) /\ DOMAIN ended = DOMAIN rows /\ Len(ended) = Len(rows)
      /\ \A i \in DOMAIN rows : /\ ended[i].grp = rows[i].grp /\ ended[i].env = rows[i].env
                                /\ ended[i].open = (rows[i].open /\ i \notin is)
  <2>1. ASSUME NEW i \in DOMAIN rows
        PROVE  /\ ended[i] \in Records /\ ended[i].grp = rows[i].grp /\ ended[i].env = rows[i].env
               /\ ended[i].open = (rows[i].open /\ i \notin is)
    <3>1. ended[i] = [rows[i] EXCEPT !.open = rows[i].open /\ i \notin is]
      BY <1>1 DEF EndRows, Records
    <3>2. ASSUME NEW b \in BOOLEAN
          PROVE  /\ [rows[i] EXCEPT !.open = b] \in Records /\ [rows[i] EXCEPT !.open = b].grp = rows[i].grp
                 /\ [rows[i] EXCEPT !.open = b].env = rows[i].env /\ [rows[i] EXCEPT !.open = b].open = b
      BY <1>1 DEF Records
    <3>3. (rows[i].open /\ i \notin is) \in BOOLEAN
      OBVIOUS
    <3> HIDE DEF ended, is
    <3> QED
      BY <3>1, <3>2, <3>3
  <2>2. ended = [i \in 1..Len(rows) |-> ended[i]]
    BY <1>1 DEF EndRows
  <2> HIDE DEF ended, is
  <2>3. ended \in Seq(Records) /\ Len(ended) = Len(rows)
    BY <1>1, <2>1, <2>2
  <2> QED
    BY <1>1, <2>1, <2>2, <2>3
<1>8. rows' = ended \o opened
  BY <1>2
<1>9. \A i \in is : EndsHere(i)
  OBVIOUS
<1> HIDE DEF ended, opened, is
<1>10. /\ rows' \in Seq(Records) /\ DOMAIN rows' = 1..(Len(rows) + Cardinality(Opens))
       /\ \A i \in DOMAIN rows : rows'[i] = ended[i]
       /\ \A i \in DOMAIN rows' \ DOMAIN rows : rows'[i] = opened[i - Len(rows)]
                                               /\ i - Len(rows) \in 1..Cardinality(Opens)
  BY <1>1, <1>4, <1>6, <1>7, <1>8
<1>11. RowsKept
  <2>1. \A i \in DOMAIN rows : i \in DOMAIN rows'
    BY <1>1, <1>4, <1>10
  <2>2. \A i \in DOMAIN rows' \ DOMAIN rows : rows'[i].grp = 0
    BY <1>5, <1>10
  <2> QED
    BY <1>7, <1>10, <2>1, <2>2 DEF RowsKept
<1>12. \A i \in DOMAIN rows : rows[i].open /\ ~rows'[i].open => rows[i].grp = 0
  BY <1>7, <1>9, <1>10 DEF EndsHere
<1> QED
  BY <1>10, <1>11, <1>12

LEMMA ReconcileInv == IInv /\ Reconcile => IInv'
<1> SUFFICES ASSUME IInv, Reconcile PROVE IInv'
  OBVIOUS
<1>0. TypeOK
  BY DEF IInv
<1>1. UNCHANGED <<table, starts, env, wrapper, stop, calls>> /\ scan' = NotScanning
  BY DEF Reconcile
<1>2. rows' \in Seq(Records) /\ RowsKept
  BY <1>0, Reconciled
<1>3. TypeOK'
  BY <1>0, <1>1, <1>2 DEF TypeOK, Records, NotScanning
<1> QED
  BY <1>1, <1>2, <1>3, QuietInv, WrapperStays

(***************************************************************************)
(* The steps of a reclaim and of a sweep.                                  *)
(***************************************************************************)
Stops == [pc : {"idle", "listed", "rung", "stopped"}, envs : SUBSET Envs,
          caller : Callers \cup {0}, held : SUBSET (Nat \X Numbers), targets : SUBSET Targets,
          todo : SUBSET Targets, sent : SUBSET Targets, standing : SUBSET Targets,
          spared : SUBSET Targets, rung : {0, 1, 2, 3}]

(* A stop is what its parts are. *)
Whole(v) == [pc |-> v.pc, envs |-> v.envs, caller |-> v.caller, held |-> v.held, targets |-> v.targets,
             todo |-> v.todo, sent |-> v.sent, standing |-> v.standing, spared |-> v.spared,
             rung |-> v.rung]

LEMMA WholeTypes ==
    ASSUME NEW v, v = Whole(v), v.pc \in {"idle", "listed", "rung", "stopped"}, v.envs \in SUBSET Envs,
           v.caller \in Callers \cup {0}, v.held \in SUBSET (Nat \X Numbers),
           v.targets \in SUBSET Targets, v.todo \in SUBSET Targets, v.sent \in SUBSET Targets,
           v.standing \in SUBSET Targets, v.spared \in SUBSET Targets, v.rung \in {0, 1, 2, 3}
    PROVE  v \in Stops
BY DEF Whole, Stops

(* One stop moves, over rows that are kept. *)
LEMMA StopInv ==
    ASSUME IInv, UNCHANGED <<table, starts, wrapper, scan>>, RowsKept, rows' \in Seq(Records),
           env' \in [Envs -> {"live", "absent"}], calls' \in Nat,
           NEW s \in Stoppers, NEW v \in Stops, stop' = [stop EXCEPT ![s] = v],
           stop'[s] = v => HeldIsOurs(s)' /\ TargetsAreOurs(s)' /\ LadderFits(s)'
    PROVE  IInv'
<1>0. TypeOK /\ stop \in [Stoppers -> Stops]
  BY DEF IInv, TypeOK, Stops
<1>1. /\ stop' \in [Stoppers -> Stops] /\ stop'[s] = v
      /\ \A r \in Stoppers \ {s} : stop'[r] = stop[r]
  BY <1>0
<1>2. Marks' /\ RowsAreOurs' /\ \A r \in Stoppers \ {s} : HeldIsOurs(r)' /\ TargetsAreOurs(r)' /\ LadderFits(r)'
  BY <1>1, QuietKeeps
<1>3. WrapperFits'
  BY WrapperStays
<1>4. StopFits'
  BY <1>1, <1>2 DEF StopFits
<1>5. TypeOK'
  BY <1>0, <1>1 DEF TypeOK, Stops, Records
<1> QED
  BY <1>2, <1>3, <1>4, <1>5 DEF IInv

(* What a step of a stop leaves of the rest. *)
LEMMA RestTypes ==
    ASSUME IInv, UNCHANGED <<rows, env>>, calls' = calls \/ calls' = calls + 1
    PROVE  /\ RowsKept /\ rows' \in Seq(Records) /\ env' \in [Envs -> {"live", "absent"}]
           /\ calls' \in Nat
<1>1. TypeOK
  BY DEF IInv
<1>2. RowsKept /\ rows' \in Seq(Records)
  BY <1>1, RowsStay, RowTypes
<1> QED
  BY <1>1, <1>2 DEF TypeOK

(* A stop that is over knows nothing. *)
LEMMA IdleTypes == Idle \in Stops /\ Idle.held = {} /\ Idle.targets = {} /\ Idle.pc = "idle"
                   /\ Idle.todo = {} /\ Idle.sent = {} /\ Idle.standing = {} /\ Idle.spared = {}
BY DEF Idle, Stops

LEMMA IdleFits ==
    ASSUME NEW s \in Stoppers, stop'[s] = Idle
    PROVE  HeldIsOurs(s)' /\ TargetsAreOurs(s)' /\ LadderFits(s)'
BY IdleTypes DEF HeldIsOurs, TargetsAreOurs, LadderFits

(* The groups of open rows are read (list_open_tethers). *)
LEMMA ListInv ==
    ASSUME IInv, NEW s \in Stoppers, NEW es \in SUBSET Envs, NEW caller \in Callers, List(s, es, caller)
    PROVE  IInv'
<1>0. TypeOK /\ RowsAreOurs
  BY DEF IInv
<1>v. PICK v : v = [Idle EXCEPT !.pc = "listed", !.envs = es, !.caller = caller, !.held = Tethers(es)]
  OBVIOUS
<1>1. /\ UNCHANGED <<table, starts, env, rows, wrapper, scan>> /\ calls' = calls + 1
      /\ stop' = [stop EXCEPT ![s] = v]
  BY <1>v DEF List, Called
<1>2. ASSUME NEW h \in Tethers(es)
      PROVE  /\ h \in Nat \X Numbers /\ h[1] \in OpenRows /\ h[1] \in DOMAIN rows
             /\ rows[h[1]].grp = h[2] /\ h[2] # 0 /\ rows[h[1]].env \in es
  <2>1. PICK i \in OpenRows : h = <<i, rows[i].grp>> /\ rows[i].grp # 0 /\ rows[i].env \in es
    BY DEF Tethers
  <2>2. i \in Nat /\ i \in DOMAIN rows /\ rows[i].grp \in Numbers
    BY <1>0, <2>1, RowTypes DEF OpenRows
  <2> QED
    BY <2>1, <2>2
<1>3. /\ v \in Stops /\ v.held = Tethers(es) /\ v.envs = es /\ v.targets = {} /\ v.pc = "listed"
      /\ v.todo = {} /\ v.sent = {} /\ v.standing = {} /\ v.spared = {}
  <2>1. Tethers(es) \in SUBSET (Nat \X Numbers)
    BY <1>2
  <2>2. /\ v.pc = "listed" /\ v.held = Tethers(es) /\ v.envs = es /\ v.caller = caller
        /\ v.targets = {} /\ v.todo = {} /\ v.sent = {} /\ v.standing = {} /\ v.spared = {} /\ v.rung = 0
    BY <1>v DEF Idle
  <2>3. v = Whole(v)
    BY <1>v DEF Idle, Whole
  <2>4. v \in Stops
    BY <2>1, <2>2, <2>3, WholeTypes
  <2> QED
    BY <2>2, <2>4
<1>4. ASSUME stop'[s] = v PROVE HeldIsOurs(s)' /\ TargetsAreOurs(s)' /\ LadderFits(s)'
  <2>1. \A h \in Tethers(es) : \A m \in Members(h[2]) : Theirs(m, es)
    BY <1>0, <1>2 DEF RowsAreOurs, Theirs
  <2>2. HeldIsOurs(s)'
    BY <1>1, <1>2, <1>3, <1>4, <2>1 DEF HeldIsOurs, Theirs, Members
  <2> QED
    BY <1>3, <1>4, <2>2 DEF TargetsAreOurs, LadderFits
<1> QED
  BY <1>1, <1>3, <1>4, RestTypes, StopInv

(* The table is read once more, and the ladder begins (processes).          *)
LEMMA BeginStopInv ==
    ASSUME IInv, NEW s \in Stoppers, BeginStop(s)
    PROVE  IInv'
<1>0. TypeOK /\ Marks /\ HeldIsOurs(s) /\ LadderFits(s) /\ stop[s] \in Stops
  BY DEF IInv, StopFits, TypeOK, Stops
<1> DEFINE caller == IF stop[s].caller # 0 /\ Running(stop[s].caller) THEN stop[s].caller ELSE 0
           spared == {t \in TargetsOf(s) : Spares(caller, t)}
<1>v. PICK v : v = [stop[s] EXCEPT !.pc = "rung", !.targets = TargetsOf(s), !.spared = spared,
                                   !.todo = TargetsOf(s) \ spared, !.rung = 1]
  OBVIOUS
<1>1. /\ UNCHANGED <<table, starts, env, rows, wrapper, scan, calls>>
      /\ stop' = [stop EXCEPT ![s] = v]
  BY <1>v, <1>0 DEF BeginStop, Stops
<1>2. /\ stop[s].pc = "listed" /\ stop[s].targets = {} /\ stop[s].sent = {} /\ stop[s].standing = {}
  BY <1>0 DEF BeginStop, LadderFits
<1>3. TargetsOf(s) \in SUBSET Targets
  BY <1>0 DEF TargetsOf, Targets, Group, Process, Certain, Stops
<1>4. /\ v \in Stops /\ v.pc = "rung" /\ v.targets = TargetsOf(s) /\ v.spared = spared
      /\ v.todo = TargetsOf(s) \ spared /\ v.sent = {} /\ v.standing = {}
      /\ v.held = stop[s].held /\ v.envs = stop[s].envs /\ v.caller = stop[s].caller
  <2>1. spared \in SUBSET Targets /\ TargetsOf(s) \ spared \in SUBSET Targets
    BY <1>3
  <2> HIDE DEF spared, caller
  <2>2. /\ v.pc = "rung" /\ v.targets = TargetsOf(s) /\ v.spared = spared
        /\ v.todo = TargetsOf(s) \ spared /\ v.rung = 1
        /\ v.sent = stop[s].sent /\ v.standing = stop[s].standing
        /\ v.held = stop[s].held /\ v.envs = stop[s].envs /\ v.caller = stop[s].caller
    BY <1>v, <1>0 DEF Stops
  <2>3. v = Whole(v)
    BY <1>v, <1>0 DEF Stops, Whole
  <2>4. v \in Stops
    <3>1. /\ stop[s].envs \in SUBSET Envs /\ stop[s].caller \in Callers \cup {0}
          /\ stop[s].held \in SUBSET (Nat \X Numbers)
      BY <1>0 DEF Stops
    <3> QED
      BY <1>2, <1>3, <2>1, <2>2, <2>3, <3>1, WholeTypes
  <2> QED
    BY <1>2, <2>2, <2>4
<1>5. ASSUME NEW t \in TargetsOf(s) \ spared, NEW n \in Reached(t)
      PROVE  table[n].late \/ (table[n].own \in stop[s].envs /\ n # stop[s].caller)
  <2>1. CASE \E h \in stop[s].held : t = Group(h[2])
    <3>1. PICK h \in stop[s].held : t = Group(h[2])
      BY <2>1
    <3>2. h[2] \in Numbers /\ n \in Members(h[2])
      BY <1>0, <1>5, <3>1 DEF Stops, Reached, Group
    <3>3. Theirs(n, stop[s].envs)
      BY <1>0, <3>1, <3>2 DEF HeldIsOurs
    <3>4. ASSUME n = stop[s].caller PROVE FALSE
      <4>1. Running(n) /\ n # 0 /\ table[n].grp = h[2]
        BY <3>2, NumbersAreNotZero, FreeTypes DEF Members, Running
      <4>2. caller = n
        BY <3>4, <4>1
      <4>3. Spares(caller, t)
        BY <3>1, <4>1, <4>2 DEF Spares
      <4> QED
        BY <4>3
    <3> QED
      BY <3>3, <3>4 DEF Theirs
  <2>2. CASE \E p \in Certain(s) : t = Process(p)
    <3>1. PICK p \in Certain(s) : t = Process(p)
      BY <2>2
    <3>2. n = p /\ p \in Numbers /\ Running(p)
      BY <3>1 DEF Reached, Process, Certain
    <3>3. table[n].own \in stop[s].envs
      <4>1. PICK e \in stop[s].envs : Carries(n, e)
        BY <3>1, <3>2 DEF Certain
      <4>2. e # NoEnv
        BY <1>0, SessionsAssumption DEF Stops
      <4> QED
        BY <1>0, <3>2, <4>1, <4>2 DEF Carries, Marks
    <3>4. ASSUME n = stop[s].caller PROVE FALSE
      <4>1. caller = n /\ n # 0
        BY <3>2, <3>4, NumbersAreNotZero
      <4>2. Spares(caller, t)
        BY <3>1, <3>2, <4>1 DEF Spares
      <4> QED
        BY <4>2
    <3> QED
      BY <3>3, <3>4
  <2> QED
    BY <2>1, <2>2 DEF TargetsOf
<1>6. ASSUME stop'[s] = v PROVE HeldIsOurs(s)' /\ TargetsAreOurs(s)' /\ LadderFits(s)'
  <2>1. HeldIsOurs(s)'
    BY <1>0, <1>1, <1>4, <1>6 DEF HeldIsOurs, Theirs, Members, TargetsOf
  <2>2. TargetsAreOurs(s)'
    BY <1>1, <1>4, <1>5, <1>6 DEF TargetsAreOurs, Reached, Members, Running
  <2>3. LadderFits(s)'
    <3> HIDE DEF spared
    <3> QED
      BY <1>4, <1>6 DEF LadderFits
  <2> QED
    BY <2>1, <2>2, <2>3
<1> QED
  BY <1>1, <1>4, <1>6, RestTypes, StopInv

(* One signal (send), and the end of a rung (settle). *)
LEMMA SendInv ==
    ASSUME IInv, NEW s \in Stoppers, NEW t \in Targets, Send(s, t)
    PROVE  IInv'
<1>0. TypeOK /\ HeldIsOurs(s) /\ TargetsAreOurs(s) /\ LadderFits(s) /\ stop[s] \in Stops
  BY DEF IInv, StopFits, TypeOK, Stops
<1> DEFINE sent == IF MaySignal(t) THEN stop[s].sent \cup {t} ELSE stop[s].sent
           v == [stop[s] EXCEPT !.todo = stop[s].todo \ {t}, !.sent = sent]
<1>1. /\ UNCHANGED <<table, starts, env, rows, wrapper, scan, calls>>
      /\ stop' = [stop EXCEPT ![s] = v] /\ stop[s].pc = "rung" /\ t \in stop[s].todo
  BY <1>0 DEF Send, Stops
<1>2. /\ v \in Stops /\ v.pc = "rung" /\ v.targets = stop[s].targets /\ v.spared = stop[s].spared
      /\ v.todo = stop[s].todo \ {t} /\ v.sent = sent /\ v.standing = stop[s].standing
      /\ v.held = stop[s].held /\ v.envs = stop[s].envs /\ v.caller = stop[s].caller
  <2>1. sent \in SUBSET Targets /\ stop[s].todo \ {t} \in SUBSET Targets
    BY <1>0 DEF Stops
  <2> HIDE DEF sent
  <2> QED
    BY <1>0, <1>1, <2>1 DEF Stops
<1>3. ~MaySignal(t) => Done(t)
  BY DEF MaySignal, Done
<1> HIDE DEF v
<1>4. ASSUME stop'[s] = v PROVE HeldIsOurs(s)' /\ TargetsAreOurs(s)' /\ LadderFits(s)'
  <2>1. HeldIsOurs(s)'
    BY <1>0, <1>1, <1>2, <1>4 DEF HeldIsOurs, Theirs, Members
  <2>2. TargetsAreOurs(s)'
    BY <1>0, <1>1, <1>2, <1>4 DEF TargetsAreOurs, Reached, Members, Running
  <2>3. LadderFits(s)'
    <3>1. \A u : Done(u)' <=> Done(u)
      BY <1>1 DEF Done, Reached, Members, Running
    <3>2. \A u \in stop[s].targets \ (stop[s].spared \cup (stop[s].todo \ {t}) \cup sent
                                      \cup stop[s].standing) : Done(u)
      BY <1>0, <1>3 DEF LadderFits
    <3>3. (stop[s].todo \ {t}) \cup sent \cup stop[s].standing \subseteq stop[s].targets \ stop[s].spared
      BY <1>0, <1>1 DEF LadderFits
    <3>4. stop[s].standing = {}
      BY <1>0, <1>1 DEF LadderFits
    <3> HIDE DEF sent
    <3> QED
      BY <1>1, <1>2, <1>4, <3>1, <3>2, <3>3, <3>4 DEF LadderFits
  <2> QED
    BY <2>1, <2>2, <2>3
<1> QED
  BY <1>1, <1>2, <1>4, RestTypes, StopInv

LEMMA SettleInv ==
    ASSUME IInv, NEW s \in Stoppers, Settle(s)
    PROVE  IInv'
<1>0. TypeOK /\ HeldIsOurs(s) /\ TargetsAreOurs(s) /\ LadderFits(s) /\ stop[s] \in Stops
  BY DEF IInv, StopFits, TypeOK, Stops
<1> DEFINE last == stop[s].rung = 3 \/ Left(s) = {}
           pc == IF last THEN "stopped" ELSE "rung"
           standing == IF last THEN Left(s) ELSE {}
           todo == IF last THEN {} ELSE Left(s)
           rung == IF last THEN 0 ELSE stop[s].rung + 1
<1>v. PICK v : v = [stop[s] EXCEPT !.pc = pc, !.standing = standing, !.todo = todo, !.sent = {},
                                   !.rung = rung]
  OBVIOUS
<1>1. /\ UNCHANGED <<table, starts, env, rows, wrapper, scan, calls>>
      /\ stop' = [stop EXCEPT ![s] = v] /\ stop[s].pc = "rung" /\ stop[s].todo = {}
  BY <1>v, <1>0 DEF Settle, Stops
<1>2. Left(s) \subseteq stop[s].sent /\ Left(s) \in SUBSET Targets
  BY <1>0 DEF Left, Stops
<1>3. /\ pc \in {"rung", "stopped"} /\ standing \in SUBSET Targets /\ todo \in SUBSET Targets
      /\ pc = "stopped" => todo = {}
      /\ pc = "rung" => standing = {}
      /\ standing \cup todo = Left(s)
      /\ rung \in {0, 1, 2, 3}
  <2>1. rung \in {0, 1, 2, 3}
    BY <1>0 DEF Stops
  <2> QED
    BY <1>2, <2>1
<1> HIDE DEF pc, standing, todo, rung
<1>4. /\ v \in Stops /\ v.pc = pc /\ v.targets = stop[s].targets /\ v.spared = stop[s].spared
      /\ v.todo = todo /\ v.sent = {} /\ v.standing = standing
      /\ v.held = stop[s].held /\ v.envs = stop[s].envs /\ v.caller = stop[s].caller
  <2>1. /\ v.pc = pc /\ v.targets = stop[s].targets /\ v.spared = stop[s].spared
        /\ v.todo = todo /\ v.sent = {} /\ v.standing = standing /\ v.rung = rung
        /\ v.held = stop[s].held /\ v.envs = stop[s].envs /\ v.caller = stop[s].caller
    BY <1>v, <1>0 DEF Stops
  <2>2. v = Whole(v)
    BY <1>v, <1>0 DEF Stops, Whole
  <2>3. /\ stop[s].envs \in SUBSET Envs /\ stop[s].caller \in Callers \cup {0}
        /\ stop[s].held \in SUBSET (Nat \X Numbers) /\ stop[s].targets \in SUBSET Targets
        /\ stop[s].spared \in SUBSET Targets
    BY <1>0 DEF Stops
  <2>4. v \in Stops
    BY <1>3, <2>1, <2>2, <2>3, WholeTypes
  <2> QED
    BY <2>1, <2>4
<1>5. \A u \in stop[s].sent \ Left(s) : Done(u)
  BY DEF Left, Alive, Done
<1>6. ASSUME stop'[s] = v PROVE HeldIsOurs(s)' /\ TargetsAreOurs(s)' /\ LadderFits(s)'
  <2>1. HeldIsOurs(s)'
    BY <1>0, <1>1, <1>3, <1>4, <1>6 DEF HeldIsOurs, Theirs, Members
  <2>2. TargetsAreOurs(s)'
    BY <1>0, <1>1, <1>4, <1>6 DEF TargetsAreOurs, Reached, Members, Running
  <2>3. LadderFits(s)'
    <3>1. \A u : Done(u)' <=> Done(u)
      BY <1>1 DEF Done, Reached, Members, Running
    <3>2. \A u \in stop[s].targets \ (stop[s].spared \cup todo \cup standing) : Done(u)
      BY <1>0, <1>1, <1>3, <1>5 DEF LadderFits
    <3>3. todo \cup standing \subseteq stop[s].targets \ stop[s].spared
      BY <1>0, <1>2, <1>3 DEF LadderFits
    <3> QED
      BY <1>3, <1>4, <1>6, <3>1, <3>2, <3>3 DEF LadderFits
  <2> QED
    BY <2>1, <2>2, <2>3
<1> QED
  BY <1>1, <1>4, <1>6, RestTypes, StopInv

(* The reclaim commits: the rows of its environment end with it (commit_of). *)
LEMMA CommitInv == IInv /\ Commit => IInv'
<1> SUFFICES ASSUME IInv, Commit PROVE IInv'
  OBVIOUS
<1>0. TypeOK
  BY DEF IInv
<1>1. /\ UNCHANGED <<table, starts, wrapper, scan, calls>> /\ rows' = EndRows(Closing)
      /\ env' = [e \in Envs |-> IF e \in stop["reclaim"].envs THEN "absent" ELSE env[e]]
      /\ stop' = [stop EXCEPT !["reclaim"] = Idle]
  BY DEF Commit
<1>2. rows' \in Seq(Records) /\ RowsKept
  BY <1>0, <1>1, RowsEnd
<1>3. env' \in [Envs -> {"live", "absent"}]
  BY <1>0, <1>1 DEF TypeOK
<1>4. calls' \in Nat
  BY <1>0, <1>1 DEF TypeOK
<1>5. "reclaim" \in Stoppers
  BY DEF Stoppers
<1> QED
  BY <1>1, <1>2, <1>3, <1>4, <1>5, IdleTypes, IdleFits, StopInv

(* The sweep asks again about one group, and closes its row (close_empty).  *)
LEMMA CloseEmptyInv ==
    ASSUME IInv, NEW h \in stop["gc"].held, CloseEmpty(h)
    PROVE  IInv'
<1> DEFINE s == "gc"
<1>s. s \in Stoppers
  BY DEF Stoppers
<1> HIDE DEF s
<1>0. TypeOK /\ HeldIsOurs(s) /\ TargetsAreOurs(s) /\ LadderFits(s) /\ stop[s] \in Stops
  BY <1>s DEF IInv, StopFits, TypeOK, Stops
<1>v. PICK v : v = [stop[s] EXCEPT !.held = stop[s].held \ {h}]
  OBVIOUS
<1>1. /\ UNCHANGED <<table, starts, env, wrapper, scan, calls>>
      /\ stop' = [stop EXCEPT ![s] = v]
      /\ rows' = rows \/ rows' = EndRow(rows, h[1])
  BY <1>v, <1>0 DEF CloseEmpty, Stops, s
<1>2. rows' \in Seq(Records) /\ RowsKept
  <2>1. CASE rows' = rows
    BY <1>0, <2>1, RowTypes, RowsStay
  <2>2. CASE rows' = EndRow(rows, h[1])
    BY <1>0, <2>2, RowEnds
  <2> QED
    BY <1>1, <2>1, <2>2
<1>3. /\ v \in Stops /\ v.held = stop[s].held \ {h} /\ v.targets = stop[s].targets
      /\ v.todo = stop[s].todo /\ v.sent = stop[s].sent /\ v.standing = stop[s].standing
      /\ v.spared = stop[s].spared /\ v.pc = stop[s].pc /\ v.envs = stop[s].envs
      /\ v.caller = stop[s].caller
  BY <1>v, <1>0 DEF Stops
<1>4. ASSUME stop'[s] = v PROVE HeldIsOurs(s)' /\ TargetsAreOurs(s)' /\ LadderFits(s)'
  <2>1. HeldIsOurs(s)'
    BY <1>0, <1>1, <1>2, <1>3, <1>4 DEF HeldIsOurs, RowsKept, Theirs, Members
  <2>2. TargetsAreOurs(s)'
    BY <1>0, <1>1, <1>3, <1>4 DEF TargetsAreOurs, Reached, Members, Running
  <2>3. LadderFits(s)'
    BY <1>0, <1>1, <1>3, <1>4 DEF LadderFits, Done, Reached, Members, Running
  <2> QED
    BY <2>1, <2>2, <2>3
<1>5. env' \in [Envs -> {"live", "absent"}] /\ calls' \in Nat
  BY <1>0, <1>1 DEF TypeOK
<1> QED
  BY <1>s, <1>1, <1>2, <1>3, <1>4, <1>5, StopInv

(* A stop is over, or is cut off. *)
LEMMA EndsInv ==
    ASSUME IInv, NEW s \in Stoppers, UNCHANGED <<table, starts, env, rows, wrapper, scan, calls>>,
           stop' = [stop EXCEPT ![s] = Idle]
    PROVE  IInv'
BY IdleTypes, IdleFits, RestTypes, StopInv 

(***************************************************************************)
(* The theorems.                                                           *)
(***************************************************************************)
LEMMA InitInv == Init => IInv
<1> SUFFICES ASSUME Init PROVE IInv
  OBVIOUS
<1>1. TypeOK
  <2>1. stop \in [Stoppers -> Stops]
    BY IdleTypes DEF Init
  <2>2. wrapper \in [Numbers -> [pc : {"none", "spawned", "waiting"}, env : Envs \cup {NoEnv}, row : Nat]]
    BY DEF Init, NoWrapper
  <2>3. scan \in [pc : {"idle", "scanned", "read"}, seen : SUBSET (Numbers \X Envs), open : SUBSET Nat]
    BY DEF Init, NotScanning
  <2>4. rows \in Seq(Records)
    BY DEF Init
  <2> QED
    BY <2>1, <2>2, <2>3, <2>4 DEF Init, TypeOK, Stops, Records
<1>2. Marks /\ WrapperFits
  BY FreeTypes DEF Init, Marks, WrapperFits
<1>3. RowsAreOurs
  BY DEF Init, RowsAreOurs, OpenRows
<1>4. StopFits
  BY IdleTypes DEF Init, StopFits, HeldIsOurs, TargetsAreOurs, LadderFits
<1> QED
  BY <1>1, <1>2, <1>3, <1>4 DEF IInv

LEMMA StepInv == IInv /\ [Next]_vars => IInv'
<1> SUFFICES ASSUME IInv, [Next]_vars PROVE IInv'
  OBVIOUS
<1>1. CASE Machine
  BY <1>1, MachineInv
<1>2. CASE Tether
  BY <1>2, StartTetherInv, RecordTetherInv, CloseTetherInv DEF Tether
<1>3. CASE Observe
  BY <1>3, CloseDeadInv, ScanInv, ReconcileInv DEF Observe
<1>4. CASE Finish
  <2>1. CASE Swept
    BY <2>1, EndsInv DEF Swept, Stoppers
  <2> QED
    BY <1>4, <2>1, CommitInv, CloseEmptyInv DEF Finish
<1>5. CASE \/ \E e \in Envs, c \in Callers : ListReclaim(e, c)
           \/ \E c \in Callers : ListGone(c)
  <2>1. \E s \in Stoppers, es \in SUBSET Envs, c \in Callers : List(s, es, c)
    BY <1>5 DEF ListReclaim, ListGone, Stoppers, Absent
  <2> QED
    BY <2>1, ListInv
<1>6. CASE \E s \in Stoppers : Climb(s) \/ Cut(s)
  <2>1. PICK s \in Stoppers : Climb(s) \/ Cut(s)
    BY <1>6
  <2>2. CASE Cut(s)
    BY <2>2, EndsInv DEF Cut
  <2> QED
    BY <2>1, <2>2, BeginStopInv, SendInv, SettleInv DEF Climb
<1>7. CASE UNCHANGED vars
  <2>1. UNCHANGED <<table, starts, env, rows, wrapper, scan, stop, calls>>
    BY <1>7 DEF vars
  <2>2. TypeOK'
    BY <2>1 DEF IInv, TypeOK
  <2> QED
    BY <2>1, <2>2, RowsStay, WrapperStays, QuietInv
<1> QED
  BY <1>1, <1>2, <1>3, <1>4, <1>5, <1>6, <1>7 DEF Next

(* In every reachable state the processes of what is recorded, held and     *)
(* climbed are those of the units it was recorded for, or are late.         *)
THEOREM InvariantHolds == Spec => []IInv
  BY InitInv, StepInv, PTL DEF Spec

(* Rows, wrappers, the scan and the two stops stay in their types, for any  *)
(* number of processes, rows and calls (sessions.rs, run.rs, stop.rs).      *)
THEOREM SessionsTypesHold == Spec => []TypeOK
<1>1. IInv => TypeOK
  BY DEF IInv
<1> QED
  BY <1>1, InvariantHolds, PTL

(* What a finished stop neither left nor spared is gone, but for another    *)
(* account's and for numbers that came round (Stopped of stop.rs): every    *)
(* target left the ladder when it was gone or out of the signal's reach,    *)
(* and neither comes back while its number is written down.                 *)
THEOREM StopIsTrueHolds == Spec => []StopIsTrue
<1>1. ASSUME IInv PROVE StopIsTrue
  <2> SUFFICES ASSUME NEW s \in Stoppers, stop[s].pc = "stopped",
                      NEW t \in stop[s].targets \ (stop[s].standing \cup stop[s].spared)
               PROVE  \A n \in Reached(t) : table[n].late \/ table[n].foreign
    BY DEF StopIsTrue
  <2>1. LadderFits(s)
    BY <1>1 DEF IInv, StopFits
  <2>2. Done(t)
    BY <2>1 DEF LadderFits
  <2> QED
    BY <2>2 DEF Done
<1> QED
  BY <1>1, InvariantHolds, PTL

(* What a step adds to the signalled is a target of the ladder (rung of     *)
(* stop.rs), so it reaches the units' own processes and not the caller, but *)
(* for numbers that came round.                                             *)
LEMMA SignalsReachOurs ==
    ASSUME IInv, [Next]_vars, NEW s \in Stoppers, NEW n \in Numbers, Signals(s, n)
    PROVE  table[n].late \/ (table[n].own \in stop[s].envs /\ n # stop[s].caller)
<1>0. TypeOK /\ stop \in [Stoppers -> Stops] /\ TargetsAreOurs(s) /\ LadderFits(s)
  BY DEF IInv, StopFits, TypeOK, Stops
<1>1. PICK t \in stop'[s].sent \ stop[s].sent : n \in Reached(t)
  BY DEF Signals
<1>2. SUFFICES t \in stop[s].todo
  BY <1>0, <1>1, <1>2 DEF TargetsAreOurs, LadderFits
<1>3. CASE UNCHANGED stop
  BY <1>1, <1>3
<1>4. ASSUME NEW r \in Stoppers, NEW w, w.sent = {} \/ w.sent = stop[r].sent, stop' = [stop EXCEPT ![r] = w]
      PROVE  FALSE
  <2>1. stop'[s] = IF s = r THEN w ELSE stop[s]
    BY <1>0, <1>4
  <2> QED
    BY <1>1, <1>4, <2>1
<1>5. CASE Machine \/ Tether \/ Observe \/ UNCHANGED vars
  <2>1. UNCHANGED stop
    BY <1>5 DEF Machine, Stranger, Enter, Fork, Sudo, Exit, Tether, StartTether, RecordTether, CloseTether,
                KillWrapper, Observe, CloseDead, Scan, ReadOpen, Reconcile, vars
  <2> QED
    BY <1>3, <2>1
<1>6. CASE Finish
  <2>1. CASE Commit \/ Swept
    <3>1. \E r \in Stoppers : stop' = [stop EXCEPT ![r] = Idle]
      BY <2>1 DEF Commit, Swept, Stoppers
    <3> QED
      BY <3>1, <1>4, IdleTypes
  <2>2. CASE \E h \in stop["gc"].held : CloseEmpty(h)
    <3>1. PICK h \in stop["gc"].held : CloseEmpty(h)
      BY <2>2
    <3>2. "gc" \in Stoppers /\ stop["gc"] \in Stops
      BY <1>0 DEF Stoppers
    <3>3. PICK w : w = [stop["gc"] EXCEPT !.held = stop["gc"].held \ {h}]
      OBVIOUS
    <3>4. stop' = [stop EXCEPT !["gc"] = w]
      BY <1>0, <3>1, <3>3 DEF CloseEmpty, Stops
    <3>5. w.sent = stop["gc"].sent
      BY <3>2, <3>3 DEF Stops
    <3> QED
      BY <1>4, <3>2, <3>4, <3>5
  <2> QED
    BY <1>6, <2>1, <2>2 DEF Finish
<1>7. CASE \/ \E e \in Envs, c \in Callers : ListReclaim(e, c)
           \/ \E c \in Callers : ListGone(c)
  <2>1. PICK r \in Stoppers, es \in SUBSET Envs, c \in Callers : List(r, es, c)
    BY <1>7 DEF ListReclaim, ListGone, Stoppers, Absent
  <2>2. PICK w : w = [Idle EXCEPT !.pc = "listed", !.envs = es, !.caller = c, !.held = Tethers(es)]
    OBVIOUS
  <2>3. stop' = [stop EXCEPT ![r] = w]
    BY <2>1, <2>2 DEF List
  <2>4. w.sent = {}
    BY <2>2 DEF Idle
  <2> QED
    BY <1>4, <2>3, <2>4
<1>8. CASE \E r \in Stoppers : Cut(r)
  BY <1>4, <1>8, IdleTypes DEF Cut
<1>9. CASE \E r \in Stoppers : BeginStop(r) \/ Settle(r)
  <2>1. PICK r \in Stoppers : BeginStop(r) \/ Settle(r)
    BY <1>9
  <2>2. stop[r] \in Stops
    BY <1>0
  <2>3. CASE BeginStop(r)
    <3> DEFINE caller == IF stop[r].caller # 0 /\ Running(stop[r].caller) THEN stop[r].caller ELSE 0
               spared == {u \in TargetsOf(r) : Spares(caller, u)}
    <3>1. PICK w : w = [stop[r] EXCEPT !.pc = "rung", !.targets = TargetsOf(r), !.spared = spared,
                                       !.todo = TargetsOf(r) \ spared, !.rung = 1]
      OBVIOUS
    <3>2. stop' = [stop EXCEPT ![r] = w]
      BY <1>0, <2>3, <3>1 DEF BeginStop, Stops
    <3>3. w.sent = stop[r].sent
      BY <2>2, <3>1 DEF Stops
    <3> QED
      BY <1>4, <3>2, <3>3
  <2>4. CASE Settle(r)
    <3> DEFINE last == stop[r].rung = 3 \/ Left(r) = {}
               pc == IF last THEN "stopped" ELSE "rung"
               standing == IF last THEN Left(r) ELSE {}
               todo == IF last THEN {} ELSE Left(r)
               rung == IF last THEN 0 ELSE stop[r].rung + 1
    <3>1. PICK w : w = [stop[r] EXCEPT !.pc = pc, !.standing = standing, !.todo = todo, !.sent = {},
                                       !.rung = rung]
      OBVIOUS
    <3>2. stop' = [stop EXCEPT ![r] = w]
      BY <1>0, <2>4, <3>1 DEF Settle, Stops
    <3> HIDE DEF pc, standing, todo, rung
    <3>3. w.sent = {}
      BY <2>2, <3>1 DEF Stops
    <3> QED
      BY <1>4, <3>2, <3>3
  <2> QED
    BY <2>1, <2>3, <2>4
<1>10. CASE \E r \in Stoppers, u \in Targets : Send(r, u)
  <2>1. PICK r \in Stoppers, u \in Targets : Send(r, u)
    BY <1>10
  <2> DEFINE sent == IF MaySignal(u) THEN stop[r].sent \cup {u} ELSE stop[r].sent
  <2>2. PICK w : w = [stop[r] EXCEPT !.todo = stop[r].todo \ {u}, !.sent = sent]
    OBVIOUS
  <2>3. stop' = [stop EXCEPT ![r] = w] /\ u \in stop[r].todo
    BY <1>0, <2>1, <2>2 DEF Send, Stops
  <2>4. w.sent = sent
    BY <1>0, <2>2 DEF Stops
  <2>5. stop'[s] = IF s = r THEN w ELSE stop[s]
    BY <1>0, <2>3
  <2>6. s = r /\ t = u
    BY <1>1, <2>4, <2>5
  <2> QED
    BY <2>3, <2>6
<1> QED
  BY <1>5, <1>6, <1>7, <1>8, <1>9, <1>10 DEF Next, Climb

(* A signal of a stop reaches the processes of the units it stops and never *)
(* the one its command was started from, whatever started, forked, ended or *)
(* changed its number meanwhile (rung and spared of stop.rs).               *)
THEOREM OnlyTheUnitIsSignalledHolds == Spec => OnlyTheUnitIsSignalled
<1>1. ASSUME IInv, [Next]_vars
      PROVE  [\A s \in Stoppers, n \in Numbers :
                 Signals(s, n) =>
                     \/ table[n].own \in stop[s].envs /\ n # stop[s].caller
                     \/ table[n].late]_vars
  BY <1>1, SignalsReachOurs
<1> QED
  BY <1>1, InvariantHolds, PTL DEF Spec, OnlyTheUnitIsSignalled

(* The rows a commit closes are those of groups the stop found gone, or of  *)
(* the three that it does not stop.                                         *)
LEMMA CommitClosesGone ==
    ASSUME IInv, Commit, NEW i \in DOMAIN rows, rows[i].open, ~rows'[i].open, rows[i].grp # 0
    PROVE  CommitsOver(i, rows[i].grp) \/ \A n \in Members(rows[i].grp) : table[n].late
<1> DEFINE s == "reclaim"
           g == rows[i].grp
<1>s. s \in Stoppers
  BY DEF Stoppers
<1>0. TypeOK /\ HeldIsOurs(s) /\ LadderFits(s) /\ stop[s].pc = "stopped"
  BY <1>s DEF IInv, StopFits, Commit
<1>1. i \in Closing
  BY <1>0, RowsEnd DEF Commit
<1>7. stop'[s] = Idle
  BY <1>s, <1>0 DEF Commit, TypeOK
<1>2. g \in Numbers
  BY <1>0, RowTypes
<1> SUFFICES ASSUME ~CommitsOver(i, g) PROVE \A n \in Members(g) : table[n].late
  OBVIOUS
<1>3. /\ Group(g) \notin stop[s].spared /\ <<i, g>> \in stop[s].held
      /\ \E n \in Members(g) : ~table[n].foreign
  BY <1>0, <1>7 DEF CommitsOver, Spared, AnotherAccounts, Unlisted
<1>4. Group(g) \in stop[s].targets
  <2>1. <<i, g>>[2] = g
    OBVIOUS
  <2> QED
    BY <1>0, <1>3, <2>1 DEF HeldIsOurs
<1>5. Group(g) \notin stop[s].standing
  BY <1>1 DEF Closing, StillStanding, Group
<1>6. Done(Group(g))
  BY <1>0, <1>3, <1>4, <1>5 DEF LadderFits
<1> QED
  BY <1>3, <1>6 DEF Done, MaySignal, Alive, Reached, Group

(* Whoever closes the row of a recorded group, the group has gone, but for  *)
(* the three that a reclaim's commit closes over (close of run.rs; close_dead_groups and    *)
(* ends_here of sessions.rs; commit_of of reclaim.rs; close_empty of gc.rs).*)
LEMMA ClosedIsGone ==
    ASSUME IInv, [Next]_vars, NEW i \in DOMAIN rows, rows[i].open, ~rows'[i].open, rows[i].grp # 0
    PROVE  CommitsOver(i, rows[i].grp) \/ \A n \in Members(rows[i].grp) : table[n].late
<1>0. TypeOK /\ WrapperFits /\ StopFits
  BY DEF IInv
<1>1. rows' # rows
  OBVIOUS
<1>2. ASSUME NEW g, g = rows[i].grp, ~Alive(Group(g))
      PROVE  Members(rows[i].grp) = {}
  BY <1>2 DEF Alive, Reached, Group
<1>3. CASE \E n \in Numbers : RecordTether(n) \/ CloseTether(n)
  <2>1. PICK n \in Numbers : RecordTether(n) \/ CloseTether(n)
    BY <1>3
  <2>2. CASE RecordTether(n)
    <3>1. rows' = Append(rows, Row(wrapper[n].env, n, n))
      BY <2>2 DEF RecordTether
    <3>2. Len(rows) \in Nat /\ DOMAIN rows = 1..Len(rows) /\ rows \in Seq(Records)
      BY <1>0, RowTypes
    <3>3. rows'[i] = rows[i]
      BY <3>1, <3>2
    <3> QED
      BY <3>3
  <2>3. CASE CloseTether(n)
    <3>1. ~Alive(Group(n)) /\ rows' = EndRow(rows, wrapper[n].row) /\ wrapper[n].pc = "waiting"
      BY <1>1, <2>3 DEF CloseTether
    <3>2. i = wrapper[n].row
      BY <1>0, <3>1, RowEnds
    <3>3. wrapper[n] # NoWrapper
      <4>1. NoWrapper.pc = "none"
        BY DEF NoWrapper
      <4> QED
        BY <3>1, <4>1
    <3>4. rows[i].grp = n
      BY <1>0, <3>1, <3>2, <3>3 DEF WrapperFits
    <3> QED
      BY <1>2, <3>1, <3>4
  <2> QED
    BY <2>1, <2>2, <2>3
<1>4. CASE \E j \in DOMAIN rows : CloseDead(j)
  <2>1. PICK j \in DOMAIN rows : CloseDead(j)
    BY <1>4
  <2>2. rows' = EndRow(rows, j) /\ ~Alive(Group(rows[j].grp))
    BY <2>1 DEF CloseDead
  <2>3. i = j
    BY <1>0, <2>2, RowEnds
  <2> QED
    BY <1>2, <2>2, <2>3
<1>5. CASE Reconcile
  BY <1>0, <1>5, Reconciled
<1>6. CASE Commit
  BY <1>6, CommitClosesGone
<1>7. CASE \E h \in stop["gc"].held : CloseEmpty(h)
  <2>1. PICK h \in stop["gc"].held : CloseEmpty(h)
    BY <1>7
  <2>2. ~Alive(Group(h[2])) /\ rows' = EndRow(rows, h[1])
    BY <1>1, <2>1 DEF CloseEmpty
  <2>3. i = h[1]
    BY <1>0, <2>2, RowEnds
  <2>4. rows[h[1]].grp = h[2]
    BY <1>0 DEF StopFits, HeldIsOurs, Stoppers
  <2> QED
    BY <1>2, <2>2, <2>3, <2>4
<1>8. CASE \/ Machine \/ Scan \/ ReadOpen \/ Swept \/ UNCHANGED vars
           \/ \E n \in Numbers : KillWrapper(n) \/ \E e \in Envs : StartTether(e, n)
           \/ \E e \in Envs, c \in Callers : ListReclaim(e, c)
           \/ \E c \in Callers : ListGone(c)
           \/ \E s \in Stoppers : Climb(s) \/ Cut(s)
  <2>1. rows' = rows
    BY <1>8 DEF Machine, Stranger, Enter, Fork, Sudo, Exit, StartTether, KillWrapper, Scan, ReadOpen, Swept,
                ListReclaim, ListGone, List, Climb, BeginStop, Send, Settle, Cut, vars
  <2> QED
    BY <1>1, <2>1
<1> QED
  BY <1>3, <1>4, <1>5, <1>6, <1>7, <1>8 DEF Next, Tether, Observe, Finish

(* The row of a recorded group is closed only when the group has gone       *)
(* (ends_here of sessions.rs, close_empty of gc.rs, close of run.rs), and a *)
(* reclaim's commit does so of every group its teardown could stop.  The    *)
(* three it closes over while they run, against the comment on              *)
(* still_standing, are named in CommitsOver.                                *)
THEOREM RowsOutliveGroupsHolds == Spec => RowsOutliveGroups
<1>1. ASSUME IInv, [Next]_vars
      PROVE  [\A i \in DOMAIN rows :
                 LET g == rows[i].grp
                 IN  rows[i].open /\ ~rows'[i].open /\ g # 0
                         => \/ ~\E n \in Members(g) : table[n].own = rows[i].env /\ ~table[n].late
                            \/ CommitsOver(i, g)]_vars
  BY <1>1, ClosedIsGone
<1> QED
  BY <1>1, InvariantHolds, PTL DEF Spec, RowsOutliveGroups
=============================================================================
