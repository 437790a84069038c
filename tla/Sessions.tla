------------------------------ MODULE Sessions ------------------------------
(***************************************************************************)
(* What a unit is running, and how it is stopped: the session rows (store/ *)
(* sessions.rs, runtime/sessions.rs), `nodal run --tether` (runtime/       *)
(* run.rs), the ladder of signals (runtime/stop.rs), and the two callers   *)
(* that climb it: the teardown of a reclaim (lifecycle/ops/reclaim.rs) and *)
(* the sweep of what outlived one (lifecycle/ops/gc.rs).                   *)
(*                                                                         *)
(* Nothing holds the process table still.  Processes start, fork, leave    *)
(* their group, drop NODAL_ID from their environment and end between any   *)
(* two steps, and a number that has come free is given to something else.  *)
(* A signalled process may end at any later moment or never: what it       *)
(* honours is its own affair, and the wait after a rung ends when all are  *)
(* gone or when its period is over, whichever is first.                    *)
(*                                                                         *)
(* One host.  Containers, ports and the move of the home itself are in     *)
(* other modules; a reclaim whose move is refused is rolled back here.     *)
(***************************************************************************)
EXTENDS Naturals, Sequences, FiniteSets

CONSTANTS
    Envs,        \* the environments of this host, one per unit
    NoEnv,       \* a process that carries no NODAL_ID, or is no unit's
    Numbers,     \* the numbers the system gives to processes and their groups
    Callers,     \* the numbers a command may have been started from; 0 is a terminal elsewhere
    MaxStarts,   \* bound on the processes ever started
    MaxRows,     \* bound on the session rows ever written
    MaxCalls     \* bound on the scans, reclaims and sweeps ever begun

ASSUME SessionsAssumption ==
    /\ NoEnv \notin Envs
    /\ Numbers \subseteq Nat \ {0, 1}
    /\ Callers \subseteq Numbers \cup {0}
    /\ MaxStarts \in Nat
    /\ MaxRows \in Nat
    /\ MaxCalls \in Nat
    /\ IsFiniteSet(Numbers) /\ IsFiniteSet(Envs)

VARIABLES
    table,      \* what wears each number
    starts,     \* processes ever started
    env,        \* the state of each environment's row
    rows,       \* the session table, in the order of its identifiers
    wrapper,    \* per number: the `nodal run` of the group it leads, and its row
    scan,       \* an observer: nothing, what it scanned, and the open rows it read
    stop,       \* the reclaim and the sweep: where each is on the ladder
    calls       \* scans, reclaims and sweeps begun

vars == <<table, starts, env, rows, wrapper, scan, stop, calls>>

Stoppers == {"reclaim", "gc"}

Free == [grp |-> 0, id |-> NoEnv, own |-> NoEnv, foreign |-> FALSE, late |-> FALSE]

(* A process: its group, the NODAL_ID it carries, whose recorded group or   *)
(* child it really is, whether it belongs to another account, and whether   *)
(* its number was already written down for something else when it started.  *)
Procs == [grp : Numbers \cup {0}, id : Envs \cup {NoEnv}, own : Envs \cup {NoEnv},
          foreign : BOOLEAN, late : BOOLEAN]

Targets == [kind : {"group", "process"}, num : Numbers]
Group(n) == [kind |-> "group", num |-> n]
Process(n) == [kind |-> "process", num |-> n]

(* A row of the session table; grp is 0 in a row a scan wrote. *)
Row(e, n, g) == [env |-> e, pid |-> n, grp |-> g, open |-> TRUE]

(* A wrapper that is not running, or that has no row yet. *)
NoWrapper == [pc |-> "none", env |-> NoEnv, row |-> 0]

NotScanning == [pc |-> "idle", seen |-> {}, open |-> {}]

Idle == [pc |-> "idle", envs |-> {}, caller |-> 0, held |-> {}, targets |-> {},
         todo |-> {}, sent |-> {}, standing |-> {}, spared |-> {}, rung |-> 0]

-----------------------------------------------------------------------------
Init ==
    /\ table = [n \in Numbers |-> Free]
    /\ starts = 0
    /\ env = [e \in Envs |-> "live"]
    /\ rows = <<>>
    /\ wrapper = [n \in Numbers |-> NoWrapper]
    /\ scan = NotScanning
    /\ stop = [s \in Stoppers |-> Idle]
    /\ calls = 0

-----------------------------------------------------------------------------
(* The machine. *)

Running(n) == table[n] # Free

Members(g) == {n \in Numbers : table[n].grp = g}

OpenRows == {i \in DOMAIN rows : rows[i].open}

(* A number is given to nothing while a group still wears it, or while the  *)
(* `nodal run` that started it has still to learn that it ended.            *)
Unworn(n) == ~Running(n) /\ Members(n) = {} /\ wrapper[n] = NoWrapper

(* Somebody has the number written down as a target or in an open row. *)
WrittenDown(n) ==
    \/ \E i \in OpenRows : n \in {rows[i].pid, rows[i].grp}
    \/ \E s \in Stoppers : n \in {t.num : t \in stop[s].targets} \cup {h[2] : h \in stop[s].held}
                                   \cup {stop[s].caller}
    \/ \E o \in scan.seen : o[1] = n

Begins(n, g, id, own, foreign, late) ==
    /\ starts < MaxStarts
    /\ Unworn(n)
    /\ starts' = starts + 1
    /\ table' = [table EXCEPT ![n] =
           [grp |-> g, id |-> id, own |-> own, foreign |-> foreign,
            late |-> late \/ WrittenDown(n)]]

(* Something that is nobody's starts, with a group of its own. *)
Stranger(n) ==
    /\ Begins(n, n, NoEnv, NoEnv, FALSE, FALSE)
    /\ UNCHANGED <<env, rows, wrapper, scan, stop, calls>>

(* A shell somebody opens in a home, or what the prompt hook made one. *)
Enter(e, n) ==
    /\ env[e] = "live"
    /\ Begins(n, n, e, e, FALSE, FALSE)
    /\ UNCHANGED <<env, rows, wrapper, scan, stop, calls>>

(* A process starts another in its group, with NODAL_ID or without it; one  *)
(* in a group of its own is a shell like any other.                         *)
Fork(p, n) ==
    /\ Running(p)
    /\ \E id \in {table[p].id, NoEnv} :
           Begins(n, table[p].grp, id, table[p].own, table[p].foreign, table[p].late)
    /\ UNCHANGED <<env, rows, wrapper, scan, stop, calls>>

(* What is started through sudo is another account's from then on. *)
Sudo(n) ==
    /\ Running(n)
    /\ table[n].own # NoEnv
    /\ ~table[n].foreign
    /\ table' = [table EXCEPT ![n].foreign = TRUE]
    /\ UNCHANGED <<starts, env, rows, wrapper, scan, stop, calls>>

(* A process ends, of itself or of a signal. *)
Exit(n) ==
    /\ Running(n)
    /\ table' = [table EXCEPT ![n] = Free]
    /\ UNCHANGED <<starts, env, rows, wrapper, scan, stop, calls>>

(* Signals::send and alive: kill reaches a group if it may signal one of    *)
(* it, and a target it may not signal is still there.                       *)
Reached(t) ==
    IF t.kind = "group" THEN Members(t.num) ELSE {n \in {t.num} : Running(n)}
MaySignal(t) == \E n \in Reached(t) : ~table[n].foreign
Alive(t) == Reached(t) # {}

-----------------------------------------------------------------------------
(* `nodal run --tether`. *)

(* execute: the command is spawned into a group of its own; the home is     *)
(* read first, so a unit that has been reclaimed starts nothing.            *)
StartTether(e, n) ==
    /\ env[e] = "live"
    /\ Begins(n, n, e, e, FALSE, FALSE)
    /\ wrapper' = [wrapper EXCEPT ![n] = [pc |-> "spawned", env |-> e, row |-> 0]]
    /\ UNCHANGED <<env, rows, scan, stop, calls>>

(* open: the row is written once the command has an identifier; the wrapper *)
(* waits for its child, so the number is the child's until it is reaped.    *)
RecordTether(n) ==
    /\ wrapper[n].pc = "spawned"
    /\ Len(rows) < MaxRows
    /\ rows' = Append(rows, Row(wrapper[n].env, n, n))
    /\ wrapper' = [wrapper EXCEPT ![n].pc = "waiting", ![n].row = Len(rows) + 1]
    /\ UNCHANGED <<table, starts, env, scan, stop, calls>>

(* sessions::end: only an open row is closed. *)
EndRow(r, i) == [r EXCEPT ![i].open = FALSE]

EndRows(is) == [i \in DOMAIN rows |-> [rows[i] EXCEPT !.open = @ /\ i \notin is]]

(* close: the command has ended; its row goes if its group is empty. *)
CloseTether(n) ==
    /\ wrapper[n].pc = "waiting"
    /\ ~Running(n)
    /\ rows' = IF Alive(Group(n)) THEN rows ELSE EndRow(rows, wrapper[n].row)
    /\ wrapper' = [wrapper EXCEPT ![n] = NoWrapper]
    /\ UNCHANGED <<table, starts, env, scan, stop, calls>>

KillWrapper(n) ==
    /\ wrapper[n] # NoWrapper
    /\ wrapper' = [wrapper EXCEPT ![n] = NoWrapper]
    /\ UNCHANGED <<table, starts, env, rows, scan, stop, calls>>

-----------------------------------------------------------------------------
(* Sessions derived from a scan. *)

(* close_dead_groups, one row of it. *)
CloseDead(i) ==
    /\ i \in OpenRows
    /\ rows[i].grp # 0
    /\ ~Alive(Group(rows[i].grp))
    /\ rows' = EndRow(rows, i)
    /\ UNCHANGED <<table, starts, env, wrapper, scan, stop, calls>>

(* derive and resolve: who carries which unit.  Another account's process   *)
(* shows no variables.                                                      *)
Carries(n, e) == Running(n) /\ table[n].id = e /\ ~table[n].foreign

Called == calls < MaxCalls /\ calls' = calls + 1

Scan ==
    /\ scan.pc = "idle"
    /\ Called
    /\ scan' = [pc |-> "scanned", seen |-> {o \in Numbers \X Envs : Carries(o[1], o[2])}, open |-> {}]
    /\ UNCHANGED <<table, starts, env, rows, wrapper, stop>>

ReadOpen ==
    /\ scan.pc = "scanned"
    /\ scan' = [scan EXCEPT !.pc = "read", !.open = OpenRows]
    /\ UNCHANGED <<table, starts, env, rows, wrapper, stop, calls>>

Covers(i, o) == rows[i].pid = o[1] /\ rows[i].env = o[2]

(* Mutant: a recorded group is judged by the process its row names *)
EndsUnseen(i) == ~\E o \in scan.seen : Covers(i, o)

(* ends_here: a recorded group is never closed on the strength of a scan. *)
EndsHere(i) == rows[i].grp = 0 /\ ~\E o \in scan.seen : Covers(i, o)

Opens == {o \in scan.seen : ~\E i \in scan.open : Covers(i, o)}

Reconcile ==
    /\ scan.pc = "read"
    /\ Len(rows) + Cardinality(Opens) <= MaxRows
    /\ \E new \in [1..Cardinality(Opens) -> Opens] :
           /\ \A o \in Opens : \E k \in DOMAIN new : new[k] = o
           /\ rows' = EndRows({i \in scan.open : EndsHere(i)})
                      \o [k \in DOMAIN new |-> Row(new[k][2], new[k][1], 0)]
    /\ scan' = NotScanning
    /\ UNCHANGED <<table, starts, env, wrapper, stop, calls>>

-----------------------------------------------------------------------------
(* The ladder. *)

(* Mutant: the rows are read without AND ended_at IS NULL *)
TethersEverOpened(es) ==
    {<<i, rows[i].grp>> : i \in {i \in DOMAIN rows : rows[i].grp # 0 /\ rows[i].env \in es}}

(* list_open_tethers, for every one of these environments. *)
Tethers(es) ==
    {<<i, rows[i].grp>> : i \in {i \in OpenRows : rows[i].grp # 0 /\ rows[i].env \in es}}

(* spared and spared_groups: the process the command was started from and   *)
(* the group that one is in; the command itself has a number of its own     *)
(* that no record names.                                                    *)
Spares(caller, t) ==
    /\ caller # 0
    /\ t \in {Process(caller), Group(table[caller].grp)}

(* The groups are read, and with a reclaim they reach its journal. *)
List(s, es, caller) ==
    /\ Called
    /\ stop' = [stop EXCEPT ![s] = [Idle EXCEPT !.pc = "listed", !.envs = es, !.caller = caller,
                                             !.held = Tethers(es)]]
    /\ UNCHANGED <<table, starts, env, rows, wrapper, scan>>

ListReclaim(e, caller) ==
    /\ stop["reclaim"].pc = "idle"
    /\ env[e] = "live"
    /\ caller # 0 => Running(caller)
    /\ List("reclaim", {e}, caller)

Absent == {e \in Envs : env[e] = "absent"}

(* stop_absent: nothing to ask about when nothing is absent. *)
ListGone(caller) ==
    /\ stop["gc"].pc = "idle"
    /\ Absent # {}
    /\ caller # 0 => Running(caller)
    /\ List("gc", Absent, caller)

(* owns, names_a_gone_unit: the certain level, and the only one signalled. *)
Certain(s) == {n \in Numbers : \E e \in stop[s].envs : Carries(n, e)}

TargetsOf(s) == {Group(h[2]) : h \in stop[s].held} \cup {Process(n) : n \in Certain(s)}

(* processes: what is spared never stands on the ladder. *)
BeginStop(s) ==
    /\ stop[s].pc = "listed"
    /\ LET caller == IF stop[s].caller # 0 /\ Running(stop[s].caller) THEN stop[s].caller ELSE 0
           spared == {t \in TargetsOf(s) : Spares(caller, t)}
       IN  stop' = [stop EXCEPT ![s].pc = "rung", ![s].targets = TargetsOf(s), ![s].spared = spared,
                                ![s].todo = TargetsOf(s) \ spared, ![s].rung = 1]
    /\ UNCHANGED <<table, starts, env, rows, wrapper, scan, calls>>

(* rung: one signal at a time, the groups before the processes; a target    *)
(* the signal cannot reach leaves the ladder.                               *)
Send(s, t) ==
    /\ stop[s].pc = "rung"
    /\ t \in stop[s].todo
    /\ t.kind = "process" => \A u \in stop[s].todo : u.kind = "process"
    /\ stop' = [stop EXCEPT ![s].todo = @ \ {t},
                            ![s].sent = IF MaySignal(t) THEN @ \cup {t} ELSE @]
    /\ UNCHANGED <<table, starts, env, rows, wrapper, scan, calls>>

(* Mutant: a group is asked after by its leader *)
LeftLeading(s) == {t \in stop[s].sent : Running(t.num)}

(* settle: what is left when the period is over, or nothing when all went. *)
Left(s) == {t \in stop[s].sent : Alive(t)}

Settle(s) ==
    /\ stop[s].pc = "rung"
    /\ stop[s].todo = {}
    /\ LET last == stop[s].rung = 3 \/ Left(s) = {}
       IN  stop' = [stop EXCEPT ![s].pc = IF last THEN "stopped" ELSE "rung",
                                ![s].standing = IF last THEN Left(s) ELSE {},
                                ![s].todo = IF last THEN {} ELSE Left(s),
                                ![s].sent = {},
                                ![s].rung = IF last THEN 0 ELSE @ + 1]
    /\ UNCHANGED <<table, starts, env, rows, wrapper, scan, calls>>

-----------------------------------------------------------------------------
(* What the two do with the answer. *)

(* still_standing: the groups that were signalled and did not go. *)
StillStanding == {t.num : t \in {u \in stop["reclaim"].standing : u.kind = "group"}}

Closing == {i \in OpenRows : rows[i].env \in stop["reclaim"].envs /\ rows[i].grp \notin StillStanding}

(* commit_of: the sessions end with the environment, in one transaction. *)
Commit ==
    /\ stop["reclaim"].pc = "stopped"
    /\ rows' = EndRows(Closing)
    /\ env' = [e \in Envs |-> IF e \in stop["reclaim"].envs THEN "absent" ELSE env[e]]
    /\ stop' = [stop EXCEPT !["reclaim"] = Idle]
    /\ UNCHANGED <<table, starts, wrapper, scan, calls>>

(* close_empty: one row at a time, asked again whether its group is empty. *)
CloseEmpty(h) ==
    /\ stop["gc"].pc = "stopped"
    /\ h \in stop["gc"].held
    /\ rows' = IF Alive(Group(h[2])) THEN rows ELSE EndRow(rows, h[1])
    /\ stop' = [stop EXCEPT !["gc"].held = @ \ {h}]
    /\ UNCHANGED <<table, starts, env, wrapper, scan, calls>>

Swept ==
    /\ stop["gc"].pc = "stopped"
    /\ stop["gc"].held = {}
    /\ stop' = [stop EXCEPT !["gc"] = Idle]
    /\ UNCHANGED <<table, starts, env, rows, wrapper, scan, calls>>

(* A kill, or for a reclaim a move that is refused: the teardown has no     *)
(* undo, and no row has changed.                                            *)
Cut(s) ==
    /\ stop[s].pc # "idle"
    /\ stop' = [stop EXCEPT ![s] = Idle]
    /\ UNCHANGED <<table, starts, env, rows, wrapper, scan, calls>>

-----------------------------------------------------------------------------
Machine ==
    \E n \in Numbers : Stranger(n) \/ Exit(n) \/ Sudo(n) \/ (\E p \in Numbers : Fork(p, n))
                   \/ (\E e \in Envs : Enter(e, n))

Tether ==
    \E n \in Numbers :
        \/ \E e \in Envs : StartTether(e, n)
        \/ RecordTether(n)
        \/ CloseTether(n)
        \/ KillWrapper(n)

Observe == (\E i \in DOMAIN rows : CloseDead(i)) \/ Scan \/ ReadOpen \/ Reconcile

Climb(s) == BeginStop(s) \/ (\E t \in Targets : Send(s, t)) \/ Settle(s)

Finish == Commit \/ (\E h \in stop["gc"].held : CloseEmpty(h)) \/ Swept

Next ==
    \/ Machine \/ Tether \/ Observe \/ Finish
    \/ \E e \in Envs, c \in Callers : ListReclaim(e, c)
    \/ \E c \in Callers : ListGone(c)
    \/ \E s \in Stoppers : Climb(s) \/ Cut(s)

Spec == Init /\ [][Next]_vars

-----------------------------------------------------------------------------
(* The types of the variables. *)
TypeOK ==
    /\ table \in [Numbers -> Procs \cup {Free}]
    /\ starts \in Nat /\ calls \in Nat
    /\ env \in [Envs -> {"live", "absent"}]
    /\ rows \in Seq([env : Envs, pid : Numbers, grp : Numbers \cup {0}, open : BOOLEAN])
    /\ wrapper \in [Numbers -> [pc : {"none", "spawned", "waiting"}, env : Envs \cup {NoEnv},
                                 row : Nat]]
    /\ scan \in [pc : {"idle", "scanned", "read"}, seen : SUBSET (Numbers \X Envs),
                  open : SUBSET Nat]
    /\ stop \in [Stoppers ->
           [pc : {"idle", "listed", "rung", "stopped"}, envs : SUBSET Envs,
            caller : Callers \cup {0}, held : SUBSET (Nat \X Numbers), targets : SUBSET Targets,
            todo : SUBSET Targets, sent : SUBSET Targets, standing : SUBSET Targets,
            spared : SUBSET Targets, rung : {0, 1, 2, 3}]]

(* The processes a step signals, and the stop that does it. *)
Signals(s, n) == \E t \in stop'[s].sent \ stop[s].sent : n \in Reached(t)

(* "None of the three is the unit's to stop" (reclaim.rs, StopRuntime; gc.rs, *)
(* stop_absent) and "What is never signalled" (stop.rs): a signal reaches the *)
(* processes of the units being stopped and nothing else, and of those not    *)
(* the one the command was started from, by its number or through its group,  *)
(* on any rung.  A number that came round while it was written down is the    *)
(* one way to be mistaken for one of them.                                    *)
OnlyTheUnitIsSignalled ==
    [][\A s \in Stoppers, n \in Numbers :
           Signals(s, n) =>
               \/ table[n].own \in stop[s].envs /\ n # stop[s].caller
               \/ table[n].late]_vars

(* Stopped (stop.rs): what a finished stop neither left nor spared is gone,  *)
(* but for what belongs to another account and numbers that came round.  A   *)
(* process that forks while it is being stopped is still the same group.     *)
StopIsTrue ==
    \A s \in Stoppers : stop[s].pc = "stopped" =>
        \A t \in stop[s].targets \ (stop[s].standing \cup stop[s].spared) :
            \A n \in Reached(t) : table[n].late \/ table[n].foreign

(* The three groups a teardown does not stop: that of the shell its command *)
(* was given from, one whose processes are all another account's, and one   *)
(* whose row was written after the rows were read.                          *)
Spared(g) == Group(g) \in stop["reclaim"].spared
AnotherAccounts(g) == \A n \in Members(g) : table[n].foreign
Unlisted(i, g) == <<i, g>> \notin stop["reclaim"].held

CommitsOver(i, g) ==
    /\ stop["reclaim"].pc = "stopped" /\ stop'["reclaim"] = Idle
    /\ Spared(g) \/ AnotherAccounts(g) \/ Unlisted(i, g)

(* Whoever closes the row of a recorded group, the group has gone (sessions. *)
(* rs, ends_here; gc.rs, close_empty; run.rs, close), and of a reclaim's     *)
(* commit that is so of every group its teardown could stop.  Reclaim.rs,    *)
(* still_standing, says that of all of them, "except this one case", a group *)
(* that was signalled and stands: "closing the row of a group that is still  *)
(* running would throw away the only record of it".  The code does close the *)
(* rows of the three groups above while they run, and they are excepted here *)
(* by name.  Nobody else has the exception.                                  *)
RowsOutliveGroups ==
    [][\A i \in DOMAIN rows :
           LET g == rows[i].grp
           IN  rows[i].open /\ ~rows'[i].open /\ g # 0
                   => \/ ~\E n \in Members(g) : table[n].own = rows[i].env /\ ~table[n].late
                      \/ CommitsOver(i, g)]_vars
=============================================================================
