-------------------------------- MODULE Lock --------------------------------
(***************************************************************************)
(* The write lock on one unit's home (runtime/lock.rs over store/locks.rs  *)
(* and model/lock.rs).  A hold is one row of the registry.  `cd`, `run`,   *)
(* `shell` and the prompt hook enter a home on a plain connection: every   *)
(* statement commits by itself, so another command may run between the     *)
(* reading of the row, the reading of the process table and the write.     *)
(* `reclaim` takes the hold inside one transaction and gives it up inside  *)
(* another; `new` and `adopt` write it with the unit.                      *)
(*                                                                         *)
(* A command stands for every process one lineage (a POSIX session of one  *)
(* actor on one host) starts one after the other; it is at most one        *)
(* process at a time.  Time is counted in ticks; Window is the idle window *)
(* and an entry lasts less than one (Tick).  taken_at and the recorded pid *)
(* are left out: no refusal and no write reads them.                       *)
(***************************************************************************)
EXTENDS Naturals, FiniteSets

CONSTANTS
    Commands,      \* the lineages at work
    Actors,        \* actor kind and name
    Sessions,      \* POSIX sessions
    Hosts,         \* machines that share the registry
    ActorOf, SessionOf, HostOf,   \* functions on Commands
    NoActor,       \* a row written before locks carried an actor
    NoSession,     \* a row, or a process, that states no lineage
    NoRow,         \* no row in the table for this unit
    Left,          \* the holders an earlier command may have left in the row
    Blind,         \* hosts with a process table this account cannot read whole
    Window,        \* [lock] idle_hours, in ticks
    MaxTime        \* bound on the clock

ASSUME LockAssumption ==
    /\ Left \subseteq [host : Hosts, actor : Actors \cup {NoActor},
                      session : Sessions \cup {NoSession}]
    /\ Window \in Nat
    /\ MaxTime \in Nat
    /\ Blind \subseteq Hosts
    /\ NoActor \notin Actors
    /\ NoSession \notin Sessions
    /\ ActorOf \in [Commands -> Actors]
    /\ HostOf \in [Commands -> Hosts]
    /\ SessionOf \in [Commands -> Sessions \cup {NoSession}]

VARIABLES
    row,        \* the lock row of the unit
    home,       \* "none", "live" or "gone"
    clock,      \* the time of day
    live,       \* the sessions that still hold a process
    pc,         \* where each command is inside `enter`
    held,       \* the row each command last read
    now,        \* the instant each entry was stamped with
    take,       \* whether the entry was given --take
    standing,   \* history: who was granted the hold and not displaced since, by
                \* --take, by the end of its session or by that of its lease
    overtaken   \* history: who of them lost the row to a write that was settled
                \* on a row no longer there

vars == <<row, home, clock, live, pc, held, now, take, standing, overtaken>>

Rows == [host : Hosts, actor : Actors \cup {NoActor},
         session : Sessions \cup {NoSession}, refreshed : Nat, expires : Nat]

ASSUME NoRowAssumption == NoRow \notin Rows

-----------------------------------------------------------------------------
(* The row: model/lock.rs. *)

(* Two windows ahead of an entry (ABSOLUTE_WINDOWS). *)
AbsoluteExpiry(t) == t + 2 * Window

IdleDeadline(r) == r.refreshed + Window

HasLapsed(r, t) == t >= r.expires \/ t >= IdleDeadline(r)

HoldsAnyone(r, t) == r # NoRow /\ r.actor # NoActor /\ ~HasLapsed(r, t)

IsHeldBy(r, c) == r.host = HostOf[c] /\ r.actor = ActorOf[c]

WasTakenFrom(r, s) == r.session # NoSession /\ s # NoSession /\ r.session = s

(* A hold of c, recorded under session s. *)
Hold(c, s, t) ==
    [host |-> HostOf[c], actor |-> ActorOf[c], session |-> s,
     refreshed |-> t, expires |-> AbsoluteExpiry(t)]

(* The hold an entry at t would write. *)
Claim(c, t) == Hold(c, SessionOf[c], t)

(* The hold a refresh at t of row r would write: the recorded lineage comes first. *)
Renewal(c, r, t) == Hold(c, IF r.session # NoSession THEN r.session ELSE SessionOf[c], t)

-----------------------------------------------------------------------------
(* The statements of the table: store/locks.rs. *)

(* A name taken for a writer. *)
SameName(r, mine) ==
    /\ r.host = mine.host
    /\ r.actor = mine.actor

(* An actor and a lineage; a row that states no lineage matches any. *)
SameHolder(r, mine) ==
    /\ r.host = mine.host
    /\ r.actor = mine.actor
    /\ r.session = NoSession \/ r.session = mine.session

(* The WHERE of the conflict clause of take. *)
Takes(r, mine, t, deadline) ==
    \/ r = NoRow
    \/ r.expires <= t
    \/ t >= deadline
    \/ r.actor = NoActor
    \/ SameHolder(r, mine)

-----------------------------------------------------------------------------
(* mutant: a process this account may not read is not there *)
HiddenIsGone(c, s) == {IF s \in live /\ HostOf[c] \notin Blind THEN "live" ELSE "none"}

(* What a reading of the process table says of a session: it holds a process, *)
(* it holds none, or the table could not be read to the end.                  *)
Readings(c, s) ==
    IF s \in live THEN {"live"} \cup (IF HostOf[c] \in Blind THEN {"unread"} ELSE {})
    ELSE IF HostOf[c] \in Blind THEN {"unread"} ELSE {"none"}

(* The reading is taken only where both sides state a lineage that differs. *)
ReadingOf(c, r) ==
    IF WasTakenFrom(r, SessionOf[c]) \/ r.session = NoSession \/ SessionOf[c] = NoSession
    THEN {"unread"}
    ELSE Readings(c, r.session)

(* What the record and the reading say of the holder's lineage. *)
Lineage(c, r, reading) ==
    IF WasTakenFrom(r, SessionOf[c]) THEN "same"
    ELSE IF r.session = NoSession \/ SessionOf[c] = NoSession THEN "unreadable"
    ELSE IF reading = "live" THEN "second"
    ELSE IF reading = "none" THEN "gone" ELSE "unreadable"

(* Where settle goes on from the holder it has read. *)
Settled(c, r, reading, asked) ==
    LET found == Lineage(c, r, reading)
    IN  IF IsHeldBy(r, c) /\ found \in {"same", "unreadable"} THEN "refresh"
        ELSE IF IsHeldBy(r, c) /\ found = "gone" THEN "dead"
        ELSE IF asked THEN "asked" ELSE "refused"

-----------------------------------------------------------------------------
(* A command is inside an entry, or inside the reclaim that follows one. *)
Entering == {"take", "lost", "settle", "refresh", "contested", "dead", "asked"}

Init ==
    /\ \/ home = "none" /\ row = NoRow
       \/ /\ home = "live"
          /\ row \in {NoRow} \cup
                {[host |-> l.host, actor |-> l.actor, session |-> l.session,
                  refreshed |-> 0, expires |-> AbsoluteExpiry(0)] : l \in Left}
    /\ clock = 0
    /\ live = Sessions
    /\ pc = [c \in Commands |-> "idle"]
    /\ held = [c \in Commands |-> NoRow]
    /\ now = [c \in Commands |-> 0]
    /\ take = [c \in Commands |-> FALSE]
    /\ standing = {}
    /\ overtaken = {}

(* The entry is over; what it read is dropped with the process. *)
Return(c) ==
    /\ pc' = [pc EXCEPT ![c] = "idle"]
    /\ held' = [held EXCEPT ![c] = NoRow]
    /\ now' = [now EXCEPT ![c] = 0]
    /\ take' = [take EXCEPT ![c] = FALSE]

GoTo(c, place) == pc' = [pc EXCEPT ![c] = place]

(* Who stands when c is granted the hold: everybody who stood, while the row *)
(* still held somebody.                                                      *)
Joined(c) == {c} \cup (IF HoldsAnyone(row, clock) THEN standing ELSE {})

(* The row c has settled on is no longer there: somebody else holds the home. *)
Replaced(c, mine) == row \notin {NoRow, held[c]} /\ ~SameHolder(row, mine)

(* The write of c's grant.  Where it was settled on a row that another has   *)
(* replaced, that other loses the hold and nothing tells it so.              *)
Write(c, mine, grants, stale) ==
    /\ row' = mine
    /\ standing' = grants
    /\ overtaken' = (IF stale THEN grants ELSE overtaken \cap grants) \ {c}

(* `new` and `adopt` write the hold with the unit they make. *)
Open(c) ==
    /\ home = "none"
    /\ SessionOf[c] \in live \cup {NoSession}
    /\ home' = "live"
    /\ Write(c, Claim(c, clock), {c}, FALSE)
    /\ UNCHANGED <<clock, live, pc, held, now, take>>

(* claim and touch: the home is a registered one, the row is read. *)
Enter(c) ==
    /\ pc[c] = "idle"
    /\ home = "live"
    /\ SessionOf[c] \in live \cup {NoSession}
    /\ now' = [now EXCEPT ![c] = clock]
    /\ held' = [held EXCEPT ![c] = row]
    /\ \E t \in BOOLEAN : take' = [take EXCEPT ![c] = t]
    /\ GoTo(c, IF HoldsAnyone(row, clock) THEN "settle" ELSE "take")
    /\ UNCHANGED <<row, home, clock, live, standing, overtaken>>

(* Free or lapsed: one statement.  The deadline it is handed is the one of *)
(* the claim itself (`mine.idle_deadline`).                                *)
Take(c) ==
    /\ pc[c] = "take"
    /\ LET mine == Claim(c, now[c])
       IN  IF Takes(row, mine, now[c], IdleDeadline(mine))
           THEN Write(c, mine, Joined(c), FALSE) /\ Return(c)
           ELSE GoTo(c, "lost") /\ UNCHANGED <<row, standing, overtaken, held, now, take>>
    /\ UNCHANGED <<home, clock, live>>

(* The second reading taken to find a row. *)
LostUnchecked(c) ==
    /\ pc[c] = "lost"
    /\ GoTo(c, "settle")
    /\ held' = [held EXCEPT ![c] = row]
    /\ UNCHANGED <<row, home, clock, live, standing, overtaken, now, take>>

(* Somebody won the race: the row is read again and answered for. *)
Lost(c) ==
    /\ pc[c] = "lost"
    /\ IF row = NoRow
       THEN Return(c)
       ELSE GoTo(c, "settle") /\ held' = [held EXCEPT ![c] = row] /\ UNCHANGED <<now, take>>
    /\ UNCHANGED <<row, home, clock, live, standing, overtaken>>

(* Whose is it, and from which lineage: the process table is read. *)
Settle(c) ==
    /\ pc[c] = "settle"
    /\ \E reading \in ReadingOf(c, held[c]) :
          LET next == Settled(c, held[c], reading, take[c])
          IN  IF next = "refused"
              THEN Return(c)
              ELSE GoTo(c, next) /\ UNCHANGED <<held, now, take>>
    /\ UNCHANGED <<row, home, clock, live, standing, overtaken>>

(* The holder enters again, with the deadline of the row it has read. *)
Refresh(c) ==
    /\ pc[c] = "refresh"
    /\ LET mine == Renewal(c, held[c], now[c])
       IN  IF Takes(row, mine, now[c], IdleDeadline(held[c]))
           THEN /\ Write(c, mine, Joined(c), HostOf[c] \in Blind /\ Replaced(c, mine))
                /\ Return(c)
           ELSE /\ GoTo(c, "contested")
                /\ UNCHANGED <<row, standing, overtaken, held, now, take>>
    /\ UNCHANGED <<home, clock, live>>

(* The row changed under the refresh: refused, or moved by --take. *)
Contested(c) ==
    /\ pc[c] = "contested"
    /\ IF row = NoRow \/ ~take[c]
       THEN Return(c)
       ELSE GoTo(c, "asked") /\ held' = [held EXCEPT ![c] = row] /\ UNCHANGED <<now, take>>
    /\ UNCHANGED <<row, home, clock, live, standing, overtaken>>

(* take_over: hand_over moves the hold whoever has it.  --take displaces the *)
(* holder, a proof of death claims that there is none left to displace.      *)
HandOver(c) ==
    /\ pc[c] \in {"dead", "asked"}
    /\ IF pc[c] = "asked"
       THEN Write(c, Claim(c, now[c]), {c}, FALSE)
       ELSE Write(c, Claim(c, now[c]), Joined(c), Replaced(c, Claim(c, now[c])))
    /\ Return(c)
    /\ UNCHANGED <<home, clock, live>>

-----------------------------------------------------------------------------
(* `reclaim`: enter, inside the transaction that also reads the home.       *)

(* What enter does when no other command runs inside it: the row it leaves, *)
(* or a refusal.                                                            *)
Entered(c, asked, reading) ==
    LET mine == Claim(c, clock)
        settled == Settled(c, row, reading, asked)
    IN  IF ~HoldsAnyone(row, clock) /\ Takes(row, mine, clock, IdleDeadline(mine)) THEN mine
        ELSE IF settled = "refresh" THEN Renewal(c, row, clock)
        ELSE IF settled = "refused" THEN NoRow ELSE mine

(* The hold is taken and the transaction commits; a refusal leaves nothing. *)
ReclaimClaim(c) ==
    /\ pc[c] = "idle"
    /\ home = "live"
    /\ SessionOf[c] \in live \cup {NoSession}
    /\ \E asked \in BOOLEAN :
       \E reading \in (IF row = NoRow THEN {"unread"} ELSE ReadingOf(c, row)) :
          LET mine == Entered(c, asked, reading)
              settled == IF row = NoRow THEN "taken" ELSE Settled(c, row, reading, asked)
          IN  /\ mine # NoRow
              /\ Write(c, mine, IF settled = "asked" THEN {c} ELSE Joined(c), FALSE)
    /\ GoTo(c, "reclaiming")
    /\ UNCHANGED <<home, clock, live, held, now, take>>

(* A hook, an occupied home or a failed step ends the reclaim: the hold stays. *)
ReclaimStops(c) ==
    /\ pc[c] = "reclaiming"
    /\ GoTo(c, "idle")
    /\ UNCHANGED <<row, home, clock, live, held, now, take, standing, overtaken>>

(* The home is in the trash; the commit releases whatever hold this host has. *)
ReclaimCommits(c) ==
    /\ pc[c] = "reclaiming"
    /\ home = "live"
    /\ home' = "gone"
    /\ IF row # NoRow /\ row.host = HostOf[c]
       THEN Write(c, NoRow, {}, FALSE)
       ELSE UNCHANGED <<row, standing, overtaken>>
    /\ GoTo(c, "idle")
    /\ UNCHANGED <<clock, live, held, now, take>>

-----------------------------------------------------------------------------
(* The environment. *)

(* The last process of a session ends, and with it whatever was inside it. *)
SessionEnds(s) ==
    /\ s \in live
    /\ live' = live \ {s}
    /\ LET left == {c \in Commands : SessionOf[c] # s}
           kept(f, empty) == [c \in Commands |-> IF c \in left THEN f[c] ELSE empty]
       IN  /\ pc' = kept(pc, "idle")
           /\ held' = kept(held, NoRow)
           /\ now' = kept(now, 0)
           /\ take' = kept(take, FALSE)
           /\ standing' = standing \cap left
           /\ overtaken' = overtaken \cap left
    /\ UNCHANGED <<row, home, clock>>

(* Time passes; an entry lasts less than an idle window. *)
Tick ==
    /\ clock < MaxTime
    /\ \A c \in Commands : pc[c] \in Entering => clock + 1 < now[c] + Window
    /\ clock' = clock + 1
    /\ UNCHANGED <<row, home, live, pc, held, now, take, standing, overtaken>>

Progress(c) ==
    \/ Take(c) \/ Lost(c) \/ Settle(c) \/ Refresh(c) \/ Contested(c) \/ HandOver(c)

Step(c) ==
    \/ Open(c) \/ Enter(c) \/ Progress(c)
    \/ ReclaimClaim(c) \/ ReclaimStops(c) \/ ReclaimCommits(c)

Next ==
    \/ \E c \in Commands : Step(c)
    \/ \E s \in Sessions : SessionEnds(s)
    \/ Tick

Spec == Init /\ [][Next]_vars

-----------------------------------------------------------------------------
Places == Entering \cup {"idle", "reclaiming"}

(* Every variable keeps its type; in particular a command goes to settle only *)
(* with a row in hand (enter and settle, runtime/lock.rs).                    *)
TypeOK ==
    /\ row \in Rows \cup {NoRow}
    /\ home \in {"none", "live", "gone"}
    /\ clock \in Nat
    /\ live \subseteq Sessions
    /\ pc \in [Commands -> Places]
    /\ held \in [Commands -> Rows \cup {NoRow}]
    /\ \A c \in Commands : pc[c] \in {"settle", "refresh", "dead"} => held[c] # NoRow
    /\ now \in [Commands -> Nat]
    /\ take \in [Commands -> BOOLEAN]
    /\ standing \subseteq Commands
    /\ overtaken \subseteq standing

(* The row is the hold of command c, down to the lineage where c states one. *)
Names(r, c) ==
    /\ r # NoRow
    /\ IsHeldBy(r, c)
    /\ SessionOf[c] # NoSession => r.session = SessionOf[c]

(* One writer per home: whoever was told it holds the home is the holder the   *)
(* row names, until it is displaced by --take, its session ends or its lease   *)
(* lapses, so two lineages are never granted the home at once (enter, settle   *)
(* and the conflict clause of locks::take).  A proof of death moves the hold   *)
(* from nobody who stands, as long as it is a proof about the row still there. *)
(* Where another has replaced that row meanwhile the code moves the hold just  *)
(* the same (hand_over has no condition), although Lineage::Gone is documented *)
(* as the only answer that lets a hold go; so does, on a host with a table     *)
(* that cannot be read whole, a refresh whose own deadline has passed.  Those  *)
(* it takes the home from are `overtaken` and excused; so are the lineages of  *)
(* such hosts, where two of one name may enter together.                       *)
OneWriter == \A c \in standing \ overtaken : HostOf[c] \notin Blind => Names(row, c)

(* "I cannot see" is never "it is gone": a hold is let go as proven dead only *)
(* when its row stated a lineage and no process was left in it (lineage and   *)
(* reading_of), also on a host with a table this account cannot read whole.   *)
OnlyTheDeadAreSucceeded ==
    \A c \in Commands :
        pc[c] = "dead" => held[c].session \in Sessions /\ held[c].session \notin live

=============================================================================
