----------------------------- MODULE LockProofs -----------------------------
(* Proofs about Lock, for any number of commands, hosts and sessions, any   *)
(* idle window and any bound on the clock.                                  *)
EXTENDS Lock, TLAPS

(***************************************************************************)
(* Type correctness.                                                       *)
(***************************************************************************)

(* A hold that an entry writes is a row of the table (Entry::claim). *)
LEMMA ClaimIsARow ==
    ASSUME NEW c \in Commands, NEW t \in Nat
    PROVE  Claim(c, t) \in Rows
BY LockAssumption DEF Claim, Hold, Rows, AbsoluteExpiry

(* So is the hold a refresh writes (settle). *)
LEMMA RenewalIsARow ==
    ASSUME NEW c \in Commands, NEW r \in Rows, NEW t \in Nat
    PROVE  Renewal(c, r, t) \in Rows
BY LockAssumption DEF Renewal, Hold, Rows, AbsoluteExpiry

(* The row a reclaim's entry leaves is a row of the table, or a refusal (enter). *)
LEMMA EnteredIsARow ==
    ASSUME TypeOK, NEW c \in Commands, NEW t \in BOOLEAN, NEW reading
    PROVE  Entered(c, t, reading) \in Rows \cup {NoRow}
<1>1. Claim(c, clock) \in Rows
  BY ClaimIsARow DEF TypeOK
<1>2. row # NoRow => Renewal(c, row, clock) \in Rows
  BY RenewalIsARow DEF TypeOK
<1>3. row = NoRow => Entered(c, t, reading) = Claim(c, clock)
  BY DEF Entered, HoldsAnyone, Takes
<1>4. Entered(c, t, reading) \in {Claim(c, clock), Renewal(c, row, clock), NoRow}
  BY DEF Entered
<1> QED
  BY <1>1, <1>2, <1>3, <1>4

(* The initial states have the types declared for them. *)
LEMMA InitTypes == Init => TypeOK
<1> SUFFICES ASSUME Init PROVE TypeOK
  OBVIOUS
<1>1. row \in Rows \cup {NoRow}
  BY LockAssumption DEF Init, Rows, AbsoluteExpiry
<1> QED
  BY <1>1, LockAssumption DEF Init, TypeOK, Places, Entering

(* What an entry keeps for itself. *)
Own ==
    /\ pc \in [Commands -> Places]
    /\ held \in [Commands -> Rows \cup {NoRow}]
    /\ \A c \in Commands : pc[c] \in {"settle", "refresh", "dead"} => held[c] # NoRow
    /\ now \in [Commands -> Nat]
    /\ take \in [Commands -> BOOLEAN]

(* An entry that is over keeps nothing (the return of enter). *)
LEMMA ReturnTypes ==
    ASSUME TypeOK, NEW c \in Commands, Return(c)
    PROVE  Own'
BY DEF TypeOK, Own, Return, Places, Entering

(* An entry that goes on with the row it has. *)
LEMMA GoToTypes ==
    ASSUME TypeOK, NEW c \in Commands, NEW place \in Places, GoTo(c, place),
           place \in {"settle", "refresh", "dead"} => held[c] # NoRow,
           UNCHANGED <<held, now, take>>
    PROVE  Own'
BY DEF TypeOK, Own, GoTo

(* An entry that goes on with a row it has read again. *)
LEMMA ReadTypes ==
    ASSUME TypeOK, NEW c \in Commands, NEW place \in Places, GoTo(c, place),
           row # NoRow, held' = [held EXCEPT ![c] = row], UNCHANGED <<now, take>>
    PROVE  Own'
BY DEF TypeOK, Own, GoTo

(* Every step keeps the types; Lost and Settle hand settle a row they have read. *)
LEMMA StepTypes == TypeOK /\ [Next]_vars => TypeOK'
<1> SUFFICES ASSUME TypeOK, [Next]_vars PROVE TypeOK'
  OBVIOUS
<1> USE LockAssumption
<1>1. ASSUME NEW c \in Commands, Open(c) PROVE TypeOK'
  BY <1>1, ClaimIsARow DEF Open, Write, TypeOK
<1>2. ASSUME NEW c \in Commands, Enter(c) PROVE TypeOK'
  BY <1>2 DEF Enter, GoTo, TypeOK, Places, Entering, HoldsAnyone
<1>3. ASSUME NEW c \in Commands, Take(c) PROVE TypeOK'
  <2>1. Claim(c, now[c]) \in Rows
    BY ClaimIsARow DEF TypeOK
  <2>2. Joined(c) \subseteq Commands
    BY DEF Joined, TypeOK
  <2>3. CASE Takes(row, Claim(c, now[c]), now[c], IdleDeadline(Claim(c, now[c])))
    BY <1>3, <2>1, <2>2, <2>3, ReturnTypes DEF Take, Write, TypeOK, Own
  <2>4. CASE ~Takes(row, Claim(c, now[c]), now[c], IdleDeadline(Claim(c, now[c])))
    BY <1>3, <2>4, GoToTypes DEF Take, TypeOK, Own, Places, Entering
  <2> QED
    BY <2>3, <2>4
<1>4. ASSUME NEW c \in Commands, Lost(c) PROVE TypeOK'
  <2>1. CASE row = NoRow
    BY <1>4, <2>1, ReturnTypes DEF Lost, TypeOK, Own
  <2>2. CASE row # NoRow
    BY <1>4, <2>2, ReadTypes DEF Lost, TypeOK, Own, Places, Entering
  <2> QED
    BY <2>1, <2>2
<1>5. ASSUME NEW c \in Commands, Settle(c) PROVE TypeOK'
  <2>1. \A reading, asked :
            Settled(c, held[c], reading, asked) \in {"refresh", "dead", "asked", "refused"}
    BY DEF Settled
  <2>2. PICK reading \in ReadingOf(c, held[c]) :
            LET next == Settled(c, held[c], reading, take[c])
            IN  IF next = "refused"
                THEN Return(c)
                ELSE GoTo(c, next) /\ UNCHANGED <<held, now, take>>
    BY <1>5 DEF Settle
  <2>3. CASE Settled(c, held[c], reading, take[c]) = "refused"
    BY <1>5, <2>2, <2>3, ReturnTypes DEF Settle, TypeOK, Own
  <2>4. CASE Settled(c, held[c], reading, take[c]) # "refused"
    <3>1. held[c] # NoRow
      BY <1>5 DEF Settle, TypeOK
    <3>2. Settled(c, held[c], reading, take[c]) \in Places
      BY <2>1, <2>4 DEF Places, Entering
    <3>3. Own'
      BY <2>2, <2>4, <3>1, <3>2, GoToTypes
    <3> QED
      BY <1>5, <3>3 DEF Settle, TypeOK, Own
  <2> QED
    BY <2>3, <2>4
<1>6. ASSUME NEW c \in Commands, Refresh(c) PROVE TypeOK'
  <2>1. Renewal(c, held[c], now[c]) \in Rows
    BY <1>6, RenewalIsARow DEF Refresh, TypeOK
  <2>2. Joined(c) \subseteq Commands
    BY DEF Joined, TypeOK
  <2> DEFINE taken == Takes(row, Renewal(c, held[c], now[c]), now[c], IdleDeadline(held[c]))
  <2>3. CASE taken
    BY <1>6, <2>1, <2>2, <2>3, ReturnTypes DEF Refresh, Write, TypeOK, Own
  <2>4. CASE ~taken
    BY <1>6, <2>4, GoToTypes DEF Refresh, TypeOK, Own, Places, Entering
  <2> QED
    BY <2>3, <2>4
<1>7. ASSUME NEW c \in Commands, Contested(c) PROVE TypeOK'
  <2>1. CASE row = NoRow \/ ~take[c]
    BY <1>7, <2>1, ReturnTypes DEF Contested, TypeOK, Own
  <2>2. CASE ~(row = NoRow \/ ~take[c])
    BY <1>7, <2>2, ReadTypes DEF Contested, TypeOK, Own, Places, Entering
  <2> QED
    BY <2>1, <2>2
<1>8. ASSUME NEW c \in Commands, HandOver(c) PROVE TypeOK'
  <2>1. Claim(c, now[c]) \in Rows /\ Joined(c) \subseteq Commands
    BY ClaimIsARow DEF TypeOK, Joined
  <2>2. row' \in Rows /\ standing' \subseteq Commands /\ overtaken' \subseteq standing'
    BY <1>8, <2>1 DEF HandOver, Write
  <2> QED
    BY <1>8, <2>2 DEF HandOver, Return, TypeOK, Places, Entering
<1>9. ASSUME NEW c \in Commands, ReclaimClaim(c) PROVE TypeOK'
  <2>1. row' \in Rows /\ standing' \subseteq Commands /\ overtaken' \subseteq standing'
    BY <1>9, EnteredIsARow DEF ReclaimClaim, Write, Joined, TypeOK
  <2> QED
    BY <1>9, <2>1 DEF ReclaimClaim, GoTo, TypeOK, Places, Entering
<1>10. ASSUME NEW c \in Commands, ReclaimStops(c) PROVE TypeOK'
  BY <1>10 DEF ReclaimStops, GoTo, TypeOK, Places, Entering
<1>11. ASSUME NEW c \in Commands, ReclaimCommits(c) PROVE TypeOK'
  BY <1>11 DEF ReclaimCommits, Write, GoTo, TypeOK, Places, Entering
<1>12. ASSUME NEW s \in Sessions, SessionEnds(s) PROVE TypeOK'
  BY <1>12 DEF SessionEnds, TypeOK, Places, Entering
<1>13. CASE Tick
  BY <1>13 DEF Tick, TypeOK
<1>14. CASE UNCHANGED vars
  BY <1>14 DEF vars, TypeOK
<1> QED
  BY <1>1, <1>2, <1>3, <1>4, <1>5, <1>6, <1>7, <1>8, <1>9, <1>10, <1>11, <1>12,
     <1>13, <1>14 DEF Next, Step, Progress

(* Every variable keeps its type in every reachable state; an entry settles   *)
(* only against a row it has read (enter, settle).                            *)
THEOREM LockTypesHold == Spec => []TypeOK
BY InitTypes, StepTypes, PTL DEF Spec

(***************************************************************************)
(* A hold let go as dead is dead.                                          *)
(***************************************************************************)

(* One step keeps it: a reading that proves a session empty stays true,      *)
(* because a session that has ended does not come back (reading_of, lineage). *)
LEMMA StepDead ==
    TypeOK /\ OnlyTheDeadAreSucceeded /\ [Next]_vars => OnlyTheDeadAreSucceeded'
<1> SUFFICES ASSUME TypeOK, OnlyTheDeadAreSucceeded, [Next]_vars
             PROVE  OnlyTheDeadAreSucceeded'
  OBVIOUS
<1> USE DEF OnlyTheDeadAreSucceeded, TypeOK
<1>1. ASSUME NEW c \in Commands, Settle(c) PROVE OnlyTheDeadAreSucceeded'
  <2>1. PICK reading \in ReadingOf(c, held[c]) :
            LET next == Settled(c, held[c], reading, take[c])
            IN  IF next = "refused"
                THEN Return(c)
                ELSE GoTo(c, next) /\ UNCHANGED <<held, now, take>>
    BY <1>1 DEF Settle
  <2>2. held[c] \in Rows
    BY <1>1 DEF Settle
  <2>3. ASSUME Settled(c, held[c], reading, take[c]) = "dead"
        PROVE  held[c].session \in Sessions /\ held[c].session \notin live
    <3>1. Lineage(c, held[c], reading) = "gone"
      BY <2>3 DEF Settled
    <3>2. /\ ~WasTakenFrom(held[c], SessionOf[c])
          /\ held[c].session # NoSession
          /\ SessionOf[c] # NoSession
          /\ reading = "none"
      BY <3>1 DEF Lineage
    <3>3. reading \in Readings(c, held[c].session)
      BY <2>1, <3>2 DEF ReadingOf
    <3>4. held[c].session \notin live
      BY <3>2, <3>3 DEF Readings
    <3> QED
      BY <2>2, <3>2, <3>4 DEF Rows
  <2>4. CASE Settled(c, held[c], reading, take[c]) = "refused"
    BY <1>1, <2>1, <2>4 DEF Settle, Return
  <2>5. CASE Settled(c, held[c], reading, take[c]) # "refused"
    BY <1>1, <2>1, <2>3, <2>5 DEF Settle, GoTo
  <2> QED
    BY <2>4, <2>5
<1>2. ASSUME NEW c \in Commands, Open(c) \/ Enter(c) \/ Take(c) \/ Lost(c)
      PROVE  OnlyTheDeadAreSucceeded'
  BY <1>2 DEF Open, Enter, Take, Lost, Return, GoTo
<1>3. ASSUME NEW c \in Commands, Refresh(c) \/ Contested(c) \/ HandOver(c)
      PROVE  OnlyTheDeadAreSucceeded'
  BY <1>3 DEF Refresh, Contested, HandOver, Return, GoTo
<1>4. ASSUME NEW c \in Commands, ReclaimClaim(c) \/ ReclaimStops(c) \/ ReclaimCommits(c)
      PROVE  OnlyTheDeadAreSucceeded'
  BY <1>4 DEF ReclaimClaim, ReclaimStops, ReclaimCommits, GoTo
<1>5. ASSUME NEW s \in Sessions, SessionEnds(s) PROVE OnlyTheDeadAreSucceeded'
  BY <1>5 DEF SessionEnds
<1>6. CASE Tick \/ UNCHANGED vars
  BY <1>6 DEF Tick, vars
<1> QED
  BY <1>1, <1>2, <1>3, <1>4, <1>5, <1>6 DEF Next, Step, Progress

(* On every host, readable or not, a hold is let go as proven dead only when  *)
(* its row stated a lineage and no process was left in it (lineage).          *)
THEOREM TheDeadAreDead == Spec => []OnlyTheDeadAreSucceeded
<1>1. Init => OnlyTheDeadAreSucceeded
  BY DEF Init, OnlyTheDeadAreSucceeded
<1> QED
  BY <1>1, StepDead, LockTypesHold, PTL DEF Spec

(***************************************************************************)
(* One writer.                                                             *)
(***************************************************************************)

(* What the theorem assumes of the machines: every process states a session. *)
Stated == \A c \in Commands : SessionOf[c] \in Sessions

(* The row would be matched by an entry of c (the last line of take's WHERE). *)
Matches(r, c) ==
    IsHeldBy(r, c) /\ (r.session = NoSession \/ r.session = SessionOf[c])

(* An entry is younger than the idle window. *)
Quick ==
    \A c \in Commands :
        pc[c] \in Entering =>
            /\ now[c] <= clock
            /\ clock < now[c] + Window \/ (pc[c] = "take" /\ Window = 0)

(* Nothing is refreshed in the future. *)
RowDated == row # NoRow => row.refreshed <= clock

(* An entry that has lost its take finds its own lineage in the row only if  *)
(* another process of the lineage has written it since.                      *)
LostFresh ==
    \A c \in Commands :
        pc[c] = "lost" /\ row # NoRow /\ Matches(row, c) => ~HasLapsed(row, now[c])

(* So the deadline that settle hands to take has not passed. *)
HeldFresh ==
    \A c \in Commands :
        pc[c] \in {"settle", "refresh"} /\ Matches(held[c], c) => ~HasLapsed(held[c], now[c])

(* A refresh is of a row in the entry's name, and of one it matches where the *)
(* process table could be read.                                               *)
RefreshOwn ==
    \A c \in Commands :
        pc[c] = "refresh" =>
            IsHeldBy(held[c], c) /\ (HostOf[c] \notin Blind => Matches(held[c], c))

(* Whoever is inside an entry, or stands, is in a session that goes on. *)
Alive ==
    /\ \A c \in Commands : pc[c] \in Entering => SessionOf[c] \in live
    /\ \A c \in standing : SessionOf[c] \in live

WriterInv ==
    /\ TypeOK /\ Quick /\ RowDated /\ LostFresh /\ HeldFresh /\ RefreshOwn
    /\ Alive /\ OnlyTheDeadAreSucceeded /\ OneWriter

(* The last line of take's WHERE, for a hold the entry would write. *)
LEMMA MatchesClaim ==
    ASSUME NEW c \in Commands, NEW t, NEW r
    PROVE  SameHolder(r, Claim(c, t)) <=> Matches(r, c)
BY DEF SameHolder, Claim, Hold, Matches, IsHeldBy

(* The hold an entry writes names it (Entry::claim). *)
LEMMA ClaimNames ==
    ASSUME NEW c \in Commands, NEW t \in Nat
    PROVE  Names(Claim(c, t), c) \/ Claim(c, t) = NoRow
BY DEF Names, Claim, Hold, IsHeldBy

(* So does the refresh of a row the entry matches (settle). *)
LEMMA RenewalNames ==
    ASSUME NEW c \in Commands, NEW t \in Nat, NEW r \in Rows, Matches(r, c)
    PROVE  Renewal(c, r, t) = Claim(c, t)
BY DEF Renewal, Claim, Hold, Matches

(* A row written by an entry has not lapsed for an entry that lost its take. *)
LEMMA WriteIsFresh ==
    ASSUME TypeOK, Quick, NEW c \in Commands, pc[c] = "lost",
           NEW d \in Commands, NEW s, NEW t \in Nat,
           t <= clock, clock < t + Window \/ Window = 0
    PROVE  ~HasLapsed(Hold(d, s, t), now[c])
<1>1. now[c] <= clock /\ clock < now[c] + Window /\ now[c] \in Nat /\ clock \in Nat
  BY DEF TypeOK, Quick, Entering
<1> QED
  BY <1>1, LockAssumption DEF HasLapsed, IdleDeadline, Hold, AbsoluteExpiry

(* A lineage that the row names is named by what an entry matching it writes. *)
LEMMA MatchNames ==
    ASSUME NEW c \in Commands, NEW t \in Nat, Claim(c, t) # NoRow, Matches(row, c),
           NEW d \in Commands, SessionOf[d] # NoSession, Names(row, d)
    PROVE  Names(Claim(c, t), d)
BY DEF Names, Matches, IsHeldBy, Claim, Hold

(* A grant leaves one writer, where it names whoever it leaves standing (the *)
(* conflict clause of take, settle).                                         *)
LEMMA GrantKeeps ==
    ASSUME OneWriter, standing \subseteq Commands,
           NEW c \in Commands, NEW mine, NEW stale \in BOOLEAN,
           Write(c, mine, Joined(c), stale),
           HostOf[c] \notin Blind => Names(mine, c),
           \A d \in standing \ {c} :
               HostOf[d] \notin Blind /\ Names(row, d) /\ HoldsAnyone(row, clock) /\ ~stale
                   => Names(mine, d)
    PROVE  OneWriter'
<1> SUFFICES ASSUME NEW d \in standing' \ overtaken', HostOf[d] \notin Blind
             PROVE  Names(row', d)
  BY DEF OneWriter
<1>1. row' = mine
  BY DEF Write
<1>2. CASE d = c
  BY <1>1, <1>2
<1>3. CASE d # c
  <2>1. d \in standing /\ HoldsAnyone(row, clock)
    BY <1>3 DEF Write, Joined
  <2>2. ~stale /\ d \notin overtaken
    BY <1>3 DEF Write
  <2> QED
    BY <1>1, <1>3, <2>1, <2>2 DEF OneWriter
<1> QED
  BY <1>2, <1>3

(* A hold that is moved away from everybody leaves one writer (--take, open). *)
LEMMA GrantMoves ==
    ASSUME NEW c \in Commands, NEW mine, Write(c, mine, {c}, FALSE),
           HostOf[c] \notin Blind => Names(mine, c)
    PROVE  OneWriter'
BY DEF OneWriter, Write

(* Nobody stands under a row of a session that has ended (take_over). *)
LEMMA DeadNamesNobody ==
    ASSUME Stated, Alive, standing \subseteq Commands, NEW d \in standing,
           Names(row, d), row.session \notin live
    PROVE  FALSE
<1>1. SessionOf[d] \in Sessions /\ SessionOf[d] # NoSession
  BY LockAssumption DEF Stated
<1> QED
  BY <1>1 DEF Alive, Names

(* A session that has ended takes everything of its lineage with it, and     *)
(* nothing begins or is granted in one that has ended.                       *)
LEMMA StepAlive ==
    ASSUME Stated, TypeOK, Alive, [Next]_vars
    PROVE  Alive'
<1>1. ASSUME NEW c \in Commands, Step(c) PROVE Alive'
  <2>1. SessionOf[c] \in live \/ pc[c] = "reclaiming"
    <3>1. SessionOf[c] # NoSession
      BY LockAssumption DEF Stated
    <3> QED
      BY <1>1, <3>1
         DEF Step, Open, Enter, Progress, Take, Lost, Settle, Refresh, Contested, HandOver,
             ReclaimClaim, ReclaimStops, ReclaimCommits, Alive, Entering
  <2>2. live' = live /\ \A d \in Commands \ {c} : pc'[d] = pc[d]
    BY <1>1
       DEF Step, Open, Enter, Progress, Take, Lost, Settle, Refresh, Contested, HandOver,
           ReclaimClaim, ReclaimStops, ReclaimCommits, Return, GoTo, TypeOK
  <2>3. CASE pc[c] = "reclaiming"
    <3>1. ReclaimStops(c) \/ ReclaimCommits(c) \/ Open(c)
      BY <1>1, <2>3
         DEF Step, Enter, Progress, Take, Lost, Settle, Refresh, Contested, HandOver,
             ReclaimClaim
    <3>2. CASE Open(c)
      <4>1. SessionOf[c] \in live
        BY <3>2, LockAssumption DEF Open, Stated
      <4> QED
        BY <3>2, <4>1, <2>2 DEF Open, Write, Alive
    <3>3. CASE ReclaimStops(c) \/ ReclaimCommits(c)
      <4>1. pc'[c] = "idle" /\ standing' \subseteq standing
        BY <3>3 DEF ReclaimStops, ReclaimCommits, GoTo, Write, TypeOK
      <4> QED
        BY <2>2, <4>1 DEF Alive, Entering
    <3> QED
      BY <3>1, <3>2, <3>3
  <2>4. CASE SessionOf[c] \in live
    <3>1. standing' \subseteq standing \cup {c}
      BY <1>1
         DEF Step, Open, Enter, Progress, Take, Lost, Settle, Refresh, Contested, HandOver,
             ReclaimClaim, ReclaimStops, ReclaimCommits, Write, Joined
    <3> QED
      BY <2>2, <2>4, <3>1 DEF Alive
  <2> QED
    BY <2>1, <2>3, <2>4
<1>2. ASSUME NEW s \in Sessions, SessionEnds(s) PROVE Alive'
  BY <1>2 DEF SessionEnds, Alive, TypeOK, Entering
<1>3. CASE Tick \/ UNCHANGED vars
  BY <1>3 DEF Tick, vars, Alive
<1> QED
  BY <1>1, <1>2, <1>3 DEF Next

(* Entry steps other than c's own see the same row they read. *)
Others(c) ==
    \A d \in Commands \ {c} :
        pc'[d] = pc[d] /\ held'[d] = held[d] /\ now'[d] = now[d]

(* The parts that speak of the entries survive a step of c that ends c's     *)
(* entry, whatever fresh row it writes.                                      *)
LEMMA ReturnKeeps ==
    ASSUME WriterInv, NEW c \in Commands, Others(c), pc'[c] \notin Entering, clock' = clock,
           \/ row' = row
           \/ row' = NoRow
           \/ \E s, t : /\ row' = Hold(c, s, t)
                        /\ t \in Nat
                        /\ t <= clock
                        /\ clock < t + Window \/ Window = 0
    PROVE  (Quick /\ RowDated /\ LostFresh /\ HeldFresh /\ RefreshOwn)'
<1>1. Quick' /\ HeldFresh' /\ RefreshOwn'
  BY DEF WriterInv, Quick, HeldFresh, RefreshOwn, Others, Entering
<1>2. RowDated'
  <2>1. CASE row' = row
    BY <2>1 DEF WriterInv, RowDated
  <2>2. CASE row' # row
    BY <2>2 DEF RowDated, Hold
  <2> QED
    BY <2>1, <2>2
<1>3. LostFresh'
  <2> SUFFICES ASSUME NEW d \in Commands, pc'[d] = "lost", row' # NoRow, Matches(row', d)
               PROVE  ~HasLapsed(row', now'[d])
    BY DEF LostFresh
  <2>1. d # c /\ pc[d] = "lost" /\ now'[d] = now[d]
    BY DEF Others, Entering
  <2>2. CASE row' = row
    BY <2>1, <2>2 DEF WriterInv, LostFresh
  <2>3. CASE row' # row
    <3>1. PICK s, t : /\ row' = Hold(c, s, t)
                      /\ t \in Nat
                      /\ t <= clock
                      /\ clock < t + Window \/ Window = 0
      BY <2>3
    <3>2. ~HasLapsed(Hold(c, s, t), now[d])
      BY <2>1, <3>1, WriteIsFresh DEF WriterInv
    <3> QED
      BY <2>1, <3>1, <3>2
  <2> QED
    BY <2>2, <2>3
<1> QED
  BY <1>1, <1>2, <1>3

(* A refresh is of a row in the command's name, and of its own lineage, or of *)
(* one that states none, where the table can be read (lineage).               *)
LEMMA SettledOwn ==
    ASSUME NEW c \in Commands, NEW r \in Rows, NEW reading \in ReadingOf(c, r), NEW asked,
           SessionOf[c] # NoSession, Settled(c, r, reading, asked) = "refresh"
    PROVE  IsHeldBy(r, c) /\ (HostOf[c] \notin Blind => Matches(r, c))
<1>1. IsHeldBy(r, c) /\ Lineage(c, r, reading) \in {"same", "unreadable"}
  BY DEF Settled
<1>2. CASE Lineage(c, r, reading) = "same"
  BY <1>1, <1>2 DEF Lineage, WasTakenFrom, Matches
<1>3. CASE Lineage(c, r, reading) = "unreadable"
  BY <1>1, <1>3 DEF Lineage, ReadingOf, Readings, Matches, WasTakenFrom
<1> QED
  BY <1>1, <1>2, <1>3

(* One step keeps the strengthened invariant. *)
LEMMA StepWriter ==
    ASSUME Stated, WriterInv, [Next]_vars
    PROVE  WriterInv'
<1>0. TypeOK /\ TypeOK' /\ Alive /\ Alive' /\ OnlyTheDeadAreSucceeded'
  BY StepTypes, StepDead, StepAlive DEF WriterInv
<1>types. /\ clock \in Nat /\ Window \in Nat
          /\ now \in [Commands -> Nat]
          /\ pc \in [Commands -> Places] /\ pc' \in [Commands -> Places]
          /\ held \in [Commands -> Rows \cup {NoRow}]
          /\ row \in Rows \cup {NoRow} /\ standing \subseteq Commands
          /\ SessionOf \in [Commands -> Sessions] /\ NoSession \notin Sessions
  BY <1>0, LockAssumption DEF TypeOK, Stated
<1>1. ASSUME NEW c \in Commands, Open(c) PROVE WriterInv'
  <2>1. (Quick /\ RowDated /\ LostFresh /\ HeldFresh /\ RefreshOwn)'
    <3>1. Quick' /\ HeldFresh' /\ RefreshOwn'
      BY <1>1 DEF Open, WriterInv, Quick, HeldFresh, RefreshOwn
    <3>2. row' = Hold(c, SessionOf[c], clock)
      BY <1>1 DEF Open, Write, Claim
    <3>3. RowDated'
      BY <1>1, <3>2, <1>types DEF Open, RowDated, Hold
    <3>4. LostFresh'
      BY <1>1, <1>types, <3>2, WriteIsFresh DEF Open, LostFresh, WriterInv
    <3> QED
      BY <3>1, <3>3, <3>4
  <2>2. OneWriter'
    <3>1. Names(Claim(c, clock), c) /\ Write(c, Claim(c, clock), {c}, FALSE)
      BY <1>1, <1>types, ClaimNames, ClaimIsARow, NoRowAssumption DEF Open
    <3> QED
      BY <3>1, GrantMoves
  <2> QED
    BY <1>0, <2>1, <2>2 DEF WriterInv
<1>2. ASSUME NEW c \in Commands, Enter(c) PROVE WriterInv'
  <2>0. /\ pc'[c] \in {"settle", "take"} /\ now'[c] = clock /\ held'[c] = row
        /\ pc'[c] = "settle" => HoldsAnyone(row, clock)
        /\ Others(c) /\ UNCHANGED <<row, clock, standing, overtaken>>
    BY <1>2, <1>types DEF Enter, GoTo, Others
  <2>1. Quick'
    <3>1. pc'[c] = "settle" => clock < clock + Window
      BY <2>0, <1>types DEF WriterInv, RowDated, HoldsAnyone, HasLapsed, IdleDeadline, Rows
    <3>2. pc'[c] = "take" => clock < clock + Window \/ Window = 0
      BY <1>types
    <3> QED
      BY <2>0, <3>1, <3>2, <1>types DEF WriterInv, Quick, Others
  <2>2. RowDated' /\ OneWriter'
    BY <2>0 DEF WriterInv, RowDated, OneWriter
  <2>3. LostFresh'
    BY <2>0 DEF WriterInv, LostFresh, Others
  <2>4. HeldFresh'
    BY <2>0 DEF WriterInv, HeldFresh, Others, HoldsAnyone
  <2>5. RefreshOwn'
    BY <2>0 DEF WriterInv, RefreshOwn, Others
  <2> QED
    BY <1>0, <2>1, <2>2, <2>3, <2>4, <2>5 DEF WriterInv
<1>3. ASSUME NEW c \in Commands, Take(c) PROVE WriterInv'
  <2> DEFINE mine == Claim(c, now[c])
  <2>0. /\ now[c] \in Nat
        /\ now[c] <= clock
        /\ clock < now[c] + Window \/ Window = 0
        /\ mine # NoRow
    BY <1>3, <1>types, ClaimIsARow, NoRowAssumption DEF Take, WriterInv, Quick, Entering
  <2>1. CASE Takes(row, mine, now[c], IdleDeadline(mine))
    <3>1. Write(c, mine, Joined(c), FALSE) /\ row' = mine /\ Return(c) /\ clock' = clock
      BY <1>3, <2>1 DEF Take, Write
    <3>2. Others(c) /\ pc'[c] \notin Entering
      BY <3>1, <1>types DEF Return, Others, Entering
    <3>3. (Quick /\ RowDated /\ LostFresh /\ HeldFresh /\ RefreshOwn)'
      BY <3>1, <3>2, <2>0, ReturnKeeps DEF Claim
    <3>4. HoldsAnyone(row, clock) => Matches(row, c)
      <4>1. now[c] >= IdleDeadline(mine) => Window = 0
        BY <2>0, <1>types DEF IdleDeadline, Claim, Hold
      <4>2. HoldsAnyone(row, clock) => row \in Rows /\ clock < row.refreshed + Window
                                       /\ clock < row.expires /\ row.actor # NoActor
        BY <1>types DEF HoldsAnyone, HasLapsed, IdleDeadline, Rows
      <4>3. row # NoRow => row.refreshed <= clock
        BY DEF WriterInv, RowDated
      <4> QED
        BY <2>0, <2>1, <4>1, <4>2, <4>3, <1>types, MatchesClaim DEF Takes, HoldsAnyone, Rows
    <3>5. OneWriter'
      <4>1. Names(mine, c)
        BY <2>0, ClaimNames
      <4>2. \A d \in standing : Names(row, d) /\ HoldsAnyone(row, clock) => Names(mine, d)
        BY <2>0, <3>4, <1>types, MatchNames
      <4> HIDE DEF mine
      <4> QED
        BY <3>1, <4>1, <4>2, <1>types, GrantKeeps DEF WriterInv
    <3> QED
      BY <1>0, <3>3, <3>5 DEF WriterInv
  <2>2. CASE ~Takes(row, mine, now[c], IdleDeadline(mine))
    <3>0. /\ pc'[c] = "lost" /\ Others(c) /\ UNCHANGED <<row, standing, overtaken, held, now, clock>>
      BY <1>3, <2>2, <1>types DEF Take, GoTo, Others
    <3>1. ~Matches(row, c)
      BY <2>2, MatchesClaim DEF Takes
    <3>2. Window # 0
      BY <2>0, <2>2, <1>types DEF Takes, IdleDeadline, Claim, Hold
    <3>3. Quick'
      BY <3>0, <3>2, <2>0 DEF WriterInv, Quick, Others
    <3>4. LostFresh'
      BY <3>0, <3>1 DEF WriterInv, LostFresh, Others
    <3>5. (RowDated /\ HeldFresh /\ RefreshOwn /\ OneWriter)'
      BY <3>0 DEF WriterInv, RowDated, HeldFresh, RefreshOwn, OneWriter, Others
    <3> QED
      BY <1>0, <3>3, <3>4, <3>5 DEF WriterInv
  <2> QED
    BY <2>1, <2>2
<1>4. ASSUME NEW c \in Commands, Lost(c) PROVE WriterInv'
  <2>0. pc[c] = "lost" /\ UNCHANGED <<row, clock, standing, overtaken>>
    BY <1>4 DEF Lost
  <2>1. CASE row = NoRow
    <3>1. Others(c) /\ pc'[c] \notin Entering
      BY <1>4, <2>1, <1>types DEF Lost, Return, Others, Entering
    <3> QED
      BY <1>0, <2>0, <3>1, ReturnKeeps DEF WriterInv, OneWriter
  <2>2. CASE row # NoRow
    <3>0. pc'[c] = "settle" /\ Others(c) /\ held'[c] = row /\ now' = now
      BY <1>4, <2>2, <1>types DEF Lost, GoTo, Others
    <3>1. Quick'
      BY <2>0, <3>0 DEF WriterInv, Quick, Others, Entering
    <3>2. HeldFresh'
      BY <2>0, <2>2, <3>0 DEF WriterInv, HeldFresh, LostFresh, Others
    <3>3. (RowDated /\ LostFresh /\ RefreshOwn /\ OneWriter)'
      BY <2>0, <3>0 DEF WriterInv, RowDated, LostFresh, RefreshOwn, OneWriter, Others
    <3> QED
      BY <1>0, <3>1, <3>2, <3>3 DEF WriterInv
  <2> QED
    BY <2>1, <2>2
<1>5. ASSUME NEW c \in Commands, Settle(c) PROVE WriterInv'
  <2>0. pc[c] = "settle" /\ UNCHANGED <<row, clock, standing, overtaken>> /\ held[c] \in Rows
    BY <1>5, <1>0 DEF Settle, TypeOK
  <2>1. PICK reading \in ReadingOf(c, held[c]) :
            LET next == Settled(c, held[c], reading, take[c])
            IN  IF next = "refused"
                THEN Return(c)
                ELSE GoTo(c, next) /\ UNCHANGED <<held, now, take>>
    BY <1>5 DEF Settle
  <2> DEFINE next == Settled(c, held[c], reading, take[c])
  <2>2. next \in {"refresh", "dead", "asked", "refused"}
    BY DEF Settled
  <2>3. next = "refresh" =>
            IsHeldBy(held[c], c) /\ (HostOf[c] \notin Blind => Matches(held[c], c))
    <3>1. SessionOf[c] # NoSession
      BY <1>types
    <3> QED
      BY <2>0, <2>1, <3>1, SettledOwn
  <2>4. CASE next = "refused"
    <3>1. Others(c) /\ pc'[c] \notin Entering
      BY <2>1, <2>4, <1>types DEF Return, Others, Entering
    <3> QED
      BY <1>0, <2>0, <3>1, ReturnKeeps DEF WriterInv, OneWriter
  <2>5. CASE next # "refused"
    <3>0. pc'[c] = next /\ Others(c) /\ UNCHANGED <<held, now>>
      BY <2>1, <2>5, <1>types DEF GoTo, Others
    <3>1. Quick'
      BY <2>0, <2>2, <3>0 DEF WriterInv, Quick, Others, Entering
    <3>2. HeldFresh'
      BY <2>0, <2>2, <3>0 DEF WriterInv, HeldFresh, Others
    <3>3. RefreshOwn'
      BY <2>3, <3>0 DEF WriterInv, RefreshOwn, Others
    <3>4. (RowDated /\ LostFresh /\ OneWriter)'
      BY <2>0, <2>2, <3>0 DEF WriterInv, RowDated, LostFresh, OneWriter, Others
    <3> QED
      BY <1>0, <3>1, <3>2, <3>3, <3>4 DEF WriterInv
  <2> QED
    BY <2>4, <2>5
<1>6. ASSUME NEW c \in Commands, Refresh(c) PROVE WriterInv'
  <2> DEFINE mine == Renewal(c, held[c], now[c])
             stale == HostOf[c] \in Blind /\ Replaced(c, mine)
  <2>0. /\ now[c] \in Nat /\ now[c] <= clock /\ clock < now[c] + Window
        /\ held[c] \in Rows /\ IsHeldBy(held[c], c)
        /\ HostOf[c] \notin Blind => Matches(held[c], c) /\ ~HasLapsed(held[c], now[c])
    BY <1>6, <1>0 DEF Refresh, WriterInv, Quick, RefreshOwn, HeldFresh, Entering, TypeOK
  <2>1. mine # NoRow /\ (HostOf[c] \notin Blind => mine = Claim(c, now[c]))
    BY <2>0, RenewalNames, RenewalIsARow, NoRowAssumption
  <2>2. CASE Takes(row, mine, now[c], IdleDeadline(held[c]))
    <3>1. Write(c, mine, Joined(c), stale) /\ row' = mine /\ Return(c) /\ clock' = clock
      BY <1>6, <2>2 DEF Refresh, Write
    <3>2. Others(c) /\ pc'[c] \notin Entering
      BY <3>1, <1>types DEF Return, Others, Entering
    <3>3. \E s, t : /\ row' = Hold(c, s, t)
                    /\ t \in Nat
                    /\ t <= clock
                    /\ clock < t + Window \/ Window = 0
      BY <2>0, <3>1 DEF Renewal
    <3>4. (Quick /\ RowDated /\ LostFresh /\ HeldFresh /\ RefreshOwn)'
      BY <3>1, <3>2, <3>3, ReturnKeeps
    <3>5. HostOf[c] \notin Blind => Names(mine, c)
      BY <2>0, <2>1, ClaimNames
    <3>6. ASSUME NEW d \in standing \ {c}, HostOf[d] \notin Blind, Names(row, d),
                 HoldsAnyone(row, clock), ~stale
          PROVE  Names(mine, d)
      <4>1. CASE HostOf[c] \in Blind
        <5>1. row = held[c] \/ SameHolder(row, mine)
          BY <3>6, <4>1 DEF Replaced, Names
        <5>2. row.host = HostOf[c]
          BY <2>0, <5>1 DEF IsHeldBy, SameHolder, Renewal, Hold
        <5> QED
          BY <3>6, <4>1, <5>2 DEF Names, IsHeldBy
      <4>2. CASE HostOf[c] \notin Blind
        <5>1. ~(now[c] >= IdleDeadline(held[c]))
          BY <2>0, <4>2 DEF HasLapsed
        <5>2. row \in Rows /\ clock < row.expires /\ row.actor # NoActor
          BY <3>6, <1>types DEF HoldsAnyone, HasLapsed, Rows
        <5>3. Matches(row, c)
          <6>1. row.expires \in Nat /\ ~(row.expires <= now[c])
            BY <2>0, <5>2, <1>types DEF Rows
          <6>2. SameHolder(row, mine)
            BY <2>2, <3>6, <5>1, <5>2, <6>1 DEF Takes, Names
          <6> QED
            BY <2>1, <4>2, <6>2, MatchesClaim
        <5> QED
          BY <2>0, <2>1, <3>6, <4>2, <5>3, <1>types, MatchNames
      <4> QED
        BY <4>1, <4>2
    <3>7. OneWriter'
      <4>1. stale \in BOOLEAN /\ OneWriter
        BY DEF WriterInv, Replaced
      <4> HIDE DEF mine, stale
      <4> QED
        BY <3>1, <3>5, <3>6, <4>1, <1>types, GrantKeeps
    <3> QED
      BY <1>0, <3>4, <3>7 DEF WriterInv
  <2>3. CASE ~Takes(row, mine, now[c], IdleDeadline(held[c]))
    <3>0. /\ pc'[c] = "contested" /\ Others(c)
          /\ UNCHANGED <<row, standing, overtaken, held, now, clock>>
      BY <1>6, <2>3, <1>types DEF Refresh, GoTo, Others
    <3>1. Quick'
      BY <2>0, <3>0 DEF WriterInv, Quick, Others, Entering
    <3>2. (RowDated /\ LostFresh /\ HeldFresh /\ RefreshOwn /\ OneWriter)'
      BY <3>0 DEF WriterInv, RowDated, LostFresh, HeldFresh, RefreshOwn, OneWriter, Others
    <3> QED
      BY <1>0, <3>1, <3>2 DEF WriterInv
  <2> QED
    BY <2>2, <2>3
<1>7. ASSUME NEW c \in Commands, Contested(c) PROVE WriterInv'
  <2>0. pc[c] = "contested" /\ UNCHANGED <<row, clock, standing, overtaken>>
    BY <1>7 DEF Contested
  <2>1. CASE row = NoRow \/ ~take[c]
    <3>1. Others(c) /\ pc'[c] \notin Entering
      BY <1>7, <2>1, <1>types DEF Contested, Return, Others, Entering
    <3> QED
      BY <1>0, <2>0, <3>1, ReturnKeeps DEF WriterInv, OneWriter
  <2>2. CASE ~(row = NoRow \/ ~take[c])
    <3>0. pc'[c] = "asked" /\ Others(c) /\ now' = now
      BY <1>7, <2>2, <1>types DEF Contested, GoTo, Others
    <3>1. Quick'
      BY <2>0, <3>0 DEF WriterInv, Quick, Others, Entering
    <3>2. (RowDated /\ LostFresh /\ HeldFresh /\ RefreshOwn /\ OneWriter)'
      BY <2>0, <3>0
         DEF WriterInv, RowDated, LostFresh, HeldFresh, RefreshOwn, OneWriter, Others
    <3> QED
      BY <1>0, <3>1, <3>2 DEF WriterInv
  <2> QED
    BY <2>1, <2>2
<1>8. ASSUME NEW c \in Commands, HandOver(c) PROVE WriterInv'
  <2> DEFINE mine == Claim(c, now[c])
             stale == Replaced(c, mine)
  <2>1. /\ now[c] \in Nat
        /\ now[c] <= clock
        /\ clock < now[c] + Window
        /\ mine # NoRow
    BY <1>8, <1>types, ClaimIsARow, NoRowAssumption DEF HandOver, WriterInv, Quick, Entering
  <2>2. row' = mine /\ clock' = clock /\ Others(c) /\ pc'[c] \notin Entering
    BY <1>8, <1>types DEF HandOver, Write, Return, Others, Entering
  <2>3. (Quick /\ RowDated /\ LostFresh /\ HeldFresh /\ RefreshOwn)'
    BY <2>1, <2>2, ReturnKeeps DEF Claim
  <2>4. Names(mine, c)
    BY <2>1, ClaimNames
  <2>5. CASE pc[c] = "asked"
    <3>1. OneWriter'
      BY <1>8, <2>4, <2>5, GrantMoves DEF HandOver
    <3> QED
      BY <1>0, <2>3, <3>1 DEF WriterInv
  <2>6. CASE pc[c] # "asked"
    <3>1. pc[c] = "dead" /\ Write(c, mine, Joined(c), stale)
      BY <1>8, <2>6 DEF HandOver
    <3>2. ASSUME NEW d \in standing \ {c}, HostOf[d] \notin Blind, Names(row, d),
                 HoldsAnyone(row, clock), ~stale
          PROVE  Names(mine, d)
      <4>1. row = held[c] \/ SameHolder(row, mine)
        BY <3>2 DEF Replaced, Names
      <4>2. CASE row = held[c]
        <5>1. row.session \notin live
          BY <3>1, <4>2 DEF WriterInv, OnlyTheDeadAreSucceeded
        <5> QED
          BY <3>2, <5>1, <1>0, <1>types, DeadNamesNobody
      <4>3. CASE SameHolder(row, mine)
        BY <2>1, <3>2, <4>3, <1>types, MatchesClaim, MatchNames
      <4> QED
        BY <4>1, <4>2, <4>3
    <3>3. OneWriter'
      <4>1. stale \in BOOLEAN /\ OneWriter
        BY DEF WriterInv, Replaced
      <4> HIDE DEF mine, stale
      <4> QED
        BY <2>4, <3>1, <3>2, <4>1, <1>types, GrantKeeps
    <3> QED
      BY <1>0, <2>3, <3>3 DEF WriterInv
  <2> QED
    BY <2>5, <2>6
<1>9. ASSUME NEW c \in Commands, ReclaimClaim(c) PROVE WriterInv'
  <2>0. pc'[c] \notin Entering /\ Others(c) /\ clock' = clock
    BY <1>9, <1>types DEF ReclaimClaim, GoTo, Others, Entering
  <2>1. PICK asked \in BOOLEAN,
             reading \in (IF row = NoRow THEN {"unread"} ELSE ReadingOf(c, row)) :
            LET mine == Entered(c, asked, reading)
                settled == IF row = NoRow THEN "taken" ELSE Settled(c, row, reading, asked)
            IN  /\ mine # NoRow
                /\ Write(c, mine, IF settled = "asked" THEN {c} ELSE Joined(c), FALSE)
    BY <1>9 DEF ReclaimClaim
  <2> DEFINE mine == Entered(c, asked, reading)
             settled == Settled(c, row, reading, asked)
  <2>2. /\ mine # NoRow /\ row' = mine
        /\ Write(c, mine, IF row # NoRow /\ settled = "asked" THEN {c} ELSE Joined(c), FALSE)
    BY <2>1 DEF Write
  <2>3. \/ mine = Claim(c, clock) /\ (HoldsAnyone(row, clock) => settled \in {"dead", "asked"})
        \/ mine = Renewal(c, row, clock) /\ settled = "refresh" /\ row # NoRow
    <3>1. settled \in {"refresh", "dead", "asked", "refused"}
      BY DEF Settled
    <3>2. row = NoRow => mine = Claim(c, clock) /\ ~HoldsAnyone(row, clock)
      BY DEF Entered, HoldsAnyone, Takes
    <3> QED
      BY <2>2, <3>1, <3>2 DEF Entered
  <2>4. settled = "refresh" /\ row # NoRow =>
            IsHeldBy(row, c) /\ (HostOf[c] \notin Blind => Matches(row, c))
    BY <2>1, <1>types, SettledOwn
  <2>5. HostOf[c] \notin Blind => Names(mine, c)
    BY <2>2, <2>3, <2>4, <1>types, ClaimNames, RenewalNames
  <2>6. (Quick /\ RowDated /\ LostFresh /\ HeldFresh /\ RefreshOwn)'
    <3>1. \E s, t : row' = Hold(c, s, t) /\ t = clock
      BY <2>2, <2>3 DEF Claim, Renewal
    <3> QED
      BY <2>0, <3>1, <1>types, ReturnKeeps
  <2>7. OneWriter'
    <3>1. CASE row # NoRow /\ settled = "asked"
      BY <2>2, <2>5, <3>1, GrantMoves
    <3>2. CASE ~(row # NoRow /\ settled = "asked")
      <4>1. ASSUME NEW d \in standing \ {c}, Names(row, d), HoldsAnyone(row, clock)
            PROVE  Names(mine, d)
        <5>1. row # NoRow /\ SessionOf[d] # NoSession /\ row.session # NoSession
          BY <4>1, <1>types DEF Names
        <5>2. CASE mine = Renewal(c, row, clock) /\ settled = "refresh"
          BY <2>2, <2>4, <4>1, <5>1, <5>2 DEF Names, IsHeldBy, Renewal, Hold
        <5>3. CASE settled = "dead"
          <6>1. Lineage(c, row, reading) = "gone"
            BY <5>3 DEF Settled
          <6>2. reading = "none" /\ ~WasTakenFrom(row, SessionOf[c]) /\ SessionOf[c] # NoSession
            BY <6>1 DEF Lineage
          <6>3. reading \in Readings(c, row.session)
            BY <2>1, <5>1, <6>2 DEF ReadingOf
          <6>4. row.session \notin live
            BY <6>2, <6>3 DEF Readings
          <6> QED
            BY <4>1, <6>4, <1>0, <1>types, DeadNamesNobody
        <5> QED
          BY <2>3, <3>2, <4>1, <5>1, <5>2, <5>3
      <4>2. Write(c, mine, Joined(c), FALSE) /\ OneWriter
        BY <2>2, <3>2 DEF WriterInv
      <4> HIDE DEF mine
      <4> QED
        BY <2>5, <4>1, <4>2, <1>types, GrantKeeps
    <3> QED
      BY <3>1, <3>2
  <2> QED
    BY <1>0, <2>6, <2>7 DEF WriterInv
<1>10. ASSUME NEW c \in Commands, ReclaimStops(c) \/ ReclaimCommits(c) PROVE WriterInv'
  <2>1. /\ pc'[c] \notin Entering /\ Others(c) /\ clock' = clock
        /\ \/ UNCHANGED <<row, standing, overtaken>>
           \/ row' = NoRow /\ standing' = {}
    BY <1>10, <1>types DEF ReclaimStops, ReclaimCommits, Write, GoTo, Others, Entering
  <2>2. OneWriter'
    BY <2>1 DEF WriterInv, OneWriter
  <2> QED
    BY <1>0, <2>1, <2>2, ReturnKeeps DEF WriterInv
<1>11. ASSUME NEW s \in Sessions, SessionEnds(s) PROVE WriterInv'
  <2>1. /\ UNCHANGED <<row, clock>>
        /\ standing' \ overtaken' \subseteq standing \ overtaken
        /\ \A d \in Commands :
               \/ pc'[d] = "idle"
               \/ pc'[d] = pc[d] /\ held'[d] = held[d] /\ now'[d] = now[d]
    BY <1>11 DEF SessionEnds
  <2>2. (Quick /\ RowDated)'
    BY <2>1 DEF WriterInv, Quick, RowDated, Entering
  <2>3. (LostFresh /\ HeldFresh /\ RefreshOwn)'
    BY <2>1 DEF WriterInv, LostFresh, HeldFresh, RefreshOwn
  <2>4. OneWriter'
    BY <2>1 DEF WriterInv, OneWriter
  <2> QED
    BY <1>0, <2>2, <2>3, <2>4 DEF WriterInv
<1>12. CASE Tick
  <2>1. UNCHANGED <<row, pc, held, now, standing, overtaken>> /\ clock' = clock + 1
    BY <1>12 DEF Tick
  <2>2. Quick'
    BY <1>12, <2>1, <1>types DEF Tick, WriterInv, Quick
  <2>3. RowDated'
    BY <2>1, <1>types DEF WriterInv, RowDated, Rows
  <2>4. (LostFresh /\ HeldFresh /\ RefreshOwn /\ OneWriter)'
    BY <2>1 DEF WriterInv, LostFresh, HeldFresh, RefreshOwn, OneWriter
  <2> QED
    BY <1>0, <2>2, <2>3, <2>4 DEF WriterInv
<1>13. CASE UNCHANGED vars
  BY <1>0, <1>13
     DEF vars, WriterInv, Quick, RowDated, LostFresh, HeldFresh, RefreshOwn, OneWriter
<1> QED
  BY <1>1, <1>2, <1>3, <1>4, <1>5, <1>6, <1>7, <1>8, <1>9, <1>10, <1>11, <1>12, <1>13
     DEF Next, Step, Progress

(* One writer per home, for any number of commands and machines and any idle *)
(* window, where every process states its session: two lineages of hosts with *)
(* a readable process table are never both told they hold the home, but for   *)
(* one overtaken by a proof of death, or by the refresh of a host that cannot *)
(* be read, that was about a row no longer there (settle, take_over,          *)
(* locks::take).                                                              *)
THEOREM OneWriterHolds ==
    ASSUME Stated
    PROVE  Spec => []OneWriter
<1>1. Init => WriterInv
  BY InitTypes
     DEF Init, WriterInv, Quick, RowDated, LostFresh, HeldFresh, RefreshOwn, Alive,
         OnlyTheDeadAreSucceeded, OneWriter, Entering
<1>2. WriterInv /\ [Next]_vars => WriterInv'
  BY StepWriter
<1>3. WriterInv => OneWriter
  BY DEF WriterInv
<1> QED
  BY <1>1, <1>2, <1>3, PTL DEF Spec
=============================================================================
