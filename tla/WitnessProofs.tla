--------------------------- MODULE WitnessProofs ---------------------------
(* Proofs about Witness, for any commits, branches, set-ups and bounds.     *)
EXTENDS Witness, TLAPS

(***************************************************************************)
(* Type correctness.                                                       *)
(***************************************************************************)

(* The history of commits is commits, and holds them. *)
LEMMA ReachTypes ==
    ASSUME NEW tips, tips \subseteq Commits
    PROVE  Reach(tips) \subseteq Commits /\ tips \subseteq Reach(tips)
BY WitnessAssumption DEF Reach

(* History is closed: what is reached from what is reached is reached. *)
LEMMA ReachCloses ==
    ASSUME NEW tips, tips \subseteq Commits, NEW more, more \subseteq Reach(tips)
    PROVE  Reach(more) \subseteq Reach(tips)
BY WitnessAssumption DEF Reach

(* The tips of a set of refs are commits. *)
LEMMA TipsTypes ==
    ASSUME NEW refs, refs \in Refs
    PROVE  TipsOf(refs) \subseteq Commits
BY DEF TipsOf, Refs

(* A set-up is a record over its three fields. *)
LEMMA SetupTypes ==
    ASSUME setup \in Setups
    PROVE  /\ setup.relation \in Relations
           /\ setup.checkout \in CheckoutTraits /\ setup["checkout"] = setup.checkout
           /\ setup.clone \in CloneTraits /\ setup["clone"] = setup.clone
BY WitnessAssumption

(* A store that is given commits has commits, and content of no others. *)
LEMMA ReceiveTypes ==
    ASSUME TypeOK, NEW s \in Stores, NEW trait, NEW tips, tips \subseteq Commits, Given(s, trait, tips)
    PROVE  /\ objs' \in [Stores -> SUBSET Commits] /\ whole' \in [Stores -> SUBSET Commits]
           /\ \A t \in Stores : whole'[t] \subseteq objs'[t]
<1>1. Commit(trait, tips) \subseteq Commits
  BY ReachTypes DEF Commit
<1>2. Content(trait, tips) \subseteq Commit(trait, tips)
  BY DEF Content
<1> QED
  BY <1>1, <1>2 DEF Given, TypeOK

(* The refs of a store name commits. *)
LEMMA RefTypes ==
    ASSUME TypeOK, NEW s \in Stores
    PROVE  OwnRefs(s) \subseteq Commits /\ AllRefs(s) \subseteq Commits /\ OwnRefs(s) \subseteq AllRefs(s)
BY TipsTypes DEF OwnRefs, AllRefs, TypeOK

(* The initial states have the types declared for them. *)
LEMMA InitTypes == Init => TypeOK
<1> SUFFICES ASSUME Init PROVE TypeOK
  OBVIOUS
<1>1. NoRefs \in Refs /\ [NoRefs EXCEPT ![Main] = Root] \in Refs
  BY WitnessAssumption DEF NoRefs, Refs
<1>2. objs \in [Stores -> SUBSET Commits]
  BY WitnessAssumption DEF Init
<1>3. wrote \in [Branches -> Nat \cup {Undated}]
  BY DEF Init
<1> QED
  BY <1>1, <1>2, <1>3, WitnessAssumption DEF Init, TypeOK

(* The reading of a checkout is a reading (Checkout::read). *)
LEMMA ReadTypes ==
    ASSUME TypeOK, ReadCheckout
    PROVE  rd' \in Readings
<1>1. /\ OwnRefs("checkout") \subseteq Commits /\ AllRefs("checkout") \subseteq Commits
      /\ Stored \subseteq Commits /\ Kept("checkout") \subseteq Commits
      /\ Durable("checkout") \subseteq Commits
  BY RefTypes DEF Stored, Kept, Durable, Stores, TypeOK
<1> QED
  BY <1>1 DEF ReadCheckout, Readings

(* Every command of a person, and both halves of a reading, keep the types. *)
LEMMA StepTypes == TypeOK /\ [Next]_vars => TypeOK'
<1> SUFFICES ASSUME TypeOK, [Next]_vars PROVE TypeOK'
  OBVIOUS
<1> USE WitnessAssumption DEF homeVars, checkoutVars, stores
<1>0. Meanwhile => race' \in Nat
  BY DEF Meanwhile, TypeOK
<1>1. ASSUME NEW c \in Commits, MakeCommit(c) PROVE TypeOK'
  BY <1>0, <1>1 DEF MakeCommit, TypeOK
<1>2. ASSUME NEW b \in Branches, NEW c \in Commits, Push(b, c) PROVE TypeOK'
  <2>1. /\ sent' \in Refs /\ wrote' \in [Branches -> Nat \cup {Undated}]
        /\ since' \in SUBSET Branches /\ heads' \in Refs /\ server' \in Refs
    <3>1. sent' \in Refs /\ heads' \in Refs /\ server' \in Refs
      BY <1>2 DEF Push, TypeOK, Refs
    <3>2. wrote' \in [Branches -> Nat \cup {Undated}] /\ since' \in SUBSET Branches
      BY <1>2 DEF Push, TypeOK
    <3> QED
      BY <3>1, <3>2
  <2>2. /\ objs' \in [Stores -> SUBSET Commits] /\ whole' \in [Stores -> SUBSET Commits]
        /\ \A t \in Stores : whole'[t] \subseteq objs'[t]
    <3>1. CASE setup.relation = "is"
      BY <1>2, <3>1, ReceiveTypes DEF Push, ReceivePush, Stores
    <3>2. CASE setup.relation # "is"
      BY <1>2, <3>2 DEF Push, TypeOK
    <3> QED BY <3>1, <3>2
  <2> QED
    BY <1>0, <1>2, <2>1, <2>2 DEF Push, TypeOK
<1>3. ASSUME NEW b \in Branches, NEW c \in Commits \cup {NoCommit}, ServerMove(b, c) PROVE TypeOK'
  BY <1>0, <1>3 DEF ServerMove, TypeOK, Refs
<1>4. ASSUME NEW prune \in BOOLEAN, FetchAll(prune) PROVE TypeOK'
  <2> DEFINE seen == [b \in Branches |-> IF b \in Refspec THEN server[b] ELSE NoCommit]
  <2>1. seen \in Refs /\ Refspec \subseteq Branches
    BY DEF TypeOK, Refs, Refspec
  <2>2. track' \in Refs
    BY <1>4, <2>1 DEF FetchAll, TypeOK, Refs
  <2>3. fetched' \in [at : Nat, seen : Refs]
    BY <1>4, <2>1 DEF FetchAll, TypeOK
  <2>4. /\ objs' \in [Stores -> SUBSET Commits] /\ whole' \in [Stores -> SUBSET Commits]
        /\ \A t \in Stores : whole'[t] \subseteq objs'[t]
    BY <1>4, <2>1, TipsTypes, ReceiveTypes DEF FetchAll, Receive, Stores
  <2> QED
    BY <1>0, <1>4, <2>1, <2>2, <2>3, <2>4 DEF FetchAll, Fetches, TypeOK
<1>5. ASSUME NEW b \in Branches, FetchOne(b) PROVE TypeOK'
  <2>1. server[b] \in Commits /\ [NoRefs EXCEPT ![b] = server[b]] \in Refs
    BY <1>5 DEF FetchOne, TypeOK, Refs, NoRefs
  <2>2. track' \in Refs
    BY <1>5, <2>1 DEF FetchOne, TypeOK, Refs
  <2>3. /\ objs' \in [Stores -> SUBSET Commits] /\ whole' \in [Stores -> SUBSET Commits]
        /\ \A t \in Stores : whole'[t] \subseteq objs'[t]
    BY <1>5, <2>1, ReceiveTypes DEF FetchOne, Receive, Stores
  <2> QED
    BY <1>0, <1>5, <2>1, <2>2, <2>3 DEF FetchOne, Fetches, TypeOK
<1>6. ASSUME FetchOther PROVE TypeOK'
  <2>1. NoRefs \in Refs
    BY DEF NoRefs, Refs
  <2> QED
    BY <1>0, <1>6, <2>1 DEF FetchOther, TypeOK
<1>7. ASSUME NEW b \in Branches, Branch(b) PROVE TypeOK'
  BY <1>0, <1>7 DEF Branch, TypeOK, Refs
<1>8. ASSUME NEW c \in Commits, NEW named \in BOOLEAN, Copy(c, named) PROVE TypeOK'
  <2>1. /\ objs' \in [Stores -> SUBSET Commits] /\ whole' \in [Stores -> SUBSET Commits]
        /\ \A t \in Stores : whole'[t] \subseteq objs'[t]
    BY <1>8, ReceiveTypes DEF Copy, Receive, Stores
  <2> QED
    BY <1>0, <1>8, <2>1 DEF Copy, TypeOK
<1>9. ASSUME NEW c \in Commits, DropCopy(c) PROVE TypeOK'
  BY <1>0, <1>9 DEF DropCopy, TypeOK
<1>10. ASSUME NEW s \in Stores, Collect(s) PROVE TypeOK'
  BY <1>0, <1>10 DEF Collect, TypeOK
<1>11. ASSUME NEW s \in Stores, Lose(s) PROVE TypeOK'
  BY <1>0, <1>11 DEF Lose, TypeOK
<1>12. CASE Tick
  BY <1>0, <1>12 DEF Tick, TypeOK
<1>13. CASE ReadCheckout
  BY <1>13, ReadTypes DEF ReadCheckout, TypeOK
<1>14. CASE Judge
  BY <1>14 DEF Judge, TypeOK
<1>15. CASE UNCHANGED vars
  BY <1>15 DEF vars, TypeOK
<1> QED
  BY <1>1, <1>2, <1>3, <1>4, <1>5, <1>6, <1>7, <1>8, <1>9, <1>10, <1>11, <1>12, <1>13, <1>14,
     <1>15 DEF Next

(* Every reachable state of a home, its checkout and the clone beside it is  *)
(* well typed: no store has content it has no commit for, and a reading holds *)
(* commits and never an unborn branch (Checkout::read).                      *)
THEOREM WitnessTypesHold == Spec => []TypeOK
BY InitTypes, StepTypes, PTL DEF Spec

(***************************************************************************)
(* A push after the last fetch is not forgotten.                           *)
(***************************************************************************)

(* The clock dates both records: the last fetch is not in the future, and a   *)
(* branch the home pushed since it is dated no earlier.                       *)
DatesAgree ==
    /\ fetched.at <= clock
    /\ \A b \in since : wrote[b] \in Nat /\ fetched.at <= wrote[b]

(* The two records are dated apart by every command (Push, and the fetches). *)
LEMMA StepDates == TypeOK /\ DatesAgree /\ [Next]_vars => DatesAgree'
<1> SUFFICES ASSUME TypeOK, DatesAgree, [Next]_vars PROVE DatesAgree'
  OBVIOUS
<1> USE DEF homeVars, checkoutVars
<1>1. ASSUME NEW b \in Branches, NEW c \in Commits, Push(b, c) PROVE DatesAgree'
  BY <1>1 DEF Push, DatesAgree, TypeOK
<1>2. ASSUME NEW prune \in BOOLEAN, FetchAll(prune) PROVE DatesAgree'
  BY <1>2 DEF FetchAll, DatesAgree, TypeOK
<1>3. ASSUME NEW b \in Branches, FetchOne(b) PROVE DatesAgree'
  BY <1>3 DEF FetchOne, DatesAgree, TypeOK
<1>4. CASE FetchOther
  BY <1>4 DEF FetchOther, DatesAgree, TypeOK
<1>5. CASE Tick
  BY <1>5 DEF Tick, DatesAgree, TypeOK
<1>6. CASE UNCHANGED <<wrote, fetched, clock, since>>
  BY <1>6 DEF DatesAgree
<1> QED
  BY <1>1, <1>2, <1>3, <1>4, <1>5, <1>6
  DEF Next, vars, MakeCommit, ServerMove, Branch, Copy, DropCopy, Collect, Lose, ReadCheckout, Judge

(* A branch the home pushed after the checkout's last fetch is never reported *)
(* as one the remote has not got: for any clock and any order of pushes,      *)
(* fetches and readings (strictly_later).                                     *)
THEOREM PushIsNotForgottenHolds == Spec => []PushIsNotForgotten
<1>1. Init => DatesAgree
  BY DEF Init, DatesAgree
<1>2. TypeOK /\ DatesAgree => PushIsNotForgotten
  BY WitnessAssumption DEF TypeOK, DatesAgree, PushIsNotForgotten, ConcludedGone, StrictlyLater
<1> QED
  BY <1>1, <1>2, StepDates, WitnessTypesHold, PTL DEF Spec

(***************************************************************************)
(* A safe home is outside.                                                 *)
(***************************************************************************)

(* A checkout that may be read has the history of every commit in it, and     *)
(* their content too unless it is a partial clone: it is not shallow, so it   *)
(* is given whole histories, and collecting it follows its refs.              *)
CheckoutIsWhole ==
    Readable => /\ setup.checkout = "partial" \/ objs["checkout"] \subseteq whole["checkout"]
                /\ Reach(objs["checkout"]) \subseteq objs["checkout"]

(* A checkout that is no clone of the home's remote has no refs under it. *)
OnlyClonesTrack == setup.relation # "same" => track = NoRefs

(* What was read holds: the histories of the tips that were in the store had *)
(* their content there, those of its own refs under a ref of its own.        *)
ReadingIsWhole ==
    rd # NoReading /\ Readable =>
        /\ setup.checkout = "partial" \/ Reach(rd.held) \subseteq rd.kept
        /\ setup.checkout = "partial" \/ Reach(rd.own \cap rd.held) \subseteq rd.durable
        /\ setup.relation # "same" => rd.tips \subseteq rd.own
        /\ rd.held \subseteq rd.tips

WitnessInv == TypeOK /\ CheckoutIsWhole /\ OnlyClonesTrack /\ ReadingIsWhole

(* Reaching is monotone, and reaches what each part reaches. *)
LEMMA ReachUnion ==
    ASSUME NEW one, NEW two
    PROVE  Reach(one \cup two) = Reach(one) \cup Reach(two)
BY DEF Reach

(* No step changes how the project is set up. *)
LEMMA SetupStays == [Next]_vars => setup' = setup
BY DEF Next, vars, MakeCommit, Push, ServerMove, FetchAll, FetchOne, FetchOther, Branch, Copy, DropCopy,
       Collect, Lose, Tick, ReadCheckout, Judge

(* A store that is given commits stays whole where it was (Given). *)
LEMMA ReceiveWhole ==
    ASSUME TypeOK, CheckoutIsWhole, setup' = setup,
           NEW s \in Stores, NEW tips, tips \subseteq Commits,
           NEW trait, trait = setup[s] \/ (trait = "whole" /\ setup[s] = "partial"),
           Given(s, trait, tips)
    PROVE  CheckoutIsWhole'
<1> SUFFICES ASSUME Readable
             PROVE  /\ setup.checkout = "partial" \/ objs'["checkout"] \subseteq whole'["checkout"]
                    /\ Reach(objs'["checkout"]) \subseteq objs'["checkout"]
  BY DEF CheckoutIsWhole, Readable, Reach
<1>1. CASE s = "clone"
  BY <1>1 DEF Given, CheckoutIsWhole, TypeOK, Stores
<1>2. CASE s = "checkout"
  <2>1. /\ Commit(trait, tips) = Reach(tips)
        /\ setup.checkout = "partial" \/ Content(trait, tips) = Reach(tips)
    BY <1>2, SetupTypes DEF Commit, Content, Readable, CheckoutTraits, TypeOK
  <2>2. /\ objs'["checkout"] = objs["checkout"] \cup Reach(tips)
        /\ setup.checkout = "partial" \/ whole'["checkout"] = whole["checkout"] \cup Reach(tips)
    BY <1>2, <2>1 DEF Given, TypeOK, Stores
  <2>3. Reach(Reach(tips)) \subseteq Reach(tips)
    BY ReachCloses
  <2> QED
    BY <2>2, <2>3, ReachUnion DEF CheckoutIsWhole
<1> QED
  BY <1>1, <1>2 DEF Stores

(* Every command leaves a whole checkout whole. *)
LEMMA StepWhole ==
    ASSUME TypeOK, CheckoutIsWhole, [Next]_vars
    PROVE  CheckoutIsWhole'
<1> USE DEF homeVars, checkoutVars
<1>0. setup' = setup
  BY SetupStays
<1>1. ASSUME NEW b \in Branches, NEW c \in Commits, Push(b, c) PROVE CheckoutIsWhole'
  <2>1. CASE setup.relation = "is"
    BY <1>0, <1>1, <2>1, ReceiveWhole DEF Push, ReceivePush, Stores
  <2>2. CASE setup.relation # "is"
    BY <1>0, <1>1, <2>2 DEF Push, stores, CheckoutIsWhole, Readable
  <2> QED BY <2>1, <2>2
<1>2. ASSUME NEW prune \in BOOLEAN, FetchAll(prune) PROVE CheckoutIsWhole'
  <2> DEFINE seen == [b \in Branches |-> IF b \in Refspec THEN server[b] ELSE NoCommit]
  <2>1. seen \in Refs
    BY DEF TypeOK, Refs
  <2>2. TipsOf(seen) \subseteq Commits
    BY <2>1, TipsTypes
  <2> QED
    BY <1>0, <1>2, <2>2, ReceiveWhole DEF FetchAll, Receive, Stores
<1>3. ASSUME NEW b \in Branches, FetchOne(b) PROVE CheckoutIsWhole'
  <2>1. server[b] \in Commits
    BY <1>3 DEF FetchOne, TypeOK, Refs
  <2> QED
    BY <1>0, <1>3, <2>1, ReceiveWhole DEF FetchOne, Receive, Stores
<1>4. ASSUME NEW c \in Commits, NEW named \in BOOLEAN, Copy(c, named) PROVE CheckoutIsWhole'
  BY <1>0, <1>4, ReceiveWhole DEF Copy, Receive, Stores
<1>5. ASSUME NEW s \in Stores, Collect(s) PROVE CheckoutIsWhole'
  <2> DEFINE tips == AllRefs(s)
  <2>1. tips \subseteq Commits
    BY RefTypes
  <2>2. /\ objs' = [objs EXCEPT ![s] = @ \cap Reach(tips)]
        /\ whole' = [whole EXCEPT ![s] = @ \cap Reach(tips)]
    BY <1>5 DEF Collect
  <2>3. Reach(Reach(tips)) \subseteq Reach(tips)
    BY <2>1, ReachCloses
  <2>4. Reach(objs["checkout"] \cap Reach(tips)) \subseteq Reach(objs["checkout"]) \cap Reach(Reach(tips))
    BY DEF Reach
  <2> HIDE DEF tips
  <2>5. CASE s = "checkout"
    <3>1. /\ objs'["checkout"] = objs["checkout"] \cap Reach(tips)
          /\ whole'["checkout"] = whole["checkout"] \cap Reach(tips)
      BY <2>2, <2>5 DEF TypeOK, Stores
    <3>2. (Reach(objs["checkout"]))' = Reach(objs'["checkout"])
      BY DEF Reach
    <3> QED
      BY <1>0, <2>3, <2>4, <3>1, <3>2 DEF CheckoutIsWhole, Readable
  <2>6. CASE s = "clone"
    BY <1>0, <2>2, <2>6 DEF CheckoutIsWhole, Readable, Reach, TypeOK, Stores
  <2> QED
    BY <2>5, <2>6 DEF Stores
<1>6. ASSUME NEW s \in Stores, Lose(s) PROVE CheckoutIsWhole'
  <2>1. CASE s = "checkout"
    BY <1>0, <1>6, <2>1 DEF Lose, CheckoutIsWhole, Readable, Reach, TypeOK, Stores
  <2>2. CASE s = "clone"
    BY <1>0, <1>6, <2>2 DEF Lose, CheckoutIsWhole, Readable, Reach, TypeOK, Stores
  <2> QED
    BY <2>1, <2>2 DEF Stores
<1>7. CASE UNCHANGED stores
  BY <1>0, <1>7 DEF stores, CheckoutIsWhole, Readable, Reach
<1> QED
  BY <1>1, <1>2, <1>3, <1>4, <1>5, <1>6, <1>7
  DEF Next, vars, MakeCommit, ServerMove, FetchOther, Branch, DropCopy, Tick, ReadCheckout, Judge

(* Only a fetch writes a ref under origin, and only a clone of the remote fetches it. *)
LEMMA StepTracks ==
    ASSUME OnlyClonesTrack, [Next]_vars
    PROVE  OnlyClonesTrack'
<1>1. setup' = setup
  BY SetupStays
<1>2. setup.relation = "same" \/ track' = track
  BY DEF Next, vars, homeVars, checkoutVars, MakeCommit, Push, ServerMove, FetchAll, FetchOne, Fetches,
         FetchOther, Branch, Copy, DropCopy, Collect, Lose, Tick, ReadCheckout, Judge
<1> QED
  BY <1>1, <1>2 DEF OnlyClonesTrack

(* A reading is of a whole checkout, and nothing that happens later changes it. *)
LEMMA StepReading ==
    ASSUME WitnessInv, [Next]_vars
    PROVE  ReadingIsWhole'
<1>1. setup' = setup
  BY SetupStays
<1>2. CASE ReadCheckout
  <2> SUFFICES ASSUME Readable
               PROVE  /\ setup.checkout = "partial" \/ Reach(rd'.held) \subseteq rd'.kept
                      /\ setup.checkout = "partial" \/ Reach(rd'.own \cap rd'.held) \subseteq rd'.durable
                      /\ setup.relation # "same" => rd'.tips \subseteq rd'.own
                      /\ rd'.held \subseteq rd'.tips
    BY <1>1 DEF ReadingIsWhole, Readable, Reach
  <2>1. /\ rd'.own = OwnRefs("checkout") /\ rd'.tips = AllRefs("checkout") /\ rd'.held = Stored
        /\ rd'.kept = Kept("checkout") /\ rd'.durable = Durable("checkout")
    BY <1>2 DEF ReadCheckout
  <2>2. setup.checkout = "partial" \/ Reach(objs["checkout"]) \subseteq whole["checkout"]
    BY DEF WitnessInv, CheckoutIsWhole
  <2>3. setup.checkout = "partial" \/ Reach(Stored) \subseteq Kept("checkout")
    BY <2>2 DEF Stored, Kept, Reach
  <2>4. setup.checkout = "partial" \/ Reach(OwnRefs("checkout") \cap Stored) \subseteq Durable("checkout")
    BY <2>2 DEF Stored, Durable, Reach
  <2>5. TipsOf(NoRefs) = {}
    BY DEF TipsOf, NoRefs
  <2>6. setup.relation # "same" => AllRefs("checkout") = OwnRefs("checkout")
    BY <2>5 DEF WitnessInv, OnlyClonesTrack, AllRefs
  <2> QED
    BY <2>1, <2>3, <2>4, <2>6 DEF Stored
<1>3. CASE Judge
  BY <1>3 DEF Judge, ReadingIsWhole
<1>4. CASE rd' = rd
  BY <1>1, <1>4 DEF WitnessInv, ReadingIsWhole, Readable, Reach
<1> QED
  BY <1>2, <1>3, <1>4
  DEF Next, vars, homeVars, checkoutVars, MakeCommit, Push, ServerMove, FetchAll, FetchOne,
      FetchOther, Branch, Copy, DropCopy, Collect, Lose, Tick

(* The inductive invariant: a readable checkout is whole, and so was every reading of it. *)
LEMMA WitnessInvHolds == Spec => []WitnessInv
<1>1. Init => WitnessInv
  <2> SUFFICES ASSUME Init PROVE WitnessInv
    OBVIOUS
  <2>1. objs["checkout"] = {Root} /\ whole["checkout"] = {Root} /\ Reach({Root}) = {Root}
    BY WitnessAssumption DEF Init, Stores, Reach
  <2> QED
    BY <2>1, InitTypes DEF Init, WitnessInv, CheckoutIsWhole, OnlyClonesTrack, ReadingIsWhole
<1>2. WitnessInv /\ [Next]_vars => WitnessInv'
  BY StepTypes, StepWhole, StepTracks, StepReading DEF WitnessInv
<1> QED
  BY <1>1, <1>2, PTL DEF Spec

(* What a removal may rest on was whole in the checkout, at the reading or now, *)
(* or is in a partial clone (elsewhere).                                        *)
LEMMA ElsewhereIsKept ==
    ASSUME WitnessInv, rd # NoReading
    PROVE  Reach(Elsewhere) \subseteq
               rd.kept \cup Kept("checkout") \cup PartialHas(rd.tips, AllRefs("checkout"))
<1> SUFFICES ASSUME Readable, NEW t \in Elsewhere
             PROVE  Past[t] \subseteq
                        rd.kept \cup Kept("checkout") \cup PartialHas(rd.tips, AllRefs("checkout"))
  BY DEF Elsewhere, Reach
<1>1. t \in Holdings(Believed)
  BY DEF Elsewhere
<1>2. CASE t \in rd.held
  <2>1. CASE setup.checkout = "partial"
    BY <1>2, <2>1 DEF WitnessInv, ReadingIsWhole, PartialHas, Reach
  <2>2. CASE setup.checkout # "partial"
    BY <1>2, <2>2 DEF WitnessInv, ReadingIsWhole, Reach
  <2> QED
    BY <2>1, <2>2
<1>3. CASE t \in objs["checkout"] \cap Reach(AllRefs("checkout"))
  <2>1. /\ Past[t] \subseteq objs["checkout"]
        /\ setup.checkout = "partial" \/ Past[t] \subseteq whole["checkout"]
    BY <1>3 DEF WitnessInv, CheckoutIsWhole, Reach
  <2>2. Past[t] \subseteq Reach(AllRefs("checkout"))
    BY <1>3, RefTypes, WitnessAssumption DEF WitnessInv, Reach, Stores
  <2> QED
    BY <2>1, <2>2 DEF Kept, PartialHas
<1> QED
  BY <1>1, <1>2, <1>3 DEF Holdings

(* Where judge says safe, the tips of a second reading and the vouching stores between *)
(* them reach the whole of the home's history (history, joint).                        *)
LEMMA SafeIsCovered ==
    ASSUME NEW set \in SUBSET {"clone"}, Safe(set)
    PROVE  /\ Reach(work) \subseteq Reach(Elsewhere) \cup Durable("checkout") \cup Durable("clone")
           /\ set # {} => Reach(work) \subseteq Reach(Elsewhere) \cup Durable("checkout")
<1> DEFINE inCheckout == SecondCopy("checkout", Unproved)
           inClone == SecondCopy("clone", Unproved \ inCheckout)
           left == Unproved \ (inCheckout \cup inClone)
           doubted == Doubted("checkout", Unproved) \cup Doubted("clone", Unproved \ inCheckout)
<1>1. /\ History.inClone = inClone
      /\ History.notChecked = IF Open THEN left ELSE left \cap doubted
      /\ History.onlyHere = IF Open THEN {} ELSE left \ doubted
  BY DEF History
<1>2. /\ History.onlyHere = {} /\ History.notChecked = {}
      /\ "clone" \in set => History.inClone = {}
  BY DEF Safe, Verdict
<1>3. left = {}
  BY <1>1, <1>2
<1>4. \A s \in Stores : \A some : SecondCopy(s, some) \subseteq Durable(s)
  BY DEF SecondCopy, Vouches, Lacks, Reached, Durable
<1>5. inCheckout \subseteq Durable("checkout") /\ inClone \subseteq Durable("clone")
  BY <1>4 DEF Stores
<1>6. Reach(work) \subseteq Reach(Elsewhere) \cup Unproved
  BY DEF Unproved, Reach
<1> QED
  BY <1>1, <1>2, <1>3, <1>5, <1>6

(* What a store keeps under a ref of its own it keeps under a ref. *)
LEMMA DurableIsKept ==
    ASSUME NEW s \in Stores
    PROVE  Durable(s) \subseteq Kept(s)
BY DEF Durable, Kept, OwnRefs, AllRefs, Reach

(* A home is let go only over the work itself, but for the commits a partial *)
(* checkout has: for any commits, branches and set-ups, and whatever people  *)
(* do to the checkout, the clone and the server between the two halves of a  *)
(* reading (judge, history, elsewhere).                                      *)
THEOREM SafeIsOutsideHolds == Spec => []SafeIsOutside
<1>1. WitnessInv => SafeIsOutside
  <2> SUFFICES ASSUME WitnessInv, NEW set \in SUBSET {"clone"}, Safe(set)
               PROVE  Reach(work) \subseteq rd.kept \cup Kept("checkout") \cup
                                           (IF set = {} THEN Kept("clone") ELSE {}) \cup
                                           PartialHas(rd.tips, AllRefs("checkout"))
    BY DEF SafeIsOutside
  <2>1. Reach(Elsewhere) \subseteq
            rd.kept \cup Kept("checkout") \cup PartialHas(rd.tips, AllRefs("checkout"))
    BY ElsewhereIsKept DEF Safe
  <2>2. Durable("checkout") \subseteq Kept("checkout") /\ Durable("clone") \subseteq Kept("clone")
    BY DurableIsKept DEF Stores
  <2> QED
    BY <2>1, <2>2, SafeIsCovered
<1> QED
  BY <1>1, WitnessInvHolds, PTL

(* What rests on the remote was seen there by the last fetch, on a branch the home names *)
(* (observed, believed).                                                                 *)
LEMMA ElsewhereIsSeen ==
    ASSUME WitnessInv, rd # NoReading, NEW t \in Elsewhere, NEW c \in Past[t]
    PROVE  \/ c \in rd.durable \cup Durable("checkout") \cup PartialHas(rd.own, OwnRefs("checkout"))
           \/ \E b \in Named : /\ fetched.seen[b] # NoCommit
                               /\ c \in Past[fetched.seen[b]]
                               /\ wrote[b] = Undated \/ wrote[b] <= fetched.at
<1>1. Readable /\ t \in rd.own \cup Believed /\ t \in Holdings(Believed)
  BY DEF Elsewhere
<1>2. CASE t \in rd.own /\ t \in rd.held
  <2>1. CASE setup.checkout = "partial"
    BY <1>2, <2>1 DEF PartialHas, Reach
  <2>2. CASE setup.checkout # "partial"
    BY <1>1, <1>2, <2>2 DEF WitnessInv, ReadingIsWhole, Reach
  <2> QED
    BY <2>1, <2>2
<1>3. CASE t \in Believed
  <2>1. Witnesses
    BY <1>3 DEF Believed
  <2>2. CASE setup.relation = "is"
    <3>1. \A b \in Branches : heads[b] # NoCommit =>
              /\ heads[b] \in Commits
              /\ heads[b] \in objs["checkout"] =>
                    Past[heads[b]] \subseteq
                        Durable("checkout") \cup PartialHas(rd.own, OwnRefs("checkout"))
      BY <1>1 DEF WitnessInv, TypeOK, Refs, CheckoutIsWhole, Durable, PartialHas, OwnRefs, TipsOf, Reach
    <3>2. CASE t \in {WitnessRef(b) : b \in Named} \ {NoCommit}
      <4>1. PICK b \in Branches : t = heads[b] /\ heads[b] # NoCommit
        BY <2>2, <3>2 DEF WitnessRef, Named
      <4>2. CASE t \in objs["checkout"]
        BY <3>1, <4>1, <4>2
      <4>3. CASE t \notin objs["checkout"]
        BY <1>1, <1>2, <2>2, <4>3 DEF Holdings, WitnessInv, ReadingIsWhole
      <4> QED BY <4>2, <4>3
    <3>3. CASE t \in Confirmed
      <4>1. PICK b \in Branches : /\ heads[b] # NoCommit /\ heads[b] \in objs["checkout"]
                                  /\ t \in Past[heads[b]]
        BY <2>2, <3>3 DEF Confirmed, Theirs, WitnessRef, Reach
      <4>2. Past[t] \subseteq Past[heads[b]]
        BY <3>1, <4>1, WitnessAssumption
      <4> QED BY <3>1, <4>1, <4>2
    <3> QED BY <1>3, <2>1, <3>2, <3>3 DEF Believed
  <2>3. CASE setup.relation # "is"
    <3>1. \A b \in Branches : WitnessRef(b) # NoCommit =>
              /\ b \in Named /\ WitnessRef(b) = fetched.seen[b] /\ fetched.seen[b] \in Commits
              /\ wrote[b] = Undated \/ wrote[b] <= fetched.at
      BY <2>3 DEF WitnessRef, Observed, NotOlder, WitnessInv, TypeOK, Refs
    <3>2. PICK b \in Branches : WitnessRef(b) # NoCommit /\ t \in Past[WitnessRef(b)]
      <4>1. CASE t \in {WitnessRef(b) : b \in Named} \ {NoCommit}
        BY <3>1, <4>1, WitnessAssumption DEF Named
      <4>2. CASE t \in Confirmed
        BY <4>2 DEF Confirmed, Theirs, Reach
      <4> QED BY <1>3, <2>1, <4>1, <4>2 DEF Believed
    <3>3. c \in Past[WitnessRef(b)]
      BY <3>1, <3>2, WitnessAssumption
    <3> QED BY <3>1, <3>2, <3>3
  <2> QED BY <2>2, <2>3
<1>4. CASE t \in rd.own /\ t \notin rd.held /\ t \notin Believed
  BY <1>1, <1>4 DEF Holdings
<1> QED
  BY <1>1, <1>2, <1>3, <1>4

(* What no ref outside the home keeps of its own accord rests on a reading of the remote *)
(* that is not older than the work, and never on a ref under origin that a fetch left     *)
(* standing, for any commits, branches and set-ups; a partial checkout's own refs keep    *)
(* commits (observed, believed).                                                          *)
THEOREM RestsOnACurrentReadingHolds == Spec => []RestsOnACurrentReading
<1>1. WitnessInv => RestsOnACurrentReading
  <2> SUFFICES ASSUME WitnessInv, Safe({}),
                      NEW c \in Reach(work) \ (rd.durable \cup Durable("checkout") \cup
                                              Durable("clone") \cup
                                              PartialHas(rd.own, OwnRefs("checkout")))
               PROVE  \E b \in Named : /\ fetched.seen[b] # NoCommit
                                       /\ c \in Past[fetched.seen[b]]
                                       /\ wrote[b] = Undated \/ wrote[b] <= fetched.at
    BY DEF RestsOnACurrentReading
  <2>1. c \in Reach(Elsewhere)
    BY SafeIsCovered
  <2>2. PICK t \in Elsewhere : c \in Past[t]
    BY <2>1 DEF Reach
  <2> QED
    BY <2>2, ElsewhereIsSeen DEF Safe
<1> QED
  BY <1>1, WitnessInvHolds, PTL

(***************************************************************************)
(* A home is not kept for nothing.                                         *)
(***************************************************************************)

(* The remote was given its commits by the home, and the last fetch by the remote. *)
WorkIsAll ==
    /\ Root \in work
    /\ TipsOf(server) \subseteq Reach(work) /\ TipsOf(fetched.seen) \subseteq Reach(work)

(* A store that lost nothing holds what its refs name, and in a clone of the remote *)
(* that fetches every branch a ref under origin is where the last fetch saw it.     *)
RefsAreHeld == damage = 0 => AllRefs("checkout") \subseteq objs["checkout"]
TracksAreSeen ==
    setup.relation = "same" /\ setup.checkout = "whole" =>
        \A b \in Branches : fetched.seen[b] # NoCommit => track[b] = fetched.seen[b]

(* A reading that nothing has overtaken is the checkout as it is. *)
ReadingIsNow ==
    rd # NoReading /\ race = 0 => rd.tips = AllRefs("checkout") /\ rd.held = Stored

FetchInv == TypeOK /\ WorkIsAll /\ RefsAreHeld /\ TracksAreSeen /\ ReadingIsNow

(* The refs that a move of one leaves name what they named, and what it was moved to. *)
LEMMA TipsAfter ==
    ASSUME NEW refs \in Refs, NEW b \in Branches, NEW c
    PROVE  TipsOf([refs EXCEPT ![b] = c]) \subseteq TipsOf(refs) \cup ({c} \ {NoCommit})
BY DEF TipsOf, Refs

(* What a store is given is in it (Given). *)
LEMMA ReceivesThem ==
    ASSUME TypeOK, NEW s \in Stores, NEW trait, NEW tips, tips \subseteq Commits, Given(s, trait, tips)
    PROVE  /\ tips \subseteq objs'[s]
           /\ \A t \in Stores : objs[t] \subseteq objs'[t]
<1>1. tips \subseteq Commit(trait, tips)
  BY ReachTypes DEF Commit
<1> QED
  BY <1>1 DEF Given, TypeOK, Stores

(* No command but a fetch takes from the remote, and none gives it what the home has not. *)
LEMMA StepWork ==
    ASSUME TypeOK, WorkIsAll, [Next]_vars PROVE WorkIsAll'
<1> USE DEF homeVars, checkoutVars
<1>0. server \in Refs /\ work \subseteq Commits
  BY DEF TypeOK
<1>1. ASSUME NEW c \in Commits, MakeCommit(c) PROVE WorkIsAll'
  <2>1. Reach(work) \subseteq Reach(work')
    BY <1>1 DEF MakeCommit, Reach
  <2>2. Reach(work)' = Reach(work') /\ TipsOf(server)' = TipsOf(server)
        /\ TipsOf(fetched.seen)' = TipsOf(fetched.seen) /\ work \subseteq work'
    BY <1>1 DEF MakeCommit, Reach, TipsOf
  <2> QED
    BY <2>1, <2>2 DEF WorkIsAll
<1>2. ASSUME NEW b \in Branches, NEW c \in Commits, Push(b, c) PROVE WorkIsAll'
  <2>1. work' = work /\ fetched' = fetched /\ c \in Reach(work)
    BY <1>2 DEF Push
  <2>2. server' = server \/ server' = [server EXCEPT ![b] = c]
    BY <1>2 DEF Push
  <2>3. TipsOf(server') \subseteq TipsOf(server) \cup {c}
    BY <1>0, <2>2, TipsAfter
  <2>4. TipsOf(server)' = TipsOf(server') /\ TipsOf(fetched.seen)' = TipsOf(fetched.seen)
        /\ Reach(work)' = Reach(work)
    BY <2>1 DEF TipsOf, Reach
  <2> QED
    BY <2>1, <2>3, <2>4 DEF WorkIsAll
<1>3. ASSUME NEW b \in Branches, NEW c \in Commits \cup {NoCommit}, ServerMove(b, c) PROVE WorkIsAll'
  <2>1. work' = work /\ fetched' = fetched /\ server' = [server EXCEPT ![b] = c]
    BY <1>3 DEF ServerMove
  <2>2. c # NoCommit => c \in Reach(work)
    <3>1. Reach(TipsOf(server)) \subseteq Reach(work)
      BY <1>0, ReachCloses DEF WorkIsAll
    <3> QED
      BY <1>3, <3>1 DEF ServerMove
  <2>3. TipsOf(server') \subseteq TipsOf(server) \cup ({c} \ {NoCommit})
    BY <1>0, <2>1, TipsAfter
  <2>4. TipsOf(server)' = TipsOf(server') /\ TipsOf(fetched.seen)' = TipsOf(fetched.seen)
        /\ Reach(work)' = Reach(work)
    BY <2>1 DEF TipsOf, Reach
  <2> QED
    BY <2>1, <2>2, <2>3, <2>4 DEF WorkIsAll
<1>4. ASSUME work' = work, server' = server,
             \A b \in Branches : fetched'.seen[b] \in {NoCommit, server[b]}
      PROVE  WorkIsAll'
  <2>1. TipsOf(fetched'.seen) \subseteq TipsOf(server)
    BY <1>4 DEF TipsOf
  <2>2. TipsOf(server)' = TipsOf(server) /\ TipsOf(fetched.seen)' = TipsOf(fetched'.seen)
        /\ Reach(work)' = Reach(work)
    BY <1>4 DEF TipsOf, Reach
  <2> QED
    BY <1>4, <2>1, <2>2 DEF WorkIsAll
<1>5. ASSUME NEW prune \in BOOLEAN, FetchAll(prune) PROVE WorkIsAll'
  BY <1>4, <1>5 DEF FetchAll
<1>6. ASSUME NEW b \in Branches, FetchOne(b) PROVE WorkIsAll'
  BY <1>4, <1>6 DEF FetchOne, NoRefs
<1>7. CASE FetchOther
  BY <1>4, <1>7 DEF FetchOther, NoRefs
<1>8. CASE UNCHANGED <<work, server, fetched>>
  <2>1. TipsOf(server)' = TipsOf(server) /\ TipsOf(fetched.seen)' = TipsOf(fetched.seen)
        /\ Reach(work)' = Reach(work)
    BY <1>8 DEF TipsOf, Reach
  <2> QED
    BY <1>8, <2>1 DEF WorkIsAll
<1> QED
  BY <1>1, <1>2, <1>3, <1>5, <1>6, <1>7, <1>8
  DEF Next, vars, Branch, Copy, DropCopy, Collect, Lose, Tick, ReadCheckout, Judge

(* A ref of the checkout is never where its store has nothing, but by a loss. *)
LEMMA StepHeld ==
    ASSUME TypeOK, RefsAreHeld, [Next]_vars PROVE RefsAreHeld'
<1> USE DEF homeVars, checkoutVars
<1>0. heads \in Refs /\ track \in Refs /\ damage \in Nat
  BY DEF TypeOK
<1>00. AllRefs("checkout") = TipsOf(heads) \cup TipsOf(track)
       /\ AllRefs("checkout")' = TipsOf(heads') \cup TipsOf(track')
  BY DEF AllRefs, OwnRefs, TipsOf
<1>1. ASSUME NEW b \in Branches, NEW c \in Commits, Push(b, c) PROVE RefsAreHeld'
  <2>1. CASE setup.relation = "is"
    <3>1. heads' = [heads EXCEPT ![b] = c] /\ track' = track /\ damage' = damage
      BY <1>1, <2>1 DEF Push
    <3>2. TipsOf(heads') \subseteq TipsOf(heads) \cup {c}
      BY <1>0, <3>1, TipsAfter
    <3>3. c \in objs'["checkout"] /\ objs["checkout"] \subseteq objs'["checkout"]
      BY <1>1, <2>1, ReceivesThem DEF Push, ReceivePush, Stores
    <3> QED
      BY <1>00, <3>1, <3>2, <3>3 DEF RefsAreHeld
  <2>2. CASE setup.relation # "is"
    BY <1>00, <1>1, <2>2 DEF Push, RefsAreHeld, stores
  <2> QED
    BY <2>1, <2>2
<1>2. ASSUME NEW prune \in BOOLEAN, FetchAll(prune) PROVE RefsAreHeld'
  <2>1. PICK seen : seen = [b \in Branches |-> IF b \in Refspec THEN server[b] ELSE NoCommit]
    OBVIOUS
  <2>2. seen \in Refs
    BY <2>1 DEF TypeOK, Refs
  <2>3. /\ track' = [b \in Branches |->
               IF seen[b] # NoCommit \/ (prune /\ b \in Refspec) THEN seen[b] ELSE track[b]]
        /\ Receive("checkout", TipsOf(seen)) /\ heads' = heads /\ damage' = damage
    BY <1>2, <2>1 DEF FetchAll
  <2>4. TipsOf(track') \subseteq TipsOf(track) \cup TipsOf(seen)
    BY <2>3 DEF TipsOf
  <2>5. TipsOf(seen) \subseteq objs'["checkout"] /\ objs["checkout"] \subseteq objs'["checkout"]
    BY <2>2, <2>3, TipsTypes, ReceivesThem DEF Receive, Stores
  <2> QED
    BY <1>00, <2>3, <2>4, <2>5 DEF RefsAreHeld
<1>3. ASSUME NEW b \in Branches, FetchOne(b) PROVE RefsAreHeld'
  <2>1. track' = track \/ track' = [track EXCEPT ![b] = server[b]]
    BY <1>3 DEF FetchOne
  <2>2. TipsOf(track') \subseteq TipsOf(track) \cup {server[b]}
    BY <1>0, <2>1, TipsAfter
  <2>3. server[b] \in Commits /\ heads' = heads /\ damage' = damage
    BY <1>3 DEF FetchOne, TypeOK, Refs
  <2>4. server[b] \in objs'["checkout"] /\ objs["checkout"] \subseteq objs'["checkout"]
    BY <1>3, <2>3, ReceivesThem DEF FetchOne, Receive, Stores
  <2> QED
    BY <1>00, <2>2, <2>3, <2>4 DEF RefsAreHeld
<1>4. ASSUME NEW b \in Branches, Branch(b) PROVE RefsAreHeld'
  <2>1. heads' = [heads EXCEPT ![b] = track[b]] /\ track' = track /\ damage' = damage /\ objs' = objs
    BY <1>4 DEF Branch, stores
  <2>2. TipsOf(heads') \subseteq TipsOf(heads) \cup ({track[b]} \ {NoCommit})
    BY <1>0, <2>1, TipsAfter
  <2>3. {track[b]} \ {NoCommit} \subseteq TipsOf(track)
    BY DEF TipsOf
  <2> QED
    BY <1>00, <2>1, <2>2, <2>3 DEF RefsAreHeld
<1>5. ASSUME NEW c \in Commits, NEW named \in BOOLEAN, Copy(c, named) PROVE RefsAreHeld'
  <2>1. objs["checkout"] \subseteq objs'["checkout"]
    BY <1>5, ReceivesThem DEF Copy, Receive, Stores
  <2> QED
    BY <1>00, <1>5, <2>1 DEF Copy, RefsAreHeld
<1>6. ASSUME NEW s \in Stores, Collect(s) PROVE RefsAreHeld'
  <2>1. AllRefs("checkout") \subseteq Reach(AllRefs("checkout"))
    BY RefTypes, ReachTypes DEF Stores
  <2>2. objs'["checkout"] = objs["checkout"]
        \/ objs'["checkout"] = objs["checkout"] \cap Reach(AllRefs("checkout"))
    BY <1>6 DEF Collect, TypeOK, Stores
  <2>3. heads' = heads /\ track' = track /\ damage' = damage
    BY <1>6 DEF Collect
  <2> QED
    BY <1>00, <2>1, <2>2, <2>3 DEF RefsAreHeld
<1>7. ASSUME NEW s \in Stores, Lose(s) PROVE RefsAreHeld'
  BY <1>0, <1>7 DEF Lose, RefsAreHeld
<1>8. CASE UNCHANGED <<heads, track, objs, damage>>
  BY <1>00, <1>8 DEF RefsAreHeld
<1> QED
  BY <1>1, <1>2, <1>3, <1>4, <1>5, <1>6, <1>7, <1>8
  DEF Next, vars, stores, MakeCommit, ServerMove, FetchOther, DropCopy, Tick, ReadCheckout, Judge

(* Only a fetch writes a ref under origin, and it writes what it records (FetchAll, FetchOne). *)
LEMMA StepSeen ==
    ASSUME TypeOK, TracksAreSeen, [Next]_vars PROVE TracksAreSeen'
<1> USE DEF homeVars, checkoutVars
<1>1. setup' = setup
  BY SetupStays
<1>2. ASSUME NEW prune \in BOOLEAN, FetchAll(prune) PROVE TracksAreSeen'
  BY <1>1, <1>2 DEF FetchAll, TracksAreSeen
<1>3. ASSUME NEW b \in Branches, FetchOne(b) PROVE TracksAreSeen'
  BY <1>1, <1>3 DEF FetchOne, TracksAreSeen, NoRefs, Refspec, TypeOK, Refs
<1>4. CASE FetchOther
  BY <1>1, <1>4 DEF FetchOther, TracksAreSeen, NoRefs
<1>5. CASE UNCHANGED <<track, fetched>>
  BY <1>1, <1>5 DEF TracksAreSeen
<1> QED
  BY <1>2, <1>3, <1>4, <1>5
  DEF Next, vars, MakeCommit, Push, ServerMove, Branch, Copy, DropCopy, Collect, Lose, Tick,
      ReadCheckout, Judge

(* Whatever happens after a reading counts as a race with it. *)
LEMMA StepNow ==
    ASSUME TypeOK, [Next]_vars, ReadingIsNow PROVE ReadingIsNow'
<1>1. ASSUME Meanwhile, rd' = rd PROVE ReadingIsNow'
  BY <1>1 DEF Meanwhile, ReadingIsNow, TypeOK
<1>2. CASE ReadCheckout
  <2>1. rd'.tips = AllRefs("checkout") /\ rd'.held = Stored
    BY <1>2 DEF ReadCheckout
  <2>2. UNCHANGED <<heads, track, objs, beside>>
    BY <1>2 DEF ReadCheckout, checkoutVars, stores
  <2>3. AllRefs("checkout")' = AllRefs("checkout") /\ Stored' = Stored
    BY <2>2 DEF AllRefs, OwnRefs, TipsOf, Stored
  <2> QED
    BY <2>1, <2>3 DEF ReadingIsNow
<1>3. CASE Judge
  BY <1>3 DEF Judge, ReadingIsNow
<1>4. CASE UNCHANGED vars
  <2>1. AllRefs("checkout")' = AllRefs("checkout") /\ Stored' = Stored
    BY <1>4 DEF vars, checkoutVars, stores, AllRefs, OwnRefs, TipsOf, Stored
  <2> QED
    BY <1>4, <2>1 DEF vars, ReadingIsNow
<1> QED
  BY <1>1, <1>2, <1>3, <1>4
  DEF Next, MakeCommit, Push, ServerMove, FetchAll, FetchOne, Fetches, FetchOther, Branch, Copy,
      DropCopy, Collect, Lose, Tick

LEMMA InitFetch == Init => FetchInv
<1> SUFFICES ASSUME Init PROVE FetchInv
  OBVIOUS
<1>1. TypeOK
  BY InitTypes
<1>2. Root \in Reach({Root}) /\ work = {Root}
  BY WitnessAssumption DEF Init, Reach
<1>3. TipsOf([NoRefs EXCEPT ![Main] = Root]) \subseteq {Root} /\ TipsOf(NoRefs) = {}
  BY DEF TipsOf, NoRefs
<1>4. WorkIsAll
  BY <1>2, <1>3 DEF Init, WorkIsAll
<1>5. RefsAreHeld
  BY <1>3 DEF Init, RefsAreHeld, AllRefs, OwnRefs, Stores
<1> QED
  BY <1>1, <1>4, <1>5 DEF Init, FetchInv, TracksAreSeen, ReadingIsNow, NoRefs

(* A home is not kept for nothing: whatever people did before the reading, work that the  *)
(* last fetch saw on branches the home names, no earlier than they were pushed, refuses   *)
(* no removal, for any commits, branches and set-ups (elsewhere, holdings, history).      *)
THEOREM FetchedWorkGoesHolds == Spec => []FetchedWorkGoes
<1>1. FetchInv => FetchedWorkGoes
  <2> SUFFICES ASSUME FetchInv, rd # NoReading, race = 0, damage = 0,
                      setup.relation = "same", setup.checkout = "whole",
                      \A b \in Named : wrote[b] = Undated \/ wrote[b] <= fetched.at,
                      Reach(work) \subseteq Reach({fetched.seen[b] : b \in Named} \ {NoCommit})
               PROVE  History.notChecked \cup History.onlyHere = {}
    BY DEF FetchedWorkGoes
  <2>1. PICK tips : tips = {fetched.seen[b] : b \in Named} \ {NoCommit}
    OBVIOUS
  <2>2. tips \subseteq TipsOf(fetched.seen) /\ tips \subseteq Commits
    BY <2>1, TipsTypes DEF Named, TipsOf, FetchInv, TypeOK
  <2>3. Root \in Reach(work)
    BY WitnessAssumption DEF FetchInv, WorkIsAll, Reach
  <2>4. tips # {}
    BY <2>1, <2>3 DEF Reach
  <2>5. Readable /\ Witnesses
    BY <2>2, <2>4 DEF Readable, Witnesses
  <2>6. \A b \in Named : fetched.seen[b] # NoCommit => WitnessRef(b) = fetched.seen[b]
    BY <2>1 DEF WitnessRef, Observed, NotOlder, FetchInv, TypeOK
  <2>7. tips \subseteq Believed
    BY <2>1, <2>5, <2>6 DEF Believed
  <2>8. tips \subseteq AllRefs("checkout")
    BY <2>1 DEF FetchInv, TracksAreSeen, Named, AllRefs, TipsOf
  <2>9. tips \subseteq Holdings(Believed)
    BY <2>8 DEF Holdings, FetchInv, ReadingIsNow, RefsAreHeld, Stored
  <2>10. tips \subseteq Elsewhere
    BY <2>5, <2>7, <2>9 DEF Elsewhere
  <2>11. tips \subseteq Reach(work)
    BY <2>2 DEF FetchInv, WorkIsAll
  <2>12. Unproved = {}
    BY <2>1, <2>10, <2>11 DEF Unproved, Reach
  <2> QED
    BY <2>12 DEF History
<1>2. FetchInv /\ [Next]_vars => FetchInv'
  BY StepTypes, StepWork, StepHeld, StepSeen, StepNow DEF FetchInv
<1> QED
  BY <1>1, <1>2, InitFetch, PTL DEF Spec
=============================================================================
