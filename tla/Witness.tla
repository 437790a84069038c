------------------------------ MODULE Witness ------------------------------
(***************************************************************************)
(* What one home may be removed on: the reading of the disk a reclaim and  *)
(* a sweep judge it by (lifecycle/witness.rs, lifecycle/assess.rs,         *)
(* lifecycle/complete.rs, lifecycle/kernel.rs, doctor/unique.rs,           *)
(* git/fetched.rs, git/outside.rs).  Removal.tla takes any sound reading   *)
(* for granted; here the reading itself is modelled.                       *)
(*                                                                         *)
(* Nodal asks no server.  It reads the project's checkout once, and later  *)
(* decides from that reading, from the record Git wrote of the checkout's  *)
(* last fetch, from the dates of the home's own pushes and from the        *)
(* repositories beside the checkout, while people push, fetch, prune,      *)
(* delete branches and collect garbage in all of them.                     *)
(*                                                                         *)
(* A commit is a model value with its history; holding a commit and        *)
(* holding the trees and blobs behind it are told apart.  Git and the      *)
(* server are external: each command is one step.                          *)
(***************************************************************************)
EXTENDS Naturals, FiniteSets

CONSTANTS
    Commits,
    Past,        \* each commit's history, itself included
    Root,        \* the commit the home was made from
    Branches,
    Main,        \* the branch the base was cloned on
    NoCommit,    \* a ref that is not there
    Undated,     \* a ref no log dates
    NoReading,   \* a home nobody is judging
    Setups,      \* how the checkout and the clone beside it may be set up
    MaxTime,     \* bound on the clock, in whole seconds
    MaxRace,     \* bound on what happens between the two halves of a reading
    MaxDamage    \* bound on stores that lose their objects

(* How the home's origin stands to the checkout, and what may be wrong with a store. *)
Relations == {"same", "is", "unrelated", "none"}
CheckoutTraits == {"whole", "narrow", "shallow", "partial", "unreadable"}
CloneTraits == {"absent", "whole", "borrows", "worktree", "shallow", "partial", "unreadable"}

ASSUME WitnessAssumption ==
    /\ Past \in [Commits -> SUBSET Commits]
    /\ \A c \in Commits : c \in Past[c] /\ \A d \in Past[c] : Past[d] \subseteq Past[c]
    /\ Root \in Commits /\ Past[Root] = {Root} /\ Main \in Branches
    /\ NoCommit \notin Commits /\ Undated \notin Nat
    /\ Setups \subseteq [relation : Relations, checkout : CheckoutTraits, clone : CloneTraits]
    /\ MaxTime \in Nat /\ MaxRace \in Nat /\ MaxDamage \in Nat

VARIABLES
    setup,
    home,            \* "here" until a verdict lets it go
    work,            \* the tips of the home's own refs
    sent, wrote,     \* its refs under origin, and when each last moved
    server,          \* the branches of the remote
    heads, track,    \* the checkout's own branches, and its refs under origin
    fetched,         \* its FETCH_HEAD: when it was written, and the branches on its lines
    beside,          \* the tips of the clone's own refs
    objs, whole,     \* per store: the commits in it, and those it has the content of
    clock,
    rd,              \* Checkout: the reading of the checkout a judgement holds
    race, damage,
    since            \* the branches the home has pushed since the last fetch

homeVars == <<home, work, sent, wrote>>
checkoutVars == <<heads, track, fetched>>
stores == <<objs, whole>>
vars == <<setup, homeVars, server, checkoutVars, beside, stores, clock, rd, race, damage, since>>

Refs == [Branches -> Commits \cup {NoCommit}]
NoRefs == [b \in Branches |-> NoCommit]
Stores == {"checkout", "clone"}

Reach(tips) == UNION {Past[c] : c \in tips}
TipsOf(refs) == {refs[b] : b \in Branches} \ {NoCommit}

Readings == [own : SUBSET Commits, tips : SUBSET Commits, tracks : SUBSET Branches,
             held : SUBSET Commits, kept : SUBSET Commits, durable : SUBSET Commits]

ASSUME NothingAssumption == NoReading \notin Readings

(* What a store of this trait gets when it is given `tips`: commits, and content. *)
Commit(trait, tips) == IF trait = "shallow" THEN tips ELSE Reach(tips)
Content(trait, tips) ==
    IF trait \in {"partial", "borrows"} THEN {} ELSE Commit(trait, tips)

Given(store, trait, tips) ==
    /\ objs' = [objs EXCEPT ![store] = @ \cup Commit(trait, tips)]
    /\ whole' = [whole EXCEPT ![store] = @ \cup Content(trait, tips)]

(* A fetch leaves out what the store's set-up leaves out; a push to a partial clone sends all. *)
Receive(store, tips) == Given(store, setup[store], tips)
ReceivePush(store, tips) ==
    Given(store, IF setup[store] = "partial" THEN "whole" ELSE setup[store], tips)

-----------------------------------------------------------------------------
Init ==
    /\ setup \in Setups
    /\ home = "here"
    /\ work = {Root}
    /\ sent = IF setup.relation = "none" THEN NoRefs ELSE [NoRefs EXCEPT ![Main] = Root]
    /\ wrote = [b \in Branches |-> Undated]
    /\ server = [NoRefs EXCEPT ![Main] = Root]
    /\ heads = [NoRefs EXCEPT ![Main] = Root]
    /\ track = IF setup.relation = "same" THEN [NoRefs EXCEPT ![Main] = Root] ELSE NoRefs
    /\ fetched = [at |-> 0, seen |-> NoRefs]
    /\ beside = {}
    /\ objs = [s \in Stores |-> IF s = "checkout" THEN {Root} ELSE {}]
    /\ whole = objs
    /\ clock = 0
    /\ rd = NoReading
    /\ race = 0
    /\ damage = 0
    /\ since = {}

-----------------------------------------------------------------------------
(* The home, the server, the checkout and the clone. *)

(* Any of it may happen while the home is there and a reading of it is half made. *)
Meanwhile ==
    /\ home = "here"
    /\ IF rd = NoReading THEN race' = race ELSE race < MaxRace /\ race' = race + 1

MakeCommit(c) ==
    /\ Meanwhile
    /\ c \notin Reach(work)
    /\ Past[c] \ {c} \subseteq Reach(work)
    /\ work' = work \cup {c}
    /\ UNCHANGED <<setup, home, sent, wrote, server, checkoutVars, beside, stores, clock, rd,
                   damage, since>>

(* `nodal done`, or the person in the home: the one thing that writes its refs under origin. *)
Push(b, c) ==
    /\ Meanwhile
    /\ setup.relation # "none"
    /\ b # Main
    /\ c \in Reach(work)
    /\ sent' = [sent EXCEPT ![b] = c]
    /\ wrote' = [wrote EXCEPT ![b] = clock]
    /\ since' = since \cup {b}
    /\ IF setup.relation = "is"
         THEN /\ setup.checkout # "unreadable"
              /\ heads' = [heads EXCEPT ![b] = c]
              /\ ReceivePush("checkout", {c})
              /\ UNCHANGED server
         ELSE server' = [server EXCEPT ![b] = c] /\ UNCHANGED <<heads, stores>>
    /\ UNCHANGED <<setup, home, work, track, fetched, beside, clock, rd, damage>>

(* The host drops a branch, rewinds it, or takes another branch into it; the main one only *)
(* moves forward. *)
ServerMove(b, c) ==
    /\ Meanwhile
    /\ server[b] # NoCommit /\ c # server[b]
    /\ IF c = NoCommit THEN b # Main
       ELSE c \in Reach(TipsOf(server)) /\ (b = Main => server[b] \in Past[c])
    /\ server' = [server EXCEPT ![b] = c]
    /\ UNCHANGED <<setup, homeVars, checkoutVars, beside, stores, clock, rd, damage, since>>

Fetches ==
    /\ Meanwhile
    /\ setup.relation = "same"
    /\ setup.checkout # "unreadable"

(* The branches the checkout's configured refspec covers. *)
Refspec == IF setup.checkout = "narrow" THEN {Main} ELSE Branches

(* `git fetch origin`, with --prune or without. *)
FetchAll(prune) ==
    LET seen == [b \in Branches |-> IF b \in Refspec THEN server[b] ELSE NoCommit]
    IN  /\ Fetches
        /\ track' = [b \in Branches |->
               IF seen[b] # NoCommit \/ (prune /\ b \in Refspec) THEN seen[b] ELSE track[b]]
        /\ fetched' = [at |-> clock, seen |-> seen]
        /\ Receive("checkout", TipsOf(seen))
        /\ since' = {}
        /\ UNCHANGED <<setup, homeVars, server, heads, beside, clock, rd, damage>>

(* `git fetch origin b`: the ref under origin moves where the refspec covers it. *)
FetchOne(b) ==
    /\ Fetches
    /\ server[b] # NoCommit
    /\ track' = IF b \in Refspec THEN [track EXCEPT ![b] = server[b]] ELSE track
    /\ fetched' = [at |-> clock, seen |-> [NoRefs EXCEPT ![b] = server[b]]]
    /\ Receive("checkout", {server[b]})
    /\ since' = {}
    /\ UNCHANGED <<setup, homeVars, server, heads, beside, clock, rd, damage>>

(* A fetch of another remote rewrites the record with that remote's branches. *)
FetchOther ==
    /\ Meanwhile
    /\ fetched' = [at |-> clock, seen |-> NoRefs]
    /\ since' = {}
    /\ UNCHANGED <<setup, homeVars, server, heads, track, beside, stores, clock, rd, damage>>

(* The person branches off what was fetched, or deletes a branch of the checkout. *)
Branch(b) ==
    /\ Meanwhile
    /\ heads[b] # track[b]
    /\ heads' = [heads EXCEPT ![b] = track[b]]
    /\ UNCHANGED <<setup, homeVars, server, track, fetched, beside, stores, clock, rd, damage, since>>

(* The clone takes a commit out of the home, under a branch or by its identifier alone. *)
Copy(c, named) ==
    /\ Meanwhile
    /\ setup.clone \notin {"absent", "worktree"}
    /\ c \in Reach(work)
    /\ beside' = IF named THEN beside \cup {c} ELSE beside
    /\ Receive("clone", {c})
    /\ UNCHANGED <<setup, homeVars, server, checkoutVars, clock, rd, damage, since>>

DropCopy(c) ==
    /\ Meanwhile
    /\ c \in beside
    /\ beside' = beside \ {c}
    /\ UNCHANGED <<setup, homeVars, server, checkoutVars, stores, clock, rd, damage, since>>

(* The refs a store keeps of its own accord, and all of them. *)
OwnRefs(s) == IF s = "checkout" THEN TipsOf(heads) ELSE beside
AllRefs(s) == IF s = "checkout" THEN OwnRefs(s) \cup TipsOf(track) ELSE OwnRefs(s)

(* `git gc --prune=now` *)
Collect(s) ==
    /\ Meanwhile
    /\ objs' = [objs EXCEPT ![s] = @ \cap Reach(AllRefs(s))]
    /\ whole' = [whole EXCEPT ![s] = @ \cap Reach(AllRefs(s))]
    /\ UNCHANGED <<setup, homeVars, server, checkoutVars, beside, clock, rd, damage, since>>

(* The checkout is restored without its objects, or the clone loses some content. *)
Lose(s) ==
    /\ Meanwhile
    /\ damage < MaxDamage
    /\ damage' = damage + 1
    /\ objs' = [objs EXCEPT ![s] = IF s = "checkout" THEN {} ELSE @]
    /\ whole' = [whole EXCEPT ![s] = {}]
    /\ UNCHANGED <<setup, homeVars, server, checkoutVars, beside, clock, rd, since>>

Tick ==
    /\ Meanwhile
    /\ clock < MaxTime
    /\ clock' = clock + 1
    /\ UNCHANGED <<setup, homeVars, server, checkoutVars, beside, stores, rd, damage, since>>

-----------------------------------------------------------------------------
(* Checkout::read: its refs, the ones of its own, and the tips it really holds. *)

(* The commits whose content a store keeps under a ref, and under a ref of its own. *)
Kept(s) == whole[s] \cap Reach(AllRefs(s))
Durable(s) == whole[s] \cap Reach(OwnRefs(s))

StoredByName == AllRefs("checkout")   \* mutant: a ref is taken for its object

(* `stores`, over the checkout's own refs: a name counts where the object is there. *)
Stored == AllRefs("checkout") \cap objs["checkout"]

ReadCheckout ==
    /\ home = "here"
    /\ rd = NoReading
    /\ rd' = [own |-> OwnRefs("checkout"), tips |-> AllRefs("checkout"),
              tracks |-> {b \in Branches : track[b] # NoCommit}, held |-> Stored,
              kept |-> Kept("checkout"), durable |-> Durable("checkout")]
    /\ UNCHANGED <<setup, homeVars, server, checkoutVars, beside, stores, clock, race, damage, since>>

-----------------------------------------------------------------------------
(* elsewhere: what the checkout says of the home's remote. *)

Readable == setup.checkout \notin {"unreadable", "shallow"}

(* The branches of origin the home names. *)
Named == {b \in Branches : sent[b] # NoCommit}

AfterOnly(read, written) == written = Undated \/ read > written       \* mutant
NotBefore(read, written) == written = Undated \/ read >= written      \* mutant
NotOlder(read, written) == written = Undated \/ read >= written
StrictlyLater(read, written) == written = Undated \/ read > written

(* observed, branch by branch: the record names it, or says the remote has not got it. *)
Observed(b) == fetched.seen[b] # NoCommit /\ NotOlder(fetched.at, wrote[b])
ConcludedGone(b) ==
    /\ fetched.seen[b] = NoCommit
    /\ StrictlyLater(fetched.at, wrote[b])
    /\ b \notin rd.tracks
Unobserved == {b \in Named : ~Observed(b) /\ ~ConcludedGone(b)}

(* The checkout as a witness, and the tips it offers for each branch. *)
Witnesses ==
    /\ Readable
    /\ \/ setup.relation = "same" /\ setup.checkout # "narrow" /\ TipsOf(fetched.seen) # {}
       \/ setup.relation = "is"
TrackingRef(b) ==   \* mutant: the ref a fetch without --prune leaves standing
    IF setup.relation = "is" THEN heads[b]
    ELSE IF b \in Named /\ NotOlder(fetched.at, wrote[b]) THEN track[b] ELSE NoCommit
WitnessRef(b) ==
    IF setup.relation = "is" THEN heads[b]
    ELSE IF b \in Named /\ Observed(b) THEN fetched.seen[b] ELSE NoCommit
Theirs == {WitnessRef(b) : b \in Branches} \ {NoCommit}

(* The home's own tips that a tip of the witness still reaches, in the witness's store. *)
Confirmed == TipsOf(sent) \cap objs["checkout"] \cap Reach(Theirs \cap objs["checkout"])

Believed ==
    IF Witnesses THEN ({WitnessRef(b) : b \in Named} \ {NoCommit}) \cup Confirmed ELSE {}

(* holdings: a tip the checkout did not name at the reading is looked for now, under a ref. *)
Holdings(trusted) ==
    rd.held \cup ((trusted \ rd.tips) \cap objs["checkout"] \cap Reach(AllRefs("checkout")))

(* The tips a removal may rest on: the checkout's own, and what was seen of the remote. *)
Elsewhere ==
    LET trusted == Believed IN
    IF Readable THEN (rd.own \cup trusted) \cap Holdings(trusted) ELSE {}

-----------------------------------------------------------------------------
(* history: the home's commits, by where else they live. *)

(* A tip the home has not got excludes nothing there. *)
Unproved == Reach(work) \ Reach(Elsewhere \cap Reach(work))

(* admits and incomplete: what a store says of itself, and whether the work is in it. *)
Admits(s) == setup[s] \in {"borrows", "worktree", "shallow", "partial"}
Reached(s, left) == objs[s] \cap left \cap Reach(OwnRefs(s))
Lacks(s, left) == setup[s] # "unreadable" /\ ~(Reached(s, left) \subseteq whole[s])
Vouches(s, left) == setup[s] # "unreadable" /\ ~Admits(s) /\ ~Lacks(s, left)
SecondCopy(s, left) == IF Vouches(s, left) THEN Reached(s, left) ELSE {}
Doubted(s, left) ==
    IF setup[s] = "worktree" THEN left
    ELSE IF Admits(s) \/ Lacks(s, left) THEN objs[s] \cap left ELSE {}

(* Witness::unchecked: the reading leaves the remote question open. *)
Open ==
    /\ setup.relation # "none"
    /\ ~Witnesses \/ (setup.relation = "same" /\ Unobserved # {})

(* local_copies, the checkout first and then the clone beside it, and what is left over. *)
History ==
    LET unproved == Unproved
        inCheckout == SecondCopy("checkout", unproved)
        inClone == SecondCopy("clone", unproved \ inCheckout)
        left == unproved \ (inCheckout \cup inClone)
        doubted == Doubted("checkout", unproved) \cup Doubted("clone", unproved \ inCheckout)
    IN  [inClone |-> inClone,
         notChecked |-> IF Open THEN left ELSE left \cap doubted,
         onlyHere |-> IF Open THEN {} ELSE left \ doubted]

(* judge: the commits, what the tree holds, what stands in the home, what goes with it. *)
Verdict(groups, dirty, table, set) ==
    IF \/ dirty \/ table = "standing" \/ groups.onlyHere # {}
       \/ "clone" \in set /\ groups.inClone # {}
      THEN "unsafe"
    ELSE IF groups.notChecked # {} \/ table = "unread" THEN "unknown" ELSE "safe"

Judge ==
    /\ rd # NoReading
    /\ LET groups == History IN
       \E dirty \in BOOLEAN, table \in {"clear", "standing", "unread"}, set \in SUBSET {"clone"} :
         home' = IF Verdict(groups, dirty, table, set) = "safe" THEN "gone" ELSE "here"
    /\ rd' = NoReading
    /\ race' = 0
    /\ UNCHANGED <<setup, work, sent, wrote, server, checkoutVars, beside, stores, clock, damage,
                   since>>

-----------------------------------------------------------------------------
Next ==
    \/ \E c \in Commits : MakeCommit(c)
    \/ \E b \in Branches, c \in Commits : Push(b, c)
    \/ \E b \in Branches, c \in Commits \cup {NoCommit} : ServerMove(b, c)
    \/ \E prune \in BOOLEAN : FetchAll(prune)
    \/ \E b \in Branches : FetchOne(b)
    \/ FetchOther
    \/ \E b \in Branches : Branch(b)
    \/ \E c \in Commits, named \in BOOLEAN : Copy(c, named)
    \/ \E c \in Commits : DropCopy(c)
    \/ \E s \in Stores : Collect(s)
    \/ \E s \in Stores : Lose(s)
    \/ Tick
    \/ ReadCheckout
    \/ Judge

Spec == Init /\ [][Next]_vars
-----------------------------------------------------------------------------
TypeOK ==
    /\ setup \in Setups
    /\ home \in {"here", "gone"}
    /\ work \in SUBSET Commits
    /\ sent \in Refs
    /\ wrote \in [Branches -> Nat \cup {Undated}]
    /\ server \in Refs
    /\ heads \in Refs
    /\ track \in Refs
    /\ fetched \in [at : Nat, seen : Refs]
    /\ beside \in SUBSET Commits
    /\ objs \in [Stores -> SUBSET Commits]
    /\ whole \in [Stores -> SUBSET Commits]
    /\ \A s \in Stores : whole[s] \subseteq objs[s]
    /\ clock \in Nat
    /\ rd \in Readings \cup {NoReading}
    /\ race \in Nat
    /\ damage \in Nat
    /\ since \in SUBSET Branches

Safe(set) == rd # NoReading /\ Verdict(History, FALSE, "clear", set) = "safe"

(* The commits a checkout that is a partial clone had under these refs at the   *)
(* reading, or has under those now: it need not have the content of any.        *)
PartialHas(read, now) ==
    IF setup.checkout = "partial"
      THEN Reach(read \cap rd.held) \cup (objs["checkout"] \cap Reach(now)) ELSE {}

(* A home is let go only over the work itself.  Every commit of a home that     *)
(* `judge` calls safe has its content in another store, under a ref, when the   *)
(* reading was made or now; and a store that goes in the same removal is none.  *)
(* One exception: for the refs of a checkout that is itself a partial clone the *)
(* commit is enough.  `admits` and `incomplete` ask the stores a second copy is *)
(* looked for in, and `elsewhere` asks neither of them of the checkout whose    *)
(* tips it takes (witness.rs:305-331), although complete.rs:9-18 has it that a  *)
(* store is read before it may vouch for anything.                              *)
SafeIsOutside ==
    \A set \in SUBSET {"clone"} : Safe(set) =>
        Reach(work) \subseteq rd.kept \cup Kept("checkout") \cup
                             (IF set = {} THEN Kept("clone") ELSE {}) \cup
                             PartialHas(rd.tips, AllRefs("checkout"))

(* What no ref outside the home keeps of its own accord rests on the remote, and *)
(* then on the last fetch having seen it there, on a branch the home names and   *)
(* has not written again in a later second: never on a ref under origin that a   *)
(* fetch without --prune left standing (`observed`, `believed`).  The refs of    *)
(* its own of a partial clone keep commits, as above.                            *)
RestsOnACurrentReading ==
    Safe({}) =>
        \A c \in Reach(work) \ (rd.durable \cup Durable("checkout") \cup Durable("clone") \cup
                               PartialHas(rd.own, OwnRefs("checkout"))) :
            \E b \in Named : /\ fetched.seen[b] # NoCommit
                             /\ c \in Past[fetched.seen[b]]
                             /\ wrote[b] = Undated \/ wrote[b] <= fetched.at

(* A branch the home pushed after the checkout's last fetch is never reported as *)
(* one the remote has not got, whatever the two clocks say (`strictly_later`).   *)
PushIsNotForgotten ==
    rd # NoReading /\ Witnesses /\ setup.relation = "same" =>
        \A b \in Named \cap since : ~ConcludedGone(b)

(* A home is not kept for nothing: where the last fetch saw all of its work on   *)
(* branches it names, no earlier than it pushed them, and the store that fetched *)
(* still holds what its refs name, no commit refuses the removal.                *)
FetchedWorkGoes ==
    /\ rd # NoReading /\ race = 0 /\ damage = 0
    /\ setup.relation = "same" /\ setup.checkout = "whole"
    /\ \A b \in Named : wrote[b] = Undated \/ wrote[b] <= fetched.at
    /\ Reach(work) \subseteq Reach({fetched.seen[b] : b \in Named} \ {NoCommit})
    => History.notChecked \cup History.onlyHere = {}

=============================================================================
