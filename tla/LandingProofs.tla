--------------------------- MODULE LandingProofs ---------------------------
(* Proofs about Landing, for any units, stages and bounds: a merge loses no  *)
(* work, an undone one puts the home back, and every variable keeps its      *)
(* type.  A history is a sequence of trees, so the first part is about what  *)
(* the operators on histories return.                                        *)
EXTENDS Landing, SequenceTheorems, WellFoundedInduction, TLAPS

(***************************************************************************)
(* The operators on histories (git/merge.rs).                              *)
(***************************************************************************)

(* The least of a set of numbers. *)
LEMMA Least ==
    ASSUME NEW T, T \subseteq Nat, T # {}
    PROVE  \E x \in T : \A y \in T : x <= y
<1>1. \E x \in T : \A y \in T : ~(<<y, x>> \in OpToRel(<, Nat))
  BY NatLessThanWellFounded, WFMin
<1>2. PICK x \in T : \A y \in T : ~(<<y, x>> \in OpToRel(<, Nat))
  BY <1>1
<1>3. \A y \in T : ~(y < x)
  BY <1>2 DEF OpToRel
<1> QED
  BY <1>3

(* A history grows by a commit, and reaches what it did and the commit. *)
LEMMA AppendIs ==
    ASSUME NEW c \in Histories, NEW t \in Trees
    PROVE  /\ Append(c, t) \in Histories /\ Tip(Append(c, t)) = t
           /\ Reach(c) \subseteq Reach(Append(c, t)) /\ t \subseteq Reach(Append(c, t))
<1>1. c \in Seq(Trees) /\ c # <<>> /\ Len(c) \in Nat \ {0} /\ c[1] = {}
  BY DEF Histories, NoCommit
<1>2. /\ Append(c, t) \in Seq(Trees) /\ Len(Append(c, t)) = Len(c) + 1
      /\ Append(c, t)[Len(c) + 1] = t /\ \A i \in 1..Len(c) : Append(c, t)[i] = c[i]
  BY <1>1
<1>3. Append(c, t) # <<>> /\ Append(c, t)[1] = {}
  BY <1>1, <1>2
<1>4. ToSet(c) \subseteq ToSet(Append(c, t)) /\ t \in ToSet(Append(c, t))
  BY <1>1, <1>2 DEF ToSet
<1> QED
  BY <1>2, <1>3, <1>4 DEF Histories, NoCommit, Tip, Last, Reach

(* commit_all *)
LEMMA CommitAllIs ==
    ASSUME NEW c \in Histories, NEW t \in Trees
    PROVE  /\ CommitAll(c, t) \in Histories /\ Tip(CommitAll(c, t)) = t
           /\ Reach(c) \subseteq Reach(CommitAll(c, t)) /\ t \subseteq Reach(CommitAll(c, t))
<1>1. Tip(c) \in ToSet(c)
  BY DEF Histories, NoCommit, Tip, Last, ToSet
<1> QED
  BY <1>1, AppendIs DEF CommitAll, Reach

(* What a history ends with is a tree. *)
LEMMA TipIs == ASSUME NEW c \in Histories PROVE Tip(c) \in Trees
BY DEF Histories, NoCommit, Tip, Last

LEMMA PrefixIs ==
    ASSUME NEW a \in Histories, NEW l \in 1..Len(a)
    PROVE  SubSeq(a, 1, l) \in Histories /\ Len(SubSeq(a, 1, l)) = l
<1>1. a \in Seq(Trees) /\ a[1] = {}
  BY DEF Histories
<1>2. /\ SubSeq(a, 1, l) \in Seq(Trees) /\ Len(SubSeq(a, 1, l)) = l
      /\ SubSeq(a, 1, l)[1] = a[1]
  BY <1>1
<1>3. SubSeq(a, 1, l) # <<>>
  BY <1>2
<1> QED
  BY <1>1, <1>2, <1>3 DEF Histories, NoCommit

(* The first commit of a history is the same in all. *)
LEMMA FirstIs ==
    ASSUME NEW a \in Histories
    PROVE  /\ SubSeq(a, 1, 1) \in Seq(Trees) /\ Len(SubSeq(a, 1, 1)) = 1
           /\ SubSeq(a, 1, 1)[1] = {}
<1>1. 1 \in 1..Len(a)
  BY DEF Histories, NoCommit
<1>2. SubSeq(a, 1, 1) \in Histories /\ Len(SubSeq(a, 1, 1)) = 1
  BY <1>1, PrefixIs
<1> QED
  BY <1>2 DEF Histories

(* merge_base: two histories begin alike, so there is one. *)
LEMMA MergeBaseIs ==
    ASSUME NEW a \in Histories, NEW b \in Histories
    PROVE  /\ MergeBase(a, b) \in Histories
           /\ Len(MergeBase(a, b)) <= Len(a) /\ Len(MergeBase(a, b)) <= Len(b)
<1> DEFINE common == CommonPrefixes({a, b})
<1>1. /\ a \in Seq(Trees) /\ b \in Seq(Trees) /\ a[1] = {} /\ b[1] = {}
      /\ Len(a) \in Nat \ {0} /\ Len(b) \in Nat \ {0}
  BY DEF Histories, NoCommit
<1>2. ASSUME NEW p \in common
      PROVE  Len(p) \in Nat /\ Len(p) <= Len(a) /\ Len(p) <= Len(b)
             /\ \E s \in {a, b} : \E l \in 0..Len(s) : p = SubSeq(s, 1, l)
  <2>1. /\ \E s \in {a, b} : \E l \in 0..Len(s) : p = SubSeq(s, 1, l)
        /\ IsPrefix(p, a) /\ IsPrefix(p, b)
    BY DEF CommonPrefixes, Prefixes
  <2>2. Len(p) \in Nat
    BY <1>1, <2>1
  <2> QED
    BY <2>1, <2>2 DEF IsPrefix
<1>3. SubSeq(a, 1, 1) \in common
  <2>1. SubSeq(a, 1, 1) = SubSeq(b, 1, 1)
    <3> DEFINE p == SubSeq(a, 1, 1)
               q == SubSeq(b, 1, 1)
    <3>1. p \in Seq(Trees) /\ q \in Seq(Trees) /\ Len(p) = 1 /\ Len(q) = 1 /\ p[1] = q[1]
      BY FirstIs
    <3> HIDE DEF p, q
    <3>2. \A i \in 1..Len(p) : p[i] = q[i]
      BY <3>1
    <3>3. p = q
      BY <3>1, <3>2, SeqEqual
    <3> QED
      BY <3>3 DEF p, q
  <2>2. SubSeq(a, 1, 1) \in Prefixes(a)
    BY <1>1 DEF Prefixes
  <2>3. Len(SubSeq(a, 1, 1)) = 1 /\ SubSeq(SubSeq(a, 1, 1), 1, 1) = SubSeq(a, 1, 1)
    BY <1>1
  <2>4. IsPrefix(SubSeq(a, 1, 1), a) /\ IsPrefix(SubSeq(a, 1, 1), b)
    BY <1>1, <2>1, <2>3 DEF IsPrefix
  <2> QED
    BY <2>2, <2>4 DEF CommonPrefixes
<1>4. \E p \in common : \A q \in common : Len(q) <= Len(p)
  <2> DEFINE short == {Len(a) - Len(p) : p \in common}
  <2> HIDE DEF common
  <2>1. short \subseteq Nat /\ short # {}
    BY <1>1, <1>2, <1>3
  <2>2. PICK x \in short : \A y \in short : x <= y
    BY <2>1, Least
  <2>3. PICK p \in common : x = Len(a) - Len(p)
    BY <2>2
  <2>4. \A q \in common : x <= Len(a) - Len(q)
    BY <2>2
  <2> QED
    BY <1>1, <1>2, <2>3, <2>4
<1>5. MergeBase(a, b) \in common /\ \A q \in common : Len(q) <= Len(MergeBase(a, b))
  BY <1>4 DEF MergeBase, LongestCommonPrefix
<1> HIDE DEF common
<1>6. Len(SubSeq(a, 1, 1)) = 1
  BY <1>1
<1>7. Len(MergeBase(a, b)) \in Nat /\ Len(MergeBase(a, b)) >= 1
  BY <1>2, <1>3, <1>5, <1>6
<1>8. PICK s \in {a, b} : \E l \in 0..Len(s) : MergeBase(a, b) = SubSeq(s, 1, l)
  BY <1>2, <1>5
<1>9. PICK l \in 0..Len(s) : MergeBase(a, b) = SubSeq(s, 1, l)
  BY <1>8
<1>10. Len(SubSeq(s, 1, l)) = l
  BY <1>1, <1>9
<1>11. MergeBase(a, b) \in Histories
  BY <1>7, <1>9, <1>10, PrefixIs
<1> QED
  BY <1>2, <1>5, <1>11

(* squash: the branch ends with the tree it had. *)
LEMMA SquashIs ==
    ASSUME NEW c \in Histories, NEW onto \in Histories
    PROVE  Squash(c, onto) \in Histories /\ Tip(Squash(c, onto)) = Tip(c)
<1>1. MergeBase(onto, c) \in Histories /\ Tip(c) \in Trees
  BY MergeBaseIs, TipIs
<1> QED
  BY <1>1, AppendIs DEF Squash

(* A commit replayed on a history makes a history. *)
LEMMA ReplayIs ==
    ASSUME NEW c \in Histories, NEW before \in Trees, NEW after \in Trees
    PROVE  Replay(c, before, after) \in Histories
<1>1. (Tip(c) \cup (after \ before)) \ (before \ after) \in Trees
  BY TipIs DEF Trees
<1> QED
  BY <1>1, CommitAllIs DEF Replay

(* rebase: the commits since the merge base, replayed one after the other. *)
LEMMA RebasedIs ==
    ASSUME NEW c \in Histories, NEW onto \in Histories
    PROVE  Rebased(c, onto) \in Histories
<1> DEFINE first == Len(MergeBase(onto, c))
           Next1(f, k) == IF k = first THEN onto ELSE Replay(f[k - 1], c[k - 1], c[k])
           Runs(f, n) == /\ f \in [first..n -> Histories]
                         /\ \A k \in first..n : f[k] = Next1(f, k)
<1>1. first \in 1..Len(c) /\ Len(c) \in Nat /\ c \in Seq(Trees)
  BY MergeBaseIs DEF Histories, NoCommit
<1>2. ASSUME NEW h \in Histories, NEW k \in (first + 1)..Len(c)
      PROVE  Replay(h, c[k - 1], c[k]) \in Histories
  <2>1. c[k - 1] \in Trees /\ c[k] \in Trees
    BY <1>1
  <2> QED
    BY <2>1, ReplayIs
<1> HIDE DEF first
<1>3. \A n \in first..Len(c) : \E f : Runs(f, n)
  <2> DEFINE bad == {n \in first..Len(c) : ~ \E f : Runs(f, n)}
  <2>1. SUFFICES ASSUME bad # {} PROVE FALSE
    BY DEF bad
  <2> HIDE DEF Runs
  <2>0. bad \subseteq Nat
    BY <1>1
  <2> HIDE DEF bad
  <2>2. PICK n \in bad : \A m \in bad : n <= m
    BY <2>0, <2>1, Least
  <2> USE DEF bad
  <2>3. n # first
    <3>1. Runs([k \in first..first |-> onto], first)
      BY <1>1 DEF Runs
    <3> QED
      BY <2>2, <3>1
  <2>4. n - 1 \in first..Len(c) /\ n - 1 \notin bad /\ n \in (first + 1)..Len(c)
    <3>1. n \in first..Len(c)
      BY <2>2
    <3>2. n - 1 \in first..Len(c) /\ n \in (first + 1)..Len(c) /\ ~(n <= n - 1)
      BY <1>1, <2>3, <3>1
    <3> QED
      BY <2>2, <3>2
  <2>5. PICK f : Runs(f, n - 1)
    BY <2>4
  <2> DEFINE g == [k \in first..n |-> IF k = n THEN Replay(f[n - 1], c[n - 1], c[n]) ELSE f[k]]
  <2>6. f \in [first..(n - 1) -> Histories] /\ f[n - 1] \in Histories
    BY <1>1, <2>4, <2>5 DEF Runs
  <2>7. g[n] \in Histories
    BY <1>1, <1>2, <2>4, <2>6
  <2>8. \A k \in first..n : k # n => k \in first..(n - 1) /\ g[k] = f[k] /\ f[k] \in Histories
    BY <1>1, <2>4, <2>6
  <2>9. g \in [first..n -> Histories]
    <3>1. \A k \in first..n : g[k] \in Histories
      BY <2>7, <2>8
    <3> QED
      BY <3>1
  <2>10. ASSUME NEW k \in first..n PROVE g[k] = Next1(g, k)
    <3>1. CASE k = n
      BY <1>1, <2>4, <2>8, <3>1
    <3>2. CASE k # n
      BY <1>1, <2>4, <2>5, <2>8, <3>2 DEF Runs
    <3> QED
      BY <3>1, <3>2
  <2>11. Runs(g, n)
    BY <2>9, <2>10 DEF Runs
  <2> QED
    BY <2>2, <2>11
<1>4. \E f : f = [k \in first..Len(c) |-> Next1(f, k)]
  <2>1. PICK f : Runs(f, Len(c))
    BY <1>1, <1>3
  <2> QED
    BY <2>1
<1> DEFINE upTo == CHOOSE f : f = [k \in first..Len(c) |-> Next1(f, k)]
<1>5. upTo = [k \in first..Len(c) |-> Next1(upTo, k)]
  BY <1>4
<1>6. Rebased(c, onto) = upTo[Len(c)]
  BY DEF Rebased, first
<1> HIDE DEF upTo
<1>7. \A k \in first..Len(c) : upTo[k] \in Histories
  <2> DEFINE bad == {k \in first..Len(c) : upTo[k] \notin Histories}
  <2>1. SUFFICES ASSUME bad # {} PROVE FALSE
    BY DEF bad
  <2>0. bad \subseteq Nat
    BY <1>1
  <2> HIDE DEF bad
  <2>2. PICK n \in bad : \A m \in bad : n <= m
    BY <2>0, <2>1, Least
  <2> USE DEF bad
  <2>3. n # first
    BY <1>5, <2>2
  <2>4. n - 1 \in first..Len(c) /\ upTo[n - 1] \in Histories /\ n \in (first + 1)..Len(c)
    <3>1. n \in first..Len(c)
      BY <2>2
    <3>2. n - 1 \in first..Len(c) /\ n \in (first + 1)..Len(c) /\ ~(n <= n - 1)
      BY <1>1, <2>3, <3>1
    <3> QED
      BY <2>2, <3>2
  <2>5. upTo[n] = Replay(upTo[n - 1], c[n - 1], c[n])
    BY <1>5, <2>3, <2>4
  <2> QED
    BY <1>2, <2>2, <2>4, <2>5
<1> QED
  BY <1>1, <1>6, <1>7

(* A branch that moves leaves a tree of changes. *)
LEMMA MovedTreeIs ==
    ASSUME NEW c \in Histories, NEW to \in Histories, NEW t \in Trees
    PROVE  /\ TreeAfterMove(c, t, to) \in Trees
           /\ t = Tip(c) => TreeAfterMove(c, t, to) = Tip(to)
           /\ Tip(c) = Tip(to) => TreeAfterMove(c, t, to) = t
<1>1. Tip(c) \in Trees /\ Tip(to) \in Trees
  BY TipIs
<1> QED
  BY <1>1 DEF TreeAfterMove, Trees

-----------------------------------------------------------------------------
(***************************************************************************)
(* Type correctness.                                                       *)
(***************************************************************************)

(* Every state has the types declared for it. *)
LEMMA InitTypes == Init => TypeOK
<1> SUFFICES ASSUME Init PROVE TypeOK
  OBVIOUS
<1>1. {} \in Trees /\ Root \in Histories
  BY DEF Root, Histories, NoCommit, Trees
<1>2. Idle \in Merges /\ Len(Idle.steps) = 0 /\ Idle.at = 0
  BY <1>1 DEF Idle, Merges, Commits
<1> QED
  BY <1>1, <1>2, ConstantsAssumption
     DEF Init, TypeOK, NotRebasing, NotListed, Commits, Statuses

(***************************************************************************)
(* The plan of a merge that squashes: the tip is recorded second, or third *)
(* when the work is committed first, and squashed next; what comes after   *)
(* is the rebase, when there is one, and the target.                       *)
(***************************************************************************)
RecordAt(p) == IF p[2] = "commit" THEN 3 ELSE 2
SquashFits(p) ==
    /\ Len(p) \in Nat /\ Len(p) > RecordAt(p) + 1
    /\ p[1] = "fetch" /\ p[RecordAt(p)] = "record" /\ p[RecordAt(p) + 1] = "squash"
    /\ \A i \in 1..Len(p) :
        /\ i > RecordAt(p) + 1 => p[i] \in {"rebase", "forward"}
        /\ p[i] = "rebase" => i = RecordAt(p) + 2
PlanFits(p) == p \in Seq(StepNames) /\ ("squash" \in ToSet(p) => SquashFits(p))

(* plan makes such a plan. *)
LEMMA PlanOfFits ==
    ASSUME NEW stages, NEW resuming \in BOOLEAN
    PROVE  PlanFits(PlanOf(stages, resuming))
<1> DEFINE p == PlanOf(stages, resuming)
           c == ~resuming /\ "commit" \in stages
           s == ~resuming /\ "squash" \in stages
           r == "rebase" \in stages
<1>1. CASE c /\ s /\ r
  <2>1. p \in Seq(StepNames) /\ Len(p) = 6
    BY <1>1 DEF PlanOf, StepNames
  <2>2. p[1] = "fetch" /\ p[2] = "commit" /\ p[3] = "record" /\ p[4] = "squash" /\ p[5]
        = "rebase" /\ p[6] = "forward"
    BY <1>1 DEF PlanOf
  <2> HIDE DEF p
  <2>3. PlanFits(p)
    BY <2>1, <2>2 DEF PlanFits, SquashFits, RecordAt
  <2> QED
    BY <2>3 DEF p
<1>2. CASE c /\ s /\ ~r
  <2>1. p \in Seq(StepNames) /\ Len(p) = 5
    BY <1>2 DEF PlanOf, StepNames
  <2>2. p[1] = "fetch" /\ p[2] = "commit" /\ p[3] = "record" /\ p[4] = "squash" /\ p[5]
        = "forward"
    BY <1>2 DEF PlanOf
  <2> HIDE DEF p
  <2>3. PlanFits(p)
    BY <2>1, <2>2 DEF PlanFits, SquashFits, RecordAt
  <2> QED
    BY <2>3 DEF p
<1>3. CASE ~c /\ s /\ r
  <2>1. p \in Seq(StepNames) /\ Len(p) = 5
    BY <1>3 DEF PlanOf, StepNames
  <2>2. p[1] = "fetch" /\ p[2] = "record" /\ p[3] = "squash" /\ p[4] = "rebase" /\ p[5]
        = "forward"
    BY <1>3 DEF PlanOf
  <2> HIDE DEF p
  <2>3. PlanFits(p)
    BY <2>1, <2>2 DEF PlanFits, SquashFits, RecordAt
  <2> QED
    BY <2>3 DEF p
<1>4. CASE ~c /\ s /\ ~r
  <2>1. p \in Seq(StepNames) /\ Len(p) = 4
    BY <1>4 DEF PlanOf, StepNames
  <2>2. p[1] = "fetch" /\ p[2] = "record" /\ p[3] = "squash" /\ p[4] = "forward"
    BY <1>4 DEF PlanOf
  <2> HIDE DEF p
  <2>3. PlanFits(p)
    BY <2>1, <2>2 DEF PlanFits, SquashFits, RecordAt
  <2> QED
    BY <2>3 DEF p
<1>5. CASE c /\ ~s /\ r
  <2>1. p \in Seq(StepNames) /\ Len(p) = 4
    BY <1>5 DEF PlanOf, StepNames
  <2>2. p[1] = "fetch" /\ p[2] = "commit" /\ p[3] = "rebase" /\ p[4] = "forward"
    BY <1>5 DEF PlanOf
  <2> HIDE DEF p
  <2>3. PlanFits(p)
    BY <2>1, <2>2 DEF PlanFits, ToSet
  <2> QED
    BY <2>3 DEF p
<1>6. CASE c /\ ~s /\ ~r
  <2>1. p \in Seq(StepNames) /\ Len(p) = 3
    BY <1>6 DEF PlanOf, StepNames
  <2>2. p[1] = "fetch" /\ p[2] = "commit" /\ p[3] = "forward"
    BY <1>6 DEF PlanOf
  <2> HIDE DEF p
  <2>3. PlanFits(p)
    BY <2>1, <2>2 DEF PlanFits, ToSet
  <2> QED
    BY <2>3 DEF p
<1>7. CASE ~c /\ ~s /\ r
  <2>1. p \in Seq(StepNames) /\ Len(p) = 3
    BY <1>7 DEF PlanOf, StepNames
  <2>2. p[1] = "fetch" /\ p[2] = "rebase" /\ p[3] = "forward"
    BY <1>7 DEF PlanOf
  <2> HIDE DEF p
  <2>3. PlanFits(p)
    BY <2>1, <2>2 DEF PlanFits, ToSet
  <2> QED
    BY <2>3 DEF p
<1>8. CASE ~c /\ ~s /\ ~r
  <2>1. p \in Seq(StepNames) /\ Len(p) = 2
    BY <1>8 DEF PlanOf, StepNames
  <2>2. p[1] = "fetch" /\ p[2] = "forward"
    BY <1>8 DEF PlanOf
  <2> HIDE DEF p
  <2>3. PlanFits(p)
    BY <2>1, <2>2 DEF PlanFits, ToSet
  <2> QED
    BY <2>3 DEF p
<1> QED
  BY <1>1, <1>2, <1>3, <1>4, <1>5, <1>6, <1>7, <1>8

-----------------------------------------------------------------------------
(***************************************************************************)
(* The inductive invariant.                                                *)
(***************************************************************************)

(* Where a change written in a home is to be found: in a record, or in a  *)
(* home that no merge is at work in.                                       *)
AtRest(u) == op[u].phase \in {"idle", "planned"} /\ ~Rebasing(u)
Found(i) ==
    \/ i \in foreign \cup stray
    \/ \E u \in Units : \E c \in records[u] : i \in Reach(c)
    \/ \E u \in Units : AtRest(u) /\ i \in Reach(branch[u]) \cup tree[u]
NothingLost == \A i \in 1..changes : Found(i)

(* A merge under way of a home nobody touches, the first since the record  *)
(* was last dropped, with the squash in its plan.                          *)
Watched(u) ==
    /\ op[u].phase \in {"mark", "act", "undo", "dead"} /\ op[u].quiet /\ op[u].fresh
    /\ "squash" \in ToSet(op[u].steps)

(* The tip the squash begins with. *)
Whole(u) ==
    IF RecordAt(op[u].steps) = 3 THEN CommitAll(op[u].head, op[u].found) ELSE op[u].head

(* Until the tip is recorded only the commit has moved the branch. *)
Unrecorded(u) ==
    LET at == op[u].at  record == RecordAt(op[u].steps)
    IN  /\ ~Rebasing(u) /\ tree[u] = op[u].found /\ at <= record
        /\ op[u].phase = "mark" =>
              at < record /\ branch[u] = (IF at = record - 1 THEN Whole(u) ELSE op[u].head)
        /\ op[u].phase = "act" => branch[u] = (IF at = record THEN Whole(u) ELSE op[u].head)
        /\ op[u].phase \in {"undo", "dead"} =>
              /\ branch[u] \in {op[u].head, Whole(u)}
              /\ at < 2 => branch[u] = op[u].head

(* The rebase has been tried. *)
Tried(u) ==
    LET rebased == RecordAt(op[u].steps) + 2
    IN  /\ op[u].steps[rebased] = "rebase"
        /\ op[u].at > rebased \/ (op[u].at = rebased /\ op[u].phase # "act")

(* From then on the record is the tip, and the tree is the one it was, or  *)
(* all of it is in the commits that were rebased.                          *)
Recorded(u) ==
    LET at == op[u].at  record == RecordAt(op[u].steps)
    IN  /\ premerge[u] = Whole(u) /\ at >= record /\ (op[u].phase = "act" => at > record)
        /\ at = record \/ (op[u].phase = "act" /\ at = record + 1) => branch[u] = Whole(u)
        /\ \/ /\ ~Tried(u) => ~Rebasing(u)
              /\ tree[u] = op[u].found /\ Tip(branch[u]) = Tip(Whole(u))
           \/ /\ Tried(u) /\ ~Rebasing(u)
              /\ tree[u] = Tip(branch[u]) /\ op[u].found = Tip(Whole(u))

MergeFits(u) ==
    /\ PlanFits(op[u].steps)
    /\ op[u].phase = "planned" => op[u].at = 0
    /\ op[u].phase = "act" => op[u].at > 0
    /\ op[u].phase # "idle" => op[u].oid \in Histories /\ op[u].head \in Histories
    /\ Watched(u) => IF premerge[u] = NoCommit THEN Unrecorded(u) ELSE Recorded(u)

IInv == TypeOK /\ NothingLost /\ \A u \in Units : MergeFits(u)

(* What the invariant says of one unit depends on that unit alone. *)
SameUnit(u) ==
    /\ op'[u] = op[u] /\ branch'[u] = branch[u] /\ tree'[u] = tree[u]
    /\ rebase'[u] = rebase[u] /\ premerge'[u] = premerge[u]
LEMMA Elsewhere ==
    ASSUME NEW u \in Units, MergeFits(u), SameUnit(u)
    PROVE  MergeFits(u)'
BY DEF SameUnit, MergeFits, Watched, Unrecorded, Recorded, Tried, Whole, Rebasing

(* Nothing is lost while records and homes at rest stay as they are. *)
LEMMA StillFound ==
    ASSUME NothingLost, changes' = changes, foreign' = foreign, stray' = stray,
           \A u \in Units :
              /\ records[u] \subseteq records'[u]
              /\ AtRest(u) => AtRest(u)' /\ branch'[u] = branch[u] /\ tree'[u] = tree[u]
    PROVE  NothingLost'
BY DEF NothingLost, Found

-----------------------------------------------------------------------------
(***************************************************************************)
(* The steps that leave homes and merges alone.                            *)
(***************************************************************************)

(* Homes, merges and what was written stay. *)
LEMMA HomesStay ==
    ASSUME IInv, UNCHANGED <<home, op, foreign, stray, changes>>
    PROVE  NothingLost' /\ \A u \in Units : MergeFits(u)'
<1>1. \A u \in Units : SameUnit(u) /\ records'[u] = records[u]
  BY DEF home, SameUnit
<1>2. NothingLost'
  BY <1>1, StillFound DEF IInv, home, AtRest, Rebasing
<1> QED
  BY <1>1, <1>2, Elsewhere DEF IInv

(* CommitOnTarget *)
LEMMA CommitOnTargetKeeps == ASSUME IInv, CommitOnTarget PROVE IInv'
<1>1. TypeOK /\ changes + 1 \in Changes /\ Tip(target) \cup {changes + 1} \in Trees
  BY ConstantsAssumption, TipIs DEF IInv, TypeOK, CommitOnTarget, Changes, Trees
<1>2. target' \in Histories
  BY <1>1, AppendIs DEF TypeOK, CommitOnTarget
<1>3. TypeOK'
  BY <1>1, <1>2 DEF TypeOK, CommitOnTarget, home, Trees, Changes
<1>4. NothingLost'
  <2> SUFFICES ASSUME NEW i \in 1..changes' PROVE Found(i)'
    BY DEF NothingLost
  <2>1. i \in 1..changes \/ i \in foreign'
    BY <1>1 DEF TypeOK, CommitOnTarget
  <2>2. ASSUME i \in 1..changes PROVE Found(i)'
    BY <2>2 DEF IInv, NothingLost, Found, CommitOnTarget, home, AtRest, Rebasing
  <2> QED
    BY <2>1, <2>2 DEF Found
<1>5. \A u \in Units : MergeFits(u)'
  BY Elsewhere DEF IInv, CommitOnTarget, home, SameUnit
<1> QED
  BY <1>3, <1>4, <1>5 DEF IInv

(* send *)
LEMMA PushKeeps == ASSUME IInv, NEW u \in Units, Push(u) PROVE IInv'
<1>1. TypeOK'
  BY DEF IInv, TypeOK, Push, home, spent, Commits
<1> QED
  BY <1>1, HomesStay DEF IInv, Push, spent

(* record *)
LEMMA RecordDoneKeeps == ASSUME IInv, NEW u \in Units, RecordDone(u) PROVE IInv'
<1>1. TypeOK'
  BY DEF IInv, TypeOK, RecordDone, home, spent, Statuses
<1> QED
  BY <1>1, HomesStay DEF IInv, RecordDone, spent

(* A listing reads the home. *)
LEMMA ReadListKeeps == ASSUME IInv, NEW u \in Units, ReadList(u) PROVE IInv'
<1>1. Tip(branch[u]) \in Trees
  BY TipIs DEF IInv, TypeOK
<1>2. TypeOK'
  BY <1>1 DEF IInv, TypeOK, ReadList, home, spent
<1> QED
  BY <1>2, HomesStay DEF IInv, ReadList, spent

(* flip *)
LEMMA SettleKeeps == ASSUME IInv, NEW u \in Units, Settle(u) PROVE IInv'
<1>1. TypeOK'
  BY DEF IInv, TypeOK, Settle, home, spent, Statuses, NotListed, Trees
<1> QED
  BY <1>1, HomesStay DEF IInv, Settle, spent

(* The ordinary reclaim. *)
LEMMA ReclaimKeeps == ASSUME IInv, NEW u \in Units, Reclaim(u) PROVE IInv'
<1>1. TypeOK'
  BY DEF IInv, TypeOK, Reclaim, home, spent, Statuses
<1> QED
  BY <1>1, HomesStay DEF IInv, Reclaim, spent

-----------------------------------------------------------------------------
(***************************************************************************)
(* The steps that change the merge of a unit and leave its home alone.     *)
(***************************************************************************)
SameMerge(o, m) ==
    /\ o.steps = m.steps /\ o.oid = m.oid /\ o.head = m.head /\ o.found = m.found
    /\ o.fresh = m.fresh /\ o.quiet = m.quiet

(* The merge of a unit becomes another, or goes on. *)
Becomes(u, o) ==
    /\ op' = [op EXCEPT ![u] = o] /\ o \in Merges /\ o.at \in 0..Len(o.steps)
GoesOn(u, o, phase, at) ==
    Becomes(u, o) /\ SameMerge(o, op[u]) /\ o.phase = phase /\ o.at = at

(* A merge that goes on is another record with the same plan. *)
LEMMA GoOn ==
    ASSUME IInv, NEW u \in Units, NEW phase \in {"mark", "act", "undo", "dead"},
           op' = [op EXCEPT ![u].phase = phase]
    PROVE  \E o : GoesOn(u, o, phase, op[u].at)
<1> DEFINE o == [op[u] EXCEPT !.phase = phase]
<1>1. op[u] \in Merges /\ op[u].at \in 0..Len(op[u].steps)
  BY DEF IInv, TypeOK
<1>2. o \in Merges /\ SameMerge(o, op[u]) /\ o.phase = phase /\ o.at = op[u].at
  BY <1>1 DEF Merges, SameMerge
<1>3. op' = [op EXCEPT ![u] = o]
  BY DEF IInv, TypeOK
<1> QED
  BY <1>1, <1>2, <1>3 DEF GoesOn, Becomes, SameMerge

(* No merge of a unit but that of u changes, and no home does. *)
LEMMA MergeMoves ==
    ASSUME IInv, NEW u \in Units, NEW o, Becomes(u, o),
           UNCHANGED <<home, remote, here, pushed, listed, foreign, stray, changes>>,
           target' \in Histories, status' \in [Units -> Statuses], landed' \in [Units -> Trees],
           unwound' \in Trees,
           merges' \in 0..MaxMerges, faults' \in 0..MaxFaults,
           op[u].phase \in {"idle", "planned"} => o.phase \in {"idle", "planned"},
           MergeFits(u)'
    PROVE  IInv'
<1>1. TypeOK'
  BY DEF IInv, TypeOK, Becomes, home
<1>2. \A v \in Units : (v # u => op'[v] = op[v]) /\ op'[u] = o
  BY DEF IInv, TypeOK, Becomes
<1>3. NothingLost'
  BY <1>2, StillFound DEF IInv, home, AtRest, Rebasing
<1>4. \A v \in Units : MergeFits(v)'
  <2>1. ASSUME NEW v \in Units, v # u PROVE MergeFits(v)'
    BY <1>2, <2>1, Elsewhere DEF IInv, SameUnit, home
  <2> QED
    BY <2>1
<1> QED
  BY <1>1, <1>3, <1>4 DEF IInv

(* A merge that is over fits. *)
LEMMA IdleFits ==
    ASSUME NEW u \in Units, op'[u] = Idle PROVE MergeFits(u)'
<1>1. PlanFits(<<>>)
  BY DEF PlanFits, ToSet
<1> QED
  BY <1>1 DEF MergeFits, Idle, Watched

(* The merge of u becomes the idle one. *)
LEMMA IdleIs ==
    ASSUME IInv, NEW u \in Units, op' = [op EXCEPT ![u] = Idle]
    PROVE  Becomes(u, Idle) /\ MergeFits(u)'
<1>1. Idle \in Merges /\ Idle.at = 0 /\ Len(Idle.steps) = 0
  BY DEF Idle, Merges, Commits, Trees
<1>2. op'[u] = Idle
  BY DEF IInv, TypeOK
<1> QED
  BY <1>1, <1>2, IdleFits DEF Becomes

(* The plan of a squash, at the steps it speaks of. *)
LEMMA Plan ==
    ASSUME IInv, NEW u \in Units, Watched(u)
    PROVE  /\ SquashFits(op[u].steps) /\ RecordAt(op[u].steps) \in {2, 3}
           /\ op[u].at \in Nat /\ op[u].at <= Len(op[u].steps) /\ Len(op[u].steps) \in Nat
BY DEF IInv, MergeFits, PlanFits, SquashFits, Watched, RecordAt, TypeOK

(* Where each step of such a plan is. *)
LEMMA StepIs ==
    ASSUME NEW p, SquashFits(p), NEW i \in 1..Len(p)
    PROVE  /\ p[i] = "fetch" => i = 1
           /\ p[i] = "commit" => i = 2 /\ RecordAt(p) = 3
           /\ p[i] = "record" => i = RecordAt(p)
           /\ p[i] \in {"rebase", "forward"} <=> i > RecordAt(p) + 1
<1>1. CASE p[2] = "commit"
  <2>1. RecordAt(p) = 3 /\ i \in Nat /\ (i > 4 \/ i = 1 \/ i = 2 \/ i = 3 \/ i = 4)
    BY <1>1 DEF SquashFits, RecordAt
  <2> QED
    BY <1>1, <2>1 DEF SquashFits
<1>2. CASE p[2] # "commit"
  <2>1. RecordAt(p) = 2 /\ i \in Nat /\ (i > 3 \/ i = 1 \/ i = 2 \/ i = 3)
    BY <1>2 DEF SquashFits, RecordAt
  <2> QED
    BY <1>2, <2>1 DEF SquashFits
<1> QED
  BY <1>1, <1>2

(* The journal marks the next step. *)
LEMMA MarkKeeps == ASSUME IInv, NEW u \in Units, Mark(u) PROVE IInv'
<1>1. op[u] \in Merges /\ op[u].at \in 0..Len(op[u].steps) /\ Len(op[u].steps) \in Nat
  BY DEF IInv, TypeOK, Merges
<1>2. PICK o : GoesOn(u, o, "act", op[u].at + 1)
  <2> DEFINE n == [op[u] EXCEPT !.phase = "act"]
             o == [n EXCEPT !.at = op[u].at + 1]
  <2>0. n \in Merges /\ SameMerge(n, op[u]) /\ n.phase = "act" /\ n.at = op[u].at
    BY <1>1 DEF Merges, SameMerge
  <2>h. op[u].at + 1 \in Nat
    BY <1>1
  <2> HIDE DEF n
  <2>1. o \in Merges /\ SameMerge(o, op[u]) /\ o.phase = "act" /\ o.at = op[u].at + 1
    BY <1>1, <2>0, <2>h DEF Merges, SameMerge
  <2>2. op' = [op EXCEPT ![u] = o]
    BY DEF IInv, TypeOK, Mark, n
  <2>3. o.at \in 0..Len(o.steps)
    BY <1>1, <2>1 DEF SameMerge, Mark
  <2> QED
    BY <2>1, <2>2, <2>3 DEF GoesOn, Becomes
<1>3. /\ op'[u] = o /\ op[u].phase = "mark" /\ MergeFits(u)
      /\ branch' = branch /\ tree' = tree /\ rebase' = rebase /\ premerge' = premerge
  BY <1>2 DEF IInv, TypeOK, Mark, home, GoesOn, Becomes
<1>4. MergeFits(u)'
  <2>1. Watched(u)' => Watched(u)
    BY <1>2, <1>3 DEF Watched, GoesOn, SameMerge
  <2>2. ASSUME Watched(u), premerge[u] = NoCommit PROVE Unrecorded(u)'
    <3>1. RecordAt(op[u].steps) \in {2, 3} /\ op[u].at \in Nat
      BY <2>2, Plan
    <3> QED
      BY <1>2, <1>3, <2>2, <3>1 DEF MergeFits, Unrecorded, Whole, GoesOn, SameMerge, Rebasing
  <2>3. ASSUME Watched(u), premerge[u] # NoCommit PROVE Recorded(u)'
    <3>1. RecordAt(op[u].steps) \in {2, 3} /\ op[u].at \in Nat
      BY <2>3, Plan
    <3> QED
      BY <1>2, <1>3, <2>3, <3>1 DEF MergeFits, Recorded, Tried, Whole, GoesOn, SameMerge, Rebasing
  <2> QED
    BY <1>1, <1>2, <1>3, <2>1, <2>2, <2>3 DEF MergeFits, GoesOn, SameMerge
<1> QED
  BY <1>2, <1>3, <1>4, MergeMoves DEF Mark, GoesOn, spent, IInv, TypeOK

(* The process dies, or another takes its merge over: either way it is undone. *)
LEMMA EndsFits ==
    ASSUME IInv, NEW u \in Units, NEW o, NEW phase \in {"undo", "dead"},
           op[u].phase \in {"mark", "act", "undo", "dead"}, GoesOn(u, o, phase, op[u].at),
           UNCHANGED home
    PROVE  MergeFits(u)'
<1>1. /\ op'[u] = o /\ MergeFits(u)
      /\ branch' = branch /\ tree' = tree /\ rebase' = rebase /\ premerge' = premerge
  BY DEF IInv, TypeOK, home, GoesOn, Becomes
<1>2. Watched(u)' => Watched(u)
  BY <1>1 DEF Watched, GoesOn, SameMerge
<1>3. ASSUME Watched(u), premerge[u] = NoCommit PROVE Unrecorded(u)'
  <2>1. RecordAt(op[u].steps) \in {2, 3} /\ op[u].at \in Nat
    BY <1>3, Plan
  <2>2. RecordAt(op[u].steps) # 3 => Whole(u) = op[u].head
    BY DEF Whole
  <2> QED
    BY <1>1, <1>3, <2>1, <2>2 DEF MergeFits, Unrecorded, Whole, GoesOn, SameMerge, Rebasing
<1>4. ASSUME Watched(u), premerge[u] # NoCommit PROVE Recorded(u)'
  <2>1. RecordAt(op[u].steps) \in {2, 3} /\ op[u].at \in Nat
    BY <1>4, Plan
  <2> QED
    BY <1>1, <1>4, <2>1 DEF MergeFits, Recorded, Tried, Whole, GoesOn, SameMerge, Rebasing
<1> QED
  BY <1>1, <1>2, <1>3, <1>4 DEF MergeFits, GoesOn, SameMerge

(* A step that is done and changes no home leaves the merge between two steps. *)
LEMMA DoneFits ==
    ASSUME IInv, NEW u \in Units, NEW o, GoesOn(u, o, "mark", op[u].at), UNCHANGED home,
           op[u].phase = "act", op[u].at > 0,
           op[u].steps[op[u].at] \in {"fetch", "forward"}
    PROVE  MergeFits(u)'
<1>1. /\ op'[u] = o /\ MergeFits(u)
      /\ branch' = branch /\ tree' = tree /\ rebase' = rebase /\ premerge' = premerge
  BY DEF IInv, TypeOK, home, GoesOn, Becomes
<1>2. Watched(u)' => Watched(u)
  BY <1>1 DEF Watched, GoesOn, SameMerge
<1>3. ASSUME Watched(u), premerge[u] = NoCommit PROVE Unrecorded(u)'
  <2>1. /\ SquashFits(op[u].steps) /\ RecordAt(op[u].steps) \in {2, 3} /\ op[u].at \in Nat
        /\ op[u].at <= RecordAt(op[u].steps)
    BY <1>1, <1>3, Plan DEF MergeFits, Unrecorded
  <2>2. op[u].at < RecordAt(op[u].steps)
    BY <2>1 DEF SquashFits
  <2>3. op[u].at = 1
    BY <2>1, <2>2 DEF SquashFits, RecordAt
  <2>4. RecordAt(op[u].steps) # 3 => Whole(u) = op[u].head
    BY DEF Whole
  <2> QED
    BY <1>1, <1>3, <2>1, <2>3, <2>4
       DEF MergeFits, Unrecorded, Whole, GoesOn, SameMerge, Rebasing
<1>4. ASSUME Watched(u), premerge[u] # NoCommit PROVE Recorded(u)'
  <2>1. /\ SquashFits(op[u].steps) /\ RecordAt(op[u].steps) \in {2, 3} /\ op[u].at \in Nat
        /\ op[u].at <= Len(op[u].steps)
    BY <1>4, Plan
  <2>2. op[u].at > RecordAt(op[u].steps)
    BY <1>1, <1>4 DEF MergeFits, Recorded
  <2>3. op[u].at # RecordAt(op[u].steps) + 1
    BY <2>1 DEF SquashFits
  <2>4. op[u].steps[op[u].at] = "forward"
    BY <2>1, <2>2 DEF SquashFits, RecordAt
  <2> QED
    BY <1>1, <1>4, <2>1, <2>2, <2>3, <2>4
       DEF MergeFits, Recorded, Tried, Whole, GoesOn, SameMerge, Rebasing
<1> QED
  BY <1>1, <1>2, <1>3, <1>4 DEF MergeFits, GoesOn, SameMerge


(* A step that is undone and changes no home. *)
LEMMA BackFits ==
    ASSUME IInv, NEW u \in Units, NEW o, GoesOn(u, o, "undo", op[u].at - 1), UNCHANGED home,
           op[u].phase = "undo", op[u].at > 0,
           op[u].steps[op[u].at] \in {"fetch", "forward"}
    PROVE  MergeFits(u)'
<1>1. /\ op'[u] = o /\ MergeFits(u)
      /\ branch' = branch /\ tree' = tree /\ rebase' = rebase /\ premerge' = premerge
  BY DEF IInv, TypeOK, home, GoesOn, Becomes
<1>2. Watched(u)' => Watched(u)
  BY <1>1 DEF Watched, GoesOn, SameMerge
<1>3. ASSUME Watched(u), premerge[u] = NoCommit PROVE Unrecorded(u)'
  <2>1. /\ SquashFits(op[u].steps) /\ RecordAt(op[u].steps) \in {2, 3} /\ op[u].at \in Nat
        /\ op[u].at <= RecordAt(op[u].steps)
    BY <1>1, <1>3, Plan DEF MergeFits, Unrecorded
  <2>2. op[u].at = 1
    <3>1. op[u].at \in 1..Len(op[u].steps) /\ ~(op[u].at > RecordAt(op[u].steps) + 1)
      BY <2>1 DEF SquashFits
    <3> QED
      BY <2>1, <3>1, StepIs
  <2> QED
    BY <1>1, <1>3, <2>1, <2>2
       DEF MergeFits, Unrecorded, Whole, GoesOn, SameMerge, Rebasing
<1>4. ASSUME Watched(u), premerge[u] # NoCommit PROVE Recorded(u)'
  <2>1. /\ SquashFits(op[u].steps) /\ RecordAt(op[u].steps) \in {2, 3} /\ op[u].at \in Nat
        /\ op[u].at <= Len(op[u].steps)
    BY <1>4, Plan
  <2>2. op[u].at >= RecordAt(op[u].steps)
    BY <1>1, <1>4 DEF MergeFits, Recorded
  <2>3. op[u].at > RecordAt(op[u].steps) + 1 /\ op[u].steps[op[u].at] = "forward"
    <3>1. op[u].at # 1 /\ op[u].at \in 1..Len(op[u].steps)
      BY <2>1, <2>2
    <3> QED
      BY <2>1, <3>1, StepIs
  <2>4. /\ Tried(u)' <=> Tried(u)
        /\ Whole(u)' = Whole(u) /\ op'[u].at > RecordAt(op[u].steps)
    <3>1. /\ op'[u].phase = "undo" /\ op'[u].at = op[u].at - 1
          /\ op'[u].steps = op[u].steps /\ op'[u].found = op[u].found /\ op'[u].head = op[u].head
      BY <1>1 DEF GoesOn, SameMerge
    <3>2. op[u].steps[RecordAt(op[u].steps) + 2] = "rebase" => op[u].at > RecordAt(op[u].steps) + 2
      BY <2>1, <2>3
    <3>3. Tried(u)' <=> Tried(u)
      BY <2>1, <3>1, <3>2 DEF Tried
    <3>4. Whole(u)' = Whole(u)
      BY <3>1 DEF Whole
    <3> QED
      BY <2>1, <2>3, <3>1, <3>3, <3>4
  <2>5. Recorded(u)
    BY <1>1, <1>4 DEF MergeFits
  <2>6. /\ op'[u].phase = "undo" /\ op'[u].steps = op[u].steps /\ op'[u].found = op[u].found
        /\ Rebasing(u)' = Rebasing(u)
    BY <1>1 DEF GoesOn, SameMerge, Rebasing
  <2>7. op'[u].at # RecordAt(op[u].steps) /\ op'[u].at >= RecordAt(op[u].steps)
    BY <1>1, <2>1, <2>4 DEF GoesOn
  <2> QED
    BY <1>1, <2>4, <2>5, <2>6, <2>7 DEF Recorded
<1> QED
  BY <1>1, <1>2, <1>3, <1>4 DEF MergeFits, GoesOn, SameMerge

(* A merge that goes back a step. *)
LEMMA GoBack ==
    ASSUME IInv, NEW u \in Units, op[u].at > 0, op' = [op EXCEPT ![u].at = @ - 1]
    PROVE  \E o : GoesOn(u, o, op[u].phase, op[u].at - 1)
<1> DEFINE o == [op[u] EXCEPT !.at = op[u].at - 1]
<1>1. op[u] \in Merges /\ op[u].at \in 0..Len(op[u].steps) /\ op[u].at - 1 \in Nat
  BY DEF IInv, TypeOK, Merges
<1>2. o \in Merges /\ SameMerge(o, op[u]) /\ o.phase = op[u].phase /\ o.at = op[u].at - 1
  BY <1>1 DEF Merges, SameMerge
<1>3. op' = [op EXCEPT ![u] = o]
  BY DEF IInv, TypeOK
<1>4. o.at \in 0..Len(o.steps)
  BY <1>1, <1>2 DEF SameMerge, Merges
<1> QED
  BY <1>2, <1>3, <1>4 DEF GoesOn, Becomes

(* prepare *)
LEMMA PrepareKeeps ==
    ASSUME IInv, NEW u \in Units, NEW stages, Prepare(u, stages) PROVE IInv'
<1> DEFINE p == PlanOf(stages, Rebasing(u))
<1>1. PlanFits(p) /\ p \in Seq(StepNames) /\ target \in Histories /\ branch[u] \in Histories
  BY PlanOfFits DEF PlanFits, IInv, TypeOK, Rebasing
<1> HIDE DEF p
<1>2. PICK o : /\ op' = [op EXCEPT ![u] = o] /\ o \in Merges /\ o.at = 0 /\ o.steps = p
               /\ o.phase = "planned" /\ o.oid = target /\ o.head = branch[u]
  <2> DEFINE o == [phase |-> "planned", steps |-> p, at |-> 0, oid |-> target,
                   head |-> branch[u], found |-> {}, sent |-> "none", fresh |-> FALSE,
                   quiet |-> FALSE]
  <2>1. op' = [op EXCEPT ![u] = o]
    BY DEF Prepare, p
  <2>2. o \in Merges /\ o.at = 0 /\ o.steps = p /\ o.phase = "planned" /\ o.oid = target
        /\ o.head = branch[u]
    BY <1>1 DEF Merges, Commits, Trees
  <2> HIDE DEF o
  <2> QED
    BY <2>1, <2>2
<1>3. Becomes(u, o) /\ op'[u] = o
  BY <1>1, <1>2 DEF Becomes, IInv, TypeOK
<1>4. MergeFits(u)'
  BY <1>1, <1>2, <1>3 DEF MergeFits, Watched
<1>5. merges' \in 0..MaxMerges
  BY ConstantsAssumption DEF IInv, TypeOK, Prepare
<1> QED
  BY <1>2, <1>3, <1>4, <1>5, MergeMoves DEF Prepare, IInv, TypeOK

(* FetchTarget *)
LEMMA FetchTargetKeeps == ASSUME IInv, NEW u \in Units, FetchTarget(u) PROVE IInv'
<1>1. op[u].phase = "act" /\ op[u].at > 0 /\ op[u].steps[op[u].at] = "fetch" /\ UNCHANGED home
  BY DEF FetchTarget, Doing, Step, IInv, MergeFits
<1>2. \E o : Becomes(u, o) /\ o.phase \in {"mark", "undo"} /\ MergeFits(u)'
  <2>1. CASE Acted(u)
    BY <1>1, <2>1, GoOn, DoneFits DEF Acted, GoesOn
  <2>2. CASE Failed(u)
    BY <1>1, <2>2, GoOn, EndsFits DEF Failed, GoesOn
  <2> QED
    BY <2>1, <2>2 DEF FetchTarget
<1> QED
  BY <1>1, <1>2, MergeMoves DEF FetchTarget, spent, IInv, TypeOK

(* resolve takes a merge over. *)
LEMMA TakeOverKeeps == ASSUME IInv, NEW u \in Units, TakeOver(u) PROVE IInv'
<1>1. PICK o : GoesOn(u, o, "undo", op[u].at)
  BY GoOn DEF TakeOver
<1>2. MergeFits(u)'
  BY <1>1, EndsFits DEF TakeOver
<1> QED
  BY <1>1, <1>2, MergeMoves DEF TakeOver, GoesOn, spent, IInv, TypeOK

(* A process is killed. *)
LEMMA KillKeeps == ASSUME IInv, NEW u \in Units, Kill(u) PROVE IInv'
<1>1. faults' \in 0..MaxFaults
  BY ConstantsAssumption DEF IInv, TypeOK, Kill
<1>2. CASE op[u].phase = "planned"
  <2>1. Becomes(u, Idle) /\ MergeFits(u)' /\ Idle.phase = "idle"
    BY <1>2, IdleIs DEF Kill, Idle
  <2> QED
    BY <1>1, <2>1, MergeMoves DEF Kill, IInv, TypeOK
<1>3. CASE op[u].phase # "planned"
  <2>1. op' = [op EXCEPT ![u].phase = "dead"]
    BY <1>3 DEF Kill, IInv, TypeOK
  <2>2. PICK o : GoesOn(u, o, "dead", op[u].at)
    BY <2>1, GoOn
  <2>3. MergeFits(u)'
    BY <1>3, <2>2, EndsFits DEF Kill
  <2> QED
    BY <1>1, <1>3, <2>2, <2>3, MergeMoves DEF Kill, GoesOn, IInv, TypeOK
<1> QED
  BY <1>2, <1>3

(* commit_of *)
LEMMA CommitMergeKeeps == ASSUME IInv, NEW u \in Units, CommitMerge(u) PROVE IInv'
<1>1. Becomes(u, Idle) /\ MergeFits(u)' /\ Idle.phase = "idle"
  BY IdleIs DEF CommitMerge, Idle
<1>2. Tip(branch[u]) \in Trees
  BY TipIs DEF IInv, TypeOK
<1>3. status' \in [Units -> Statuses] /\ landed' \in [Units -> Trees]
  BY <1>2 DEF CommitMerge, IInv, TypeOK, Statuses
<1> QED
  BY <1>1, <1>3, MergeMoves DEF CommitMerge, spent, IInv, TypeOK

(* close *)
LEMMA CloseKeeps == ASSUME IInv, NEW u \in Units, Close(u) PROVE IInv'
<1>1. Becomes(u, Idle) /\ MergeFits(u)' /\ Idle.phase = "idle"
  BY IdleIs DEF Close, Idle
<1> QED
  BY <1>1, MergeMoves DEF Close, spent, IInv, TypeOK

(* An undo fails and the run is closed. *)
LEMMA UndoFailsKeeps == ASSUME IInv, NEW u \in Units, UndoFails(u) PROVE IInv'
<1>1. Becomes(u, Idle) /\ MergeFits(u)' /\ Idle.phase = "idle"
  BY IdleIs DEF UndoFails, Idle
<1>2. faults' \in 0..MaxFaults
  BY ConstantsAssumption DEF IInv, TypeOK, UndoFails
<1> QED
  BY <1>1, <1>2, MergeMoves DEF UndoFails, IInv, TypeOK

(* Forward::undo *)
LEMMA UndoForwardKeeps == ASSUME IInv, NEW u \in Units, UndoForward(u) PROVE IInv'
<1>1. PICK o : GoesOn(u, o, "undo", op[u].at - 1)
  BY GoBack DEF UndoForward, Undoing, Undone
<1>2. MergeFits(u)'
  BY <1>1, BackFits DEF UndoForward, Undoing, Step
<1>3. target' \in Histories
  BY DEF UndoForward, Undoing, IInv, MergeFits
<1>4. unwound' \in Trees
  <2>1. target \in Seq(Trees)
    BY DEF IInv, TypeOK, Histories
  <2>2. Reach(target) \subseteq Changes
    BY <2>1 DEF Reach, ToSet, Trees
  <2> QED
    BY <2>2 DEF UndoForward, IInv, TypeOK, Trees
<1> QED
  BY <1>1, <1>2, <1>3, <1>4, MergeMoves DEF UndoForward, Undoing, GoesOn, spent, IInv, TypeOK

(* FetchTarget::undo *)
LEMMA UndoFetchKeeps == ASSUME IInv, NEW u \in Units, UndoFetch(u) PROVE IInv'
<1>1. PICK o : GoesOn(u, o, "undo", op[u].at - 1)
  BY GoBack DEF UndoFetch, Undoing, Undone
<1>2. MergeFits(u)'
  BY <1>1, BackFits DEF UndoFetch, Undoing, Step
<1> QED
  BY <1>1, <1>2, MergeMoves DEF UndoFetch, Undoing, GoesOn, spent, IInv, TypeOK

(* run: what the home holds is recorded, and the merge begins. *)
LEMMA StartKeeps == ASSUME IInv, NEW u \in Units, Start(u) PROVE IInv'
<1> DEFINE whole == CommitAll(branch[u], tree[u])
           quiet == op[u].head = branch[u]
           fresh == premerge[u] = NoCommit /\ ~Rebasing(u)
           n == [op[u] EXCEPT !.phase = "mark"]
           m == [n EXCEPT !.found = tree[u]]
           l == [m EXCEPT !.quiet = quiet]
           o == [l EXCEPT !.fresh = fresh]
<1>1. /\ op[u] \in Merges /\ op[u].at = 0 /\ op[u].phase = "planned" /\ MergeFits(u)
      /\ branch[u] \in Histories /\ tree[u] \in Trees
  BY DEF IInv, TypeOK, MergeFits, Start
<1>2. n \in Merges /\ n.phase = "mark" /\ n.at = 0 /\ n.steps = op[u].steps
      /\ n.oid = op[u].oid /\ n.head = op[u].head
  BY <1>1 DEF Merges
<1> HIDE DEF n
<1>3. m \in Merges /\ m.phase = "mark" /\ m.at = 0 /\ m.steps = op[u].steps
      /\ m.oid = op[u].oid /\ m.head = op[u].head /\ m.found = tree[u]
  BY <1>1, <1>2 DEF Merges
<1> HIDE DEF m
<1>4. l \in Merges /\ l.phase = "mark" /\ l.at = 0 /\ l.steps = op[u].steps
      /\ l.oid = op[u].oid /\ l.head = op[u].head /\ l.found = tree[u]
      /\ (l.quiet = TRUE => op[u].head = branch[u])
  BY <1>3 DEF Merges
<1> HIDE DEF l, quiet
<1>5. o \in Merges /\ o.phase = "mark" /\ o.at = 0 /\ o.steps = op[u].steps
      /\ o.oid = op[u].oid /\ o.head = op[u].head /\ o.found = tree[u]
      /\ (o.quiet = TRUE => op[u].head = branch[u])
      /\ (o.fresh = TRUE => premerge[u] = NoCommit /\ ~Rebasing(u))
  BY <1>4 DEF Merges
<1>6. op' = [op EXCEPT ![u] = o]
  BY DEF IInv, TypeOK, Start, n, m, l, quiet
<1> HIDE DEF o, fresh
<1>7. op'[u] = o /\ \A v \in Units : v # u => op'[v] = op[v]
  BY <1>6 DEF IInv, TypeOK
<1>8. whole \in Histories /\ Reach(branch[u]) \cup tree[u] \subseteq Reach(whole)
  BY <1>1, CommitAllIs
<1>9. /\ records' \in [Units -> SUBSET Histories] /\ whole \in records'[u]
      /\ \A v \in Units : records[v] \subseteq records'[v]
  BY <1>8 DEF IInv, TypeOK, Start
<1> HIDE DEF whole
<1>10. TypeOK'
  <2>1. op' \in [Units -> Merges] /\ \A v \in Units : op'[v].at \in 0..Len(op'[v].steps)
    BY <1>1, <1>5, <1>6, <1>7 DEF IInv, TypeOK
  <2>2. UNCHANGED <<branch, tree, rebase, premerge, target, remote, status, here, pushed,
                    listed, foreign, stray, landed, unwound, merges, changes, faults>>
    BY DEF Start, spent
  <2> QED
    BY <1>9, <2>1, <2>2 DEF IInv, TypeOK
<1>11. NothingLost'
  <2>1. ASSUME NEW i \in 1..changes PROVE Found(i)'
    <3>1. CASE i \in foreign \cup stray
      BY <3>1 DEF Found, Start
    <3>2. ASSUME NEW v \in Units, NEW c \in records[v], i \in Reach(c) PROVE Found(i)'
      BY <1>9, <3>2 DEF Found
    <3>3. ASSUME NEW v \in Units, AtRest(v), i \in Reach(branch[v]) \cup tree[v], v # u
          PROVE  Found(i)'
      BY <1>7, <3>3 DEF Found, AtRest, Rebasing, Start
    <3>4. CASE i \in Reach(branch[u]) \cup tree[u]
      BY <1>8, <1>9, <3>4 DEF Found
    <3> QED
      BY <3>1, <3>2, <3>3, <3>4 DEF IInv, NothingLost, Found
  <2> QED
    BY <2>1 DEF NothingLost, Start, spent
<1>12. MergeFits(u)'
  <2>1. Watched(u)' => SquashFits(op[u].steps) /\ op[u].head = branch[u]
                      /\ premerge[u] = NoCommit /\ ~Rebasing(u)
    BY <1>1, <1>5, <1>7 DEF Watched, MergeFits, PlanFits
  <2>2. Watched(u)' => Unrecorded(u)'
    BY <1>1, <1>5, <1>7, <2>1
       DEF Unrecorded, Whole, RecordAt, Start, Rebasing
  <2> QED
    BY <1>1, <1>5, <1>7, <2>1, <2>2 DEF MergeFits, Start
<1>13. \A v \in Units : MergeFits(v)'
  BY <1>7, <1>12, Elsewhere DEF IInv, Start, SameUnit
<1> QED
  BY <1>10, <1>11, <1>13 DEF IInv

(* fast_forward *)
LEMMA ForwardKeeps == ASSUME IInv, NEW u \in Units, Forward(u) PROVE IInv'
<1>1. op[u].phase = "act" /\ op[u].at > 0 /\ op[u].steps[op[u].at] = "forward" /\ UNCHANGED home
  BY DEF Forward, Doing, Step, IInv, MergeFits
<1>2. \E o : Becomes(u, o) /\ o.phase \in {"mark", "undo"} /\ MergeFits(u)'
  <2>1. ASSUME NEW what \in {"stopped", "sent"}, Sent(u, what)
        PROVE  \E o : GoesOn(u, o, "mark", op[u].at)
    <3> DEFINE n == [op[u] EXCEPT !.phase = "mark"]
               o == [n EXCEPT !.sent = what]
    <3>1. op[u] \in Merges /\ op[u].at \in 0..Len(op[u].steps)
      BY DEF IInv, TypeOK
    <3>2. n \in Merges /\ SameMerge(n, op[u]) /\ n.phase = "mark" /\ n.at = op[u].at
      BY <3>1 DEF Merges, SameMerge
    <3> HIDE DEF n
    <3>3. o \in Merges /\ SameMerge(o, op[u]) /\ o.phase = "mark" /\ o.at = op[u].at
      BY <3>1, <3>2 DEF Merges, SameMerge
    <3>4. op' = [op EXCEPT ![u] = o]
      BY <2>1 DEF IInv, TypeOK, Sent, n
    <3>5. o.at \in 0..Len(o.steps)
      BY <3>1, <3>3 DEF SameMerge
    <3> QED
      BY <3>3, <3>4, <3>5 DEF GoesOn, Becomes
  <2>2. CASE Sent(u, "stopped") \/ Sent(u, "sent")
    BY <1>1, <2>1, <2>2, DoneFits DEF GoesOn
  <2>3. CASE Failed(u)
    BY <1>1, <2>3, GoOn, EndsFits DEF Failed, GoesOn
  <2> QED
    BY <2>2, <2>3 DEF Forward
<1>3. target' \in Histories /\ faults' \in 0..MaxFaults
  BY ConstantsAssumption DEF Forward, IInv, TypeOK
<1> QED
  BY <1>1, <1>2, <1>3, MergeMoves DEF Forward, IInv, TypeOK

-----------------------------------------------------------------------------
(***************************************************************************)
(* The steps that change a home.                                           *)
(***************************************************************************)

(* A home changes that no work rests in. *)
LEMMA HomeMoves ==
    ASSUME IInv, NEW u \in Units, ~AtRest(u),
           \A v \in Units : v # u => SameUnit(v),
           branch' \in [Units -> Histories], tree' \in [Units -> Trees],
           rebase' \in [Units -> [onto : Commits, resolved : BOOLEAN]],
           premerge' \in [Units -> Commits], op' \in [Units -> Merges],
           op'[u].at \in 0..Len(op'[u].steps),
           UNCHANGED <<records, target, remote, status, here, pushed, listed, foreign,
                       stray, landed, unwound, spent>>,
           MergeFits(u)'
    PROVE  IInv'
<1>1. TypeOK'
  BY DEF IInv, TypeOK, SameUnit, spent
<1>2. NothingLost'
  BY StillFound DEF IInv, SameUnit, AtRest, Rebasing, spent
<1>3. \A v \in Units : MergeFits(v)'
  BY Elsewhere DEF IInv
<1> QED
  BY <1>1, <1>2, <1>3 DEF IInv

(* A step gives the home of a unit a branch, a tree, a rebase and a record. *)
Moves(u, b, t, r, p) ==
    /\ branch' = [branch EXCEPT ![u] = b] /\ tree' = [tree EXCEPT ![u] = t]
    /\ rebase' = [rebase EXCEPT ![u] = r] /\ premerge' = [premerge EXCEPT ![u] = p]
    /\ UNCHANGED <<records, target, remote, status, here, pushed, listed, foreign,
                   stray, landed, unwound, spent>>
Homely(b, t, r, p) ==
    /\ b \in Histories /\ t \in Trees /\ r \in [onto : Commits, resolved : BOOLEAN]
    /\ p \in Commits

(* What HomeMoves asks, of a step of a merge that goes on. *)
LEMMA ActMoves ==
    ASSUME IInv, NEW u \in Units, NEW o, NEW phase \in {"mark", "act", "undo", "dead"}, NEW at,
           GoesOn(u, o, phase, at), op[u].phase \in {"mark", "act", "undo", "dead"},
           NEW b, NEW t, NEW r, NEW p, Moves(u, b, t, r, p), Homely(b, t, r, p),
           MergeFits(u)'
    PROVE  IInv'
<1>1. op' \in [Units -> Merges] /\ op'[u].at \in 0..Len(op'[u].steps)
      /\ \A v \in Units : v # u => op'[v] = op[v]
  BY DEF GoesOn, Becomes, IInv, TypeOK
<1>2. \A v \in Units : v # u => SameUnit(v)
  BY <1>1 DEF SameUnit, IInv, TypeOK, Moves
<1>3. ~AtRest(u)
  BY DEF AtRest
<1>4. /\ branch' \in [Units -> Histories] /\ tree' \in [Units -> Trees]
      /\ rebase' \in [Units -> [onto : Commits, resolved : BOOLEAN]]
      /\ premerge' \in [Units -> Commits]
  BY DEF IInv, TypeOK, Moves, Homely
<1> QED
  BY <1>1, <1>2, <1>3, <1>4, HomeMoves DEF Moves

(* What a unit's variables are after such a step. *)
After(u, o, b, t, r, p) ==
    /\ op'[u] = o /\ branch'[u] = b /\ tree'[u] = t /\ rebase'[u] = r /\ premerge'[u] = p

(* CommitWork *)
LEMMA CommitWorkKeeps == ASSUME IInv, NEW u \in Units, CommitWork(u) PROVE IInv'
<1> DEFINE b == CommitAll(branch[u], tree[u])
<1>1. /\ op[u].phase = "act" /\ op[u].at > 0 /\ op[u].steps[op[u].at] = "commit" /\ MergeFits(u)
      /\ branch[u] \in Histories /\ tree[u] \in Trees
      /\ rebase[u] \in [onto : Commits, resolved : BOOLEAN] /\ premerge[u] \in Commits
  BY DEF CommitWork, Doing, Step, IInv, MergeFits, TypeOK
<1>2. PICK o : GoesOn(u, o, "mark", op[u].at)
  BY GoOn DEF CommitWork, Acted
<1>3. Homely(b, tree[u], rebase[u], premerge[u])
  BY <1>1, CommitAllIs DEF Homely
<1>4. Moves(u, b, tree[u], rebase[u], premerge[u])
  BY DEF CommitWork, IInv, TypeOK, Moves
<1>5. After(u, o, b, tree[u], rebase[u], premerge[u])
  BY <1>2, <1>4 DEF After, Moves, GoesOn, Becomes, IInv, TypeOK
<1>6. MergeFits(u)'
  <2>1. Watched(u)' => Watched(u)
    BY <1>1, <1>2, <1>5 DEF Watched, GoesOn, SameMerge, After
  <2>2. ASSUME Watched(u) PROVE premerge[u] = NoCommit /\ Unrecorded(u)'
    <3>1. SquashFits(op[u].steps) /\ RecordAt(op[u].steps) \in {2, 3} /\ op[u].at \in Nat
          /\ op[u].at <= Len(op[u].steps)
      BY <2>2, Plan
    <3>6. op[u].at = 2 /\ RecordAt(op[u].steps) = 3
      BY <1>1, <3>1, StepIs
    <3>2. premerge[u] = NoCommit
      BY <1>1, <2>2, <3>1, <3>6 DEF MergeFits, Recorded
    <3>3. Unrecorded(u)
      BY <1>1, <2>2, <3>2 DEF MergeFits
    <3>5. b = Whole(u)
      BY <1>1, <3>3, <3>6 DEF Unrecorded, Whole
    <3> QED
      BY <1>1, <1>2, <1>5, <3>2, <3>3, <3>5, <3>6
         DEF Unrecorded, Whole, GoesOn, SameMerge, Rebasing, After
  <2> QED
    BY <1>1, <1>2, <1>5, <2>1, <2>2 DEF MergeFits, GoesOn, SameMerge, After
<1> HIDE DEF b
<1> QED
  BY <1>1, <1>2, <1>3, <1>4, <1>6, ActMoves

(* RecordPremerge *)
LEMMA RecordPremergeKeeps == ASSUME IInv, NEW u \in Units, RecordPremerge(u) PROVE IInv'
<1> DEFINE p == IF premerge[u] = NoCommit THEN branch[u] ELSE premerge[u]
<1>1. /\ op[u].phase = "act" /\ op[u].at > 0 /\ op[u].steps[op[u].at] = "record" /\ MergeFits(u)
      /\ branch[u] \in Histories /\ tree[u] \in Trees
      /\ rebase[u] \in [onto : Commits, resolved : BOOLEAN] /\ premerge[u] \in Commits
  BY DEF RecordPremerge, Doing, Step, IInv, MergeFits, TypeOK
<1>2. PICK o : GoesOn(u, o, "mark", op[u].at)
  BY GoOn DEF RecordPremerge, Acted
<1>3. Homely(branch[u], tree[u], rebase[u], p) /\ p # NoCommit
  BY <1>1 DEF Commits, Histories, Homely
<1>4. Moves(u, branch[u], tree[u], rebase[u], p)
  BY DEF RecordPremerge, IInv, TypeOK, Moves
<1>5. After(u, o, branch[u], tree[u], rebase[u], p)
  BY <1>2, <1>4 DEF After, Moves, GoesOn, Becomes, IInv, TypeOK
<1>6. MergeFits(u)'
  <2>1. Watched(u)' => Watched(u)
    BY <1>1, <1>2, <1>5 DEF Watched, GoesOn, SameMerge, After
  <2>2. ASSUME Watched(u) PROVE Recorded(u)'
    <3>1. SquashFits(op[u].steps) /\ RecordAt(op[u].steps) \in {2, 3} /\ op[u].at \in Nat
          /\ op[u].at <= Len(op[u].steps)
      BY <2>2, Plan
    <3>2. op[u].at = RecordAt(op[u].steps)
      BY <1>1, <3>1, StepIs
    <3>3. premerge[u] = NoCommit
      BY <1>1, <2>2, <3>1, <3>2 DEF MergeFits, Recorded
    <3>4. Unrecorded(u) /\ branch[u] = Whole(u)
      BY <1>1, <2>2, <3>2, <3>3 DEF MergeFits, Unrecorded
    <3> QED
      BY <1>1, <1>2, <1>5, <3>1, <3>2, <3>3, <3>4
         DEF Unrecorded, Recorded, Tried, Whole, GoesOn, SameMerge, Rebasing, After
  <2> QED
    BY <1>1, <1>2, <1>3, <1>5, <2>1, <2>2 DEF MergeFits, GoesOn, SameMerge, After
<1> HIDE DEF p
<1> QED
  BY <1>1, <1>2, <1>3, <1>4, <1>6, ActMoves

(* What a step of a merge finds. *)
LEMMA Finds ==
    ASSUME IInv, NEW u \in Units
    PROVE  /\ MergeFits(u) /\ branch[u] \in Histories /\ tree[u] \in Trees
           /\ rebase[u] \in [onto : Commits, resolved : BOOLEAN] /\ premerge[u] \in Commits
BY DEF IInv, TypeOK

(* A watched merge stays one that was. *)
LEMMA StillWatched ==
    ASSUME NEW u \in Units, NEW o, NEW phase, NEW at, GoesOn(u, o, phase, at), op'[u] = o,
           op[u].phase \in {"mark", "act", "undo", "dead"}
    PROVE  Watched(u)' => Watched(u)
BY DEF Watched, GoesOn, SameMerge

(* Where the step a watched merge is at stands in its plan. *)
LEMMA PlanAt ==
    ASSUME IInv, NEW u \in Units, Watched(u), op[u].at > 0,
           NEW step, step = op[u].steps[op[u].at],
           NEW record, record = RecordAt(op[u].steps)
    PROVE  /\ step = "commit" => op[u].at = 2 /\ record = 3
           /\ step = "record" => op[u].at = record
           /\ step = "squash" => op[u].at = record + 1
           /\ step = "rebase" => op[u].at = record + 2
<1>1. SquashFits(op[u].steps) /\ record \in {2, 3} /\ op[u].at \in Nat
      /\ op[u].at <= Len(op[u].steps)
  BY Plan
<1>2. CASE op[u].at > record + 1
  <2>1. step \in {"rebase", "forward"} /\ (step = "rebase" => op[u].at = record + 2)
    BY <1>1, <1>2 DEF SquashFits
  <2> QED
    BY <2>1
<1>3. CASE op[u].at = record + 1 \/ op[u].at = record
  BY <1>1, <1>3 DEF SquashFits
<1>4. CASE op[u].at < record
  <2>1. op[u].at = 1 \/ (op[u].at = 2 /\ record = 3)
    BY <1>1, <1>4
  <2>2. op[u].at = 1 => step = "fetch"
    BY <1>1 DEF SquashFits
  <2>3. record = 3 => op[u].steps[2] = "commit"
    BY DEF RecordAt
  <2> QED
    BY <2>1, <2>2, <2>3
<1> QED
  BY <1>1, <1>2, <1>3, <1>4

(* Squash *)
LEMMA SquashBranchKeeps == ASSUME IInv, NEW u \in Units, SquashBranch(u) PROVE IInv'
<1> DEFINE b == Squash(branch[u], op[u].oid)
<1>1. /\ op[u].phase = "act" /\ op[u].at > 0 /\ op[u].steps[op[u].at] = "squash"
      /\ op[u].oid \in Histories
  BY Finds DEF SquashBranch, Doing, Step, MergeFits
<1>2. PICK o : GoesOn(u, o, "mark", op[u].at)
  BY GoOn DEF SquashBranch, Acted
<1>3. Homely(b, tree[u], rebase[u], premerge[u]) /\ Tip(b) = Tip(branch[u])
  BY <1>1, Finds, SquashIs DEF Homely
<1>4. Moves(u, b, tree[u], rebase[u], premerge[u])
  BY DEF SquashBranch, IInv, TypeOK, Moves
<1>5. After(u, o, b, tree[u], rebase[u], premerge[u])
  BY <1>2, <1>4 DEF After, Moves, GoesOn, Becomes, IInv, TypeOK
<1>6. MergeFits(u)'
  <2>1. Watched(u)' => Watched(u)
    BY <1>1, <1>2, <1>5, StillWatched DEF After
  <2>2. ASSUME Watched(u) PROVE premerge[u] # NoCommit /\ Recorded(u)'
    <3>1. SquashFits(op[u].steps) /\ RecordAt(op[u].steps) \in {2, 3} /\ op[u].at \in Nat
          /\ op[u].at <= Len(op[u].steps)
      BY <2>2, Plan
    <3>2. op[u].at = RecordAt(op[u].steps) + 1
      BY <1>1, <2>2, PlanAt
    <3>3. premerge[u] # NoCommit
      BY <2>2, <3>1, <3>2, Finds DEF MergeFits, Unrecorded
    <3>4. Recorded(u) /\ branch[u] = Whole(u)
      BY <1>1, <2>2, <3>2, <3>3, Finds DEF MergeFits, Recorded
    <3>5. ~Tried(u) /\ ~Tried(u)' /\ Whole(u)' = Whole(u)
      BY <1>2, <1>5, <3>1, <3>2 DEF Tried, Whole, GoesOn, SameMerge, After
    <3> QED
      BY <1>1, <1>2, <1>3, <1>5, <3>1, <3>2, <3>3, <3>4, <3>5
         DEF Recorded, GoesOn, SameMerge, Rebasing, After
  <2> QED
    BY <1>1, <1>2, <1>5, <2>1, <2>2, Finds DEF MergeFits, GoesOn, SameMerge, After
<1> HIDE DEF b
<1> QED
  BY <1>1, <1>2, <1>3, <1>4, <1>6, ActMoves

(* CommitWork::undo *)
LEMMA UndoCommitKeeps == ASSUME IInv, NEW u \in Units, UndoCommit(u) PROVE IInv'
<1>1. /\ op[u].phase = "undo" /\ op[u].at > 0 /\ op[u].steps[op[u].at] = "commit"
      /\ op[u].head \in Histories
  BY Finds DEF UndoCommit, Undoing, Step, MergeFits
<1>2. PICK o : GoesOn(u, o, "undo", op[u].at - 1)
  BY <1>1, GoBack DEF UndoCommit, Undone
<1>3. Homely(op[u].head, tree[u], rebase[u], premerge[u])
  BY <1>1, Finds DEF Homely
<1>4. Moves(u, op[u].head, tree[u], rebase[u], premerge[u])
  BY DEF UndoCommit, Uncommit, IInv, TypeOK, Moves
<1>5. After(u, o, op[u].head, tree[u], rebase[u], premerge[u])
  BY <1>2, <1>4 DEF After, Moves, GoesOn, Becomes, IInv, TypeOK
<1>6. MergeFits(u)'
  <2>1. Watched(u)' => Watched(u)
    BY <1>1, <1>2, <1>5, StillWatched DEF After
  <2>2. ASSUME Watched(u) PROVE premerge[u] = NoCommit /\ Unrecorded(u)'
    <3>1. SquashFits(op[u].steps) /\ RecordAt(op[u].steps) \in {2, 3} /\ op[u].at \in Nat
          /\ op[u].at <= Len(op[u].steps)
      BY <2>2, Plan
    <3>2. op[u].at = 2 /\ RecordAt(op[u].steps) = 3
      BY <1>1, <2>2, PlanAt
    <3>4. premerge[u] = NoCommit /\ Unrecorded(u)
      BY <2>2, <3>1, <3>2, Finds DEF MergeFits, Recorded
    <3>5. op'[u].at = 1 /\ op'[u].phase = "undo" /\ RecordAt(op'[u].steps) = 3
      BY <1>2, <1>5, <3>2 DEF GoesOn, SameMerge, After
    <3> QED
      BY <1>2, <1>5, <3>2, <3>4, <3>5
         DEF Unrecorded, Whole, GoesOn, SameMerge, Rebasing, After
  <2> QED
    BY <1>1, <1>2, <1>5, <2>1, <2>2, Finds DEF MergeFits, GoesOn, SameMerge, After
<1> QED
  BY <1>1, <1>2, <1>3, <1>4, <1>6, ActMoves

(* RecordPremerge::undo *)
LEMMA UndoRecordKeeps == ASSUME IInv, NEW u \in Units, UndoRecord(u) PROVE IInv'
<1>1. op[u].phase = "undo" /\ op[u].at > 0 /\ op[u].steps[op[u].at] = "record"
  BY DEF UndoRecord, Undoing, Step
<1>2. PICK o : GoesOn(u, o, "undo", op[u].at - 1)
  BY <1>1, GoBack DEF UndoRecord, Undone
<1>3. Homely(branch[u], tree[u], rebase[u], NoCommit)
  BY Finds DEF Homely, Commits
<1>4. Moves(u, branch[u], tree[u], rebase[u], NoCommit)
  BY DEF UndoRecord, IInv, TypeOK, Moves
<1>5. After(u, o, branch[u], tree[u], rebase[u], NoCommit)
  BY <1>2, <1>4 DEF After, Moves, GoesOn, Becomes, IInv, TypeOK
<1>6. MergeFits(u)'
  <2>1. Watched(u)' => Watched(u)
    BY <1>1, <1>2, <1>5, StillWatched DEF After
  <2>2. ASSUME Watched(u) PROVE Unrecorded(u)'
    <3>1. SquashFits(op[u].steps) /\ RecordAt(op[u].steps) \in {2, 3} /\ op[u].at \in Nat
          /\ op[u].at <= Len(op[u].steps)
      BY <2>2, Plan
    <3>2. op[u].at = RecordAt(op[u].steps)
      BY <1>1, <2>2, PlanAt
    <3>3. ~Tried(u) /\ (RecordAt(op[u].steps) # 3 => Whole(u) = op[u].head)
      BY <3>1, <3>2 DEF Tried, Whole
    <3>4. CASE premerge[u] = NoCommit
      <4>1. Unrecorded(u)
        BY <2>2, <3>4, Finds DEF MergeFits
      <4> QED
        BY <1>1, <1>2, <1>5, <3>1, <3>2, <3>3, <4>1
           DEF Unrecorded, Whole, GoesOn, SameMerge, Rebasing, After
    <3>5. CASE premerge[u] # NoCommit
      <4>1. Recorded(u)
        BY <2>2, <3>5, Finds DEF MergeFits
      <4>2. branch[u] = Whole(u) /\ ~Rebasing(u) /\ tree[u] = op[u].found
        BY <3>2, <3>3, <4>1 DEF Recorded
      <4> QED
        BY <1>1, <1>2, <1>5, <3>1, <3>2, <3>3, <4>2
           DEF Unrecorded, Whole, GoesOn, SameMerge, Rebasing, After
    <3> QED
      BY <3>4, <3>5
  <2> QED
    BY <1>1, <1>2, <1>5, <2>1, <2>2, Finds DEF MergeFits, GoesOn, SameMerge, After
<1> QED
  BY <1>1, <1>2, <1>3, <1>4, <1>6, ActMoves

(* restore_head, as far as a merge that is undone goes. *)
RestoredBranch(u) == IF premerge[u] = NoCommit THEN branch[u] ELSE premerge[u]
RestoredTree(u) ==
    IF premerge[u] = NoCommit THEN tree[u] ELSE TreeAfterMove(branch[u], tree[u], premerge[u])
LEMMA RestoreIs ==
    ASSUME IInv, NEW u \in Units
    PROVE  /\ RestoredBranch(u) \in Histories /\ RestoredTree(u) \in Trees
           /\ RestoreHead(u) => /\ branch' = [branch EXCEPT ![u] = RestoredBranch(u)]
                                /\ tree' = [tree EXCEPT ![u] = RestoredTree(u)]
<1>1. premerge[u] # NoCommit => premerge[u] \in Histories
  BY Finds DEF Commits
<1>2. RestoredBranch(u) \in Histories /\ RestoredTree(u) \in Trees
  BY <1>1, Finds, MovedTreeIs DEF RestoredBranch, RestoredTree
<1>3. CASE premerge[u] = NoCommit
  BY <1>2, <1>3 DEF RestoreHead, RestoredBranch, RestoredTree, IInv, TypeOK
<1>4. CASE premerge[u] # NoCommit
  BY <1>2, <1>4 DEF RestoreHead, RestoredBranch, RestoredTree, IInv, TypeOK
<1> QED
  BY <1>2, <1>3, <1>4

(* What a watched merge that has recorded its tip goes back to. *)
LEMMA RestoredFits ==
    ASSUME IInv, NEW u \in Units, Recorded(u), premerge[u] # NoCommit
    PROVE  RestoredBranch(u) = Whole(u) /\ RestoredTree(u) = op[u].found
<1>1. premerge[u] \in Histories /\ premerge[u] = Whole(u)
  BY Finds DEF Commits, Recorded
<1>2. \/ tree[u] = op[u].found /\ Tip(branch[u]) = Tip(premerge[u])
      \/ tree[u] = Tip(branch[u]) /\ op[u].found = Tip(premerge[u])
  BY <1>1 DEF Recorded
<1>3. TreeAfterMove(branch[u], tree[u], premerge[u]) = op[u].found
  BY <1>1, <1>2, Finds, MovedTreeIs
<1> QED
  BY <1>1, <1>3 DEF RestoredBranch, RestoredTree

(* Squash::undo *)
LEMMA UndoSquashKeeps == ASSUME IInv, NEW u \in Units, UndoSquash(u) PROVE IInv'
<1> DEFINE b == RestoredBranch(u)
           t == RestoredTree(u)
<1>1. op[u].phase = "undo" /\ op[u].at > 0 /\ op[u].steps[op[u].at] = "squash"
  BY DEF UndoSquash, Undoing, Step
<1>2. PICK o : GoesOn(u, o, "undo", op[u].at - 1)
  BY <1>1, GoBack DEF UndoSquash, Undone
<1>3. Homely(b, t, rebase[u], premerge[u])
  BY Finds, RestoreIs DEF Homely
<1>4. Moves(u, b, t, rebase[u], premerge[u])
  BY RestoreIs DEF UndoSquash, IInv, TypeOK, Moves
<1>5. After(u, o, b, t, rebase[u], premerge[u])
  BY <1>2, <1>4 DEF After, Moves, GoesOn, Becomes, IInv, TypeOK
<1>6. MergeFits(u)'
  <2>1. Watched(u)' => Watched(u)
    BY <1>1, <1>2, <1>5, StillWatched DEF After
  <2>2. ASSUME Watched(u) PROVE premerge[u] # NoCommit /\ Recorded(u)'
    <3>1. RecordAt(op[u].steps) \in {2, 3} /\ op[u].at \in Nat
          /\ op[u].at = RecordAt(op[u].steps) + 1
      BY <1>1, <2>2, Plan, PlanAt
    <3>2. premerge[u] # NoCommit /\ Recorded(u)
      BY <2>2, <3>1, Finds DEF MergeFits, Unrecorded
    <3>3. b = Whole(u) /\ t = op[u].found
      BY <3>2, RestoredFits
    <3>4. ~Tried(u) /\ ~Tried(u)' /\ Whole(u)' = Whole(u)
      BY <1>2, <1>5, <3>1 DEF Tried, Whole, GoesOn, SameMerge, After
    <3>5. ~Rebasing(u)
      BY <3>2, <3>4 DEF Recorded
    <3>6. op'[u].at = RecordAt(op'[u].steps) /\ op'[u].phase = "undo"
      BY <1>2, <1>5, <3>1 DEF GoesOn, SameMerge, After
    <3> QED
      BY <1>2, <1>5, <3>1, <3>2, <3>3, <3>4, <3>5, <3>6
         DEF Recorded, GoesOn, SameMerge, Rebasing, After
  <2> QED
    BY <1>1, <1>2, <1>5, <2>1, <2>2, Finds DEF MergeFits, GoesOn, SameMerge, After
<1> HIDE DEF b, t
<1> QED
  BY <1>1, <1>2, <1>3, <1>4, <1>6, ActMoves

(* Rebase::undo *)
LEMMA UndoRebaseKeeps == ASSUME IInv, NEW u \in Units, UndoRebase(u) PROVE IInv'
<1> DEFINE b == RestoredBranch(u)
           t == RestoredTree(u)
<1>1. op[u].phase = "undo" /\ op[u].at > 0 /\ op[u].steps[op[u].at] = "rebase"
  BY DEF UndoRebase, Undoing, Step
<1>2. PICK o : GoesOn(u, o, "undo", op[u].at - 1)
  BY <1>1, GoBack DEF UndoRebase, Undone
<1>3. Homely(b, t, NotRebasing, premerge[u])
  BY Finds, RestoreIs DEF Homely, NotRebasing, Commits
<1>4. Moves(u, b, t, NotRebasing, premerge[u])
  BY RestoreIs DEF UndoRebase, IInv, TypeOK, Moves
<1>5. After(u, o, b, t, NotRebasing, premerge[u])
  BY <1>2, <1>4 DEF After, Moves, GoesOn, Becomes, IInv, TypeOK
<1>6. MergeFits(u)'
  <2>1. Watched(u)' => Watched(u)
    BY <1>1, <1>2, <1>5, StillWatched DEF After
  <2>2. ASSUME Watched(u) PROVE premerge[u] # NoCommit /\ Recorded(u)'
    <3>1. RecordAt(op[u].steps) \in {2, 3} /\ op[u].at \in Nat
          /\ op[u].at = RecordAt(op[u].steps) + 2
      BY <1>1, <2>2, Plan, PlanAt
    <3>2. premerge[u] # NoCommit /\ Recorded(u)
      BY <2>2, <3>1, Finds DEF MergeFits, Unrecorded
    <3>3. b = Whole(u) /\ t = op[u].found
      BY <3>2, RestoredFits
    <3>4. ~Rebasing(u)' /\ Whole(u)' = Whole(u)
      BY <1>2, <1>5 DEF Rebasing, NotRebasing, Whole, GoesOn, SameMerge, After
    <3>5. op'[u].at = RecordAt(op'[u].steps) + 1 /\ op'[u].phase = "undo"
      BY <1>2, <1>5, <3>1 DEF GoesOn, SameMerge, After
    <3> QED
      BY <1>2, <1>5, <3>1, <3>2, <3>3, <3>4, <3>5 DEF Recorded, GoesOn, SameMerge, After
  <2> QED
    BY <1>1, <1>2, <1>5, <2>1, <2>2, Finds DEF MergeFits, GoesOn, SameMerge, After
<1> HIDE DEF b, t
<1> QED
  BY <1>1, <1>2, <1>3, <1>4, <1>6, ActMoves

(* What a rebase that ended, stopped or was refused leaves of a merge. *)
LEMMA RebaseFits ==
    ASSUME IInv, NEW u \in Units, NEW o, NEW phase \in {"mark", "undo"}, NEW b, NEW t, NEW r,
           op[u].phase = "act", op[u].at > 0, op[u].steps[op[u].at] = "rebase",
           GoesOn(u, o, phase, op[u].at), After(u, o, b, t, r, premerge[u]),
           \/ b = branch[u] /\ t = tree[u]
           \/ /\ t = Tip(b) /\ r = NotRebasing
              /\ Rebasing(u) \/ tree[u] = Tip(branch[u])
    PROVE  MergeFits(u)'
<1>1. Watched(u)' => Watched(u)
  BY StillWatched DEF After
<1>2. ASSUME Watched(u) PROVE premerge[u] # NoCommit /\ Recorded(u)'
  <2>1. RecordAt(op[u].steps) \in {2, 3} /\ op[u].at \in Nat
        /\ op[u].at = RecordAt(op[u].steps) + 2
    BY <1>2, Plan, PlanAt
  <2>2. premerge[u] # NoCommit /\ Recorded(u)
    BY <1>2, <2>1, Finds DEF MergeFits, Unrecorded
  <2>3. /\ ~Tried(u) /\ Whole(u)' = Whole(u) /\ Tried(u)'
    BY <2>1 DEF Tried, Whole, GoesOn, SameMerge, After
  <2>4. ~Rebasing(u) /\ tree[u] = op[u].found /\ Tip(branch[u]) = Tip(Whole(u))
    BY <2>2, <2>3 DEF Recorded
  <2>5. op'[u].at = RecordAt(op'[u].steps) + 2 /\ op'[u].phase # "act"
    BY <2>1 DEF GoesOn, SameMerge, After
  <2> QED
    BY <2>1, <2>2, <2>3, <2>4, <2>5
       DEF Recorded, GoesOn, SameMerge, After, Rebasing, NotRebasing
<1> QED
  BY <1>1, <1>2, Finds DEF MergeFits, GoesOn, SameMerge, After

(* Rebase *)
LEMMA RebaseBranchKeeps == ASSUME IInv, NEW u \in Units, RebaseBranch(u) PROVE IInv'
<1>1. /\ op[u].phase = "act" /\ op[u].at > 0 /\ op[u].steps[op[u].at] = "rebase"
      /\ op[u].oid \in Histories /\ (Rebasing(u) => rebase[u].onto \in Histories)
  BY Finds DEF RebaseBranch, Doing, Step, MergeFits, Rebasing, Commits
<1>2. PICK phase \in {"mark", "undo"} : \E o : GoesOn(u, o, phase, op[u].at)
  BY GoOn DEF RebaseBranch, Acted, Failed
<1>3. PICK o : GoesOn(u, o, phase, op[u].at)
  BY <1>2
<1>4. ASSUME NEW onto \in Histories, EndRebase(u, onto), Rebasing(u) \/ tree[u] = Tip(branch[u])
      PROVE  IInv'
  <2> DEFINE b == Rebased(branch[u], onto)
  <2>1. b \in Histories /\ Homely(b, Tip(b), NotRebasing, premerge[u])
    BY Finds, RebasedIs, TipIs DEF Homely, NotRebasing, Commits
  <2>2. Moves(u, b, Tip(b), NotRebasing, premerge[u])
    BY <1>4 DEF RebaseBranch, EndRebase, IInv, TypeOK, Moves
  <2>3. After(u, o, b, Tip(b), NotRebasing, premerge[u])
    BY <1>3, <2>2 DEF After, Moves, GoesOn, Becomes, IInv, TypeOK
  <2> HIDE DEF b
  <2>4. MergeFits(u)'
    BY <1>1, <1>3, <1>4, <2>3, RebaseFits
  <2> QED
    BY <1>1, <1>3, <2>1, <2>2, <2>4, ActMoves
<1>5. ASSUME NEW r, branch' = branch, tree' = tree, rebase' = [rebase EXCEPT ![u] = r],
             r \in [onto : Commits, resolved : BOOLEAN]
      PROVE  IInv'
  <2>1. Homely(branch[u], tree[u], r, premerge[u])
    BY <1>5, Finds DEF Homely
  <2>2. Moves(u, branch[u], tree[u], r, premerge[u])
    BY <1>5 DEF RebaseBranch, IInv, TypeOK, Moves
  <2>3. After(u, o, branch[u], tree[u], r, premerge[u])
    BY <1>3, <2>2 DEF After, Moves, GoesOn, Becomes, IInv, TypeOK
  <2>4. MergeFits(u)'
    BY <1>1, <1>3, <2>3, RebaseFits
  <2> QED
    BY <1>1, <1>3, <2>1, <2>2, <2>4, ActMoves
<1>6. CASE UNCHANGED <<branch, tree, rebase>>
  BY <1>5, <1>6, Finds DEF IInv, TypeOK
<1>7. CASE StopRebase(u, op[u].oid)
  BY <1>1, <1>5, <1>7 DEF StopRebase, Commits
<1>8. CASE Rebasing(u) /\ EndRebase(u, rebase[u].onto)
  BY <1>1, <1>4, <1>8
<1>9. CASE tree[u] = Tip(branch[u]) /\ EndRebase(u, op[u].oid)
  BY <1>1, <1>4, <1>9
<1> QED
  BY <1>6, <1>7, <1>8, <1>9 DEF RebaseBranch

-----------------------------------------------------------------------------
(***************************************************************************)
(* What people do in a home, and merge --abort.                            *)
(***************************************************************************)

(* nodal merge --abort finds a stopped rebase, so no work rests in the home. *)
LEMMA AbortKeeps == ASSUME IInv, NEW u \in Units, Abort(u) PROVE IInv'
<1>1. op[u].phase = "idle" /\ Rebasing(u) /\ op' = op
  BY DEF Abort
<1>2. /\ branch' = [branch EXCEPT ![u] = RestoredBranch(u)]
      /\ tree' = [tree EXCEPT ![u] = RestoredTree(u)]
  BY RestoreIs DEF Abort
<1>3. /\ branch' \in [Units -> Histories] /\ tree' \in [Units -> Trees]
      /\ rebase' \in [Units -> [onto : Commits, resolved : BOOLEAN]]
      /\ premerge' \in [Units -> Commits]
  BY <1>2, RestoreIs DEF Abort, IInv, TypeOK, NotRebasing, Commits
<1>4. \A v \in Units : v # u => SameUnit(v)
  BY <1>1, <1>2 DEF Abort, SameUnit, IInv, TypeOK
<1>5. MergeFits(u)'
  BY <1>1, Finds DEF MergeFits, Watched
<1>6. /\ op' \in [Units -> Merges] /\ op'[u].at \in 0..Len(op'[u].steps)
      /\ UNCHANGED <<records, target, remote, status, here, pushed, listed, foreign, stray,
                     landed, unwound, spent>>
  BY <1>1 DEF IInv, TypeOK, Abort
<1> QED
  BY <1>1, <1>3, <1>4, <1>5, <1>6, HomeMoves DEF AtRest

(* The paths of a stopped rebase are resolved. *)
LEMMA ResolvePathsKeeps == ASSUME IInv, NEW u \in Units, ResolvePaths(u) PROVE IInv'
<1>1. Rebasing(u) /\ op' = op /\ branch' = branch /\ tree' = tree /\ premerge' = premerge
  BY DEF ResolvePaths
<1>2. /\ rebase' \in [Units -> [onto : Commits, resolved : BOOLEAN]]
      /\ rebase'[u].onto = rebase[u].onto
  BY DEF ResolvePaths, IInv, TypeOK
<1>3. \A v \in Units : v # u => SameUnit(v)
  BY <1>1 DEF ResolvePaths, SameUnit, IInv, TypeOK
<1>4. MergeFits(u)'
  BY <1>1, <1>2, Finds
     DEF MergeFits, Watched, Unrecorded, Recorded, Tried, Whole, Rebasing
<1>5. /\ op' \in [Units -> Merges] /\ op'[u].at \in 0..Len(op'[u].steps)
      /\ branch' \in [Units -> Histories] /\ tree' \in [Units -> Trees]
      /\ premerge' \in [Units -> Commits]
      /\ UNCHANGED <<records, target, remote, status, here, pushed, listed, foreign, stray,
                     landed, unwound, spent>>
  BY <1>1 DEF IInv, TypeOK, ResolvePaths
<1> QED
  BY <1>1, <1>2, <1>3, <1>4, <1>5, HomeMoves DEF AtRest

(* The home of a merge is touched: nobody watches it any more. *)
LEMMA Disturbed ==
    ASSUME IInv, NEW u \in Units, Unquiet(u)
    PROVE  /\ op' \in [Units -> Merges]
           /\ \A v \in Units : /\ op'[v].phase = op[v].phase
                               /\ op'[v].at \in 0..Len(op'[v].steps)
                               /\ v # u => op'[v] = op[v]
           /\ MergeFits(u)'
<1> DEFINE o == [op[u] EXCEPT !.quiet = FALSE]
<1>1. op[u] \in Merges /\ op[u].at \in 0..Len(op[u].steps)
  BY DEF IInv, TypeOK
<1>2. /\ o \in Merges /\ o.phase = op[u].phase /\ o.at = op[u].at /\ o.steps = op[u].steps
      /\ o.oid = op[u].oid /\ o.head = op[u].head /\ o.quiet = FALSE
  BY <1>1 DEF Merges
<1>3. op' = [op EXCEPT ![u] = o]
  BY DEF Unquiet, IInv, TypeOK
<1> HIDE DEF o
<1>4. op'[u] = o /\ \A v \in Units : v # u => op'[v] = op[v]
  BY <1>3 DEF IInv, TypeOK
<1>5. MergeFits(u)'
  BY <1>2, <1>4, Finds DEF MergeFits, Watched
<1>6. op' \in [Units -> Merges]
  BY <1>2, <1>3 DEF IInv, TypeOK
<1> QED
  BY <1>1, <1>2, <1>4, <1>5, <1>6 DEF IInv, TypeOK

(* A change written in a home is in its tree. *)
LEMMA EditKeeps == ASSUME IInv, NEW u \in Units, Edit(u) PROVE IInv'
<1>1. /\ changes + 1 \in Changes /\ changes' = changes + 1 /\ changes \in Nat
      /\ ~Rebasing(u) /\ Unquiet(u)
      /\ tree' = [tree EXCEPT ![u] = tree[u] \cup {changes + 1}]
      /\ UNCHANGED <<branch, rebase, premerge, records, target, remote, status, here,
                     pushed, listed, foreign, landed, unwound, merges, faults>>
  BY ConstantsAssumption DEF IInv, TypeOK, Edit, Changes
<1>2. /\ op' \in [Units -> Merges]
      /\ \A v \in Units : /\ op'[v].phase = op[v].phase
                          /\ op'[v].at \in 0..Len(op'[v].steps)
                          /\ v # u => op'[v] = op[v]
      /\ MergeFits(u)'
  BY <1>1, Disturbed
<1>3. stray' \in Trees /\ stray \subseteq stray'
      /\ (op[u].phase \notin {"idle", "planned"} => changes + 1 \in stray')
  BY <1>1 DEF IInv, TypeOK, Edit, Trees
<1>4. /\ tree' \in [Units -> Trees] /\ tree'[u] = tree[u] \cup {changes + 1}
      /\ \A v \in Units : v # u => tree'[v] = tree[v]
  BY <1>1 DEF IInv, TypeOK, Trees
<1>5. TypeOK'
  BY <1>1, <1>2, <1>3, <1>4, ConstantsAssumption DEF IInv, TypeOK, Changes
<1>6. \A v \in Units : AtRest(v) <=> AtRest(v)'
  BY <1>1, <1>2 DEF AtRest, Rebasing
<1>7. NothingLost'
  <2>1. ASSUME NEW i \in 1..changes PROVE Found(i)'
    <3>1. Found(i)
      BY DEF IInv, NothingLost
    <3> QED
      BY <1>1, <1>3, <1>4, <1>6, <3>1 DEF Found
  <2>2. ASSUME NEW i, i = changes + 1 PROVE Found(i)'
    BY <1>1, <1>3, <1>4, <1>6, <2>2 DEF Found, AtRest
  <2>3. \A i \in 1..changes' : i \in 1..changes \/ i = changes + 1
    BY <1>1
  <2> QED
    BY <2>1, <2>2, <2>3 DEF NothingLost
<1>8. \A v \in Units : MergeFits(v)'
  BY <1>1, <1>2, <1>4, Elsewhere DEF IInv, SameUnit
<1> QED
  BY <1>5, <1>7, <1>8 DEF IInv

(* A commit in a home reaches what the branch and the tree hold. *)
LEMMA CommitInHomeKeeps == ASSUME IInv, NEW u \in Units, CommitInHome(u) PROVE IInv'
<1> DEFINE b == CommitAll(branch[u], tree[u])
<1>1. /\ Unquiet(u) /\ branch' = [branch EXCEPT ![u] = b]
      /\ UNCHANGED <<tree, rebase, premerge, records, target, remote, status, here,
                     pushed, listed, foreign, stray, landed, unwound, merges, changes, faults>>
  BY DEF CommitInHome, spent
<1>2. /\ op' \in [Units -> Merges]
      /\ \A v \in Units : /\ op'[v].phase = op[v].phase
                          /\ op'[v].at \in 0..Len(op'[v].steps)
                          /\ v # u => op'[v] = op[v]
      /\ MergeFits(u)'
  BY <1>1, Disturbed
<1>3. b \in Histories /\ Reach(branch[u]) \subseteq Reach(b)
  BY Finds, CommitAllIs
<1> HIDE DEF b
<1>4. /\ branch' \in [Units -> Histories] /\ branch'[u] = b
      /\ \A v \in Units : v # u => branch'[v] = branch[v]
  BY <1>1, <1>3 DEF IInv, TypeOK
<1>5. TypeOK'
  BY <1>1, <1>2, <1>4 DEF IInv, TypeOK
<1>6. \A v \in Units : AtRest(v) <=> AtRest(v)'
  BY <1>1, <1>2 DEF AtRest, Rebasing
<1>7. \A v \in Units : Reach(branch[v]) \subseteq Reach(branch[v])'
  BY <1>3, <1>4
<1>8. NothingLost'
  BY <1>1, <1>6, <1>7 DEF IInv, NothingLost, Found
<1>9. \A v \in Units : MergeFits(v)'
  BY <1>1, <1>2, <1>4, Elsewhere DEF IInv, SameUnit
<1> QED
  BY <1>5, <1>8, <1>9 DEF IInv

-----------------------------------------------------------------------------
(***************************************************************************)
(* The theorems.                                                           *)
(***************************************************************************)

(* The initial states satisfy the invariant. *)
LEMMA InitInv == Init => IInv
<1> SUFFICES ASSUME Init PROVE IInv
  OBVIOUS
<1>1. NothingLost
  BY DEF Init, NothingLost
<1>2. PlanFits(<<>>)
  BY DEF PlanFits, ToSet
<1>3. \A u \in Units : MergeFits(u)
  BY <1>2 DEF Init, MergeFits, Idle, Watched
<1> QED
  BY <1>1, <1>3, InitTypes DEF IInv

(* Every step keeps the invariant. *)
LEMMA StepInv == IInv /\ [Next]_vars => IInv'
<1> SUFFICES ASSUME IInv, [Next]_vars PROVE IInv'
  OBVIOUS
<1>1. CASE UNCHANGED vars
  <2>1. TypeOK'
    BY <1>1 DEF IInv, TypeOK, vars, home, spent
  <2> QED
    BY <1>1, <2>1, HomesStay DEF IInv, vars, spent
<1>2. CASE CommitOnTarget
  BY <1>2, CommitOnTargetKeeps
<1>3. ASSUME NEW u \in Units,
             \/ Edit(u) \/ CommitInHome(u) \/ ResolvePaths(u) \/ Abort(u)
             \/ \E stages \in StageSets[u] : Prepare(u, stages)
      PROVE  IInv'
  BY <1>3, EditKeeps, CommitInHomeKeeps, ResolvePathsKeeps, AbortKeeps, PrepareKeeps
<1>4. ASSUME NEW u \in Units,
             \/ Start(u) \/ Mark(u) \/ FetchTarget(u) \/ CommitWork(u) \/ RecordPremerge(u)
             \/ SquashBranch(u) \/ RebaseBranch(u) \/ Forward(u) \/ CommitMerge(u)
      PROVE  IInv'
  BY <1>4, StartKeeps, MarkKeeps, FetchTargetKeeps, CommitWorkKeeps, RecordPremergeKeeps,
     SquashBranchKeeps, RebaseBranchKeeps, ForwardKeeps, CommitMergeKeeps
<1>5. ASSUME NEW u \in Units,
             \/ Kill(u) \/ TakeOver(u) \/ UndoForward(u) \/ UndoRebase(u) \/ UndoSquash(u)
             \/ UndoRecord(u) \/ UndoCommit(u) \/ UndoFetch(u) \/ UndoFails(u) \/ Close(u)
      PROVE  IInv'
  BY <1>5, KillKeeps, TakeOverKeeps, UndoForwardKeeps, UndoRebaseKeeps, UndoSquashKeeps,
     UndoRecordKeeps, UndoCommitKeeps, UndoFetchKeeps, UndoFailsKeeps, CloseKeeps
<1>6. ASSUME NEW u \in Units,
             Push(u) \/ RecordDone(u) \/ ReadList(u) \/ Settle(u) \/ Reclaim(u)
      PROVE  IInv'
  BY <1>6, PushKeeps, RecordDoneKeeps, ReadListKeeps, SettleKeeps, ReclaimKeeps
<1> QED
  BY <1>1, <1>2, <1>3, <1>4, <1>5, <1>6 DEF Next

(* The invariant holds in every reachable state. *)
THEOREM LandingInvariant == Spec => []IInv
<1> QED
  BY InitInv, StepInv, PTL DEF Spec

(***************************************************************************)
(* Every variable keeps its type: a branch is a history however it was     *)
(* squashed, rebased or put back (git/merge.rs).                           *)
(***************************************************************************)
THEOREM LandingTypesHold == Spec => []TypeOK
<1>1. IInv => TypeOK
  BY DEF IInv
<1> QED
  BY <1>1, LandingInvariant, PTL

(* What is found somewhere is held by a unit, a person, or a late writer. *)
LEMMA FoundIsHeld == IInv => WorkKept
<1> SUFFICES ASSUME IInv, NEW i \in 1..changes,
                    i \notin foreign \cup stray
             PROVE  i \in UNION {Held(u) : u \in Units}
  BY DEF WorkKept
<1>1. Found(i)
  BY DEF IInv, NothingLost
<1>2. PICK u \in Units : i \in Held(u)
  BY <1>1 DEF Found, Held
<1> QED
  BY <1>2

(***************************************************************************)
(* A change that was in a home when a merge began there stays in some tree *)
(* or on some ref: the record taken before the first step reaches it, and  *)
(* nothing drops a record (record of refs/nodal/<id>/pre, Start).          *)
(***************************************************************************)
THEOREM WorkKeptHolds == Spec => []WorkKept
<1> QED
  BY FoundIsHeld, LandingInvariant, PTL

(***************************************************************************)
(* A merge with a squash that is undone to the end puts the home back as   *)
(* it found it, wherever it failed and however often the undoing itself    *)
(* was cut short (restore_head, uncommit, RecordPremerge::undo).           *)
(***************************************************************************)
THEOREM RollbackRestoresHolds == Spec => []RollbackRestores
<1>1. IInv => RollbackRestores
  <2> SUFFICES ASSUME IInv, NEW u \in Units, op[u].phase = "undo", op[u].at = 0,
                      op[u].quiet, op[u].fresh, "squash" \in ToSet(op[u].steps)
               PROVE  /\ branch[u] = op[u].head /\ tree[u] = op[u].found
                      /\ ~Rebasing(u) /\ premerge[u] = NoCommit
    BY DEF RollbackRestores
  <2>1. Watched(u)
    BY DEF Watched
  <2>2. RecordAt(op[u].steps) \in {2, 3} /\ MergeFits(u)
    BY <2>1, Plan, Finds
  <2>3. premerge[u] = NoCommit
    BY <2>1, <2>2 DEF MergeFits, Recorded
  <2> QED
    BY <2>1, <2>2, <2>3 DEF MergeFits, Unrecorded
<1> QED
  BY <1>1, LandingInvariant, PTL

=============================================================================
