------------------------------ MODULE Landing ------------------------------
(***************************************************************************)
(* How the work of a unit lands: nodal merge (lifecycle/ops/merge.rs over  *)
(* git/merge.rs), nodal done (lifecycle/ops/done.rs) and the settling of a *)
(* listed unit as merged (lifecycle/states.rs), with the status of the     *)
(* unit they all write.                                                    *)
(*                                                                         *)
(* A commit is its history: the sequence of the trees on the way to it, so *)
(* an ancestor is a prefix and a rewrite is another sequence.  A tree is   *)
(* the set of the changes it holds.  A merge is a plan run by the journal  *)
(* (module Journal): each step is marked, acts, and is undone in reverse   *)
(* when a later one fails or a later command finds the process gone.  The  *)
(* project's checkout, its target branch and the homes are ordinary        *)
(* repositories that people write at any moment.                           *)
(***************************************************************************)
EXTENDS Naturals, FiniteSets, Sequences, SequencesExt

CONSTANTS
    Units,       \* the units of one project, each with a home of its own
    Adopted,     \* units whose directory stays when they are reclaimed
    StageSets,   \* bound: the combinations of --no- flags a person uses, per unit
    Finished,    \* bound: the units that people push, list and reclaim
    MaxChanges,  \* bound: changes people write, in homes and in the checkout
    MaxMerges,   \* bound: merges started
    MaxFaults    \* bound: kills, refused moves and failed undos

Stages == {"commit", "squash", "rebase"}

ASSUME ConstantsAssumption ==
    /\ Units # {} /\ Adopted \subseteq Units /\ Finished \subseteq Units
    /\ StageSets \in [Units -> SUBSET SUBSET Stages]
    /\ MaxChanges \in Nat /\ MaxMerges \in Nat /\ MaxFaults \in Nat

VARIABLES
    branch,    \* the unit's branch in its home
    tree,      \* the working tree of the home
    rebase,    \* a stopped rebase: where it goes and whether it is resolved
    premerge,  \* refs/nodal/<id>/premerge
    records,   \* refs/nodal/<id>/pre/<operation>: what each run found
    target,    \* the branch the units merge into, in the project's checkout
    remote,    \* the unit's branch on the remote
    status,    \* unit.status
    here,      \* whether the environment has a home
    op,        \* the merge of each unit and how far its journal is
    pushed,    \* a done that has pushed and not yet written its row
    listed,    \* a listing that read the unit as landed and has not settled it
    foreign,   \* history: changes people committed on the target themselves
    stray,     \* history: changes written in a home while a merge was under way
    landed,    \* history: what each unit was recorded as merged with
    unwound,   \* history: changes of others that an undone merge took off the target
    merges, changes, faults

home == <<branch, tree, rebase, premerge, records>>
spent == <<merges, changes, faults>>
vars == <<home, target, remote, status, here, op, pushed, listed, foreign, stray, landed, unwound, spent>>

Changes == 1..MaxChanges
NoCommit == <<>>
Root == <<{}>>
NotListed == [read |-> FALSE, tree |-> {}]
Statuses == {"open", "review", "merged", "archived"}

(***************************************************************************)
(* Git, as git/merge.rs asks it.                                           *)
(***************************************************************************)
Tip(c) == Last(c)
Reach(c) == UNION ToSet(c)

(* is_ancestor *)
IsAncestor(a, b) == IsPrefix(a, b)

(* merge_base *)
MergeBase(a, b) == LongestCommonPrefix({a, b})

(* count of base..c *)
Count(base, c) == Len(c) - Len(base)

(* commit_all: everything the working tree holds, or nothing to commit *)
CommitAll(c, t) == IF t = Tip(c) THEN c ELSE Append(c, t)

(* squash: one commit on the merge base, with the tree the branch has *)
Squash(c, onto) ==
    LET base == MergeBase(onto, c)
    IN  IF Count(base, c) < 2 THEN c ELSE Append(base, Tip(c))

(* One commit replayed on a history; one that changes nothing there is dropped. *)
Replay(c, before, after) == CommitAll(c, (Tip(c) \cup (after \ before)) \ (before \ after))

(* rebase: the commits since the merge base, replayed on the target *)
Rebased(c, onto) ==
    LET first == Len(MergeBase(onto, c))
        upTo[k \in first..Len(c)] ==
            IF k = first THEN onto ELSE Replay(upTo[k - 1], c[k - 1], c[k])
    IN  upTo[Len(c)]

(* restore and move_branch: git reset --keep refuses to lose a local change *)
MayMove(c, t, to) == ((t \ Tip(c)) \cup (Tip(c) \ t)) \cap ((Tip(c) \ Tip(to)) \cup (Tip(to) \ Tip(c))) = {}
TreeAfterMove(c, t, to) == (t \ (Tip(c) \ Tip(to))) \cup (Tip(to) \ Tip(c))

NotRebasing == [onto |-> NoCommit, resolved |-> FALSE]
Rebasing(u) == rebase[u].onto # NoCommit

(***************************************************************************)
(* Shapes.                                                                 *)
(***************************************************************************)
Trees == SUBSET Changes

(* Every history begins with the empty tree the project began with. *)
Histories == {c \in Seq(Trees) : c # NoCommit /\ c[1] = {}}
Commits == Histories \cup {NoCommit}

StepNames == {"fetch", "commit", "record", "squash", "rebase", "forward"}
Idle == [phase |-> "idle", steps |-> <<>>, at |-> 0, oid |-> NoCommit, head |-> NoCommit,
         found |-> {}, sent |-> "none", fresh |-> FALSE, quiet |-> FALSE]
Merges == [phase : {"idle", "planned", "mark", "act", "undo", "dead"}, steps : Seq(StepNames),
           at : Nat, oid : Commits, head : Commits, found : Trees,
           sent : {"none", "stopped", "sent"}, fresh : BOOLEAN, quiet : BOOLEAN]

TypeOK ==
    /\ branch \in [Units -> Histories] /\ tree \in [Units -> Trees]
    /\ rebase \in [Units -> [onto : Commits, resolved : BOOLEAN]]
    /\ premerge \in [Units -> Commits] /\ records \in [Units -> SUBSET Histories]
    /\ target \in Histories /\ remote \in [Units -> Commits]
    /\ status \in [Units -> Statuses] /\ here \in [Units -> BOOLEAN]
    /\ op \in [Units -> Merges] /\ \A u \in Units : op[u].at \in 0..Len(op[u].steps)
    /\ pushed \in [Units -> BOOLEAN] /\ listed \in [Units -> [read : BOOLEAN, tree : Trees]]
    /\ foreign \in Trees /\ stray \in Trees /\ landed \in [Units -> Trees] /\ unwound \in Trees
    /\ merges \in 0..MaxMerges /\ changes \in 0..MaxChanges /\ faults \in 0..MaxFaults

Init ==
    /\ branch = [u \in Units |-> Root] /\ tree = [u \in Units |-> {}]
    /\ rebase = [u \in Units |-> NotRebasing]
    /\ premerge = [u \in Units |-> NoCommit] /\ records = [u \in Units |-> {}]
    /\ target = Root /\ remote = [u \in Units |-> NoCommit]
    /\ status = [u \in Units |-> "open"] /\ here = [u \in Units |-> TRUE]
    /\ op = [u \in Units |-> Idle]
    /\ pushed = [u \in Units |-> FALSE] /\ listed = [u \in Units |-> NotListed]
    /\ foreign = {} /\ stray = {} /\ landed = [u \in Units |-> {}] /\ unwound = {}
    /\ merges = 0 /\ changes = 0 /\ faults = 0

(***************************************************************************)
(* People, in the homes and in the project's checkout.                     *)
(***************************************************************************)
There(u) == here[u] \/ u \in Adopted
Unquiet(u) == op' = [op EXCEPT ![u].quiet = FALSE]

(* A person writes a file in a home. *)
Edit(u) ==
    /\ There(u) /\ ~Rebasing(u) /\ changes < MaxChanges
    /\ changes' = changes + 1
    /\ tree' = [tree EXCEPT ![u] = @ \cup {changes + 1}]
    /\ stray' = IF op[u].phase \in {"idle", "planned"} THEN stray ELSE stray \cup {changes + 1}
    /\ Unquiet(u)
    /\ UNCHANGED <<branch, rebase, premerge, records, target, remote, status, here,
                   pushed, listed, foreign, landed, unwound, merges, faults>>

(* A person commits in a home, which they do not do inside a running merge. *)
CommitInHome(u) ==
    /\ There(u) /\ ~Rebasing(u) /\ op[u].phase \in {"idle", "dead"}
    /\ tree[u] # Tip(branch[u])
    /\ branch' = [branch EXCEPT ![u] = CommitAll(@, tree[u])]
    /\ Unquiet(u)
    /\ UNCHANGED <<tree, rebase, premerge, records, target, remote, status, here,
                   pushed, listed, foreign, stray, landed, unwound, spent>>

(* A person resolves the paths a stopped rebase names. *)
ResolvePaths(u) ==
    /\ Rebasing(u) /\ ~rebase[u].resolved
    /\ rebase' = [rebase EXCEPT ![u].resolved = TRUE]
    /\ UNCHANGED <<branch, tree, premerge, records, target, remote, status, here, op,
                   pushed, listed, foreign, stray, landed, unwound, spent>>

(* A person, or a pull, adds a commit to the target in the checkout. *)
CommitOnTarget ==
    /\ changes < MaxChanges
    /\ changes' = changes + 1
    /\ target' = Append(target, Tip(target) \cup {changes + 1})
    /\ foreign' = foreign \cup {changes + 1}
    /\ UNCHANGED <<home, remote, status, here, op, pushed, listed, stray, landed, unwound, merges, faults>>

(***************************************************************************)
(* nodal merge.                                                            *)
(***************************************************************************)
(* Mutant: the tip is recorded once the squash has rewritten it *)
PlanOfLateRecord(stages, resuming) ==
    LET when(c, s) == IF c THEN s ELSE <<>>
    IN  <<"fetch">>
        \o when(~resuming /\ "commit" \in stages, <<"commit">>)
        \o when(~resuming /\ "squash" \in stages, <<"squash", "record">>)
        \o when("rebase" \in stages, <<"rebase">>)
        \o <<"forward">>

(* plan and rewriting: the steps these stages make *)
PlanOf(stages, resuming) ==
    LET when(c, s) == IF c THEN s ELSE <<>>
    IN  <<"fetch">>
        \o when(~resuming /\ "commit" \in stages, <<"commit">>)
        \o when(~resuming /\ "squash" \in stages, <<"record", "squash">>)
        \o when("rebase" \in stages, <<"rebase">>)
        \o <<"forward">>

(* Every command resolves what an earlier one left before it does anything. *)
Resolved == \A v \in Units : op[v].phase # "dead"

(* prepare: what the plan is built from, read before the pre_merge hook runs *)
Prepare(u, stages) ==
    /\ here[u] /\ op[u].phase = "idle" /\ Resolved /\ merges < MaxMerges
    /\ merges' = merges + 1
    /\ op' = [op EXCEPT ![u] =
                [phase |-> "planned", steps |-> PlanOf(stages, Rebasing(u)), at |-> 0,
                 oid |-> target, head |-> branch[u], found |-> {}, sent |-> "none",
                 fresh |-> FALSE, quiet |-> FALSE]]
    /\ UNCHANGED <<home, target, remote, status, here, pushed, listed, foreign, stray, landed, unwound,
                   changes, faults>>

(* Mutant: the home is not recorded before the first step *)
StartUnrecorded(u) ==
    /\ op[u].phase = "planned"
    /\ op' = [op EXCEPT ![u].phase = "mark", ![u].found = tree[u], ![u].quiet = op[u].head = branch[u],
                        ![u].fresh = premerge[u] = NoCommit /\ ~Rebasing(u)]
    /\ UNCHANGED <<home, target, remote, status, here, pushed, listed, foreign, stray, landed, unwound, spent>>

(* run: the journal opens, and the home is recorded as it is now *)
Start(u) ==
    /\ op[u].phase = "planned"
    /\ records' = [records EXCEPT ![u] = @ \cup {CommitAll(branch[u], tree[u])}]
    /\ op' = [op EXCEPT ![u].phase = "mark", ![u].found = tree[u], ![u].quiet = op[u].head = branch[u],
                        ![u].fresh = premerge[u] = NoCommit /\ ~Rebasing(u)]
    /\ UNCHANGED <<branch, tree, rebase, premerge, target, remote, status, here, pushed,
                   listed, foreign, stray, landed, unwound, spent>>

Step(u) == op[u].steps[op[u].at]
Doing(u, name) == op[u].phase = "act" /\ Step(u) = name
Acted(u) == op' = [op EXCEPT ![u].phase = "mark"]
Failed(u) == op' = [op EXCEPT ![u].phase = "undo"]

(* The journal marks the next step as applying. *)
Mark(u) ==
    /\ op[u].phase = "mark" /\ op[u].at < Len(op[u].steps)
    /\ op' = [op EXCEPT ![u].phase = "act", ![u].at = @ + 1]
    /\ UNCHANGED <<home, target, remote, status, here, pushed, listed, foreign, stray, landed, unwound, spent>>

(* FetchTarget::apply refuses a target that moved since the plan was made. *)
FetchTarget(u) ==
    /\ Doing(u, "fetch")
    /\ IF target = op[u].oid THEN Acted(u) ELSE Failed(u)
    /\ UNCHANGED <<home, target, remote, status, here, pushed, listed, foreign, stray, landed, unwound, spent>>

(* CommitWork::apply *)
CommitWork(u) ==
    /\ Doing(u, "commit")
    /\ branch' = [branch EXCEPT ![u] = CommitAll(@, tree[u])]
    /\ Acted(u)
    /\ UNCHANGED <<tree, rebase, premerge, records, target, remote, status, here, pushed,
                   listed, foreign, stray, landed, unwound, spent>>

(* RecordPremerge::apply: a ref that is already there is left as it is *)
RecordPremerge(u) ==
    /\ Doing(u, "record")
    /\ premerge' = [premerge EXCEPT ![u] = IF @ = NoCommit THEN branch[u] ELSE @]
    /\ Acted(u)
    /\ UNCHANGED <<branch, tree, rebase, records, target, remote, status, here, pushed,
                   listed, foreign, stray, landed, unwound, spent>>

(* Squash::apply *)
SquashBranch(u) ==
    /\ Doing(u, "squash")
    /\ branch' = [branch EXCEPT ![u] = Squash(@, op[u].oid)]
    /\ Acted(u)
    /\ UNCHANGED <<tree, rebase, premerge, records, target, remote, status, here, pushed,
                   listed, foreign, stray, landed, unwound, spent>>

(* A rebase that ends, or one that stops for a conflict and answers Ok. *)
EndRebase(u, onto) ==
    /\ branch' = [branch EXCEPT ![u] = Rebased(@, onto)]
    /\ tree' = [tree EXCEPT ![u] = Tip(Rebased(branch[u], onto))]
    /\ rebase' = [rebase EXCEPT ![u] = NotRebasing]
StopRebase(u, onto) ==
    /\ rebase' = [rebase EXCEPT ![u] = [onto |-> onto, resolved |-> FALSE]]
    /\ UNCHANGED <<branch, tree>>

(* Rebase::apply over rebase, resume and run_rebase *)
RebaseBranch(u) ==
    /\ Doing(u, "rebase")
    /\ \/ /\ Rebasing(u) /\ rebase[u].resolved
          /\ EndRebase(u, rebase[u].onto) /\ Acted(u)
       \/ /\ Rebasing(u) /\ ~rebase[u].resolved
          /\ UNCHANGED <<branch, tree, rebase>> /\ Acted(u)
       \/ /\ ~Rebasing(u) /\ IsAncestor(op[u].oid, branch[u])
          /\ UNCHANGED <<branch, tree, rebase>> /\ Acted(u)
       \/ /\ ~Rebasing(u) /\ ~IsAncestor(op[u].oid, branch[u]) /\ tree[u] = Tip(branch[u])
          /\ \/ EndRebase(u, op[u].oid)
             \/ Count(MergeBase(op[u].oid, branch[u]), branch[u]) > 0 /\ StopRebase(u, op[u].oid)
          /\ Acted(u)
       \/ /\ ~Rebasing(u) /\ ~IsAncestor(op[u].oid, branch[u]) /\ tree[u] # Tip(branch[u])
          /\ UNCHANGED <<branch, tree, rebase>> /\ Failed(u)
    /\ UNCHANGED <<premerge, records, target, remote, status, here, pushed, listed, foreign,
                   stray, landed, unwound, spent>>

Sent(u, what) == op' = [op EXCEPT ![u].phase = "mark", ![u].sent = what]

(* fast_forward: the target moves to a descendant of where it is, or not at all *)
Forward(u) ==
    /\ Doing(u, "forward")
    /\ \/ Rebasing(u) /\ Sent(u, "stopped") /\ UNCHANGED <<target, faults>>
       \/ ~Rebasing(u) /\ target = branch[u] /\ Sent(u, "sent") /\ UNCHANGED <<target, faults>>
       \/ /\ ~Rebasing(u) /\ target # branch[u] /\ IsAncestor(target, branch[u])
          /\ target' = branch[u] /\ Sent(u, "sent") /\ UNCHANGED faults
       \/ /\ ~Rebasing(u) /\ ~IsAncestor(target, branch[u])
          /\ Failed(u) /\ UNCHANGED <<target, faults>>
       \/ /\ ~Rebasing(u) /\ target # branch[u] /\ faults < MaxFaults
          /\ faults' = faults + 1 /\ Failed(u) /\ UNCHANGED target
    /\ UNCHANGED <<home, remote, status, here, pushed, listed, foreign, stray, landed, unwound, merges, changes>>

(* Mutant: a merge that stopped is recorded as merged too *)
CommitMergeStopped(u) ==
    /\ op[u].phase = "mark" /\ op[u].at = Len(op[u].steps)
    /\ status' = [status EXCEPT ![u] = "merged"]
    /\ landed' = [landed EXCEPT ![u] = Tip(branch[u])]
    /\ op' = [op EXCEPT ![u] = Idle]
    /\ UNCHANGED <<home, target, remote, here, pushed, listed, foreign, stray, unwound, spent>>

(* commit_of: the unit is merged, unless the last step says the merge stopped *)
CommitMerge(u) ==
    /\ op[u].phase = "mark" /\ op[u].at = Len(op[u].steps)
    /\ IF op[u].sent = "sent"
       THEN /\ status' = [status EXCEPT ![u] = "merged"]
            /\ landed' = [landed EXCEPT ![u] = Tip(branch[u])]
       ELSE UNCHANGED <<status, landed>>
    /\ op' = [op EXCEPT ![u] = Idle]
    /\ UNCHANGED <<home, target, remote, here, pushed, listed, foreign, stray, unwound, spent>>

(***************************************************************************)
(* Undoing, by the run itself or by the next command.                      *)
(***************************************************************************)
(* A process is killed; a run that had marked no step leaves nothing. *)
Kill(u) ==
    /\ op[u].phase \in {"planned", "mark", "act", "undo"} /\ faults < MaxFaults
    /\ faults' = faults + 1
    /\ op' = [op EXCEPT ![u] = IF op[u].phase = "planned" THEN Idle
                               ELSE [@ EXCEPT !.phase = "dead"]]
    /\ UNCHANGED <<home, target, remote, status, here, pushed, listed, foreign, stray, landed, unwound,
                   merges, changes>>

(* resolve finds the run in the journal and rolls it back. *)
TakeOver(u) ==
    /\ op[u].phase = "dead"
    /\ op' = [op EXCEPT ![u].phase = "undo"]
    /\ UNCHANGED <<home, target, remote, status, here, pushed, listed, foreign, stray, landed, unwound, spent>>

(* restore_head: the branch goes back to the record, when there is one *)
RestoreHead(u) ==
    IF premerge[u] = NoCommit THEN UNCHANGED <<branch, tree>>
    ELSE /\ branch' = [branch EXCEPT ![u] = premerge[u]]
         /\ tree' = [tree EXCEPT ![u] = TreeAfterMove(branch[u], @, premerge[u])]
MayRestoreHead(u) == IF premerge[u] = NoCommit THEN TRUE ELSE MayMove(branch[u], tree[u], premerge[u])

(* uncommit: the branch goes back and its content is a change again *)
Uncommit(u) == branch' = [branch EXCEPT ![u] = op[u].head]

Undoing(u, name) == op[u].phase = "undo" /\ op[u].at > 0 /\ Step(u) = name
Undone(u) == op' = [op EXCEPT ![u].at = @ - 1]

(* Forward::undo puts the target back at the commit the plan recorded,     *)
(* whoever has moved it since.                                             *)
UndoForward(u) ==
    /\ Undoing(u, "forward")
    /\ target' = op[u].oid
    /\ unwound' = unwound \cup
         ((Reach(target) \ Reach(op[u].oid)) \cap
             UNION {landed[v] \cup Reach(branch[v]) : v \in Units \ {u}})
    /\ Undone(u)
    /\ UNCHANGED <<home, remote, status, here, pushed, listed, foreign, stray, landed, spent>>

(* Rebase::undo stops the rebase, then restores the head. *)
UndoRebase(u) ==
    /\ Undoing(u, "rebase") /\ MayRestoreHead(u)
    /\ rebase' = [rebase EXCEPT ![u] = NotRebasing]
    /\ RestoreHead(u) /\ Undone(u)
    /\ UNCHANGED <<premerge, records, target, remote, status, here, pushed, listed, foreign,
                   stray, landed, unwound, spent>>

(* Squash::undo *)
UndoSquash(u) ==
    /\ Undoing(u, "squash") /\ MayRestoreHead(u)
    /\ RestoreHead(u) /\ Undone(u)
    /\ UNCHANGED <<rebase, premerge, records, target, remote, status, here, pushed, listed,
                   foreign, stray, landed, unwound, spent>>

(* RecordPremerge::undo *)
UndoRecord(u) ==
    /\ Undoing(u, "record")
    /\ premerge' = [premerge EXCEPT ![u] = NoCommit]
    /\ Undone(u)
    /\ UNCHANGED <<branch, tree, rebase, records, target, remote, status, here, pushed,
                   listed, foreign, stray, landed, unwound, spent>>

(* CommitWork::undo *)
UndoCommit(u) ==
    /\ Undoing(u, "commit")
    /\ Uncommit(u) /\ Undone(u)
    /\ UNCHANGED <<tree, rebase, premerge, records, target, remote, status, here, pushed,
                   listed, foreign, stray, landed, unwound, spent>>

(* FetchTarget::undo drops a ref nothing else reads. *)
UndoFetch(u) ==
    /\ Undoing(u, "fetch") /\ Undone(u)
    /\ UNCHANGED <<home, target, remote, status, here, pushed, listed, foreign, stray, landed, unwound, spent>>

(* An undo fails: git refuses the move, or the disk does.  The run is closed as failed. *)
UndoFails(u) ==
    /\ op[u].phase = "undo" /\ op[u].at > 0
    /\ \/ Step(u) \in {"rebase", "squash"} /\ ~MayRestoreHead(u) /\ UNCHANGED faults
       \/ faults < MaxFaults /\ faults' = faults + 1
    /\ op' = [op EXCEPT ![u] = Idle]
    /\ UNCHANGED <<home, target, remote, status, here, pushed, listed, foreign, stray, landed, unwound,
                   merges, changes>>

(* close: every step is undone and the run is rolled back *)
Close(u) ==
    /\ op[u].phase = "undo" /\ op[u].at = 0
    /\ op' = [op EXCEPT ![u] = Idle]
    /\ UNCHANGED <<home, target, remote, status, here, pushed, listed, foreign, stray, landed, unwound, spent>>

(* nodal merge --abort: the rebase stops and the branch goes back to the record *)
Abort(u) ==
    /\ here[u] /\ op[u].phase = "idle" /\ Resolved /\ Rebasing(u)
    /\ MayRestoreHead(u)
    /\ rebase' = [rebase EXCEPT ![u] = NotRebasing]
    /\ RestoreHead(u)
    /\ premerge' = [premerge EXCEPT ![u] = NoCommit]
    /\ UNCHANGED <<records, target, remote, status, here, op, pushed, listed, foreign,
                   stray, landed, unwound, spent>>

(***************************************************************************)
(* nodal done, the list, and reclaim as far as the status goes.            *)
(***************************************************************************)
(* send: one push, refused by the remote when it is not a fast-forward *)
Push(u) ==
    /\ u \in Finished /\ here[u] /\ Resolved /\ ~pushed[u]
    /\ IsAncestor(remote[u], branch[u])
    /\ remote' = [remote EXCEPT ![u] = branch[u]]
    /\ pushed' = [pushed EXCEPT ![u] = TRUE]
    /\ UNCHANGED <<home, target, status, here, op, listed, foreign, stray, landed, unwound, spent>>

(* record: the row goes to review whatever it says by now *)
RecordDone(u) ==
    /\ pushed[u]
    /\ pushed' = [pushed EXCEPT ![u] = FALSE]
    /\ status' = [status EXCEPT ![u] = "review"]
    /\ UNCHANGED <<home, target, remote, here, op, listed, foreign, stray, landed, unwound, spent>>

(* Integration::Integrated with commits of its own: absorbed, and not an ancestor *)
HasLanded(u) ==
    /\ (Tip(branch[u]) \ Tip(MergeBase(target, branch[u]))) \subseteq Tip(target)
    /\ ~IsAncestor(branch[u], target)

(* A listing reads the row and the home. *)
ReadList(u) ==
    /\ u \in Finished /\ here[u] /\ Resolved /\ ~listed[u].read /\ ~Rebasing(u)
    /\ HasLanded(u) /\ status[u] \in {"open", "review"}
    /\ listed' = [listed EXCEPT ![u] = [read |-> TRUE, tree |-> Tip(branch[u])]]
    /\ UNCHANGED <<home, target, remote, status, here, op, pushed, foreign, stray, landed, unwound, spent>>

(* flip: the home answers for the remote, and the row is written as it is now *)
Settle(u) ==
    /\ listed[u].read
    /\ listed' = [listed EXCEPT ![u] = NotListed]
    /\ IF There(u) /\ IsAncestor(branch[u], remote[u])
       THEN /\ status' = [status EXCEPT ![u] = "merged"]
            /\ landed' = [landed EXCEPT ![u] = listed[u].tree]
       ELSE UNCHANGED <<status, landed>>
    /\ UNCHANGED <<home, target, remote, here, op, pushed, foreign, stray, unwound, spent>>

(* The ordinary reclaim: refused while the home holds what nothing else has *)
OnlyHere(u) == (Reach(branch[u]) \cup tree[u]) \ (Reach(target) \cup Reach(remote[u]))
Reclaim(u) ==
    /\ u \in Finished /\ here[u] /\ op[u].phase = "idle" /\ Resolved
    /\ OnlyHere(u) = {} /\ ~Rebasing(u)
    /\ here' = [here EXCEPT ![u] = FALSE]
    /\ status' = [status EXCEPT ![u] = "archived"]
    /\ UNCHANGED <<home, target, remote, op, pushed, listed, foreign, stray, landed, unwound, spent>>

Next ==
    \/ CommitOnTarget
    \/ \E u \in Units :
        \/ Edit(u) \/ CommitInHome(u) \/ ResolvePaths(u)
        \/ \E stages \in StageSets[u] : Prepare(u, stages)
        \/ Start(u) \/ Mark(u)
        \/ FetchTarget(u) \/ CommitWork(u) \/ RecordPremerge(u) \/ SquashBranch(u)
        \/ RebaseBranch(u) \/ Forward(u) \/ CommitMerge(u)
        \/ Kill(u) \/ TakeOver(u)
        \/ UndoForward(u) \/ UndoRebase(u) \/ UndoSquash(u) \/ UndoRecord(u)
        \/ UndoCommit(u) \/ UndoFetch(u) \/ UndoFails(u) \/ Close(u)
        \/ Abort(u) \/ Push(u) \/ RecordDone(u) \/ ReadList(u) \/ Settle(u) \/ Reclaim(u)

Spec == Init /\ [][Next]_vars

(***************************************************************************)
(* Properties.                                                             *)
(***************************************************************************)
(* What a unit was recorded as merged with is on the target branch, after  *)
(* conflicts, kills, rollbacks and later merges (commit_of, Sent::of): but *)
(* for what the undo of another unit's merge took off.  merge.rs:20-24 and *)
(* git/merge.rs:9-15 have it that the target moves by fast-forward or not  *)
(* at all; Forward::undo (merge.rs:622-626) puts it back at the commit the *)
(* plan recorded, whatever another merge or a person put there since.      *)
MergedIsOnTarget == \A u \in Units : landed[u] \subseteq Reach(target) \cup unwound

(* A merge that squashes and is rolled back leaves the home as it found    *)
(* it: the branch, the working tree, no rebase and no record.              *)
RollbackRestores ==
    \A u \in Units :
        (op[u].phase = "undo" /\ op[u].at = 0 /\ op[u].quiet /\ op[u].fresh
            /\ "squash" \in ToSet(op[u].steps))
        => /\ branch[u] = op[u].head /\ tree[u] = op[u].found
           /\ ~Rebasing(u) /\ premerge[u] = NoCommit

(* Work a home held when its merge started is still in some tree or on     *)
(* some ref, whatever was squashed, rebased, aborted, killed or undone.    *)
Held(u) ==
    Reach(branch[u]) \cup tree[u] \cup Reach(premerge[u]) \cup UNION {Reach(c) : c \in records[u]}
        \cup Reach(remote[u]) \cup Reach(target)
WorkKept == 1..changes \subseteq foreign \cup stray \cup UNION {Held(u) : u \in Units}

=============================================================================
