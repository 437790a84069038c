------------------------------- MODULE Trees -------------------------------
(***************************************************************************)
(* The tree copier every home and base is made with (workspace/tree.rs,    *)
(* walk.rs, copy.rs, meta.rs, xattr.rs) and the removal that undoes a half *)
(* made one (workspace/remove.rs).                                         *)
(*                                                                         *)
(* A walk fixes the order of the entries; every directory is made on one   *)
(* thread; a pool of workers claims directories and puts their files, then *)
(* in a second pass the further names of linked files; permissions and     *)
(* times of directories go on last.  Workers interleave entry by entry,    *)
(* the stop flag is read as late as the memory model allows, any entry may *)
(* refuse, and the process may be killed anywhere, or a later step of the  *)
(* operation fail, after which another process undoes the clone.           *)
(***************************************************************************)
EXTENDS Naturals, Sequences, SequencesExt

CONSTANTS
    Names,      \* the entries of a tree; the order is the one they sort in
    Sources,    \* the trees that are copied
    MaxWorkers, \* the workers that are asked for
    MaxKills    \* bound on kills and on later steps that fail

ASSUME TreesAssumption ==
    /\ Names \subseteq Nat \ {0} /\ IsFiniteSet(Names)
    /\ MaxWorkers \in Nat \ {0} /\ MaxKills \in Nat

VARIABLES
    source,   \* the tree being copied, which nothing changes meanwhile
    phase,    \* where the clone is
    queue,    \* the directories to walk, or those to finish
    entries,  \* what the walk found, in its order
    made,     \* the destination
    work, next, stop, worker,   \* one run of the pool
    report,   \* what was put across
    error,    \* the entry the clone failed on, or Root when there is none
    kills

vars == <<source, phase, queue, entries, made, work, next, stop, worker, report, error, kills>>
pool == <<work, next, stop, worker>>

Root == 0
Nodes == Names \cup {Root}
Workers == 1 .. MaxWorkers

(* A name that is not there; or one with its inode (named by the entry that *)
(* made it), mode, times and extended attributes.                           *)
Nothing == [ino |-> Root, mode |-> "none", time |-> "none", attrs |-> FALSE]
Fresh(n, mode) == [ino |-> n, mode |-> mode, time |-> "now", attrs |-> FALSE]

NoReport == [directories |-> 0, files |-> 0, symlinks |-> 0, hardlinks |-> 0, excluded |-> 0]
Count(r, what, by) == [r EXCEPT ![what] = @ + by]

(* merge *)
Merge(a, b) == [what \in DOMAIN a |-> a[what] + b[what]]

Resting == [pc |-> "done", index |-> 0, at |-> 0, failed |-> 0, on |-> Root, report |-> NoReport]

Init ==
    /\ source \in Sources
    /\ phase = "walk"
    /\ queue = <<Root>>
    /\ entries = <<>>
    /\ made = [n \in Nodes |-> Nothing]
    /\ work = <<>> /\ next = 1 /\ stop = FALSE
    /\ worker = [w \in Workers |-> Resting]
    /\ report = NoReport
    /\ error = Root
    /\ kills = 0

There(n) == made[n] # Nothing
IsDirectory(n) == source.kind[n] = "directory"
In(d) == {n \in Names : source.in[n] = d}

-----------------------------------------------------------------------------
(* The walk: walk.rs. *)

(* One directory: names sorted, exclusions counted, sockets and the like left *)
(* out, its directories pushed for later.                                     *)
Walk ==
    /\ phase = "walk"
    /\ queue # <<>>
    /\ LET d == Last(queue)
           kept == {n \in In(d) : n \notin source.excluded /\ source.kind[n] # "other"}
           found == SetToSortSeq(kept, <)
       IN  /\ entries' = entries \o found
           /\ queue' = Front(queue) \o SelectSeq(found, IsDirectory)
           /\ report' = Count(report, "excluded", Cardinality(In(d) \cap source.excluded))
    /\ UNCHANGED <<source, phase, made, pool, error, kills>>

(* followers: the first name of an inode holds the copy, later ones link to it. *)
Leader(n) ==
    entries[SelectInSeq(entries, LAMBDA m : source.kind[m] = "file" /\ source.ino[m] = source.ino[n])]
NeverFollows(n) == FALSE   \* mutant: every name is a file of its own
Follows(n) == source.kind[n] = "file" /\ Leader(n) # n

-----------------------------------------------------------------------------
(* The clone: tree.rs. *)

(* groups: consecutive entries of one directory. *)
Groups ==
    LET starts == {i \in DOMAIN entries : i = 1 \/ source.in[entries[i]] # source.in[entries[i - 1]]}
        ends(i) == CHOOSE j \in i .. Len(entries) :
                       /\ \A k \in i .. j : source.in[entries[k]] = source.in[entries[i]]
                       /\ j = Len(entries) \/ j + 1 \in starts
    IN  [i \in DOMAIN SetToSortSeq(starts, <) |->
            LET s == SetToSortSeq(starts, <)[i] IN SubSeq(entries, s, ends(s))]

(* What a pass does in one directory: it skips what is not its own. *)
Copies(group) == SelectSeq(group, LAMBDA n : ~IsDirectory(n) /\ ~Follows(n))
Links(group) == SelectSeq(group, Follows)

(* run: at most one worker for each directory, none of them started yet. *)
StartPass(to, items) ==
    /\ phase' = to
    /\ work' = items
    /\ next' = 1
    /\ stop' = FALSE
    /\ worker' = [w \in Workers |->
           IF w = 1 \/ w <= Len(items) THEN [Resting EXCEPT !.pc = "check"] ELSE Resting]

(* Every directory, parents before children, until one cannot be made. *)
Directories ==
    /\ phase = "walk"
    /\ queue = <<>>
    /\ LET all == SelectSeq(entries, IsDirectory)
           refused == SelectInSeq(all, LAMBDA n : n \in source.bad)
           upto == IF refused = 0 THEN all ELSE SubSeq(all, 1, refused - 1)
       IN  /\ made' = [n \in Nodes |->
                  IF n = Root \/ n \in ToSet(upto) THEN Fresh(n, "rw") ELSE Nothing]
           /\ report' = Count(report, "directories", Len(upto))
           /\ IF refused = 0
                THEN StartPass("copies", [i \in DOMAIN Groups |-> Copies(Groups[i])]) /\ UNCHANGED error
                ELSE phase' = "failed" /\ error' = all[refused] /\ UNCHANGED pool
    /\ UNCHANGED <<source, queue, entries, kills>>

(* claim: the flag is read relaxed, and a worker is sure to see only its own. *)
Check(w) ==
    /\ phase \in {"copies", "links"}
    /\ worker[w].pc = "check"
    /\ \E seen \in {stop} \cup (IF worker[w].failed = 0 THEN {FALSE} ELSE {}) :
           worker' = [worker EXCEPT ![w].pc = IF seen THEN "done" ELSE "claim"]
    /\ UNCHANGED <<source, phase, queue, entries, made, work, next, stop, report, error, kills>>

Claim(w) ==
    /\ worker[w].pc = "claim"
    /\ next' = next + 1
    /\ worker' = [worker EXCEPT ![w] =
           [@ EXCEPT !.pc = IF next > Len(work) THEN "done" ELSE "put", !.index = next, !.at = 1]]
    /\ UNCHANGED <<source, phase, queue, entries, made, work, stop, report, error, kills>>

(* attributes: a copy its owner may not write is opened while they are written. *)
Opened(n) == IF source.mode[n] = "ro" THEN "rw" ELSE source.mode[n]

(* put_file, put_symlink and hard_link, for what they leave at the name. *)
Put(n) ==
    IF phase = "links" THEN made[Leader(n)]
    ELSE IF source.kind[n] = "symlink" THEN [Fresh(n, "rw") EXCEPT !.time = "source"]
    ELSE [ino |-> n, mode |-> source.mode[n], time |-> "source", attrs |-> TRUE]

Refuses(n) ==
    \/ n \in source.bad
    \/ made[source.in[n]].mode = "ro"
    \/ source.kind[n] = "file" /\ phase = "copies" /\ Opened(n) = "ro"

What(n) ==
    IF phase = "links" THEN "hardlinks"
    ELSE IF source.kind[n] = "symlink" THEN "symlinks" ELSE "files"

(* copies and links: one entry, and the end of a directory. *)
Each(w) ==
    /\ worker[w].pc = "put"
    /\ LET items == work[worker[w].index]
           n == items[worker[w].at]
       IN  IF worker[w].at > Len(items)
           THEN /\ worker' = [worker EXCEPT ![w].pc = "check"]
                /\ UNCHANGED <<made, stop>>
           ELSE IF Refuses(n)
           THEN /\ stop' = TRUE
                /\ worker' = [worker EXCEPT ![w] =
                       [@ EXCEPT !.pc = "check", !.failed = worker[w].index, !.on = n]]
                /\ \E left \in {Nothing} \cup (IF phase = "copies" THEN {Fresh(n, source.mode[n])} ELSE {}) :
                       made' = [made EXCEPT ![n] = left]
           ELSE /\ made' = [made EXCEPT ![n] = Put(n), ![source.in[n]].time = "now"]
                /\ worker' = [worker EXCEPT ![w] =
                       [@ EXCEPT !.at = @ + 1, !.report = Count(@, What(n), 1)]]
                /\ UNCHANGED stop
    /\ UNCHANGED <<source, phase, queue, entries, work, next, report, error, kills>>

(* gather: the failure of the earliest item. *)
FirstJoined(failures) == CHOOSE w \in failures : \A v \in failures : w <= v   \* mutant
Earliest(failures) ==
    CHOOSE w \in failures : \A v \in failures : worker[w].failed <= worker[v].failed

(* Every worker is joined; then the second pass where there is one, or the end. *)
Join ==
    /\ phase \in {"copies", "links"}
    /\ \A w \in Workers : worker[w].pc = "done"
    /\ LET failures == {w \in Workers : worker[w].failed # 0}
           linking == SelectSeq(Groups, LAMBDA g : Links(g) # <<>>)
       IN  IF failures # {}
           THEN /\ error' = worker[Earliest(failures)].on
                /\ phase' = "failed"
                /\ UNCHANGED <<pool, queue, report>>
           ELSE /\ report' = FoldLeftDomain(LAMBDA sum, w : Merge(sum, worker[w].report), report, worker)
                /\ IF phase = "copies" /\ linking # <<>>
                   THEN StartPass("links", [i \in DOMAIN linking |-> Links(linking[i])]) /\ UNCHANGED queue
                   ELSE /\ phase' = "finish"
                        /\ queue' = SelectSeq(entries, IsDirectory)
                        /\ UNCHANGED pool
                /\ UNCHANGED error
    /\ UNCHANGED <<source, entries, made, kills>>

(* finish: directories deepest first, and the root with its attributes and no times. *)
Finish ==
    /\ phase = "finish"
    /\ IF queue # <<>>
       THEN /\ made' = [made EXCEPT ![Last(queue)] =
                   [@ EXCEPT !.mode = source.mode[Last(queue)], !.time = "source"]]
            /\ queue' = Front(queue)
            /\ UNCHANGED phase
       ELSE /\ made' = [made EXCEPT ![Root] = [@ EXCEPT !.mode = source.mode[Root], !.attrs = TRUE]]
            /\ phase' = "done"
            /\ UNCHANGED queue
    /\ UNCHANGED <<source, entries, pool, report, error, kills>>

-----------------------------------------------------------------------------
(* The undo: a later command, or the same one: remove.rs. *)

(* The process is killed, or a step after the clone fails. *)
Kill ==
    /\ phase # "gone"
    /\ kills < MaxKills
    /\ kills' = kills + 1
    /\ phase' = "failed"
    /\ error' = Root
    /\ queue' = <<>> /\ work' = <<>> /\ next' = 1 /\ stop' = FALSE
    /\ worker' = [w \in Workers |-> Resting]
    /\ UNCHANGED <<source, entries, made, report>>

(* A directory that denies its owner a write, with something in it. *)
Shut == {d \in Nodes : /\ There(d) /\ made[d].mode = "ro"
                       /\ \E n \in In(d) : There(n)}

Under(d) ==
    LET up[n \in Nodes] == n # Root /\ (source.in[n] = d \/ up[source.in[n]])
    IN  {n \in Names : up[n]}

RootOpened(d) == d = Root   \* mutant: only the top is opened
(* unlock: every directory of what is left. *)
Unlocked(d) == d = Root \/ IsDirectory(d)

Vanish(gone) == made' = [n \in Nodes |-> IF n \in gone THEN Nothing ELSE made[n]]

(* The plain removal; refused, it has taken some of the tree, and the rest is opened. *)
RemoveTree ==
    /\ phase = "failed"
    /\ IF Shut = {}
       THEN phase' = "gone" /\ Vanish(Nodes)
       ELSE /\ phase' = "opened"
            /\ \E gone \in SUBSET {n \in Names : /\ There(n) /\ source.in[n] \notin Shut
                                                 /\ Shut \cap (Under(n) \cup {n}) = {}} :
                  /\ \A n \in gone : {m \in Under(n) : There(m)} \subseteq gone
                  /\ made' = [n \in Nodes |->
                        IF n \in gone \/ ~There(n) THEN Nothing
                        ELSE IF Unlocked(n) THEN [made[n] EXCEPT !.mode = "rw"] ELSE made[n]]
    /\ UNCHANGED <<source, queue, entries, pool, report, error, kills>>

(* Once more; what refuses now is reported. *)
RemoveOpened ==
    /\ phase = "opened"
    /\ IF Shut = {}
       THEN phase' = "gone" /\ Vanish(Nodes)
       ELSE phase' = "stuck" /\ UNCHANGED made
    /\ UNCHANGED <<source, queue, entries, pool, report, error, kills>>

-----------------------------------------------------------------------------
Copier == Walk \/ Directories \/ Join \/ Finish \/ RemoveTree \/ RemoveOpened
Worker(w) == Check(w) \/ Claim(w) \/ Each(w)

Next == Copier \/ (\E w \in Workers : Worker(w)) \/ Kill

Spec == Init /\ [][Next]_vars

(* A thread that can go on does, and a clone that failed is undone. *)
FairSpec == Spec /\ WF_vars(Copier) /\ \A w \in Workers : WF_vars(Worker(w))
-----------------------------------------------------------------------------
(* What a clone should hold: everything the exclusions do not reach. *)
Kept ==
    LET kept[n \in Names] == /\ n \notin source.excluded /\ source.kind[n] # "other"
                             /\ source.in[n] = Root \/ kept[source.in[n]]
    IN  {n \in Names : kept[n]}
Of(kind) == {n \in Kept : source.kind[n] = kind}

(* A finished clone is its source, whoever made which part and in whatever     *)
(* order: the same entries, files that are one file there are one file here,   *)
(* modes and times the source's although making a child changes both, and the  *)
(* report counts it (materialize: "the same tree ... with the same report, at  *)
(* every number of workers").  Two things of the source the code does not put  *)
(* on, against its own comments, and they are excepted: the times of the root, *)
(* which `finish` is said to give it (tree.rs:289 against 298-300), and the    *)
(* extended attributes of directories below the root, which callers of         *)
(* xattr::copy are said to copy (xattr.rs:8-10).                               *)
CopyIsWhole ==
    phase = "done" =>
        /\ {n \in Names : There(n)} = Kept
        /\ \A m, n \in Of("file") : made[m].ino = made[n].ino <=> source.ino[m] = source.ino[n]
        /\ \A n \in Kept : made[n].time = "source"                                \* not Root
        /\ \A n \in Of("file") \cup {Root} : made[n].attrs                      \* not Of("directory")
        /\ \A n \in Of("file") \cup Of("directory") \cup {Root} : made[n].mode = source.mode[n]
        /\ report.directories = Cardinality(Of("directory"))
        /\ report.symlinks = Cardinality(Of("symlink"))
        /\ report.files = Cardinality({source.ino[n] : n \in Of("file")})
        /\ report.files + report.hardlinks = Cardinality(Of("file"))

(* The entry one thread would have stopped on. *)
FirstRefused ==
    LET stops(Test(_)) == SelectInSeq(entries, LAMBDA n : n \in source.bad /\ Test(n))
        order == <<stops(IsDirectory), stops(LAMBDA n : ~IsDirectory(n) /\ ~Follows(n)), stops(Follows)>>
        first == SelectInSeq(order, LAMBDA i : i # 0)
    IN  IF first = 0 THEN Root ELSE entries[order[first]]

(* A tree that cannot be copied names the same entry however many workers read *)
(* it: the one a copy on one thread would have stopped on (claim and gather).  *)
(* A clone nothing of which refuses does not fail.                             *)
FailsWhereOneThreadWould ==
    [][phase' = "failed" /\ kills' = kills => error' = FirstRefused /\ error' # Root]_vars

(* Every clone ends whole or leaves nothing, with one kill anywhere in it or   *)
(* in its undo, and whatever the modes it had put on by then (a half-made home *)
(* "a person is left to find and delete by hand").                             *)
EveryCloneEnds == []<>(phase \in {"done", "gone"})
=============================================================================
