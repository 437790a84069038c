------------------------------ MODULE MCTrees ------------------------------
(* Four groups of a walk: the root with two directories, three entries of   *)
(* the first and one of the second, and one inside a directory below; what  *)
(* is linked, read-only, excluded, refused and left out varies.             *)
EXTENDS Trees

MCNames == 1 .. 7
MCIn == <<0, 0, 1, 1, 2, 1, 6>>
KindOf(seven) ==
    [n \in MCNames |-> IF n \in {1, 2, 6} THEN "directory" ELSE IF n = 7 THEN seven ELSE "file"]

(* Which names are one file: none, across directories, in one, and three of them. *)
Linked == {{}, {3, 5}, {4, 7}, {3, 4}, {3, 5, 7}}
InoOf(linked) == [n \in MCNames |-> IF n \in linked THEN 8 ELSE n]

MCSources ==
    {[in |-> MCIn, kind |-> KindOf(t[1]), ino |-> InoOf(linked),
      mode |-> [n \in MCNames \cup {0} |->
                  IF \E m \in shut : m = n \/ {m, n} \subseteq linked THEN "ro" ELSE "rw"],
      excluded |-> t[2], bad |-> bad] :
        t \in {<<"file", {}>>, <<"symlink", {2}>>, <<"other", {4}>>}, linked \in Linked,
        shut \in {{}, {1, 3}, {0, 6, 7}},
        bad \in {{}, {6}, {3}, {3, 5}, {5, 7}, {4, 7}}}
=============================================================================
