----------------------------- MODULE UserFiles -----------------------------
(***************************************************************************)
(* What the storage service gives its users, without object store,         *)
(* reference counts, cache or index: every user has a private tree of      *)
(* directories and a private map from paths to contents, which only that   *)
(* user's requests change.  The two are kept apart: a download needs the   *)
(* directories above a file, and the rename of a directory leaves the      *)
(* files where they were.                                                  *)
(***************************************************************************)
EXTENDS Integers, Sequences

CONSTANTS Users, Paths, Md5, None

VARIABLES
    files,   \* files[u][p]: the content kept for u under p
    dirs     \* dirs[u]: the directories of u

tree == <<files, dirs>>

Below(p, d) == Len(d) < Len(p) /\ SubSeq(p, 1, Len(d)) = d

\* All directories above p are there.
Reachable(u, p) == \A n \in 0 .. Len(p) - 1 : SubSeq(p, 1, n) \in dirs[u]

\* What a download of p delivers.
Get(u, p) == IF Reachable(u, p) THEN files[u][p] ELSE None

Init ==
    /\ files = [u \in Users |-> [p \in Paths |-> None]]
    /\ dirs = [u \in Users |-> {<< >>}]

\* An upload or an instant upload: p now has content m.  The directory may have
\* gone since the upload was begun.
Put(u, p, m) == files' = [files EXCEPT ![u][p] = m] /\ UNCHANGED dirs

\* rm of a file, or an upload whose new version cannot be stored.
Remove(u, p) == files' = [files EXCEPT ![u][p] = None] /\ UNCHANGED dirs

\* mv of a file; a file at the target is replaced.
Move(u, from, to) ==
    /\ from # to
    /\ Get(u, from) # None
    /\ Reachable(u, to)
    /\ files' = [files EXCEPT ![u] = [@ EXCEPT ![to] = files[u][from], ![from] = None]]
    /\ UNCHANGED dirs

MakeDir(u, d) ==
    /\ Reachable(u, d)
    /\ d \notin dirs[u]
    /\ dirs' = [dirs EXCEPT ![u] = @ \cup {d}]
    /\ UNCHANGED files

\* rm of a directory; the root cannot be removed.
RemoveTree(u, d) ==
    /\ d # << >>
    /\ d \in dirs[u]
    /\ files' = [files EXCEPT ![u] = [p \in Paths |-> IF Below(p, d) THEN None ELSE @[p]]]
    /\ dirs' = [dirs EXCEPT ![u] = {e \in @ : e # d /\ ~Below(e, d)}]

\* mv of a directory: the directories below go along, the files do not.
MoveDir(u, from, to) ==
    LET moved == {e \in dirs[u] : e = from \/ Below(e, from)} IN
    /\ from \in dirs[u]
    /\ to \notin dirs[u]
    /\ Reachable(u, to)
    /\ ~Below(to, from)
    /\ dirs' = [dirs EXCEPT ![u] =
                   (@ \ moved) \cup {to \o SubSeq(e, Len(from) + 1, Len(e)) : e \in moved}]
    /\ UNCHANGED files

Next ==
    \E u \in Users, p \in Paths :
        \/ \E m \in Md5 : Put(u, p, m)
        \/ Remove(u, p)
        \/ MakeDir(u, p)
        \/ RemoveTree(u, p)
        \/ \E to \in Paths : Move(u, p, to) \/ MoveDir(u, p, to)

Spec == Init /\ [][Next]_tree
=============================================================================
