------------------------------ MODULE PathGuard ------------------------------
(***************************************************************************)
(* path_guard.cpp as operators: the logical path a client sends, split at  *)
(* its slashes, is normalised to a sequence of names, and the names are    *)
(* then followed from the user's root directory through the file system.   *)
(* A file system is a function from absolute paths (sequences of names) to *)
(* nodes; the server itself makes nothing but directories there, links are *)
(* those an administrator may have put below a user's root.                *)
(***************************************************************************)
EXTENDS Integers, Sequences, SequencesExt

CONSTANTS
    Illegal,      \* components that are "~" or contain a backslash
    Lengthened    \* <<a, b>>: the name b begins with the name a and is longer

-----------------------------------------------------------------------------
(* normalizeLogical *)

Ignored(c) == c \in {"", "."}
IsName(c) == ~Ignored(c) /\ c # ".."

\* ".." at the root is ignored.
Mutant_StaysAtRoot(acc, c) ==
    IF Ignored(c) THEN acc
    ELSE IF c = ".." THEN [acc EXCEPT !.st = IF @ = << >> THEN @ ELSE Front(@)]
    ELSE IF c \in Illegal THEN [acc EXCEPT !.denied = TRUE]
    ELSE [acc EXCEPT !.st = Append(@, c)]

\* One iteration of its loop; the first exception decides.
PushComponent(acc, c) ==
    IF acc.denied \/ Ignored(c) THEN acc
    ELSE IF c \in Illegal \/ (c = ".." /\ acc.st = << >>) THEN [acc EXCEPT !.denied = TRUE]
    ELSE [acc EXCEPT !.st = IF c = ".." THEN Front(@) ELSE Append(@, c)]

NormalizeLogical(parts) == FoldLeft(PushComponent, [st |-> << >>, denied |-> FALSE], parts)

-----------------------------------------------------------------------------
(* resolve *)

Missing == <<"ENOENT">>

\* realpath(3); fuel bounds the links followed (ELOOP).
RECURSIVE Realpath(_, _, _)
Realpath(fs, path, fuel) ==
    IF path = << >> THEN << >>
    ELSE LET parent == Realpath(fs, Front(path), fuel)
             here   == Append(parent, Last(path))
         IN  IF parent = Missing \/ here \notin DOMAIN fs THEN Missing
             ELSE IF fs[here].kind # "link" THEN here
             ELSE IF fuel = 0 THEN Missing
             ELSE Realpath(fs, fs[here].to, fuel - 1)

\* The slash after the root is not compared.
Mutant_StringPrefix(path, root) ==
    /\ Len(root) <= Len(path)
    /\ SubSeq(path, 1, Len(root) - 1) = Front(root)
    /\ \/ path[Len(root)] = Last(root)
       \/ <<Last(root), path[Len(root)]>> \in Lengthened

\* startsWithPath: the path is the root or begins with the root and a slash.
IsInside(path, root) == Len(root) <= Len(path) /\ SubSeq(path, 1, Len(root)) = root

\* One iteration of resolve's loop: name i of names, from acc.cur.
FollowName(fs, root, names, mustExist, fuel, acc, i) ==
    LET next == Append(acc.cur, names[i])
        real == Realpath(fs, next, fuel)
    IN  IF acc.res # "going" THEN acc
        ELSE IF next \notin DOMAIN fs
        THEN IF i = Len(names) /\ ~mustExist
             THEN [cur |-> next, res |-> IF IsInside(acc.cur, root) THEN "found" ELSE "forbidden"]
             ELSE [acc EXCEPT !.res = "notfound"]
        ELSE IF fs[next].kind = "link"
        THEN IF real = Missing THEN [acc EXCEPT !.res = "notfound"]
             ELSE [cur |-> real, res |-> IF IsInside(real, root) THEN "going" ELSE "forbidden"]
        ELSE [cur |-> next, res |-> IF IsInside(next, root) THEN "going" ELSE "forbidden"]

Resolve(fs, root, names, mustExist, fuel) ==
    LET Step(acc, i) == FollowName(fs, root, names, mustExist, fuel, acc, i)
        end == FoldLeft(Step, [cur |-> root, res |-> "going"], [i \in 1 .. Len(names) |-> i])
    IN  IF end.res # "going" THEN end
        ELSE [end EXCEPT !.res = IF IsInside(end.cur, root) THEN "found" ELSE "forbidden"]

-----------------------------------------------------------------------------
(* What the two should compute *)

\* How deep the first n components lead, were it allowed to climb over the root.
Depth(parts, n) ==
    FoldLeft(LAMBDA d, c : IF c = ".." THEN d - 1 ELSE IF IsName(c) THEN d + 1 ELSE d,
             0, SubSeq(parts, 1, n))

Escapes(parts) ==
    \E n \in 1 .. Len(parts) :
        LET P == SubSeq(parts, 1, n) IN
        Len(SelectSeq(P, LAMBDA c : c = "..")) > Len(SelectSeq(P, IsName))

\* A name stays unless the path later climbs above it.
Kept(parts, n) ==
    IsName(parts[n]) /\ \A k \in n .. Len(parts) : Depth(parts, k) >= Depth(parts, n)

\* The reading of a path that POSIX gives it when no link is involved.
LexicalNames(parts) ==
    LET kept == SelectSeq([n \in 1 .. Len(parts) |-> n], LAMBDA n : Kept(parts, n))
    IN  [i \in 1 .. Len(kept) |-> parts[kept[i]]]
=============================================================================
