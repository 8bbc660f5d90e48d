---------------------------- MODULE ObjectStore ----------------------------
(***************************************************************************)
(* The reference-counted object store and what TransferService keeps about *)
(* it: the files under objects/, their Redis metadata cs:obj and reference *)
(* sets cs:refs, the MySQL table file_index and the Redis cache cs:path.   *)
(* Each operator is the whole effect of one function of transfer.cpp on    *)
(* that state when none of its commands fails; module TransferSteps shows  *)
(* that the commands, one by one, add up to these effects.                 *)
(***************************************************************************)
EXTENDS Integers, Sequences

CONSTANTS
    Users,        \* user ids
    Paths,        \* normalised logical paths, as sequences of names
    LikeMatch,    \* <<d, p>> such that SQL evaluates p LIKE 'd/%' to true
    Md5,          \* contents, each named by its digest
    NoMd5         \* the empty string

Root == << >>

-----------------------------------------------------------------------------
(* State *)

Digest == Md5 \cup {NoMd5}

\* A row of file_index; "none" is the absence of a row.
Row == [kind : {"none", "dir", "file"}, md5 : Digest]
NoRow == [kind |-> "none", md5 |-> NoMd5]
DirRow == [kind |-> "dir", md5 |-> NoMd5]
FileRow(m) == [kind |-> "file", md5 |-> m]

\* objects: md5s with a complete file under objects/; objMeta: cs:obj:<md5>;
\* refs[m]: cs:refs:<m>; index: file_index; pathMd5: cs:path (NoMd5 = no key).
\* A rename of a row without md5 makes the key cs:refs:"", hence Digest.
StoreType ==
    [objects : SUBSET Md5,
     objMeta : SUBSET Md5,
     refs    : [Digest -> SUBSET (Users \X Paths)],
     index   : [Users -> [Paths -> Row]],
     pathMd5 : [Users -> [Paths -> Digest]]]

Store(objects, objMeta, refs, index, pathMd5) ==
    [objects |-> objects, objMeta |-> objMeta, refs |-> refs,
     index |-> index, pathMd5 |-> pathMd5]

EmptyStore ==
    Store({}, {}, [m \in Digest |-> {}],
          [u \in Users |-> [p \in Paths |-> NoRow]],
          [u \in Users |-> [p \in Paths |-> NoMd5]])

\* p lies strictly below the directory d.
IsUnder(p, d) == Len(d) < Len(p) /\ SubSeq(p, 1, Len(d)) = d

-----------------------------------------------------------------------------
(* The operations of TransferService on the store *)

\* lookupFile succeeds and the row is not a directory.
IsFile(st, u, p) == st.index[u][p].kind = "file"

\* The md5 that releaseContentRef and beginDownload work with: the cached one,
\* or the one of the row when the cache has none.
HeldMd5(st, u, p) ==
    IF st.pathMd5[u][p] # NoMd5 THEN st.pathMd5[u][p]
    ELSE IF IsFile(st, u, p) THEN st.index[u][p].md5
    ELSE NoMd5

IndexFile(st, u, p, row) ==
    Store(st.objects, st.objMeta, st.refs, [st.index EXCEPT ![u][p] = row], st.pathMd5)

\* f[u] with the value none at every path of P.
Without(f, u, P, none) ==
    [f EXCEPT ![u] = [p \in Paths |-> IF p \in P THEN none ELSE f[u][p]]]

\* unindex, for every path of P.
Unindex(st, u, P) ==
    Store(st.objects, st.objMeta, st.refs,
          Without(st.index, u, P, NoRow), Without(st.pathMd5, u, P, NoMd5))

\* The references left in cs:refs:<m> once u has released the paths P.
RefsAfterRelease(st, u, P, m) ==
    {r \in st.refs[m] : ~(r[1] = u /\ r[2] \in P /\ HeldMd5(st, u, r[2]) = m)}

\* The contents whose last reference that release removes.
Collected(st, u, P) ==
    {m \in Md5 : /\ \E p \in P : HeldMd5(st, u, p) = m
                 /\ RefsAfterRelease(st, u, P, m) = {}}

\* The count is not asked.
Mutant_GcShared(st, u, P) ==
    LET held == {HeldMd5(st, u, p) : p \in P} IN
    Store(st.objects \ held, st.objMeta \ held,
          [m \in Digest |-> IF m = NoMd5 THEN st.refs[m] ELSE RefsAfterRelease(st, u, P, m)],
          Without(st.index, u, P, NoRow), Without(st.pathMd5, u, P, NoMd5))

\* releaseContentRef for each path of P: the reference goes, the object goes
\* with its last reference, the row and the cached md5 go.  Releasing one path
\* changes no other path's md5, so the order does not matter.
ReleaseContentRef(st, u, P) ==
    Store(st.objects \ Collected(st, u, P), st.objMeta \ Collected(st, u, P),
          [m \in Digest |-> IF m = NoMd5 THEN st.refs[m] ELSE RefsAfterRelease(st, u, P, m)],
          Without(st.index, u, P, NoRow), Without(st.pathMd5, u, P, NoMd5))

\* publishObject: copied into place unless it is there already.
PublishObject(st, m) ==
    Store(st.objects \cup {m}, st.objMeta \cup {m}, st.refs, st.index, st.pathMd5)

\* The reference is not counted.
Mutant_RefForgotten(st, u, p, m) ==
    Store(st.objects, st.objMeta, st.refs,
          [st.index EXCEPT ![u][p] = FileRow(m)], [st.pathMd5 EXCEPT ![u][p] = m])

AddContentRef(st, u, p, m) ==
    Store(st.objects, st.objMeta, [st.refs EXCEPT ![m] = @ \cup {<<u, p>>}],
          [st.index EXCEPT ![u][p] = FileRow(m)], [st.pathMd5 EXCEPT ![u][p] = m])

\* The source's reference is not removed.
Mutant_OldRefKept(st, u, from, to) ==
    LET m == st.index[u][from].md5 IN
    Store(st.objects, st.objMeta, [st.refs EXCEPT ![m] = @ \cup {<<u, to>>}],
          [st.index EXCEPT ![u] = [@ EXCEPT ![to] = FileRow(m), ![from] = NoRow]],
          [st.pathMd5 EXCEPT ![u] = [@ EXCEPT ![from] = NoMd5, ![to] = m]])

\* renameIndexedFile: the source row is deleted last, its cached md5 before
\* the target's is set; from = to makes that order visible.
RenameIndexedFile(st, u, from, to) ==
    LET m == st.index[u][from].md5 IN
    Store(st.objects, st.objMeta,
          [st.refs EXCEPT ![m] = (@ \ {<<u, from>>}) \cup {<<u, to>>}],
          [st.index EXCEPT ![u] = [@ EXCEPT ![to] = FileRow(m), ![from] = NoRow]],
          [st.pathMd5 EXCEPT ![u] = [@ EXCEPT ![from] = NoMd5, ![to] = m]])

\* What renameUserPath records once the directory itself has been moved: the
\* target becomes a FILE row with the md5 cached for the source.
ReindexDirectory(st, u, from, to) ==
    LET m     == st.pathMd5[u][from]
        rows  == Without(st.index, u, {from}, NoRow)
        cache == Without(st.pathMd5, u, {from}, NoMd5)
    IN  Store(st.objects, st.objMeta, st.refs,
              [rows EXCEPT ![u][to] = FileRow(m)],
              IF m = NoMd5 THEN cache ELSE [cache EXCEPT ![u][to] = m])

\* The file rows that releaseIndexedUnderPrefix selects.
IndexedUnderPrefix(st, u, d) ==
    {p \in Paths : IsFile(st, u, p) /\ <<d, p>> \in LikeMatch}

\* What a download of p would deliver, the object store permitting.
Content(st, u, p) ==
    IF HeldMd5(st, u, p) \in st.objects THEN HeldMd5(st, u, p) ELSE NoMd5
=============================================================================
