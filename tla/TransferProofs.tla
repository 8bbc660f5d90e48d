--------------------------- MODULE TransferProofs ---------------------------
(***************************************************************************)
(* Proofs about TransferService, for all users, sessions, paths and        *)
(* contents; at the end, that it implements UserFiles.                     *)
(***************************************************************************)
EXTENDS TransferRefinement, SequenceTheorems, TLAPS

-----------------------------------------------------------------------------
(* What the operations make of a store st: r is the result *)

\* indexFile writes one row.
IndexEffect(st, r, u, p, row) ==
    /\ r \in StoreType
    /\ r.objects = st.objects /\ r.objMeta = st.objMeta /\ r.refs = st.refs
    /\ r.pathMd5 = st.pathMd5
    /\ \A v \in Users, q \in Paths :
          r.index[v][q] = IF v = u /\ q = p THEN row ELSE st.index[v][q]

\* unindex deletes rows and cached md5s of one user.
UnindexEffect(st, r, u, P) ==
    /\ r \in StoreType
    /\ r.objects = st.objects /\ r.objMeta = st.objMeta /\ r.refs = st.refs
    /\ \A v \in Users, q \in Paths :
          /\ r.index[v][q] = IF v = u /\ q \in P THEN NoRow ELSE st.index[v][q]
          /\ r.pathMd5[v][q] = IF v = u /\ q \in P THEN NoMd5 ELSE st.pathMd5[v][q]

\* releaseContentRef of the paths P.
ReleaseEffect(st, r, u, P) ==
    /\ r \in StoreType
    /\ r.objects = st.objects \ Collected(st, u, P)
    /\ r.objMeta = st.objMeta \ Collected(st, u, P)
    /\ \A m \in Digest :
          r.refs[m] = IF m = NoMd5 THEN st.refs[m] ELSE RefsAfterRelease(st, u, P, m)
    /\ \A v \in Users, q \in Paths :
          /\ r.index[v][q] = IF v = u /\ q \in P THEN NoRow ELSE st.index[v][q]
          /\ r.pathMd5[v][q] = IF v = u /\ q \in P THEN NoMd5 ELSE st.pathMd5[v][q]

\* publishObject adds one object and its metadata.
PublishEffect(st, r, m) ==
    /\ r \in StoreType
    /\ r.objects = st.objects \cup {m} /\ r.objMeta = st.objMeta \cup {m}
    /\ r.refs = st.refs /\ r.index = st.index /\ r.pathMd5 = st.pathMd5

AddEffect(st, r, u, p, m) ==
    /\ r \in StoreType
    /\ r.objects = st.objects /\ r.objMeta = st.objMeta
    /\ \A n \in Digest : r.refs[n] = IF n = m THEN st.refs[n] \cup {<<u, p>>} ELSE st.refs[n]
    /\ \A v \in Users, q \in Paths :
          /\ r.index[v][q] = IF v = u /\ q = p THEN FileRow(m) ELSE st.index[v][q]
          /\ r.pathMd5[v][q] = IF v = u /\ q = p THEN m ELSE st.pathMd5[v][q]

\* renameIndexedFile of a row with md5 m.
RenameEffect(st, r, u, from, to, m) ==
    /\ m \in Digest
    /\ r \in StoreType
    /\ r.objects = st.objects /\ r.objMeta = st.objMeta
    /\ \A n \in Digest :
          r.refs[n] = IF n = m THEN (st.refs[n] \ {<<u, from>>}) \cup {<<u, to>>}
                      ELSE st.refs[n]
    /\ \A v \in Users, q \in Paths :
          /\ r.index[v][q] = IF v = u /\ q = from THEN NoRow
                             ELSE IF v = u /\ q = to THEN FileRow(m)
                             ELSE st.index[v][q]
          /\ r.pathMd5[v][q] = IF v = u /\ q = to THEN m
                               ELSE IF v = u /\ q = from THEN NoMd5
                               ELSE st.pathMd5[v][q]

\* The metadata part of the rename of a directory whose path has m cached.
ReindexEffect(st, r, u, from, to, m) ==
    /\ m \in Digest
    /\ r \in StoreType
    /\ r.objects = st.objects /\ r.objMeta = st.objMeta /\ r.refs = st.refs
    /\ \A v \in Users, q \in Paths :
          /\ r.index[v][q] = IF v = u /\ q = from THEN NoRow
                             ELSE IF v = u /\ q = to THEN FileRow(m)
                             ELSE st.index[v][q]
          /\ r.pathMd5[v][q] = IF v = u /\ q = from THEN NoMd5
                               ELSE IF v = u /\ q = to /\ m # NoMd5 THEN m
                               ELSE st.pathMd5[v][q]

\* The operations of TransferService have these effects.
LEMMA IndexFields ==
    ASSUME NEW st \in StoreType, NEW u \in Users, NEW p \in Paths, NEW row \in Row
    PROVE  IndexEffect(st, IndexFile(st, u, p, row), u, p, row)
BY DEF IndexEffect, IndexFile, Store, StoreType

\* unindex changes the rows and cached md5s of the given paths only.
LEMMA UnindexFields ==
    ASSUME NEW st \in StoreType, NEW u \in Users, NEW P \in SUBSET Paths
    PROVE  UnindexEffect(st, Unindex(st, u, P), u, P)
BY DEF UnindexEffect, Unindex, Store, Without, StoreType, NoRow, Row, Digest

\* releaseContentRef has the effect stated above.
LEMMA ReleaseFields ==
    ASSUME NEW st \in StoreType, NEW u \in Users, NEW P \in SUBSET Paths
    PROVE  ReleaseEffect(st, ReleaseContentRef(st, u, P), u, P)
BY DEF ReleaseEffect, ReleaseContentRef, RefsAfterRelease, Store, Without, StoreType,
       NoRow, Row, Digest

\* publishObject adds an object and its key only.
LEMMA PublishFields ==
    ASSUME NEW st \in StoreType, NEW m \in Md5
    PROVE  PublishEffect(st, PublishObject(st, m), m)
BY DEF PublishEffect, PublishObject, Store, StoreType

\* addContentRef counts, indexes and caches one path.
LEMMA AddFields ==
    ASSUME NEW st \in StoreType, NEW u \in Users, NEW p \in Paths, NEW m \in Md5
    PROVE  AddEffect(st, AddContentRef(st, u, p, m), u, p, m)
<1> DEFINE r == AddContentRef(st, u, p, m)
<1>1. m \in Digest /\ FileRow(m) \in Row
  BY DEF FileRow, Row, Digest
<1>2. r = Store(st.objects, st.objMeta, [st.refs EXCEPT ![m] = @ \cup {<<u, p>>}],
                [st.index EXCEPT ![u][p] = FileRow(m)], [st.pathMd5 EXCEPT ![u][p] = m])
  BY DEF AddContentRef
<1> HIDE DEF r
<1>3. /\ r.objects = st.objects /\ r.objMeta = st.objMeta
      /\ r.refs = [st.refs EXCEPT ![m] = @ \cup {<<u, p>>}]
      /\ r.index = [st.index EXCEPT ![u][p] = FileRow(m)]
      /\ r.pathMd5 = [st.pathMd5 EXCEPT ![u][p] = m]
  BY <1>2 DEF Store
<1>4. /\ r.refs \in [Digest -> SUBSET (Users \X Paths)]
      /\ r.index \in [Users -> [Paths -> Row]]
      /\ r.pathMd5 \in [Users -> [Paths -> Digest]]
  BY <1>1, <1>3 DEF StoreType
<1>5. r \in StoreType
  BY <1>2, <1>3, <1>4 DEF Store, StoreType
<1>6. \A n \in Digest : r.refs[n] = IF n = m THEN st.refs[n] \cup {<<u, p>>} ELSE st.refs[n]
  BY <1>1, <1>3 DEF StoreType
<1>7. \A v \in Users, q \in Paths :
         /\ r.index[v][q] = IF v = u /\ q = p THEN FileRow(m) ELSE st.index[v][q]
         /\ r.pathMd5[v][q] = IF v = u /\ q = p THEN m ELSE st.pathMd5[v][q]
  BY <1>1, <1>3 DEF StoreType
<1> QED BY <1>3, <1>5, <1>6, <1>7 DEF r, AddEffect

\* renameIndexedFile moves one reference, row and cached md5.
LEMMA RenameFields ==
    ASSUME NEW st \in StoreType, NEW u \in Users, NEW from \in Paths, NEW to \in Paths
    PROVE  RenameEffect(st, RenameIndexedFile(st, u, from, to), u, from, to,
                        st.index[u][from].md5)
<1> DEFINE m == st.index[u][from].md5
           r == RenameIndexedFile(st, u, from, to)
<1>1. m \in Digest /\ FileRow(m) \in Row /\ NoRow \in Row /\ NoMd5 \in Digest
  BY DEF StoreType, FileRow, NoRow, Row, Digest
<1>2. r = Store(st.objects, st.objMeta,
                [st.refs EXCEPT ![m] = (@ \ {<<u, from>>}) \cup {<<u, to>>}],
                [st.index EXCEPT ![u] = [@ EXCEPT ![to] = FileRow(m), ![from] = NoRow]],
                [st.pathMd5 EXCEPT ![u] = [@ EXCEPT ![from] = NoMd5, ![to] = m]])
  BY DEF RenameIndexedFile
<1> HIDE DEF m, r
<1>3. /\ r.objects = st.objects /\ r.objMeta = st.objMeta
      /\ r.refs = [st.refs EXCEPT ![m] = (@ \ {<<u, from>>}) \cup {<<u, to>>}]
      /\ r.index = [st.index EXCEPT ![u] = [@ EXCEPT ![to] = FileRow(m), ![from] = NoRow]]
      /\ r.pathMd5 = [st.pathMd5 EXCEPT ![u] = [@ EXCEPT ![from] = NoMd5, ![to] = m]]
  BY <1>2 DEF Store
<1>4. r.refs \in [Digest -> SUBSET (Users \X Paths)]
  BY <1>1, <1>3 DEF StoreType
<1>5. r.index \in [Users -> [Paths -> Row]]
  BY <1>1, <1>3 DEF StoreType
<1>6. r.pathMd5 \in [Users -> [Paths -> Digest]]
  <2>1. st.pathMd5 \in [Users -> [Paths -> Digest]]
    BY DEF StoreType
  <2>2. [st.pathMd5[u] EXCEPT ![from] = NoMd5, ![to] = m] \in [Paths -> Digest]
    BY <1>1, <2>1
  <2> QED BY <1>3, <2>1, <2>2
<1>7. r \in StoreType
  BY <1>2, <1>3, <1>4, <1>5, <1>6 DEF Store, StoreType
<1>8. \A n \in Digest :
         r.refs[n] = IF n = m THEN (st.refs[n] \ {<<u, from>>}) \cup {<<u, to>>}
                     ELSE st.refs[n]
  BY <1>1, <1>3 DEF StoreType
<1>9. \A v \in Users, q \in Paths :
         /\ r.index[v][q] = IF v = u /\ q = from THEN NoRow
                            ELSE IF v = u /\ q = to THEN FileRow(m)
                            ELSE st.index[v][q]
         /\ r.pathMd5[v][q] = IF v = u /\ q = to THEN m
                              ELSE IF v = u /\ q = from THEN NoMd5
                              ELSE st.pathMd5[v][q]
  <2>1. st.index \in [Users -> [Paths -> Row]] /\ st.pathMd5 \in [Users -> [Paths -> Digest]]
    BY DEF StoreType
  <2>2. /\ r.index[u] = [st.index[u] EXCEPT ![to] = FileRow(m), ![from] = NoRow]
        /\ r.pathMd5[u] = [st.pathMd5[u] EXCEPT ![from] = NoMd5, ![to] = m]
        /\ \A v \in Users \ {u} : r.index[v] = st.index[v] /\ r.pathMd5[v] = st.pathMd5[v]
    BY <1>3, <2>1
  <2> QED BY <2>1, <2>2
<1> QED BY <1>1, <1>3, <1>7, <1>8, <1>9 DEF m, r, RenameEffect

\* The rename of a directory moves its cached md5 and makes a file row.
LEMMA ReindexFields ==
    ASSUME NEW st \in StoreType, NEW u \in Users, NEW from \in Paths, NEW to \in Paths,
           from # to
    PROVE  ReindexEffect(st, ReindexDirectory(st, u, from, to), u, from, to,
                         st.pathMd5[u][from])
BY DEF ReindexEffect, ReindexDirectory, Store, Without, StoreType, FileRow, NoRow, Row, Digest

-----------------------------------------------------------------------------
(* What a request does to the store *)

\* p's version, if there is one, has been released before an upload replaces it.
ReplaceEffect(st, r, u, p) ==
    \/ r = st /\ ~IsFile(st, u, p)
    \/ IsFile(st, u, p) /\ ReleaseEffect(st, r, u, {p})

\* The ways in which a request of user u changes the store.
StoreStep(u) ==
    \/ \E p \in DirPaths : IndexEffect(store, store', u, p, DirRow)
    \/ \E P \in SUBSET Paths :
          (\E p \in Paths : P = {p}) /\ ReleaseEffect(store, store', u, P)
    \/ \E P \in SUBSET Paths, d \in DirPaths, st \in StoreType :
          /\ d # Root /\ P = IndexedUnderPrefix(store, u, d)
          /\ ReleaseEffect(store, st, u, P) /\ UnindexEffect(st, store', u, {d})
    \/ \E r \in RenamePairs :
          /\ IsFile(store, u, r[1])
          /\ \E s \in Sessions : UserOf[s] = u /\ RenameFile(s, r[1], r[2])
          /\ RenameEffect(store, store', u, r[1], r[2], store.index[u][r[1]].md5)
    \/ \E r \in RenamePairs :
          /\ r[1] # r[2]
          /\ r[1] \in DirPaths /\ r[2] \in DirPaths
          /\ ReindexEffect(store, store', u, r[1], r[2], store.pathMd5[u][r[1]])
    \/ \E p \in FilePaths, m \in Md5, st \in StoreType :
          /\ m \in store.objects
          /\ IsFile(store, u, p) => TRUE \in Overwrites
          /\ ReplaceEffect(store, st, u, p)
          /\ AddEffect(st, store', u, p, m)
    \/ \E p \in FilePaths, m \in Md5, st \in StoreType, st1 \in StoreType :
          /\ ReplaceEffect(store, st, u, p)
          /\ PublishEffect(st, st1, m)
          /\ AddEffect(st1, store', u, p, m)

\* Releasing the previous version, or not, has the effect stated above.
LEMMA ReplaceFields ==
    ASSUME NEW u \in Users, NEW p \in Paths, store \in StoreType
    PROVE  LET st == IF IsFile(store, u, p) THEN ReleaseContentRef(store, u, {p}) ELSE store
           IN  st \in StoreType /\ ReplaceEffect(store, st, u, p)
<1>1. ReleaseEffect(store, ReleaseContentRef(store, u, {p}), u, {p})
  BY ReleaseFields
<1>2. ReleaseContentRef(store, u, {p}) \in StoreType
  BY <1>1 DEF ReleaseEffect
<1> QED BY <1>1, <1>2 DEF ReplaceEffect

\* Every step leaves the store alone or is a request that changes it in one of
\* these ways.
LEMMA NextStoreStep ==
    ASSUME TypeOK, Next
    PROVE  store' = store \/ \E s \in Sessions : Request(s) /\ StoreStep(UserOf[s])
<1>1. CASE ChallengeExpires
  BY <1>1 DEF ChallengeExpires
<1>2. ASSUME NEW s \in Sessions, Request(s)
      PROVE  store' = store \/ StoreStep(UserOf[s])
  <2> DEFINE u == UserOf[s]
  <2>0. u \in Users
    BY TransferAssumption
  <2> USE DEF TypeOK
  <2>1. ASSUME NEW p \in DirPaths, Mkdir(s, p) PROVE StoreStep(u)
    <3>1. store' = IndexFile(store, u, p, DirRow) /\ DirRow \in Row /\ p \in Paths
      BY <2>1, TransferAssumption DEF Mkdir, DirRow, Row, Digest
    <3>2. IndexEffect(store, store', u, p, DirRow)
      BY <2>0, <3>1, IndexFields
    <3> QED BY <3>2 DEF StoreStep
  <2>2. ASSUME NEW p \in Paths, RmFile(s, p) \/ RmStale(s, p) PROVE StoreStep(u)
    <3>1. store' = ReleaseContentRef(store, u, {p}) /\ {p} \in SUBSET Paths
      BY <2>2 DEF RmFile, RmStale
    <3>2. ReleaseEffect(store, store', u, {p})
      BY <2>0, <3>1, ReleaseFields
    <3> QED BY <3>1, <3>2 DEF StoreStep
  <2>3. ASSUME NEW d \in Paths, RmDirectory(s, d) PROVE StoreStep(u)
    <3> DEFINE P == IndexedUnderPrefix(store, u, d)
               st == ReleaseContentRef(store, u, P)
    <3>1. P \in SUBSET Paths
      BY DEF IndexedUnderPrefix
    <3>2. d \in DirPaths /\ d # Root /\ {d} \in SUBSET Paths
      BY <2>0, <2>3 DEF RmDirectory
    <3>3. store' = Unindex(st, u, {d})
      BY <2>3 DEF RmDirectory
    <3> HIDE DEF P
    <3>4. ReleaseEffect(store, st, u, P)
      BY <2>0, <3>1, ReleaseFields
    <3>5. st \in StoreType
      BY <3>4 DEF ReleaseEffect
    <3> HIDE DEF st
    <3>6. UnindexEffect(st, store', u, {d})
      BY <2>0, <3>2, <3>3, <3>5, UnindexFields
    <3>7. P = IndexedUnderPrefix(store, u, d)
      BY DEF P
    <3> QED BY <3>1, <3>2, <3>4, <3>5, <3>6, <3>7 DEF StoreStep
  <2>4. ASSUME NEW r \in RenamePairs, RenameFile(s, r[1], r[2]) PROVE StoreStep(u)
    <3>1. /\ store' = RenameIndexedFile(store, u, r[1], r[2])
          /\ IsFile(store, u, r[1])
          /\ r[1] \in Paths /\ r[2] \in Paths
      BY <2>4, TransferAssumption DEF RenameFile
    <3>2. RenameEffect(store, store', u, r[1], r[2], store.index[u][r[1]].md5)
      BY <2>0, <3>1, RenameFields
    <3> QED BY <2>4, <3>1, <3>2 DEF StoreStep
  <2>5. ASSUME NEW r \in RenamePairs, RenameDirectory(s, r[1], r[2]) PROVE StoreStep(u)
    <3>1. /\ r[1] \in dirs[u] /\ r[2] \notin dirs[u]
          /\ store' = ReindexDirectory(store, u, r[1], r[2])
          /\ r[1] \in Paths /\ r[2] \in Paths /\ r[1] # r[2]
      BY <2>5, TransferAssumption DEF RenameDirectory
    <3>2. r[1] \in DirPaths
      BY <2>0, <3>1
    <3>3. MovedTo(r[1], r[1], r[2]) \in DirPaths
      BY <2>5, <3>1 DEF RenameDirectory
    <3>4. MovedTo(r[1], r[1], r[2]) = r[2]
      <4>1. r[1] \in Seq(STRING) /\ r[2] \in Seq(STRING)
        BY TransferAssumption
      <4>2. SubSeq(r[1], Len(r[1]) + 1, Len(r[1])) = << >>
        BY <4>1
      <4> QED BY <4>1, <4>2, ConcatEmptySeq DEF MovedTo
    <3>5. ReindexEffect(store, store', u, r[1], r[2], store.pathMd5[u][r[1]])
      BY <2>0, <3>1, ReindexFields
    <3> QED BY <3>1, <3>2, <3>3, <3>4, <3>5 DEF StoreStep
  <2>6. ASSUME NEW m \in Md5, InstantQuery(s, m) PROVE store' = store
    BY <2>6 DEF InstantQuery
  <2>7. ASSUME NEW p \in FilePaths, NEW m \in Md5, NEW ow \in Overwrites,
               InstantUpload(s, p, m, ow)
        PROVE  StoreStep(u)
    <3> DEFINE st == IF IsFile(store, u, p) THEN ReleaseContentRef(store, u, {p}) ELSE store
    <3>1. /\ m \in store.objects
          /\ store' = AddContentRef(st, u, p, m)
          /\ IsFile(store, u, p) => ow
      BY <2>7 DEF InstantUpload, DestinationExists
    <3>2. (IsFile(store, u, p) => TRUE \in Overwrites) /\ p \in Paths
      BY <3>1, TransferAssumption
    <3>3. st \in StoreType /\ ReplaceEffect(store, st, u, p)
      BY <2>0, <3>2, ReplaceFields
    <3> HIDE DEF st
    <3>4. AddEffect(st, store', u, p, m)
      BY <2>0, <3>1, <3>2, <3>3, AddFields
    <3> QED BY <3>1, <3>2, <3>3, <3>4 DEF StoreStep
  <2>8. ASSUME NEW p \in FilePaths, NEW m \in Md5,
               InstantUploadConflict(s, p, m) \/ UploadBegin(s, p, m)
        PROVE  store' = store
    BY <2>8 DEF InstantUploadConflict, UploadBegin
  <2>9. CASE CloseUpload(s)
    BY <2>9 DEF CloseUpload
  <2>10. ASSUME upload[s] # NoUpload
         PROVE  upload[s].path \in FilePaths /\ upload[s].md5 \in Md5
    BY <2>10 DEF TypeOK, UploadSession
  <2>11. CASE UploadEnd(s)
    <3> DEFINE p == upload[s].path
               m == upload[s].md5
               st == IF IsFile(store, u, p) THEN ReleaseContentRef(store, u, {p}) ELSE store
               st1 == PublishObject(st, m)
    <3>1. p \in FilePaths /\ p \in Paths /\ m \in Md5
      BY <2>10, <2>11, TransferAssumption DEF UploadEnd
    <3>2. store' = AddContentRef(st1, u, p, m)
      BY <2>11 DEF UploadEnd, ReleasePrevious
    <3> HIDE DEF p, m
    <3>3. st \in StoreType /\ ReplaceEffect(store, st, u, p)
      BY <2>0, <3>1, ReplaceFields
    <3> HIDE DEF st
    <3>4. PublishEffect(st, st1, m)
      BY <3>1, <3>3, PublishFields
    <3>5. st1 \in StoreType
      BY <3>4 DEF PublishEffect
    <3> HIDE DEF st1
    <3>6. AddEffect(st1, store', u, p, m)
      BY <2>0, <3>1, <3>2, <3>5, AddFields
    <3> QED BY <3>1, <3>3, <3>4, <3>5, <3>6 DEF StoreStep
  <2>12. CASE UploadEndPublishFails(s)
    <3> DEFINE p == upload[s].path
    <3>1. {p} \in SUBSET Paths /\ p \in Paths
      BY <2>10, <2>12, TransferAssumption DEF UploadEndPublishFails
    <3>2. store' = store \/ store' = ReleaseContentRef(store, u, {p})
      BY <2>12 DEF UploadEndPublishFails, ReleasePrevious
    <3> HIDE DEF p
    <3>3. ReleaseEffect(store, ReleaseContentRef(store, u, {p}), u, {p})
      BY <2>0, <3>1, ReleaseFields
    <3> QED BY <3>1, <3>2, <3>3 DEF StoreStep
  <2> QED BY <1>2, <2>1, <2>2, <2>3, <2>4, <2>5, <2>6, <2>7, <2>8, <2>9, <2>11, <2>12 DEF Request
<1> QED BY <1>1, <1>2 DEF Next

-----------------------------------------------------------------------------
(* Type correctness *)

\* Every change of the store yields a store.
LEMMA StoreStepType ==
    ASSUME NEW u \in Users, StoreStep(u)
    PROVE  store' \in StoreType
BY DEF StoreStep, IndexEffect, ReleaseEffect, UnindexEffect, RenameEffect, ReindexEffect, AddEffect

\* The first state has its type.
LEMMA InitType == Init => TypeOK
<1> SUFFICES ASSUME Init PROVE TypeOK
  OBVIOUS
<1>1. store \in StoreType
  <2>1. NoRow \in Row /\ NoMd5 \in Digest
    BY DEF NoRow, Row, Digest
  <2> QED BY <2>1 DEF Init, EmptyStore, Store, StoreType
<1>2. /\ dirs \in [Users -> SUBSET DirPaths]
      /\ \A u \in Users : Root \in dirs[u]
  BY TransferAssumption DEF Init
<1>3. upload \in [Sessions -> UploadSession \cup {NoUpload}] /\ challenge \subseteq Sessions \X Md5
  BY DEF Init
<1> QED BY <1>1, <1>2, <1>3 DEF TypeOK

\* Every handler keeps the types and the user's root directory.
LEMMA StepType == TypeOK /\ [Next]_vars => TypeOK'
<1> SUFFICES ASSUME TypeOK, [Next]_vars PROVE TypeOK'
  OBVIOUS
<1>1. CASE UNCHANGED vars
  BY <1>1 DEF TypeOK, vars
<1>2. CASE Next
  <2>1. store' \in StoreType
    <3>1. \A s \in Sessions : UserOf[s] \in Users
      BY TransferAssumption
    <3> QED BY <1>2, <3>1, NextStoreStep, StoreStepType DEF TypeOK
  <2>2. ASSUME NEW s \in Sessions, Request(s)
        PROVE  /\ dirs' \in [Users -> SUBSET DirPaths]
               /\ \A u \in Users : Root \in dirs'[u]
               /\ upload' \in [Sessions -> UploadSession \cup {NoUpload}]
               /\ challenge' \subseteq Sessions \X Md5
    <3> DEFINE Good == /\ dirs' \in [Users -> SUBSET DirPaths]
                       /\ \A u \in Users : Root \in dirs'[u]
                       /\ upload' \in [Sessions -> UploadSession \cup {NoUpload}]
                       /\ challenge' \subseteq Sessions \X Md5
    <3>0. UserOf[s] \in Users
      BY TransferAssumption
    <3>1. ASSUME NEW p \in DirPaths, Mkdir(s, p) PROVE Good
      BY <3>0, <3>1 DEF Mkdir, TypeOK
    <3>2. ASSUME NEW p \in Paths, RmFile(s, p) \/ RmStale(s, p) PROVE Good
      BY <3>2 DEF RmFile, RmStale, TypeOK
    <3>3. ASSUME NEW d \in Paths, RmDirectory(s, d) PROVE Good
      <4>1. ~IsUnder(Root, d)
        BY TransferAssumption DEF IsUnder, Root
      <4> QED BY <3>0, <3>3, <4>1 DEF RmDirectory, RemovePath, TypeOK
    <3>4. ASSUME NEW r \in RenamePairs, RenameFile(s, r[1], r[2]) PROVE Good
      BY <3>4 DEF RenameFile, TypeOK
    <3>5. ASSUME NEW r \in RenamePairs, RenameDirectory(s, r[1], r[2]) PROVE Good
      <4> DEFINE u == UserOf[s]
                 moved == {e \in dirs[u] : e = r[1] \/ IsUnder(e, r[1])}
                 landed == {MovedTo(e, r[1], r[2]) : e \in moved}
      <4>1. /\ dirs' = [dirs EXCEPT ![u] = (@ \ moved) \cup landed]
            /\ landed \subseteq DirPaths
            /\ upload' = upload /\ challenge' = challenge
            /\ r[2] \notin dirs[u] /\ ~IsUnder(r[2], r[1])
        BY <3>5 DEF RenameDirectory
      <4>2. r[1] \in Seq(STRING) /\ r[2] \in Seq(STRING)
        BY TransferAssumption
      <4>3. r[1] # Root
        <5> SUFFICES ASSUME r[1] = Root PROVE FALSE
          OBVIOUS
        <5>1. r[2] = Root
          BY <4>1, <4>2, EmptySeq DEF IsUnder, Root
        <5> QED BY <3>0, <4>1, <5>1 DEF TypeOK
      <4>4. ~IsUnder(Root, r[1])
        BY <4>2 DEF IsUnder, Root
      <4>5. Root \notin moved
        BY <4>3, <4>4
      <4> HIDE DEF moved, landed, u
      <4> QED BY <3>0, <4>1, <4>5 DEF TypeOK, u
    <3>6. ASSUME NEW m \in Md5, InstantQuery(s, m) PROVE Good
      BY <3>6 DEF InstantQuery, TypeOK
    <3>7. ASSUME NEW p \in FilePaths, NEW m \in Md5, NEW ow \in Overwrites,
                 InstantUpload(s, p, m, ow)
          PROVE  Good
      BY <3>7 DEF InstantUpload, TypeOK
    <3>8. ASSUME NEW p \in FilePaths, NEW m \in Md5, InstantUploadConflict(s, p, m) PROVE Good
      BY <3>8 DEF InstantUploadConflict, TypeOK
    <3>9. ASSUME NEW p \in FilePaths, NEW m \in Md5, UploadBegin(s, p, m) PROVE Good
      BY <3>9 DEF UploadBegin, UploadSession, TypeOK
    <3>10. CASE CloseUpload(s) \/ UploadEnd(s) \/ UploadEndPublishFails(s)
      BY <3>10 DEF CloseUpload, UploadEnd, UploadEndPublishFails, TypeOK
    <3> QED BY <2>2, <3>1, <3>2, <3>3, <3>4, <3>5, <3>6, <3>7, <3>8, <3>9, <3>10 DEF Request
  <2>3. CASE ChallengeExpires
    BY <2>1, <2>3 DEF ChallengeExpires, TypeOK
  <2> QED BY <1>2, <2>1, <2>2, <2>3 DEF Next, TypeOK
<1> QED BY <1>1, <1>2

\* The variables keep their types, and nobody loses the root directory, in
\* every behaviour of the server with any number of users and connections.
THEOREM TypeCorrect == Spec => []TypeOK
BY InitType, StepType, PTL DEF Spec


-----------------------------------------------------------------------------
(* No object without a reference *)

\* Releasing files leaves no object without a reference: those whose last
\* reference goes are deleted.
LEMMA ReleaseNoOrphans ==
    ASSUME NEW st \in StoreType, NEW r, NEW u \in Users, NEW P \in SUBSET Paths,
           ReleaseEffect(st, r, u, P), NoOrphans(st)
    PROVE  NoOrphans(r)
<1>1. r.objMeta = r.objects
  BY DEF NoOrphans, ReleaseEffect
<1>2. ASSUME NEW m \in r.objects PROVE r.refs[m] # {}
  <2>1. /\ m \in st.objects /\ m \in Md5 /\ m \notin Collected(st, u, P)
        /\ r.refs[m] = RefsAfterRelease(st, u, P, m)
    BY TransferAssumption DEF StoreType, Digest, ReleaseEffect
  <2>2. PICK x \in st.refs[m] : TRUE
    BY <2>1 DEF NoOrphans
  <2>3. CASE x \in RefsAfterRelease(st, u, P, m)
    BY <2>1, <2>3
  <2>4. CASE x \notin RefsAfterRelease(st, u, P, m)
    <3>1. x[2] \in P /\ HeldMd5(st, u, x[2]) = m
      BY <2>2, <2>4 DEF RefsAfterRelease
    <3> QED BY <2>1, <3>1 DEF Collected
  <2> QED BY <2>3, <2>4
<1> QED BY <1>1, <1>2 DEF NoOrphans

\* A published object is referenced when the handler ends.
LEMMA AddNoOrphans ==
    ASSUME NEW st \in StoreType, NEW r, NEW u \in Users, NEW p \in Paths, NEW m \in Md5,
           AddEffect(st, r, u, p, m),
           st.objMeta = st.objects, \A n \in st.objects : n = m \/ st.refs[n] # {}
    PROVE  NoOrphans(r)
<1>1. r.objects = st.objects /\ r.objMeta = st.objMeta
  BY DEF AddEffect
<1>2. ASSUME NEW n \in r.objects PROVE r.refs[n] # {}
  <2>1. n \in Digest
    BY <1>1 DEF StoreType, Digest
  <2>2. r.refs[n] = IF n = m THEN st.refs[n] \cup {<<u, p>>} ELSE st.refs[n]
    BY <2>1 DEF AddEffect
  <2> QED BY <1>1, <2>2
<1> QED BY <1>1, <1>2 DEF NoOrphans

\* No change of the store leaves an object without a reference.
LEMMA StoreStepNoOrphans ==
    ASSUME NEW u \in Users, store \in StoreType, NoOrphans(store), StoreStep(u)
    PROVE  NoOrphans(store')
<1> USE TransferAssumption
<1>1. ASSUME NEW p \in DirPaths, IndexEffect(store, store', u, p, DirRow)
      PROVE  NoOrphans(store')
  BY <1>1 DEF IndexEffect, NoOrphans
<1>2. ASSUME NEW P \in SUBSET Paths, ReleaseEffect(store, store', u, P)
      PROVE  NoOrphans(store')
  BY <1>2, ReleaseNoOrphans
<1>3. ASSUME NEW P \in SUBSET Paths, NEW d \in DirPaths, NEW st \in StoreType,
             ReleaseEffect(store, st, u, P), UnindexEffect(st, store', u, {d})
      PROVE  NoOrphans(store')
  <2>1. NoOrphans(st)
    BY <1>3, ReleaseNoOrphans
  <2> QED BY <1>3, <2>1 DEF UnindexEffect, NoOrphans
<1>4. ASSUME NEW r \in RenamePairs, NEW m \in Digest,
             RenameEffect(store, store', u, r[1], r[2], m)
      PROVE  NoOrphans(store')
  <2>1. store'.objects = store.objects /\ store'.objMeta = store.objMeta
    BY <1>4 DEF RenameEffect
  <2>2. ASSUME NEW n \in store.objects PROVE store'.refs[n] # {}
    <3>1. n \in Digest
      BY DEF StoreType, Digest
    <3>2. store'.refs[n] = IF n = m THEN (store.refs[n] \ {<<u, r[1]>>}) \cup {<<u, r[2]>>}
                           ELSE store.refs[n]
      BY <1>4, <3>1 DEF RenameEffect
    <3> QED BY <3>2 DEF NoOrphans
  <2> QED BY <2>1, <2>2 DEF NoOrphans
<1>5. ASSUME NEW r \in RenamePairs, NEW m \in Digest,
             ReindexEffect(store, store', u, r[1], r[2], m)
      PROVE  NoOrphans(store')
  BY <1>5 DEF ReindexEffect, NoOrphans
<1>6. ASSUME NEW p \in FilePaths, NEW st \in StoreType, ReplaceEffect(store, st, u, p)
      PROVE  NoOrphans(st)
  <2>1. {p} \in SUBSET Paths
    OBVIOUS
  <2> QED BY <1>6, <2>1, ReleaseNoOrphans DEF ReplaceEffect
<1>7. ASSUME NEW p \in FilePaths, NEW m \in Md5, NEW st \in StoreType,
             ReplaceEffect(store, st, u, p), AddEffect(st, store', u, p, m)
      PROVE  NoOrphans(store')
  <2>1. NoOrphans(st) /\ p \in Paths
    BY <1>6, <1>7
  <2> QED BY <1>7, <2>1, AddNoOrphans DEF NoOrphans
<1>8. ASSUME NEW p \in FilePaths, NEW m \in Md5, NEW st \in StoreType, NEW st1 \in StoreType,
             ReplaceEffect(store, st, u, p), PublishEffect(st, st1, m),
             AddEffect(st1, store', u, p, m)
      PROVE  NoOrphans(store')
  <2>1. NoOrphans(st) /\ p \in Paths
    BY <1>6, <1>8
  <2>2. st1.objMeta = st1.objects /\ \A n \in st1.objects : n = m \/ st1.refs[n] # {}
    BY <1>8, <2>1 DEF PublishEffect, NoOrphans
  <2> QED BY <1>8, <2>1, <2>2, AddNoOrphans
<1> QED
  <2>1. \A r \in RenamePairs : store.index[u][r[1]].md5 \in Digest /\ store.pathMd5[u][r[1]] \in Digest
    BY DEF StoreType, Row
  <2> QED BY <1>1, <1>2, <1>3, <1>4, <1>5, <1>7, <1>8, <2>1 DEF StoreStep

\* Whatever the clients do, an object is in the store only while some
\* reference to it is: nothing that has become garbage stays for ever.
THEOREM NoOrphansEver == Spec => []NoOrphanObjects
<1>1. Init => NoOrphanObjects
  BY DEF Init, EmptyStore, Store, NoOrphanObjects, NoOrphans
<1>2. TypeOK /\ NoOrphanObjects /\ [Next]_vars => NoOrphanObjects'
  <2> SUFFICES ASSUME TypeOK, NoOrphans(store), [Next]_vars PROVE NoOrphans(store')
    BY DEF NoOrphanObjects
  <2>1. CASE UNCHANGED vars
    BY <2>1 DEF vars, NoOrphans
  <2>2. CASE Next
    <3>1. \A s \in Sessions : UserOf[s] \in Users
      BY TransferAssumption
    <3>2. CASE store' = store
      BY <3>2
    <3>3. ASSUME NEW s \in Sessions, StoreStep(UserOf[s]) PROVE NoOrphans(store')
      BY <3>1, <3>3, StoreStepNoOrphans DEF TypeOK
    <3> QED BY <2>2, <3>2, <3>3, NextStoreStep
  <2> QED BY <2>1, <2>2
<1> QED BY <1>1, <1>2, TypeCorrect, PTL DEF Spec

-----------------------------------------------------------------------------
(* Every file is counted *)

\* The inductive strengthening of RefsCoverIndex under PathSorts: without
\* BareDirs the rename of a directory could carry a cached md5 to a path that
\* no reference names.
Covered(st) == RowsCached(st) /\ CacheReferenced(st) /\ BareDirs(st)

\* Once rows and cache agree, the cache alone decides which md5 is held.
LEMMA HeldIsCached ==
    ASSUME NEW st \in StoreType, RowsCached(st), NEW u \in Users, NEW p \in Paths
    PROVE  HeldMd5(st, u, p) = st.pathMd5[u][p]
BY DEF HeldMd5, RowsCached

\* A release keeps every other file counted.
LEMMA ReleaseCovered ==
    ASSUME NEW st \in StoreType, NEW r, NEW u \in Users, NEW P \in SUBSET Paths,
           ReleaseEffect(st, r, u, P), Covered(st)
    PROVE  Covered(r)
<1>1. RowsCached(r)
  BY DEF ReleaseEffect, Covered, RowsCached, IsFile, NoRow
<1>2. ASSUME NEW v \in Users, NEW q \in Paths, r.pathMd5[v][q] # NoMd5
      PROVE  <<v, q>> \in r.refs[r.pathMd5[v][q]]
  <2> DEFINE m == r.pathMd5[v][q]
  <2>1. ~(v = u /\ q \in P) /\ m = st.pathMd5[v][q]
    BY <1>2 DEF ReleaseEffect
  <2>2. m \in Digest /\ <<v, q>> \in st.refs[m]
    BY <1>2, <2>1 DEF Covered, CacheReferenced, StoreType
  <2>3. r.refs[m] = RefsAfterRelease(st, u, P, m)
    BY <1>2, <2>2 DEF ReleaseEffect
  <2> QED BY <2>1, <2>2, <2>3 DEF RefsAfterRelease
<1>3. BareDirs(r)
  BY DEF ReleaseEffect, Covered, BareDirs
<1> QED BY <1>1, <1>2, <1>3 DEF Covered, CacheReferenced

\* A new file is counted.
LEMMA AddCovered ==
    ASSUME NEW st \in StoreType, NEW r, NEW u \in Users, NEW p \in FilePaths, NEW m \in Md5,
           AddEffect(st, r, u, p, m), Covered(st)
    PROVE  Covered(r)
<1>1. RowsCached(r)
  BY TransferAssumption, SMTT(30) DEF AddEffect, Covered, RowsCached, IsFile, FileRow
<1>2. ASSUME NEW v \in Users, NEW q \in Paths, r.pathMd5[v][q] # NoMd5
      PROVE  <<v, q>> \in r.refs[r.pathMd5[v][q]]
  <2> DEFINE n == r.pathMd5[v][q]
  <2>1. r \in StoreType /\ n \in Digest
    BY DEF AddEffect, StoreType
  <2>2. r.refs[n] = IF n = m THEN st.refs[n] \cup {<<u, p>>} ELSE st.refs[n]
    BY <2>1 DEF AddEffect
  <2>3. CASE v = u /\ q = p
    BY <2>2, <2>3 DEF AddEffect
  <2>4. CASE ~(v = u /\ q = p)
    <3>1. n = st.pathMd5[v][q]
      BY <2>4 DEF AddEffect
    <3>2. <<v, q>> \in st.refs[n]
      BY <1>2, <3>1 DEF Covered, CacheReferenced
    <3> QED BY <2>2, <3>2
  <2> QED BY <2>3, <2>4
<1>3. BareDirs(r)
  BY DEF AddEffect, Covered, BareDirs
<1> QED BY <1>1, <1>2, <1>3 DEF Covered, CacheReferenced

\* A renamed file is counted under its new path.
LEMMA RenameCovered ==
    ASSUME PathSorts,
           NEW st \in StoreType, NEW t, NEW u \in Users, NEW r \in RenamePairs,
           IsFile(st, u, r[1]),
           RenameEffect(st, t, u, r[1], r[2], st.index[u][r[1]].md5), Covered(st)
    PROVE  Covered(t)
<1> DEFINE m == st.index[u][r[1]].md5
<1>1. r[1] \in Paths /\ r[2] \in Paths /\ m \in Digest /\ t \in StoreType
  BY TransferAssumption DEF RenameEffect
<1>2. RowsCached(t)
  BY <1>1 DEF RenameEffect, Covered, RowsCached, IsFile, FileRow, NoRow
<1>3. ASSUME NEW v \in Users, NEW q \in Paths, t.pathMd5[v][q] # NoMd5
      PROVE  <<v, q>> \in t.refs[t.pathMd5[v][q]]
  <2> DEFINE n == t.pathMd5[v][q]
  <2>1. n \in Digest
    BY <1>1 DEF StoreType
  <2>2. t.refs[n] = IF n = m THEN (st.refs[n] \ {<<u, r[1]>>}) \cup {<<u, r[2]>>} ELSE st.refs[n]
    BY <2>1 DEF RenameEffect
  <2>3. CASE v = u /\ q = r[2]
    BY <1>1, <2>2, <2>3 DEF RenameEffect
  <2>4. CASE ~(v = u /\ q = r[2])
    <3>1. n = st.pathMd5[v][q] /\ ~(v = u /\ q = r[1])
      BY <1>1, <1>3, <2>4 DEF RenameEffect
    <3>2. <<v, q>> \in st.refs[n]
      BY <1>3, <3>1 DEF Covered, CacheReferenced
    <3> QED BY <2>2, <3>1, <3>2
  <2> QED BY <2>3, <2>4
<1>4. ASSUME NEW v \in Users, NEW q \in Paths \ FilePaths PROVE t.pathMd5[v][q] = NoMd5
  <2>1. CASE v = u /\ q = r[2]
    <3>1. r[1] \notin FilePaths
      BY <2>1 DEF PathSorts
    <3>2. st.pathMd5[u][r[1]] = NoMd5
      BY <1>1, <3>1 DEF Covered, BareDirs
    <3>3. m = NoMd5
      BY <1>1, <3>2 DEF Covered, RowsCached
    <3> QED BY <1>1, <2>1, <3>3 DEF RenameEffect
  <2>2. CASE ~(v = u /\ q = r[2])
    BY <2>2 DEF RenameEffect, Covered, BareDirs
  <2> QED BY <2>1, <2>2
<1> QED BY <1>2, <1>3, <1>4 DEF Covered, CacheReferenced, BareDirs

\* Under PathSorts every change of the store keeps Covered.
LEMMA StoreStepCovered ==
    ASSUME PathSorts, NEW u \in Users, store \in StoreType, Covered(store), StoreStep(u)
    PROVE  Covered(store')
<1> USE TransferAssumption
<1>1. ASSUME NEW p \in DirPaths, IndexEffect(store, store', u, p, DirRow)
      PROVE  Covered(store')
  <2>1. store'.pathMd5 = store.pathMd5 /\ store'.refs = store.refs
    BY <1>1 DEF IndexEffect
  <2>2. RowsCached(store')
    BY <1>1, <2>1 DEF IndexEffect, Covered, RowsCached, IsFile, DirRow
  <2>3. CacheReferenced(store') /\ BareDirs(store')
    BY <2>1 DEF Covered, CacheReferenced, BareDirs
  <2> QED BY <2>2, <2>3 DEF Covered
<1>2. ASSUME NEW P \in SUBSET Paths, ReleaseEffect(store, store', u, P)
      PROVE  Covered(store')
  BY <1>2, ReleaseCovered
<1>3. ASSUME NEW P \in SUBSET Paths, NEW d \in DirPaths, NEW st \in StoreType,
             ReleaseEffect(store, st, u, P), UnindexEffect(st, store', u, {d})
      PROVE  Covered(store')
  <2>1. Covered(st)
    BY <1>3, ReleaseCovered
  <2>2. RowsCached(store')
    BY <1>3, <2>1 DEF UnindexEffect, Covered, RowsCached, IsFile, NoRow
  <2>3. \A v \in Users, q \in Paths :
           store'.pathMd5[v][q] = st.pathMd5[v][q] \/ store'.pathMd5[v][q] = NoMd5
    BY <1>3 DEF UnindexEffect
  <2>4. CacheReferenced(store')
    <3>1. store'.refs = st.refs
      BY <1>3 DEF UnindexEffect
    <3> QED BY <2>1, <2>3, <3>1 DEF Covered, CacheReferenced
  <2>5. BareDirs(store')
    BY <2>1, <2>3 DEF Covered, BareDirs
  <2> QED BY <2>2, <2>4, <2>5 DEF Covered
<1>4. ASSUME NEW r \in RenamePairs, IsFile(store, u, r[1]),
             RenameEffect(store, store', u, r[1], r[2], store.index[u][r[1]].md5)
      PROVE  Covered(store')
  BY <1>4, RenameCovered
<1>5. ASSUME NEW r \in RenamePairs, r[1] # r[2], r[1] \in DirPaths, r[2] \in DirPaths,
             ReindexEffect(store, store', u, r[1], r[2], store.pathMd5[u][r[1]])
      PROVE  Covered(store')
  <2>1. store.pathMd5[u][r[1]] = NoMd5 /\ store.pathMd5[u][r[2]] = NoMd5
    BY <1>5 DEF PathSorts, Covered, BareDirs
  <2>2. \A v \in Users, q \in Paths : store'.pathMd5[v][q] = store.pathMd5[v][q]
    BY <1>5, <2>1 DEF ReindexEffect
  <2>3. RowsCached(store')
    <3> SUFFICES ASSUME NEW v \in Users, NEW q \in Paths,
                        store'.index[v][q].kind = "file", store'.index[v][q].md5 # NoMd5
                 PROVE  store'.pathMd5[v][q] = store'.index[v][q].md5
      BY DEF RowsCached, IsFile
    <3>1. store'.index[v][q] = store.index[v][q]
      BY <1>5, <2>1 DEF ReindexEffect, NoRow, FileRow
    <3> QED BY <2>2, <3>1 DEF Covered, RowsCached, IsFile
  <2>4. CacheReferenced(store')
    <3>1. store'.refs = store.refs
      BY <1>5 DEF ReindexEffect
    <3> QED BY <2>2, <3>1 DEF Covered, CacheReferenced
  <2>5. BareDirs(store')
    BY <2>2 DEF Covered, BareDirs
  <2> QED BY <2>3, <2>4, <2>5 DEF Covered
<1>6. ASSUME NEW p \in FilePaths, NEW st \in StoreType, ReplaceEffect(store, st, u, p)
      PROVE  Covered(st)
  <2>1. {p} \in SUBSET Paths
    OBVIOUS
  <2> QED BY <1>6, <2>1, ReleaseCovered DEF ReplaceEffect
<1>7. ASSUME NEW p \in FilePaths, NEW m \in Md5, NEW st \in StoreType,
             ReplaceEffect(store, st, u, p), AddEffect(st, store', u, p, m)
      PROVE  Covered(store')
  BY <1>6, <1>7, AddCovered
<1>8. ASSUME NEW p \in FilePaths, NEW m \in Md5, NEW st \in StoreType, NEW st1 \in StoreType,
             ReplaceEffect(store, st, u, p), PublishEffect(st, st1, m),
             AddEffect(st1, store', u, p, m)
      PROVE  Covered(store')
  <2>1. Covered(st)
    BY <1>6, <1>8
  <2>2. Covered(st1)
    BY <1>8, <2>1
       DEF PublishEffect, Covered, RowsCached, CacheReferenced, BareDirs, IsFile
  <2> QED BY <1>8, <2>2, AddCovered
<1> QED BY <1>1, <1>2, <1>3, <1>4, <1>5, <1>7, <1>8 DEF StoreStep

\* The first store is covered: it is empty.
LEMMA InitCovered == Init => Covered(store)
BY DEF Init, EmptyStore, Store, Covered, RowsCached, CacheReferenced, BareDirs, IsFile, NoRow

\* Covered is inductive under PathSorts.
LEMMA StepCovered ==
    ASSUME PathSorts
    PROVE  TypeOK /\ Covered(store) /\ [Next]_vars => Covered(store')
<1> SUFFICES ASSUME TypeOK, Covered(store), [Next]_vars PROVE Covered(store')
  OBVIOUS
<1>1. CASE store' = store
  BY <1>1
<1>2. ASSUME NEW s \in Sessions, StoreStep(UserOf[s]) PROVE Covered(store')
  <2>1. UserOf[s] \in Users
    BY TransferAssumption
  <2> QED BY <1>2, <2>1, StoreStepCovered DEF TypeOK
<1> QED BY <1>1, <1>2, NextStoreStep DEF vars

\* While names are not used for files and directories both, Redis counts every
\* file: each row has its md5 cached and its reference in the set.
THEOREM FilesAreCounted ==
    ASSUME PathSorts
    PROVE  Spec => []RefsCoverIndex
<1>1. Init => Covered(store)
  BY InitCovered
<1>2. TypeOK /\ Covered(store) /\ [Next]_vars => Covered(store)'
  BY StepCovered
<1>3. Covered(store) => RefsCoverIndex
  BY DEF Covered, RefsCoverIndex
<1> QED BY <1>1, <1>2, <1>3, TypeCorrect, PTL DEF Spec

-----------------------------------------------------------------------------
(* Indexed files are readable *)

\* A release deletes no object that is still referenced.
LEMMA ReleaseStored ==
    ASSUME NEW st \in StoreType, NEW r, NEW u \in Users, NEW P \in SUBSET Paths,
           ReleaseEffect(st, r, u, P), ReferencedStored(st)
    PROVE  ReferencedStored(r)
<1> SUFFICES ASSUME NEW m \in Md5, r.refs[m] # {} PROVE m \in r.objects
  BY DEF ReferencedStored
<1>1. r.refs[m] = RefsAfterRelease(st, u, P, m)
  BY TransferAssumption DEF ReleaseEffect, Digest
<1>2. m \in st.objects
  BY <1>1 DEF RefsAfterRelease, ReferencedStored
<1>3. m \notin Collected(st, u, P)
  BY <1>1 DEF Collected
<1> QED BY <1>2, <1>3 DEF ReleaseEffect

\* A reference is added only to an object that is there.
LEMMA AddStored ==
    ASSUME NEW st \in StoreType, NEW r, NEW u \in Users, NEW p \in Paths, NEW m \in Md5,
           AddEffect(st, r, u, p, m), ReferencedStored(st), m \in st.objects
    PROVE  ReferencedStored(r)
<1> SUFFICES ASSUME NEW n \in Md5, r.refs[n] # {} PROVE n \in r.objects
  BY DEF ReferencedStored
<1>1. r.refs[n] = IF n = m THEN st.refs[n] \cup {<<u, p>>} ELSE st.refs[n]
  BY DEF AddEffect, Digest
<1>2. n \in st.objects
  BY <1>1 DEF ReferencedStored
<1> QED BY <1>2 DEF AddEffect

\* What is referenced stays stored, if nothing is overwritten instantly.
LEMMA StoreStepStored ==
    ASSUME NoOverwrite, NEW u \in Users,
           store \in StoreType, Covered(store), ReferencedStored(store), StoreStep(u)
    PROVE  ReferencedStored(store')
<1> USE TransferAssumption
<1>1. ASSUME NEW p \in DirPaths, IndexEffect(store, store', u, p, DirRow)
      PROVE  ReferencedStored(store')
  BY <1>1 DEF IndexEffect, ReferencedStored
<1>2. ASSUME NEW P \in SUBSET Paths, ReleaseEffect(store, store', u, P)
      PROVE  ReferencedStored(store')
  BY <1>2, ReleaseStored
<1>3. ASSUME NEW P \in SUBSET Paths, NEW d \in DirPaths, NEW st \in StoreType,
             ReleaseEffect(store, st, u, P), UnindexEffect(st, store', u, {d})
      PROVE  ReferencedStored(store')
  <2>1. ReferencedStored(st)
    BY <1>3, ReleaseStored
  <2> QED BY <1>3, <2>1 DEF UnindexEffect, ReferencedStored
<1>4. ASSUME NEW r \in RenamePairs, IsFile(store, u, r[1]),
             RenameEffect(store, store', u, r[1], r[2], store.index[u][r[1]].md5)
      PROVE  ReferencedStored(store')
  <2> DEFINE m == store.index[u][r[1]].md5
  <2> SUFFICES ASSUME NEW n \in Md5, store'.refs[n] # {} PROVE n \in store'.objects
    BY DEF ReferencedStored
  <2>1. store'.refs[n] = IF n = m THEN (store.refs[n] \ {<<u, r[1]>>}) \cup {<<u, r[2]>>}
                         ELSE store.refs[n]
    BY <1>4 DEF RenameEffect, Digest
  <2>2. CASE n = m
    <3>1. store.pathMd5[u][r[1]] = n
      BY <1>4, <2>2 DEF Covered, RowsCached
    <3>2. <<u, r[1]>> \in store.refs[n]
      BY <3>1 DEF Covered, CacheReferenced
    <3>3. n \in store.objects
      BY <3>2 DEF ReferencedStored
    <3> QED BY <1>4, <3>3 DEF RenameEffect
  <2>3. CASE n # m
    BY <1>4, <2>1, <2>3 DEF RenameEffect, ReferencedStored
  <2> QED BY <2>2, <2>3
<1>5. ASSUME NEW r \in RenamePairs, NEW m \in Digest,
             ReindexEffect(store, store', u, r[1], r[2], m)
      PROVE  ReferencedStored(store')
  BY <1>5 DEF ReindexEffect, ReferencedStored
<1>6. ASSUME NEW p \in FilePaths, NEW m \in Md5, NEW st \in StoreType, m \in store.objects,
             IsFile(store, u, p) => TRUE \in Overwrites,
             ReplaceEffect(store, st, u, p), AddEffect(st, store', u, p, m)
      PROVE  ReferencedStored(store')
  <2>1. st = store
    BY <1>6 DEF NoOverwrite, ReplaceEffect
  <2> QED BY <1>6, <2>1, AddStored
<1>7. ASSUME NEW p \in FilePaths, NEW m \in Md5, NEW st \in StoreType, NEW st1 \in StoreType,
             ReplaceEffect(store, st, u, p), PublishEffect(st, st1, m),
             AddEffect(st1, store', u, p, m)
      PROVE  ReferencedStored(store')
  <2>1. {p} \in SUBSET Paths
    OBVIOUS
  <2>2. ReferencedStored(st)
    BY <1>7, <2>1, ReleaseStored DEF ReplaceEffect
  <2>3. ReferencedStored(st1) /\ m \in st1.objects
    BY <1>7, <2>2 DEF PublishEffect, ReferencedStored
  <2> QED BY <1>7, <2>3, AddStored
<1> QED
  <2>1. \A r \in RenamePairs : store.pathMd5[u][r[1]] \in Digest
    BY DEF StoreType
  <2> QED BY <1>1, <1>2, <1>3, <1>4, <1>5, <1>6, <1>7, <2>1 DEF StoreStep

\* ReferencedStored is inductive relative to Covered.
LEMMA StepStored ==
    ASSUME NoOverwrite
    PROVE  TypeOK /\ Covered(store) /\ ReferencedStored(store) /\ [Next]_vars
               => ReferencedStored(store')
<1> SUFFICES ASSUME TypeOK, Covered(store), ReferencedStored(store), [Next]_vars
             PROVE  ReferencedStored(store')
  OBVIOUS
<1>1. CASE store' = store
  BY <1>1
<1>2. ASSUME NEW s \in Sessions, StoreStep(UserOf[s]) PROVE ReferencedStored(store')
  <2>1. UserOf[s] \in Users
    BY TransferAssumption
  <2> QED BY <1>2, <2>1, StoreStepStored DEF TypeOK
<1> QED BY <1>1, <1>2, NextStoreStep DEF vars

\* Counted and stored files are readable.
LEMMA StoredIsReadable ==
    TypeOK /\ Covered(store) /\ ReferencedStored(store) => IndexedFilesReadable
<1> SUFFICES ASSUME TypeOK, Covered(store), ReferencedStored(store),
                    NEW u \in Users, NEW p \in Paths, HeldMd5(store, u, p) # NoMd5
             PROVE  HeldMd5(store, u, p) \in store.objects
  BY DEF IndexedFilesReadable
<1> DEFINE m == store.pathMd5[u][p]
<1>1. HeldMd5(store, u, p) = m
  BY HeldIsCached DEF TypeOK, Covered
<1>2. m \in Md5 /\ <<u, p>> \in store.refs[m]
  BY <1>1 DEF TypeOK, StoreType, Digest, Covered, CacheReferenced
<1> QED BY <1>1, <1>2 DEF ReferencedStored

\* While nobody reuses a name for the other kind and nobody asks
\* instant_upload to overwrite, every indexed file can be read.
THEOREM IndexedStayReadable ==
    ASSUME PathSorts, NoOverwrite
    PROVE  Spec => []IndexedFilesReadable
<1>1. Init => Covered(store) /\ ReferencedStored(store)
  <2>1. Init => ReferencedStored(store)
    BY DEF Init, EmptyStore, Store, ReferencedStored, Digest
  <2> QED BY <2>1, InitCovered
<1>2. TypeOK /\ Covered(store) /\ ReferencedStored(store) /\ [Next]_vars
        => Covered(store)' /\ ReferencedStored(store)'
  BY StepCovered, StepStored
<1>3. TypeOK /\ Covered(store) /\ ReferencedStored(store) => IndexedFilesReadable
  BY StoredIsReadable
<1> QED BY <1>1, <1>2, <1>3, TypeCorrect, PTL DEF Spec

-----------------------------------------------------------------------------
(* Requests of other users lose nothing *)

\* From st to r, v's file at p keeps its row, its cached md5 and its object.
Spares(st, r, v, p) ==
    /\ r.index[v][p] = st.index[v][p]
    /\ r.pathMd5[v][p] = st.pathMd5[v][p]
    /\ st.pathMd5[v][p] # NoMd5 /\ st.pathMd5[v][p] \in st.objects
          => st.pathMd5[v][p] \in r.objects

\* The object of somebody else's file survives a release.
LEMMA ReleaseSparesOthers ==
    ASSUME NEW st \in StoreType, NEW r, NEW u \in Users, NEW P \in SUBSET Paths,
           ReleaseEffect(st, r, u, P), Covered(st),
           NEW v \in Users \ {u}, NEW p \in Paths
    PROVE  Spares(st, r, v, p)
<1>1. r.index[v][p] = st.index[v][p] /\ r.pathMd5[v][p] = st.pathMd5[v][p]
  BY DEF ReleaseEffect
<1>2. ASSUME st.pathMd5[v][p] # NoMd5, st.pathMd5[v][p] \in st.objects
      PROVE  st.pathMd5[v][p] \in r.objects
  <2> DEFINE m == st.pathMd5[v][p]
  <2>1. <<v, p>> \in st.refs[m]
    BY <1>2 DEF Covered, CacheReferenced
  <2>2. <<v, p>> \in RefsAfterRelease(st, u, P, m)
    BY <2>1 DEF RefsAfterRelease
  <2>3. m \notin Collected(st, u, P)
    BY <2>2 DEF Collected
  <2> QED BY <1>2, <2>3 DEF ReleaseEffect
<1> QED BY <1>1, <1>2 DEF Spares

\* Every change of the store spares the files of the other users.
LEMMA StoreStepSparesOthers ==
    ASSUME NEW u \in Users, NEW v \in Users \ {u}, NEW p \in Paths,
           store \in StoreType, Covered(store), StoreStep(u)
    PROVE  Spares(store, store', v, p)
<1>1. ASSUME NEW q \in DirPaths, IndexEffect(store, store', u, q, DirRow) PROVE Spares(store, store', v, p)
  BY <1>1 DEF IndexEffect, Spares
<1>2. ASSUME NEW P \in SUBSET Paths, NEW r, ReleaseEffect(store, r, u, P) PROVE Spares(store, r, v, p)
  BY <1>2, ReleaseSparesOthers
<1>3. ASSUME NEW P \in SUBSET Paths, NEW d \in DirPaths, NEW st \in StoreType,
             ReleaseEffect(store, st, u, P), UnindexEffect(st, store', u, {d})
      PROVE  Spares(store, store', v, p)
  BY <1>2, <1>3 DEF UnindexEffect, Spares
<1>4. ASSUME NEW r \in RenamePairs, NEW m, RenameEffect(store, store', u, r[1], r[2], m)
      PROVE  Spares(store, store', v, p)
  BY <1>4 DEF RenameEffect, Spares
<1>5. ASSUME NEW r \in RenamePairs, NEW m, ReindexEffect(store, store', u, r[1], r[2], m)
      PROVE  Spares(store, store', v, p)
  BY <1>5 DEF ReindexEffect, Spares
<1>6. ASSUME NEW q \in FilePaths, NEW st \in StoreType, ReplaceEffect(store, st, u, q)
      PROVE  Spares(store, st, v, p)
  <2>1. {q} \in SUBSET Paths
    BY TransferAssumption
  <2>2. CASE st = store
    BY <2>2 DEF Spares
  <2>3. CASE ReleaseEffect(store, st, u, {q})
    BY <1>2, <2>1, <2>3
  <2> QED BY <1>6, <2>2, <2>3 DEF ReplaceEffect
<1>7. ASSUME NEW q \in FilePaths, NEW m \in Md5, NEW st \in StoreType,
             Spares(store, st, v, p), AddEffect(st, store', u, q, m)
      PROVE  Spares(store, store', v, p)
  BY <1>7 DEF AddEffect, Spares
<1>8. ASSUME NEW m \in Md5, NEW st \in StoreType, NEW st1 \in StoreType,
             Spares(store, st, v, p), PublishEffect(st, st1, m)
      PROVE  Spares(store, st1, v, p)
  BY <1>8 DEF PublishEffect, Spares
<1> QED BY <1>1, <1>2, <1>3, <1>4, <1>5, <1>6, <1>7, <1>8 DEF StoreStep

\* A step that is not a request of v spares the files of v.
LEMMA StepSparesOthers ==
    TypeOK /\ Covered(store) /\ [Next]_vars => [LossIsOwnRequest]_vars
<1> SUFFICES ASSUME TypeOK, Covered(store), Next,
                    NEW v \in Users, NEW p \in Paths,
                    Content(store, v, p) # NoMd5,
                    Content(store', v, p) # Content(store, v, p)
             PROVE  \E s \in Sessions : UserOf[s] = v /\ Request(s)
  BY DEF LossIsOwnRequest
<1>1. store' # store
  OBVIOUS
<1>2. PICK s \in Sessions : Request(s) /\ StoreStep(UserOf[s])
  BY <1>1, NextStoreStep
<1>3. UserOf[s] \in Users
  BY TransferAssumption
<1>4. SUFFICES ASSUME UserOf[s] # v PROVE FALSE
  BY <1>2
<1> DEFINE m == store.pathMd5[v][p]
<1>5. HeldMd5(store, v, p) = m
  BY HeldIsCached DEF TypeOK, Covered
<1>6. m \in store.objects /\ m # NoMd5 /\ Content(store, v, p) = m
  BY <1>5 DEF Content
<1>7. /\ store'.pathMd5[v][p] = m
      /\ m \in store'.objects
  BY <1>2, <1>3, <1>4, <1>6, StoreStepSparesOthers DEF TypeOK, Spares
<1>8. Content(store', v, p) = m
  BY <1>6, <1>7 DEF Content, HeldMd5
<1> QED BY <1>6, <1>8

\* Whoever else shares its content and whatever they remove, overwrite or
\* rename: a user's file goes only by a request of that user.
THEOREM UsersAreIsolated ==
    ASSUME PathSorts
    PROVE  Spec => OthersUntouched
<1>1. Init => Covered(store)
  BY InitCovered
<1>2. TypeOK /\ Covered(store) /\ [Next]_vars => Covered(store)'
  BY StepCovered
<1>3. TypeOK /\ Covered(store) /\ [Next]_vars => [LossIsOwnRequest]_vars
  BY StepSparesOthers
<1> QED BY <1>1, <1>2, <1>3, TypeCorrect, PTL DEF Spec, OthersUntouched

-----------------------------------------------------------------------------
(* References go with their files *)

\* A row outside the file paths is not the row of a content.
LEMMA DirRowsBare ==
    ASSUME NEW st \in StoreType, Covered(st), NEW u \in Users, NEW p \in Paths \ FilePaths,
           NEW m \in Md5
    PROVE  st.index[u][p] # FileRow(m)
BY TransferAssumption DEF Covered, RowsCached, BareDirs, IsFile, FileRow

\* A release leaves no reference without its file.
LEMMA ReleaseExact ==
    ASSUME NEW st \in StoreType, NEW t, NEW u \in Users, NEW P \in SUBSET Paths,
           ReleaseEffect(st, t, u, P), Covered(st), ExactRefs(st)
    PROVE  ExactRefs(t)
<1> SUFFICES ASSUME NEW m \in Md5, NEW r \in t.refs[m]
             PROVE  t.index[r[1]][r[2]] = FileRow(m)
  BY DEF ExactRefs
<1>1. m # NoMd5 /\ m \in Digest
  BY TransferAssumption DEF Digest
<1>2. r \in RefsAfterRelease(st, u, P, m)
  BY <1>1 DEF ReleaseEffect
<1>3. r \in st.refs[m] /\ ~(r[1] = u /\ r[2] \in P /\ HeldMd5(st, u, r[2]) = m)
  BY <1>2 DEF RefsAfterRelease
<1>4. r[1] \in Users /\ r[2] \in Paths /\ st.index[r[1]][r[2]] = FileRow(m)
  BY <1>1, <1>3 DEF StoreType, ExactRefs
<1>5. HeldMd5(st, r[1], r[2]) = m
  BY <1>1, <1>4 DEF HeldMd5, Covered, RowsCached, IsFile, FileRow
<1>6. ~(r[1] = u /\ r[2] \in P)
  BY <1>3, <1>5
<1> QED BY <1>4, <1>6 DEF ReleaseEffect

\* A new reference comes with its file.
LEMMA AddExact ==
    ASSUME NEW st \in StoreType, NEW t, NEW u \in Users, NEW p \in Paths, NEW m \in Md5,
           AddEffect(st, t, u, p, m), ExactRefs(st), ~IsFile(st, u, p)
    PROVE  ExactRefs(t)
<1> SUFFICES ASSUME NEW n \in Md5, NEW r \in t.refs[n]
             PROVE  t.index[r[1]][r[2]] = FileRow(n)
  BY DEF ExactRefs
<1>1. t.refs[n] = IF n = m THEN st.refs[n] \cup {<<u, p>>} ELSE st.refs[n]
  BY DEF AddEffect, Digest
<1>2. CASE n = m /\ r = <<u, p>>
  BY <1>2 DEF AddEffect
<1>3. CASE r \in st.refs[n]
  <2>1. r[1] \in Users /\ r[2] \in Paths /\ st.index[r[1]][r[2]] = FileRow(n)
    BY <1>3 DEF StoreType, Digest, ExactRefs
  <2>2. ~(r[1] = u /\ r[2] = p)
    BY <2>1 DEF IsFile, FileRow
  <2> QED BY <2>1, <2>2 DEF AddEffect
<1> QED BY <1>1, <1>2, <1>3

\* Only a rename onto a file leaves a reference without its file.
LEMMA StoreStepExact ==
    ASSUME PathSorts, ~RenameOntoFile, NEW u \in Users,
           store \in StoreType, Covered(store), ExactRefs(store), StoreStep(u)
    PROVE  ExactRefs(store')
<1> USE TransferAssumption
<1>0. ASSUME NEW m \in Md5, NEW r \in store.refs[m]
      PROVE  /\ r[1] \in Users /\ r[2] \in FilePaths /\ r[2] \in Paths
             /\ store.index[r[1]][r[2]] = FileRow(m)
             /\ r = <<r[1], r[2]>>
  <2>1. r \in Users \X Paths /\ store.index[r[1]][r[2]] = FileRow(m)
    BY DEF StoreType, Digest, ExactRefs
  <2> QED BY <2>1, DirRowsBare
<1>1. ASSUME NEW p \in DirPaths, IndexEffect(store, store', u, p, DirRow)
      PROVE  ExactRefs(store')
  <2> SUFFICES ASSUME NEW m \in Md5, NEW r \in store'.refs[m]
               PROVE  store'.index[r[1]][r[2]] = FileRow(m)
    BY DEF ExactRefs
  <2>1. r \in store.refs[m]
    BY <1>1 DEF IndexEffect
  <2>2. r[2] # p
    BY <1>0, <2>1 DEF PathSorts
  <2> QED BY <1>0, <1>1, <2>1, <2>2 DEF IndexEffect
<1>2. ASSUME NEW P \in SUBSET Paths, ReleaseEffect(store, store', u, P)
      PROVE  ExactRefs(store')
  BY <1>2, ReleaseExact
<1>3. ASSUME NEW P \in SUBSET Paths, NEW d \in DirPaths, NEW st \in StoreType,
             ReleaseEffect(store, st, u, P), UnindexEffect(st, store', u, {d})
      PROVE  ExactRefs(store')
  <2>1. ExactRefs(st) /\ Covered(st)
    BY <1>3, ReleaseExact, ReleaseCovered
  <2> SUFFICES ASSUME NEW m \in Md5, NEW r \in store'.refs[m]
               PROVE  store'.index[r[1]][r[2]] = FileRow(m)
    BY DEF ExactRefs
  <2>2. r \in st.refs[m]
    BY <1>3 DEF UnindexEffect
  <2>3. r[1] \in Users /\ r[2] \in Paths /\ st.index[r[1]][r[2]] = FileRow(m)
    BY <2>1, <2>2 DEF StoreType, Digest, ExactRefs
  <2>4. r[2] \in FilePaths
    BY <2>1, <2>3, DirRowsBare
  <2>5. r[2] # d
    BY <2>4 DEF PathSorts
  <2> QED BY <1>3, <2>3, <2>5 DEF UnindexEffect
<1>4. ASSUME NEW r \in RenamePairs, IsFile(store, u, r[1]),
             \E s \in Sessions : UserOf[s] = u /\ RenameFile(s, r[1], r[2]),
             RenameEffect(store, store', u, r[1], r[2], store.index[u][r[1]].md5)
      PROVE  ExactRefs(store')
  <2> DEFINE m == store.index[u][r[1]].md5
  <2>1. ~IsFile(store, u, r[2]) /\ r[1] \in Paths /\ r[2] \in Paths /\ r[1] # r[2]
    BY <1>4 DEF RenameOntoFile
  <2> SUFFICES ASSUME NEW n \in Md5, NEW x \in store'.refs[n]
               PROVE  store'.index[x[1]][x[2]] = FileRow(n)
    BY DEF ExactRefs
  <2>2. store'.refs[n] = IF n = m THEN (store.refs[n] \ {<<u, r[1]>>}) \cup {<<u, r[2]>>}
                         ELSE store.refs[n]
    BY <1>4 DEF RenameEffect, Digest
  <2>3. CASE n = m /\ x = <<u, r[2]>>
    BY <1>4, <2>1, <2>3 DEF RenameEffect
  <2>4. CASE x \in store.refs[n] /\ ~(n = m /\ x = <<u, r[1]>>)
    <3>1. x[1] \in Users /\ x[2] \in Paths /\ store.index[x[1]][x[2]] = FileRow(n) /\ x = <<x[1], x[2]>>
      BY <1>0, <2>4
    <3>2. ~(x[1] = u /\ x[2] = r[2])
      BY <2>1, <3>1 DEF IsFile, FileRow
    <3>3. ~(x[1] = u /\ x[2] = r[1])
      <4> SUFFICES ASSUME x[1] = u, x[2] = r[1] PROVE FALSE
        OBVIOUS
      <4>1. m = n
        BY <3>1 DEF FileRow
      <4> QED BY <2>4, <3>1, <4>1
    <3> QED BY <1>4, <3>1, <3>2, <3>3 DEF RenameEffect
  <2> QED BY <2>2, <2>3, <2>4
<1>5. ASSUME NEW r \in RenamePairs, r[1] # r[2], r[1] \in DirPaths, r[2] \in DirPaths,
             ReindexEffect(store, store', u, r[1], r[2], store.pathMd5[u][r[1]])
      PROVE  ExactRefs(store')
  <2> SUFFICES ASSUME NEW m \in Md5, NEW x \in store'.refs[m]
               PROVE  store'.index[x[1]][x[2]] = FileRow(m)
    BY DEF ExactRefs
  <2>1. x \in store.refs[m]
    BY <1>5 DEF ReindexEffect
  <2>2. x[2] # r[1] /\ x[2] # r[2]
    BY <1>0, <1>5, <2>1 DEF PathSorts
  <2> QED BY <1>0, <1>5, <2>1, <2>2 DEF ReindexEffect
<1>6. ASSUME NEW p \in FilePaths, NEW st \in StoreType, ReplaceEffect(store, st, u, p)
      PROVE  ExactRefs(st) /\ ~IsFile(st, u, p) /\ p \in Paths
  <2>1. {p} \in SUBSET Paths /\ p \in Paths
    OBVIOUS
  <2>2. CASE st = store /\ ~IsFile(store, u, p)
    BY <2>1, <2>2
  <2>3. CASE ReleaseEffect(store, st, u, {p})
    <3>1. ExactRefs(st)
      BY <2>1, <2>3, ReleaseExact
    <3>2. st.index[u][p] = NoRow
      BY <2>1, <2>3 DEF ReleaseEffect
    <3> QED BY <2>1, <3>1, <3>2 DEF IsFile, NoRow
  <2> QED BY <1>6, <2>2, <2>3 DEF ReplaceEffect
<1>7. ASSUME NEW p \in FilePaths, NEW m \in Md5, NEW st \in StoreType,
             ReplaceEffect(store, st, u, p), AddEffect(st, store', u, p, m)
      PROVE  ExactRefs(store')
  BY <1>6, <1>7, AddExact
<1>8. ASSUME NEW p \in FilePaths, NEW m \in Md5, NEW st \in StoreType, NEW st1 \in StoreType,
             ReplaceEffect(store, st, u, p), PublishEffect(st, st1, m),
             AddEffect(st1, store', u, p, m)
      PROVE  ExactRefs(store')
  <2>1. ExactRefs(st) /\ ~IsFile(st, u, p) /\ p \in Paths
    BY <1>6, <1>8
  <2>2. ExactRefs(st1) /\ ~IsFile(st1, u, p)
    BY <1>8, <2>1 DEF PublishEffect, ExactRefs, IsFile
  <2> QED BY <1>8, <2>1, <2>2, AddExact
<1> QED BY <1>1, <1>2, <1>3, <1>4, <1>5, <1>7, <1>8 DEF StoreStep

\* LeakIsRename holds of every step.
LEMMA StepExact ==
    ASSUME PathSorts
    PROVE  TypeOK /\ Covered(store) /\ [Next]_vars => [LeakIsRename]_vars
<1> SUFFICES ASSUME TypeOK, Covered(store), Next, ExactRefs(store), ~RenameOntoFile
             PROVE  ExactRefs(store')
  BY DEF LeakIsRename
<1>1. CASE store' = store
  BY <1>1
<1>2. ASSUME NEW s \in Sessions, StoreStep(UserOf[s]) PROVE ExactRefs(store')
  <2>1. UserOf[s] \in Users
    BY TransferAssumption
  <2> QED BY <1>2, <2>1, StoreStepExact DEF TypeOK
<1> QED BY <1>1, <1>2, NextStoreStep

\* Apart from a rename onto an existing file no request leaves a reference
\* whose file is gone: SCARD counts the files and nothing else.
THEOREM OnlyRenamesLeak ==
    ASSUME PathSorts
    PROVE  Spec => RefsStayExact
<1>1. Init => Covered(store)
  BY InitCovered
<1>2. TypeOK /\ Covered(store) /\ [Next]_vars => Covered(store)'
  BY StepCovered
<1>3. TypeOK /\ Covered(store) /\ [Next]_vars => [LeakIsRename]_vars
  BY StepExact
<1> QED BY <1>1, <1>2, <1>3, TypeCorrect, PTL DEF Spec, RefsStayExact

-----------------------------------------------------------------------------
(* Paths *)

\* What a prefix of a path is.
LEMMA PrefixElements ==
    ASSUME NEW S, NEW q \in Seq(S), NEW n \in 0 .. Len(q)
    PROVE  LET x == SubSeq(q, 1, n)
           IN  x \in Seq(S) /\ Len(x) = n /\ \A i \in 1 .. n : x[i] = q[i]
<1> DEFINE x == SubSeq(q, 1, n)
<1>1. n \in Nat /\ Len(q) \in Nat /\ n <= Len(q) /\ 1 \in Int /\ n \in Int /\ n - 1 + 1 = n
  OBVIOUS
<1>2. \A i \in 1 .. n : q[i] \in S
  BY <1>1
<1>3. /\ x \in Seq(S)
      /\ Len(x) = IF 1 <= n THEN n - 1 + 1 ELSE 0
      /\ \A i \in 1 .. n - 1 + 1 : x[i] = q[1 + i - 1]
  BY <1>1, <1>2, SubSeqProperties
<1> HIDE DEF x
<1>4. \A i \in 1 .. n : 1 + i - 1 = i
  BY <1>1
<1>5. Len(x) = n
  <2>1. \A k \in Nat : (IF 1 <= k THEN k - 1 + 1 ELSE 0) = k
    OBVIOUS
  <2> QED BY <1>1, <1>3, <2>1
<1>6. \A i \in 1 .. n : x[i] = q[i]
  BY <1>1, <1>3, <1>4
<1> QED BY <1>3, <1>5, <1>6 DEF x

\* p is below d if it is longer and begins with d's names.
LEMMA UnderElements ==
    ASSUME NEW S, NEW p \in Seq(S), NEW d \in Seq(S)
    PROVE  IsUnder(p, d) <=> Len(d) < Len(p) /\ \A i \in 1 .. Len(d) : p[i] = d[i]
<1> DEFINE x == SubSeq(p, 1, Len(d))
<1> SUFFICES ASSUME Len(d) < Len(p)
             PROVE  x = d <=> \A i \in 1 .. Len(d) : p[i] = d[i]
  BY DEF IsUnder
<1>1. Len(d) \in 0 .. Len(p)
  OBVIOUS
<1>2. x \in Seq(S) /\ Len(x) = Len(d) /\ \A i \in 1 .. Len(d) : x[i] = p[i]
  BY <1>1, PrefixElements
<1> HIDE DEF x
<1>3. ASSUME x = d PROVE \A i \in 1 .. Len(d) : p[i] = d[i]
  BY <1>2, <1>3
<1>4. ASSUME \A i \in 1 .. Len(d) : p[i] = d[i] PROVE x = d
  <2>1. \A i \in 1 .. Len(x) : x[i] = d[i]
    BY <1>2, <1>4
  <2> QED BY <1>2, <2>1, SeqEqual
<1> QED BY <1>3, <1>4

\* A path that has a proper prefix at or below d is below d.
LEMMA BelowByPrefix ==
    ASSUME NEW S, NEW q \in Seq(S), NEW d \in Seq(S), NEW n \in 0 .. Len(q) - 1,
           SubSeq(q, 1, n) = d \/ IsUnder(SubSeq(q, 1, n), d)
    PROVE  IsUnder(q, d)
<1> DEFINE x == SubSeq(q, 1, n)
<1>1. n \in 0 .. Len(q) /\ n < Len(q) /\ Len(q) \in Nat /\ Len(d) \in Nat /\ n \in Nat
  OBVIOUS
<1>2. x \in Seq(S) /\ Len(x) = n /\ \A i \in 1 .. n : x[i] = q[i]
  BY <1>1, PrefixElements
<1> HIDE DEF x
<1>3. Len(d) <= n /\ \A i \in 1 .. Len(d) : x[i] = d[i]
  <2>1. CASE x = d
    BY <1>2, <2>1
  <2>2. CASE IsUnder(x, d)
    BY <1>1, <1>2, <2>2, UnderElements
  <2> QED BY <2>1, <2>2 DEF x
<1>4. Len(d) < Len(q) /\ \A i \in 1 .. Len(d) : q[i] = d[i]
  BY <1>1, <1>2, <1>3
<1> QED BY <1>4, UnderElements

\* Two children of one directory that have the same name are the same.
LEMMA ChildrenByName ==
    ASSUME NEW S, NEW p \in Seq(S), NEW e \in Seq(S), NEW d \in Seq(S),
           IsChild(p, d), IsChild(e, d), e[Len(e)] = p[Len(p)]
    PROVE  e = p
<1>1. /\ Len(p) = Len(d) + 1 /\ Len(e) = Len(d) + 1 /\ Len(d) \in Nat
      /\ \A i \in 1 .. Len(d) : p[i] = d[i] /\ e[i] = d[i]
  BY UnderElements DEF IsChild
<1>2. \A i \in 1 .. Len(e) : e[i] = p[i]
  BY <1>1
<1> QED BY <1>1, <1>2, SeqEqual

-----------------------------------------------------------------------------
(* Files that no request can reach *)

\* From st to r no row becomes a file's, but perhaps that of u's path p.
NoNewFile(st, r) == \A v \in Users, q \in Paths : IsFile(r, v, q) => IsFile(st, v, q)
OneNewFile(st, r, u, p) ==
    \A v \in Users, q \in Paths : IsFile(r, v, q) => IsFile(st, v, q) \/ (v = u /\ q = p)

\* Releases make no file; neither does mkdir.
LEMMA ReleaseNoNewFile ==
    ASSUME NEW st \in StoreType, NEW u \in Users, NEW P \in SUBSET Paths
    PROVE  NoNewFile(st, ReleaseContentRef(st, u, P)) /\ ReleaseContentRef(st, u, P) \in StoreType
<1> DEFINE r == ReleaseContentRef(st, u, P)
<1>1. ReleaseEffect(st, r, u, P)
  BY ReleaseFields
<1> HIDE DEF r
<1>2. r \in StoreType /\ \A v \in Users, q \in Paths :
         r.index[v][q] = NoRow \/ r.index[v][q] = st.index[v][q]
  BY <1>1 DEF ReleaseEffect
<1>3. NoNewFile(st, r)
  BY <1>2 DEF NoNewFile, IsFile, NoRow
<1> QED BY <1>2, <1>3 DEF r

\* A request that keeps every directory and makes files only where they can be
\* reached strands nothing.
LEMMA KeepsReach ==
    ASSUME FilesResolvable,
           \A v \in Users : dirs[v] \subseteq dirs'[v],
           \A v \in Users, q \in Paths : IsFile(store', v, q) => IsFile(store, v, q) \/ Resolves(v, q)
    PROVE  FilesResolvable'
BY DEF FilesResolvable, Resolves

\* rm of a directory takes the files below it along.
LEMMA RmDirectoryKeepsReach ==
    ASSUME PlainNames, TypeOK, FilesResolvable, NEW s \in Sessions, NEW d \in Paths,
           RmDirectory(s, d)
    PROVE  FilesResolvable'
<1> DEFINE u == UserOf[s]
           P == IndexedUnderPrefix(store, u, d)
           st == ReleaseContentRef(store, u, P)
<1>1. u \in Users /\ Paths \subseteq Seq(STRING) /\ P \in SUBSET Paths /\ d \in Paths
  BY TransferAssumption DEF IndexedUnderPrefix
<1>2. /\ store' = Unindex(st, u, {d})
      /\ dirs' = [dirs EXCEPT ![u] = RemovePath(@, d)]
      /\ dirs \in [Users -> SUBSET DirPaths] /\ store \in StoreType
  BY DEF RmDirectory, TypeOK
<1>3. ReleaseEffect(store, st, u, P)
  BY <1>1, <1>2, ReleaseFields
<1>4. \A q \in Paths : q \in P <=> IsFile(store, u, q) /\ IsUnder(q, d)
  BY DEF IndexedUnderPrefix, PlainNames
<1> HIDE DEF P
<1>5. UnindexEffect(st, store', u, {d})
  <2>1. st \in StoreType
    BY <1>3 DEF ReleaseEffect
  <2> HIDE DEF st
  <2> QED BY <1>1, <1>2, <2>1, UnindexFields
<1> HIDE DEF st
<1>6. ASSUME NEW v \in Users, NEW q \in Paths, IsFile(store', v, q)
      PROVE  IsFile(store, v, q) /\ (v = u => ~IsUnder(q, d))
  <2>1. /\ store'.index[v][q] = IF v = u /\ q \in {d} THEN NoRow ELSE st.index[v][q]
        /\ st.index[v][q] = IF v = u /\ q \in P THEN NoRow ELSE store.index[v][q]
    BY <1>3, <1>5 DEF ReleaseEffect, UnindexEffect
  <2>2. NoRow.kind # "file"
    BY DEF NoRow
  <2>3. store'.index[v][q].kind = "file"
    BY <1>6 DEF IsFile
  <2>4. store.index[v][q].kind = "file" /\ ~(v = u /\ q \in P)
    BY <2>1, <2>2, <2>3
  <2> QED BY <1>4, <2>4 DEF IsFile
<1>7. ASSUME NEW v \in Users, NEW q \in Paths, IsFile(store', v, q), NEW n \in 0 .. Len(q) - 1
      PROVE  SubSeq(q, 1, n) \in dirs'[v]
  <2>1. IsFile(store, v, q) /\ (v = u => ~IsUnder(q, d))
    BY <1>6, <1>7
  <2>2. SubSeq(q, 1, n) \in dirs[v]
    BY <2>1 DEF FilesResolvable, Resolves
  <2>3. CASE v # u
    BY <1>2, <2>2, <2>3
  <2>4. CASE v = u
    <3>1. ~(SubSeq(q, 1, n) = d \/ IsUnder(SubSeq(q, 1, n), d))
      <4>1. q \in Seq(STRING) /\ d \in Seq(STRING)
        BY <1>1
      <4> QED BY <2>1, <2>4, <4>1, BelowByPrefix
    <3>2. SubSeq(q, 1, n) \in RemovePath(dirs[u], d)
      BY <2>2, <2>4, <3>1 DEF RemovePath
    <3> QED BY <1>1, <1>2, <2>4, <3>2
  <2> QED BY <2>3, <2>4
<1> QED BY <1>7 DEF FilesResolvable, Resolves

\* A request strands a file only as StrandingIsMove says.
LEMMA RequestStrands ==
    ASSUME PlainNames, TypeOK, FilesResolvable, NEW s \in Sessions, Request(s),
           ~(UploadEnd(s) /\ ~Resolves(UserOf[s], upload[s].path)),
           ~(\E r \in RenamePairs : RenameDirectory(s, r[1], r[2]))
    PROVE  FilesResolvable'
<1> DEFINE u == UserOf[s]
<1>1. u \in Users /\ store \in StoreType /\ dirs \in [Users -> SUBSET DirPaths]
  BY TransferAssumption DEF TypeOK
<1>2. ASSUME UNCHANGED <<store, dirs>> PROVE FilesResolvable'
  BY <1>2 DEF FilesResolvable, Resolves
<1>3. ASSUME UNCHANGED dirs, NoNewFile(store, store') PROVE FilesResolvable'
  BY <1>3, KeepsReach DEF NoNewFile
<1>4. ASSUME UNCHANGED dirs, NEW p \in Paths, OneNewFile(store, store', u, p), Resolves(u, p)
      PROVE  FilesResolvable'
  BY <1>4, KeepsReach DEF OneNewFile
<1>5. ASSUME NEW p \in DirPaths, Mkdir(s, p) PROVE FilesResolvable'
  <2>1. DirRow \in Row /\ p \in Paths /\ DirRow.kind # "file"
    BY TransferAssumption DEF DirRow, Row, Digest
  <2>2. IndexEffect(store, store', u, p, DirRow)
    BY <1>1, <1>5, <2>1, IndexFields DEF Mkdir
  <2>3. \A v \in Users, q \in Paths : IsFile(store', v, q) => IsFile(store, v, q)
    BY <2>1, <2>2 DEF IndexEffect, IsFile
  <2>4. \A v \in Users : dirs[v] \subseteq dirs'[v]
    BY <1>1, <1>5 DEF Mkdir
  <2> QED BY <2>3, <2>4, KeepsReach
<1>6. ASSUME NEW p \in Paths, RmFile(s, p) \/ RmStale(s, p) PROVE FilesResolvable'
  <2>1. store' = ReleaseContentRef(store, u, {p}) /\ {p} \in SUBSET Paths /\ UNCHANGED dirs
    BY <1>6 DEF RmFile, RmStale
  <2>2. NoNewFile(store, store')
    BY <1>1, <2>1, ReleaseNoNewFile
  <2> QED BY <1>3, <2>1, <2>2
<1>7. ASSUME NEW d \in Paths, RmDirectory(s, d) PROVE FilesResolvable'
  BY <1>7, RmDirectoryKeepsReach
<1>8. ASSUME NEW r \in RenamePairs, RenameFile(s, r[1], r[2]) PROVE FilesResolvable'
  <2>1. /\ store' = RenameIndexedFile(store, u, r[1], r[2]) /\ UNCHANGED dirs
        /\ IsFile(store, u, r[1]) /\ Resolves(u, r[2])
        /\ r[1] \in Paths /\ r[2] \in Paths
    BY <1>8, TransferAssumption DEF RenameFile
  <2>2. RenameEffect(store, store', u, r[1], r[2], store.index[u][r[1]].md5)
    BY <1>1, <2>1, RenameFields
  <2>3. \A v \in Users, q \in Paths : store'.index[v][q] = NoRow \/ (v = u /\ q = r[2])
                                         \/ store'.index[v][q] = store.index[v][q]
    BY <2>2 DEF RenameEffect
  <2>4. OneNewFile(store, store', u, r[2])
    BY <2>3 DEF OneNewFile, IsFile, NoRow
  <2> QED BY <1>4, <2>1, <2>4
<1>9. ASSUME NEW p \in Paths, NEW m \in Md5, NEW st \in StoreType, NoNewFile(store, st),
             store' = AddContentRef(st, u, p, m)
      PROVE  OneNewFile(store, store', u, p)
  <2>1. AddEffect(st, store', u, p, m)
    BY <1>1, <1>9, AddFields
  <2>2. \A v \in Users, q \in Paths :
           (v = u /\ q = p) \/ store'.index[v][q] = st.index[v][q]
    BY <2>1 DEF AddEffect
  <2> QED BY <1>9, <2>2 DEF OneNewFile, NoNewFile, IsFile
<1>10. ASSUME NEW p \in Paths
       PROVE  LET st == IF IsFile(store, u, p) THEN ReleaseContentRef(store, u, {p}) ELSE store
              IN  st \in StoreType /\ NoNewFile(store, st)
  <2>1. {p} \in SUBSET Paths /\ NoNewFile(store, store)
    BY DEF NoNewFile
  <2> QED BY <1>1, <2>1, ReleaseNoNewFile
<1>11. ASSUME NEW p \in FilePaths, NEW m \in Md5, NEW ow \in Overwrites, InstantUpload(s, p, m, ow)
       PROVE  FilesResolvable'
  <2> DEFINE st == IF IsFile(store, u, p) THEN ReleaseContentRef(store, u, {p}) ELSE store
  <2>1. /\ store' = AddContentRef(st, u, p, m) /\ UNCHANGED dirs /\ Resolves(u, p)
        /\ p \in Paths
    BY <1>11, TransferAssumption DEF InstantUpload
  <2>2. st \in StoreType /\ NoNewFile(store, st)
    BY <1>10, <2>1
  <2> HIDE DEF st
  <2>3. OneNewFile(store, store', u, p)
    BY <1>9, <2>1, <2>2
  <2> QED BY <1>4, <2>1, <2>3
<1>12. CASE UploadEnd(s)
  <2> DEFINE p == upload[s].path
             m == upload[s].md5
             st0 == IF IsFile(store, u, p) THEN ReleaseContentRef(store, u, {p}) ELSE store
             st == PublishObject(st0, m)
  <2>1. p \in Paths /\ m \in Md5
    BY <1>12, TransferAssumption DEF UploadEnd, TypeOK, UploadSession
  <2>2. store' = AddContentRef(st, u, p, m) /\ UNCHANGED dirs /\ Resolves(u, p)
    BY <1>12 DEF UploadEnd, ReleasePrevious
  <2> HIDE DEF p, m
  <2>3. st0 \in StoreType /\ NoNewFile(store, st0)
    BY <1>10, <2>1
  <2> HIDE DEF st0
  <2>4. PublishEffect(st0, st, m)
    BY <2>1, <2>3, PublishFields
  <2> HIDE DEF st
  <2>5. st \in StoreType /\ NoNewFile(store, st)
    BY <2>3, <2>4 DEF PublishEffect, NoNewFile, IsFile
  <2>6. OneNewFile(store, store', u, p)
    BY <1>9, <2>1, <2>2, <2>5
  <2> QED BY <1>4, <2>1, <2>2, <2>6
<1>13. CASE UploadEndPublishFails(s)
  <2> DEFINE p == upload[s].path
  <2>1. p \in Paths
    BY <1>13, TransferAssumption DEF UploadEndPublishFails, TypeOK, UploadSession
  <2>2. /\ store' = IF IsFile(store, u, p) THEN ReleaseContentRef(store, u, {p}) ELSE store
        /\ UNCHANGED dirs
    BY <1>13 DEF UploadEndPublishFails, ReleasePrevious
  <2> HIDE DEF p
  <2>3. NoNewFile(store, store')
    BY <1>10, <2>1, <2>2
  <2> QED BY <1>3, <2>2, <2>3
<1>14. ASSUME \/ CloseUpload(s)
              \/ \E m \in Md5 : InstantQuery(s, m)
              \/ \E p \in FilePaths, m \in Md5 : InstantUploadConflict(s, p, m) \/ UploadBegin(s, p, m)
       PROVE  FilesResolvable'
  BY <1>2, <1>14 DEF CloseUpload, InstantQuery, InstantUploadConflict, UploadBegin
<1> QED BY <1>5, <1>6, <1>7, <1>8, <1>11, <1>12, <1>13, <1>14 DEF Request

\* However stale the rows of its subdirectories are, the removal of a directory
\* leaves no file that nothing can reach: only an upload that was under way, or
\* the rename of a directory, does.
THEOREM RemovalStrandsNothing ==
    ASSUME PlainNames
    PROVE  Spec => OnlyMovesStrand
<1>1. TypeOK /\ [Next]_vars => [StrandingIsMove]_vars
  <2> SUFFICES ASSUME TypeOK, Next, FilesResolvable, ~FilesResolvable'
               PROVE  \E s \in Sessions :
                         \/ UploadEnd(s) /\ ~Resolves(UserOf[s], upload[s].path)
                         \/ \E r \in RenamePairs : RenameDirectory(s, r[1], r[2])
    BY DEF StrandingIsMove
  <2>1. ~ChallengeExpires
    BY DEF ChallengeExpires, FilesResolvable, Resolves
  <2>2. PICK s \in Sessions : Request(s)
    BY <2>1 DEF Next
  <2> QED BY <2>2, RequestStrands
<1> QED BY <1>1, TypeCorrect, PTL DEF Spec, OnlyMovesStrand

-----------------------------------------------------------------------------
(* What ls shows *)

\* The path of a child, as listDir reports it, is its name.
LEMMA ChildSuffix ==
    ASSUME NEW S, NEW e \in Seq(S), NEW d \in Seq(S), IsChild(e, d)
    PROVE  SubSeq(e, Len(d) + 1, Len(e)) = <<Name(e)>>
<1>1. Len(e) = Len(d) + 1 /\ Len(d) \in Nat /\ Len(e) \in 1 .. Len(e)
  BY DEF IsChild
<1> DEFINE n == Len(e)
           x == SubSeq(e, n, n)
<1>2. n \in Nat /\ n >= 1 /\ \A i \in n .. n : e[i] \in S
  BY <1>1
<1>3. /\ x \in Seq(S)
      /\ Len(x) = IF n <= n THEN n - n + 1 ELSE 0
      /\ \A i \in 1 .. n - n + 1 : x[i] = e[n + i - 1]
  BY <1>2, SubSeqProperties
<1> HIDE DEF x
<1>4. Len(x) = 1 /\ x[1] = e[n]
  BY <1>2, <1>3
<1>5. <<e[n]>> \in Seq(S) /\ Len(<<e[n]>>) = 1 /\ <<e[n]>>[1] = e[n]
  BY <1>2
<1>6. \A i \in 1 .. Len(x) : x[i] = <<e[n]>>[i]
  BY <1>4, <1>5
<1>7. x = <<e[n]>>
  BY <1>3, <1>4, <1>5, <1>6, SeqEqual
<1> QED BY <1>1, <1>7 DEF Name, x

\* If LIKE selects what is below a directory, and whatever more it selects, ls
\* shows the directories and files in it and nothing else; a recursive ls hides
\* exactly the files whose name a directory below has.
THEOREM LsIsExact ==
    ASSUME \A d \in Paths, p \in Paths : IsUnder(p, d) => <<d, p>> \in LikeMatch
    PROVE  Spec => []LsShowsChildren
<1>1. TypeOK => LsShowsChildren
  <2> DEFINE DirEntry(p) == [name |-> Name(p), path |-> <<Name(p)>>, type |-> "dir"]
             Entry(p) == [name |-> Name(p), path |-> p, type |-> "file"]
  <2> SUFFICES ASSUME TypeOK, NEW u \in Users, NEW d \in DirPaths, d \in dirs[u]
               PROVE  /\ Ls(u, d, FALSE) =
                            {IF p \in dirs[u] THEN DirEntry(p) ELSE Entry(p) : p \in Children(u, d)}
                      /\ \A p \in Paths : IsChild(p, d) /\ IsFile(store, u, p) =>
                            (Entry(p) \in Ls(u, d, TRUE)
                               <=> ~\E e \in dirs[u] : IsUnder(e, d) /\ Name(e) = Name(p))
    BY DEF LsShowsChildren
  <2> DEFINE Sub(rec) == {e \in dirs[u] : IsUnder(e, d) /\ (rec \/ IsChild(e, d))}
             Rel(e) == [name |-> Name(e), path |-> SubSeq(e, Len(d) + 1, Len(e)), type |-> "dir"]
  <2>1. /\ d \in Paths /\ dirs[u] \subseteq Paths /\ Paths \subseteq Seq(STRING)
        /\ d \in Seq(STRING) /\ \A e \in dirs[u] : e \in Seq(STRING)
    BY TransferAssumption DEF TypeOK
  <2>2. \A p : p \in ListIndexed(u, d) <=> p \in Paths /\ IsFile(store, u, p) /\ IsChild(p, d)
    BY <2>1 DEF ListIndexed, IsChild
  <2>3. ASSUME NEW rec \in BOOLEAN
        PROVE  ListDir(u, d, rec) = {Rel(e) : e \in Sub(rec)}
    BY DEF ListDir
  <2>4. ASSUME NEW rec \in BOOLEAN, NEW x
        PROVE  x \in Ls(u, d, rec) <=>
                  \/ \E e \in Sub(rec) : x = Rel(e)
                  \/ \E p \in ListIndexed(u, d) : /\ x = Entry(p)
                                                  /\ \A e \in Sub(rec) : Name(e) # Name(p)
    <3>1. {y.name : y \in ListDir(u, d, rec)} = {Name(e) : e \in Sub(rec)}
      <4>1. \A e : Rel(e).name = Name(e)
        OBVIOUS
      <4> HIDE DEF Rel, Sub
      <4> QED BY <2>3, <4>1
    <3> HIDE DEF Rel, Sub
    <3> QED BY <2>3, <3>1 DEF Ls
  <2>5. ASSUME NEW p \in Paths, IsChild(p, d), IsFile(store, u, p)
        PROVE  Entry(p) \in Ls(u, d, TRUE)
                  <=> ~\E e \in dirs[u] : IsUnder(e, d) /\ Name(e) = Name(p)
    <3>1. \A e : e \in Sub(TRUE) <=> e \in dirs[u] /\ IsUnder(e, d)
      OBVIOUS
    <3>2. \A e : Rel(e) # Entry(p)
      <4>1. \A e : Rel(e).type = "dir" /\ Entry(p).type = "file"
        OBVIOUS
      <4> QED BY <4>1
    <3>3. \A q : Entry(p) = Entry(q) => p = q
      <4>1. \A q : Entry(q).path = q
        OBVIOUS
      <4> HIDE DEF Entry
      <4> QED BY <4>1
    <3> HIDE DEF Sub, Rel, Entry
    <3> QED BY <2>2, <2>4, <2>5, <3>1, <3>2, <3>3
  <2>6. \A e \in Sub(FALSE) : Rel(e) = DirEntry(e) /\ e \in Seq(STRING) /\ IsChild(e, d)
    <3>1. ASSUME NEW e \in Sub(FALSE) PROVE SubSeq(e, Len(d) + 1, Len(e)) = <<Name(e)>>
      BY <2>1, ChildSuffix
    <3> QED BY <2>1, <3>1
  <2>7. \A e : e \in Sub(FALSE) <=> e \in Children(u, d) /\ e \in dirs[u]
    BY <2>1 DEF Children, IsChild
  <2>8. ASSUME NEW p
        PROVE  p \in Children(u, d) /\ p \notin dirs[u]
                  <=> p \in ListIndexed(u, d) /\ \A e \in Sub(FALSE) : Name(e) # Name(p)
    <3>1. ASSUME p \in Children(u, d), p \notin dirs[u], NEW e \in Sub(FALSE)
          PROVE  Name(e) # Name(p)
      <4>1. e \in Seq(STRING) /\ IsChild(e, d) /\ e \in dirs[u] /\ p \in Seq(STRING) /\ IsChild(p, d)
        BY <2>1, <2>6, <3>1 DEF Children
      <4> QED BY <2>1, <3>1, <4>1, ChildrenByName DEF Name
    <3>2. ASSUME p \in ListIndexed(u, d), \A e \in Sub(FALSE) : Name(e) # Name(p)
          PROVE  p \in Children(u, d) /\ p \notin dirs[u]
      <4>1. p \in Children(u, d)
        BY <2>2, <3>2 DEF Children
      <4> HIDE DEF Sub
      <4> QED BY <2>7, <3>2, <4>1
    <3>3. p \in Children(u, d) /\ p \notin dirs[u] => p \in ListIndexed(u, d)
      BY <2>2 DEF Children
    <3> QED BY <3>1, <3>2, <3>3
  <2>9. Ls(u, d, FALSE) =
           {IF p \in dirs[u] THEN DirEntry(p) ELSE Entry(p) : p \in Children(u, d)}
    <3> HIDE DEF Sub, Rel, Entry, DirEntry
    <3>1. \A x : x \in Ls(u, d, FALSE) <=>
             \/ \E e \in Sub(FALSE) : x = DirEntry(e)
             \/ \E p : p \in Children(u, d) /\ p \notin dirs[u] /\ x = Entry(p)
      BY <2>4, <2>6, <2>8
    <3> QED BY <2>7, <3>1
  <2> QED BY <2>5, <2>9
<1> QED BY <1>1, TypeCorrect, PTL

-----------------------------------------------------------------------------
(* The cache knows files only *)

\* A cached md5 is the md5 of a file row.  Without it the removal of a directory,
\* which goes by the rows, would leave downloads behind.
CacheIndexed(st) ==
    \A u \in Users, p \in Paths :
        st.pathMd5[u][p] # NoMd5 => st.index[u][p] = FileRow(st.pathMd5[u][p])

\* A release takes row and cached md5 together.
LEMMA ReleaseCacheIndexed ==
    ASSUME NEW st \in StoreType, NEW r, NEW u \in Users, NEW P \in SUBSET Paths,
           ReleaseEffect(st, r, u, P), CacheIndexed(st)
    PROVE  CacheIndexed(r)
BY DEF ReleaseEffect, CacheIndexed

\* A new file gets both.
LEMMA AddCacheIndexed ==
    ASSUME NEW st \in StoreType, NEW r, NEW u \in Users, NEW p \in Paths, NEW m \in Md5,
           AddEffect(st, r, u, p, m), CacheIndexed(st)
    PROVE  CacheIndexed(r)
BY DEF AddEffect, CacheIndexed

\* Every change of the store keeps CacheIndexed.
LEMMA StoreStepCacheIndexed ==
    ASSUME PathSorts, ProperRenames, NEW u \in Users, store \in StoreType,
           Covered(store), CacheIndexed(store), StoreStep(u)
    PROVE  CacheIndexed(store')
<1> USE TransferAssumption
<1>1. ASSUME NEW p \in DirPaths, IndexEffect(store, store', u, p, DirRow)
      PROVE  CacheIndexed(store')
  <2>1. store.pathMd5[u][p] = NoMd5 /\ store'.pathMd5 = store.pathMd5
    BY <1>1 DEF PathSorts, Covered, BareDirs, IndexEffect
  <2> QED BY <1>1, <2>1 DEF IndexEffect, CacheIndexed
<1>2. ASSUME NEW P \in SUBSET Paths, ReleaseEffect(store, store', u, P)
      PROVE  CacheIndexed(store')
  BY <1>2, ReleaseCacheIndexed
<1>3. ASSUME NEW P \in SUBSET Paths, NEW d \in DirPaths, NEW st \in StoreType,
             ReleaseEffect(store, st, u, P), UnindexEffect(st, store', u, {d})
      PROVE  CacheIndexed(store')
  <2>1. CacheIndexed(st)
    BY <1>3, ReleaseCacheIndexed
  <2> QED BY <1>3, <2>1, SMTT(30) DEF UnindexEffect, CacheIndexed
<1>4. ASSUME NEW r \in RenamePairs,
             RenameEffect(store, store', u, r[1], r[2], store.index[u][r[1]].md5)
      PROVE  CacheIndexed(store')
  <2>1. r[1] # r[2] /\ r[1] \in Paths /\ r[2] \in Paths
    BY DEF ProperRenames
  <2> SUFFICES ASSUME NEW v \in Users, NEW q \in Paths, store'.pathMd5[v][q] # NoMd5
               PROVE  store'.index[v][q] = FileRow(store'.pathMd5[v][q])
    BY DEF CacheIndexed
  <2>2. CASE v = u /\ q = r[2]
    BY <1>4, <2>1, <2>2 DEF RenameEffect
  <2>3. CASE v = u /\ q = r[1]
    BY <1>4, <2>1, <2>3 DEF RenameEffect
  <2>4. CASE ~(v = u /\ q = r[2]) /\ ~(v = u /\ q = r[1])
    <3>1. /\ store'.pathMd5[v][q] = store.pathMd5[v][q]
          /\ store'.index[v][q] = store.index[v][q]
      BY <1>4, <2>4 DEF RenameEffect
    <3> QED BY <3>1 DEF CacheIndexed
  <2> QED BY <2>2, <2>3, <2>4
<1>5. ASSUME NEW r \in RenamePairs, r[1] # r[2], r[1] \in DirPaths, r[2] \in DirPaths,
             ReindexEffect(store, store', u, r[1], r[2], store.pathMd5[u][r[1]])
      PROVE  CacheIndexed(store')
  <2>1. store.pathMd5[u][r[1]] = NoMd5 /\ store.pathMd5[u][r[2]] = NoMd5
    BY <1>5 DEF PathSorts, Covered, BareDirs
  <2> SUFFICES ASSUME NEW v \in Users, NEW q \in Paths, store'.pathMd5[v][q] # NoMd5
               PROVE  store'.index[v][q] = FileRow(store'.pathMd5[v][q])
    BY DEF CacheIndexed
  <2>2. CASE v = u /\ q \in {r[1], r[2]}
    BY <1>5, <2>1, <2>2 DEF ReindexEffect
  <2>3. CASE ~(v = u /\ q \in {r[1], r[2]})
    BY <1>5, <2>1, <2>3, SMTT(30) DEF ReindexEffect, CacheIndexed
  <2> QED BY <2>2, <2>3
<1>6. ASSUME NEW p \in FilePaths, NEW st \in StoreType, ReplaceEffect(store, st, u, p)
      PROVE  CacheIndexed(st)
  <2>1. {p} \in SUBSET Paths
    OBVIOUS
  <2> QED BY <1>6, <2>1, ReleaseCacheIndexed DEF ReplaceEffect
<1>7. ASSUME NEW p \in FilePaths, NEW m \in Md5, NEW st \in StoreType,
             ReplaceEffect(store, st, u, p), AddEffect(st, store', u, p, m)
      PROVE  CacheIndexed(store')
  BY <1>6, <1>7, AddCacheIndexed
<1>8. ASSUME NEW p \in FilePaths, NEW m \in Md5, NEW st \in StoreType, NEW st1 \in StoreType,
             ReplaceEffect(store, st, u, p), PublishEffect(st, st1, m),
             AddEffect(st1, store', u, p, m)
      PROVE  CacheIndexed(store')
  <2>1. CacheIndexed(st1)
    BY <1>6, <1>8 DEF PublishEffect, CacheIndexed
  <2> QED BY <1>8, <2>1, AddCacheIndexed
<1> QED BY <1>1, <1>2, <1>3, <1>4, <1>5, <1>7, <1>8 DEF StoreStep

-----------------------------------------------------------------------------
(* The refinement mapping *)

\* The whole invariant: what is cached is what a download delivers.
IInv == TypeOK /\ Covered(store) /\ ReferencedStored(store) /\ CacheIndexed(store)

\* It is inductive.
LEMMA StepIInv ==
    ASSUME PathSorts, NoOverwrite, ProperRenames
    PROVE  IInv /\ [Next]_vars => IInv'
<1> SUFFICES ASSUME IInv, [Next]_vars PROVE IInv'
  OBVIOUS
<1>1. TypeOK' /\ Covered(store') /\ ReferencedStored(store')
  BY StepType, StepCovered, StepStored DEF IInv
<1>2. CASE store' = store
  BY <1>1, <1>2 DEF IInv
<1>3. ASSUME NEW s \in Sessions, StoreStep(UserOf[s]) PROVE CacheIndexed(store')
  <2>1. UserOf[s] \in Users
    BY TransferAssumption
  <2> QED BY <1>3, <2>1, StoreStepCacheIndexed DEF IInv, TypeOK
<1> QED BY <1>1, <1>2, <1>3, NextStoreStep DEF vars, IInv

\* The refinement mapping is the cache.
LEMMA ContentIsCached ==
    ASSUME NEW st \in StoreType, Covered(st), ReferencedStored(st)
    PROVE  [u \in Users |-> [p \in Paths |-> Content(st, u, p)]] = st.pathMd5
<1>1. ASSUME NEW u \in Users, NEW p \in Paths PROVE Content(st, u, p) = st.pathMd5[u][p]
  <2>1. HeldMd5(st, u, p) = st.pathMd5[u][p] /\ st.pathMd5[u][p] \in Digest
    BY HeldIsCached DEF Covered, StoreType
  <2>2. ASSUME st.pathMd5[u][p] # NoMd5 PROVE st.pathMd5[u][p] \in st.objects
    <3>1. <<u, p>> \in st.refs[st.pathMd5[u][p]] /\ st.pathMd5[u][p] \in Md5
      BY <2>1, <2>2 DEF Covered, CacheReferenced, Digest
    <3> QED BY <3>1 DEF ReferencedStored
  <2> QED BY <2>1, <2>2 DEF Content
<1>2. st.pathMd5 \in [Users -> [Paths -> Digest]]
  BY DEF StoreType
<1> QED BY <1>1, <1>2

\* From f to g the cached md5s of one user become h.
Changed(f, g, u, h) ==
    /\ f \in [Users -> [Paths -> Digest]]
    /\ g \in [Users -> [Paths -> Digest]]
    /\ h = [q \in Paths |-> h[q]]
    /\ \A v \in Users, q \in Paths : g[v][q] = IF v = u THEN h[q] ELSE f[v][q]

\* That is an assignment to one user's map.
LEMMA UserChanged ==
    ASSUME NEW f \in [Users -> [Paths -> Digest]], NEW g \in [Users -> [Paths -> Digest]],
           NEW u \in Users, NEW h, Changed(f, g, u, h)
    PROVE  g = [f EXCEPT ![u] = h]
<1>1. ASSUME NEW v \in Users PROVE g[v] = IF v = u THEN h ELSE f[v]
  <2>1. g[v] = [q \in Paths |-> g[v][q]] /\ f[v] = [q \in Paths |-> f[v][q]]
    OBVIOUS
  <2>2. CASE v = u
    <3>1. h = [q \in Paths |-> h[q]] /\ \A q \in Paths : g[v][q] = h[q]
      BY <2>2 DEF Changed
    <3> QED BY <2>1, <2>2, <3>1
  <2>3. CASE v # u
    <3>1. \A q \in Paths : g[v][q] = f[v][q]
      BY <2>3 DEF Changed
    <3> QED BY <2>1, <2>3, <3>1
  <2> QED BY <2>2, <2>3
<1>2. g = [v \in Users |-> g[v]]
  OBVIOUS
<1> QED BY <1>1, <1>2

\* From f to g the md5 cached for one path becomes m.
ChangedAt(f, g, u, p, m) ==
    \A v \in Users, q \in Paths : g[v][q] = IF v = u /\ q = p THEN m ELSE f[v][q]

\* That is an assignment to one path of one user.
LEMMA OneChanged ==
    ASSUME NEW f \in [Users -> [Paths -> Digest]], NEW g \in [Users -> [Paths -> Digest]],
           NEW u \in Users, NEW p \in Paths, NEW m, ChangedAt(f, g, u, p, m)
    PROVE  g = [f EXCEPT ![u][p] = m]
<1> DEFINE h == [f[u] EXCEPT ![p] = m]
<1>1. h = [q \in Paths |-> h[q]] /\ \A q \in Paths : h[q] = IF q = p THEN m ELSE f[u][q]
  OBVIOUS
<1> HIDE DEF h
<1>2. Changed(f, g, u, h)
  BY <1>1 DEF Changed, ChangedAt
<1>3. g = [f EXCEPT ![u] = h]
  BY <1>1, <1>2, UserChanged
<1> QED BY <1>3 DEF h

\* From f to g a user's content moves from one path to another.
CacheMoved(f, g, u, from, to) ==
    \A v \in Users, q \in Paths :
        g[v][q] = IF v = u /\ q = to THEN f[u][from]
                  ELSE IF v = u /\ q = from THEN NoMd5 ELSE f[v][q]

\* From f to g a user's contents below a directory go.
CacheCut(f, g, u, d) ==
    \A v \in Users, q \in Paths :
        g[v][q] = IF v = u /\ IsUnder(q, d) THEN NoMd5 ELSE f[v][q]

\* What the requests of session s do to the cached md5s and the directories.
CacheStep(s) ==
    LET u == UserOf[s]
        f == store.pathMd5
        g == store'.pathMd5
    IN
    \/ UNCHANGED dirs /\ g = f
    \/ \E p \in Paths, m \in Digest :
          /\ UNCHANGED dirs
          /\ ChangedAt(f, g, u, p, m)
          /\ \/ f[u][p] = NoMd5
             \/ RmFile(s, p)
             \/ upload[s].path = p /\ (UploadEnd(s) \/ UploadEndPublishFails(s))
    \/ \E r \in RenamePairs : /\ UNCHANGED dirs
                              /\ RenameFile(s, r[1], r[2])
                              /\ CacheMoved(f, g, u, r[1], r[2])
    \/ \E p \in DirPaths : Mkdir(s, p) /\ g = f
    \/ \E d \in Paths : RmDirectory(s, d) /\ CacheCut(f, g, u, d)
    \/ \E r \in RenamePairs : RenameDirectory(s, r[1], r[2]) /\ g = f

\* A path that is no file has no md5 cached.
LEMMA NoFileNoCache ==
    ASSUME CacheIndexed(store), NEW u \in Users, NEW p \in Paths, ~IsFile(store, u, p)
    PROVE  store.pathMd5[u][p] = NoMd5
<1>1. FileRow(store.pathMd5[u][p]).kind = "file"
  BY DEF FileRow
<1> QED BY <1>1 DEF CacheIndexed, IsFile

\* Every request is one of these.
LEMMA RequestCacheStep ==
    ASSUME PathSorts, NoOverwrite, PlainNames, ProperRenames, IInv,
           NEW s \in Sessions, Request(s)
    PROVE  CacheStep(s)
<1> DEFINE u == UserOf[s]
           f == store.pathMd5
           g == store'.pathMd5
<1> USE TransferAssumption
<1>1. /\ u \in Users /\ store \in StoreType /\ CacheIndexed(store) /\ Covered(store)
      /\ dirs \in [Users -> SUBSET DirPaths]
      /\ NoMd5 \in Digest /\ Md5 \subseteq Digest /\ f \in [Users -> [Paths -> Digest]]
  BY DEF IInv, TypeOK, Digest, StoreType
<1>2. ASSUME NEW p \in Paths, NEW m \in Digest, UNCHANGED dirs, ChangedAt(f, g, u, p, m),
             \/ f[u][p] = NoMd5
             \/ RmFile(s, p)
             \/ upload[s].path = p /\ (UploadEnd(s) \/ UploadEndPublishFails(s))
      PROVE  CacheStep(s)
  BY <1>2 DEF CacheStep
<1>3. ASSUME NEW p \in DirPaths, Mkdir(s, p) PROVE CacheStep(s)
  <2>1. store'.pathMd5 = store.pathMd5
    BY <1>3 DEF Mkdir, IndexFile, Store
  <2> QED BY <1>3, <2>1 DEF CacheStep
<1>4. ASSUME NEW p \in Paths, RmFile(s, p) \/ RmStale(s, p) PROVE CacheStep(s)
  <2>1. store' = ReleaseContentRef(store, u, {p}) /\ UNCHANGED dirs /\ {p} \in SUBSET Paths
    BY <1>4 DEF RmFile, RmStale
  <2>2. ReleaseEffect(store, store', u, {p})
    BY <1>1, <2>1, ReleaseFields
  <2>3. ChangedAt(f, g, u, p, NoMd5)
    BY <2>2 DEF ReleaseEffect, ChangedAt
  <2>4. RmFile(s, p) \/ f[u][p] = NoMd5
    BY <1>1, <1>4, NoFileNoCache DEF RmStale
  <2> QED BY <1>1, <1>2, <2>1, <2>3, <2>4
<1>5. ASSUME NEW d \in Paths, RmDirectory(s, d) PROVE CacheStep(s)
  <2> DEFINE P == IndexedUnderPrefix(store, u, d)
             st == ReleaseContentRef(store, u, P)
  <2>1. /\ P \in SUBSET Paths /\ store' = Unindex(st, u, {d}) /\ {d} \in SUBSET Paths
        /\ d \in dirs[u] /\ ~IsFile(store, u, d)
        /\ \A q \in Paths : q \in P <=> IsFile(store, u, q) /\ IsUnder(q, d)
    BY <1>5 DEF RmDirectory, IndexedUnderPrefix, PlainNames
  <2> HIDE DEF P
  <2>2. ReleaseEffect(store, st, u, P)
    BY <1>1, <2>1, ReleaseFields
  <2>3. st \in StoreType
    BY <2>2 DEF ReleaseEffect
  <2> HIDE DEF st
  <2>4. UnindexEffect(st, store', u, {d})
    BY <1>1, <2>1, <2>3, UnindexFields
  <2>5. ASSUME NEW v \in Users, NEW q \in Paths
        PROVE  g[v][q] = IF v = u /\ IsUnder(q, d) THEN NoMd5 ELSE f[v][q]
    <3>1. g[v][q] = IF v = u /\ (q = d \/ q \in P) THEN NoMd5 ELSE f[v][q]
      BY <2>2, <2>4 DEF ReleaseEffect, UnindexEffect
    <3>2. f[u][d] = NoMd5 /\ (~IsFile(store, u, q) => f[u][q] = NoMd5)
      BY <1>1, <2>1, NoFileNoCache
    <3> QED BY <2>1, <3>1, <3>2
  <2>6. CacheCut(f, g, u, d)
    BY <2>5 DEF CacheCut
  <2> QED BY <1>5, <2>6 DEF CacheStep
<1>6. ASSUME NEW r \in RenamePairs, RenameFile(s, r[1], r[2]) PROVE CacheStep(s)
  <2> DEFINE from == r[1]
             to == r[2]
             m == store.index[u][from].md5
  <2>1. /\ store' = RenameIndexedFile(store, u, from, to) /\ UNCHANGED dirs
        /\ IsFile(store, u, from) /\ from \in Paths /\ to \in Paths
    BY <1>6 DEF RenameFile
  <2>2. RenameEffect(store, store', u, from, to, m)
    BY <1>1, <2>1, RenameFields
  <2>3. f[u][from] = m
    <3>1. CASE m # NoMd5
      BY <1>1, <2>1, <3>1 DEF Covered, RowsCached
    <3>2. CASE m = NoMd5
      <4>1. FileRow(f[u][from]).md5 = f[u][from]
        BY DEF FileRow
      <4>2. f[u][from] # NoMd5 => store.index[u][from] = FileRow(f[u][from])
        BY <1>1, <2>1 DEF CacheIndexed
      <4> QED BY <3>2, <4>1, <4>2
    <3> QED BY <3>1, <3>2
  <2>4. CacheMoved(f, g, u, from, to)
    <3> HIDE DEF m
    <3> QED BY <2>2, <2>3 DEF RenameEffect, CacheMoved
  <2> QED BY <1>6, <2>1, <2>4 DEF CacheStep
<1>7. ASSUME NEW r \in RenamePairs, RenameDirectory(s, r[1], r[2]) PROVE CacheStep(s)
  <2>1. /\ r[1] \in dirs[u] /\ r[1] \in Paths /\ r[2] \in Paths /\ r[1] \in DirPaths
        /\ store' = ReindexDirectory(store, u, r[1], r[2]) /\ r[1] # r[2]
    BY <1>1, <1>7 DEF RenameDirectory
  <2>2. ReindexEffect(store, store', u, r[1], r[2], f[u][r[1]])
    BY <1>1, <2>1, ReindexFields
  <2>3. f[u][r[1]] = NoMd5
    BY <1>1, <2>1 DEF PathSorts, Covered, BareDirs
  <2>4. \A v \in Users, q \in Paths : g[v][q] = f[v][q]
    BY <2>2, <2>3 DEF ReindexEffect
  <2>5. g \in [Users -> [Paths -> Digest]]
    BY <2>2 DEF ReindexEffect, StoreType
  <2>6. g = f
    BY <1>1, <2>4, <2>5
  <2> QED BY <1>7, <2>6 DEF CacheStep
<1>8. ASSUME \/ CloseUpload(s)
             \/ \E m \in Md5 : InstantQuery(s, m)
             \/ \E p \in FilePaths, m \in Md5 : InstantUploadConflict(s, p, m) \/ UploadBegin(s, p, m)
      PROVE  CacheStep(s)
  BY <1>8 DEF CloseUpload, InstantQuery, InstantUploadConflict, UploadBegin, CacheStep
<1>9. ASSUME NEW p \in FilePaths, NEW m \in Md5, NEW ow \in Overwrites, InstantUpload(s, p, m, ow)
      PROVE  CacheStep(s)
  <2>1. ~IsFile(store, u, p) /\ p \in Paths
    BY <1>9 DEF InstantUpload, DestinationExists, NoOverwrite
  <2>2. store' = AddContentRef(store, u, p, m) /\ UNCHANGED dirs
    BY <1>9, <2>1 DEF InstantUpload
  <2>3. AddEffect(store, store', u, p, m)
    BY <1>1, <2>1, <2>2, AddFields
  <2>4. ChangedAt(f, g, u, p, m)
    BY <2>3 DEF AddEffect, ChangedAt
  <2>5. f[u][p] = NoMd5
    BY <1>1, <2>1, NoFileNoCache
  <2> QED BY <1>1, <1>2, <2>1, <2>2, <2>4, <2>5
<1>10. ASSUME upload[s] # NoUpload
       PROVE  upload[s].path \in Paths /\ upload[s].md5 \in Md5
  BY <1>10 DEF IInv, TypeOK, UploadSession
<1>11. CASE UploadEnd(s)
  <2> DEFINE p == upload[s].path
             m == upload[s].md5
             st == IF IsFile(store, u, p) THEN ReleaseContentRef(store, u, {p}) ELSE store
             st1 == PublishObject(st, m)
  <2>1. p \in Paths /\ m \in Md5 /\ UNCHANGED dirs /\ store' = AddContentRef(st1, u, p, m)
    BY <1>10, <1>11 DEF UploadEnd, ReleasePrevious
  <2>2. p = upload[s].path
    OBVIOUS
  <2> HIDE DEF p, m
  <2>3. st \in StoreType /\ ReplaceEffect(store, st, u, p)
    BY <1>1, <2>1, ReplaceFields
  <2> HIDE DEF st
  <2>4. PublishEffect(st, st1, m)
    BY <2>1, <2>3, PublishFields
  <2>5. st1 \in StoreType
    BY <2>4 DEF PublishEffect
  <2> HIDE DEF st1
  <2>6. AddEffect(st1, store', u, p, m)
    BY <1>1, <2>1, <2>5, AddFields
  <2>7. ChangedAt(f, g, u, p, m)
    BY <2>3, <2>4, <2>6 DEF ReplaceEffect, ReleaseEffect, PublishEffect, AddEffect, ChangedAt
  <2> QED BY <1>1, <1>2, <1>11, <2>1, <2>2, <2>7
<1>12. CASE UploadEndPublishFails(s)
  <2> DEFINE p == upload[s].path
  <2>1. /\ p \in Paths /\ UNCHANGED dirs
        /\ store' = IF IsFile(store, u, p) THEN ReleaseContentRef(store, u, {p}) ELSE store
    BY <1>10, <1>12 DEF UploadEndPublishFails, ReleasePrevious
  <2>2. p = upload[s].path
    OBVIOUS
  <2> HIDE DEF p
  <2>3. CASE ~IsFile(store, u, p)
    BY <2>1, <2>3 DEF CacheStep
  <2>4. CASE IsFile(store, u, p)
    <3>1. ReleaseEffect(store, store', u, {p})
      BY <1>1, <2>1, <2>4, ReleaseFields
    <3>2. ChangedAt(f, g, u, p, NoMd5)
      BY <3>1 DEF ReleaseEffect, ChangedAt
    <3> QED BY <1>1, <1>2, <1>12, <2>1, <2>2, <3>2
  <2> QED BY <2>3, <2>4
<1> QED BY <1>3, <1>4, <1>5, <1>6, <1>7, <1>8, <1>9, <1>11, <1>12 DEF Request

-----------------------------------------------------------------------------
(* The steps of UserFiles *)

\* Every request is a step of UserFiles or none.
LEMMA RequestMaps ==
    ASSUME PathSorts, NoOverwrite, PlainNames, ProperRenames, IInv, IInv',
           NEW s \in Sessions, Request(s)
    PROVE  Abstract!Next \/ (Contents' = Contents /\ dirs' = dirs)
<1> DEFINE u == UserOf[s]
           f == store.pathMd5
           g == store'.pathMd5
<1> USE TransferAssumption
<1>1. /\ u \in Users /\ Contents = f /\ Contents' = g
      /\ NoMd5 \in Digest /\ Md5 \subseteq Digest
      /\ f \in [Users -> [Paths -> Digest]] /\ g \in [Users -> [Paths -> Digest]]
      /\ dirs \in [Users -> SUBSET DirPaths]
  BY ContentIsCached DEF IInv, TypeOK, Contents, Digest, StoreType
<1> HIDE DEF Contents
<1>2. \A p, d : Abstract!Below(p, d) = IsUnder(p, d)
  BY DEF Abstract!Below, IsUnder
<1>3. \A p : Abstract!Reachable(u, p) = Resolves(u, p)
  BY DEF Abstract!Reachable, Resolves
<1>4. ASSUME UNCHANGED dirs, g = f PROVE Contents' = Contents /\ dirs' = dirs
  BY <1>1, <1>4
<1>5. ASSUME NEW p \in Paths, NEW m \in Digest, UNCHANGED dirs, ChangedAt(f, g, u, p, m)
      PROVE  Abstract!Next
  <2>1. g = [f EXCEPT ![u][p] = m]
    BY <1>1, <1>5, OneChanged, ZenonT(60)
  <2>2. CASE m = NoMd5
    BY <1>1, <1>5, <2>1, <2>2 DEF Abstract!Next, Abstract!Remove
  <2>3. CASE m \in Md5
    BY <1>1, <1>5, <2>1, <2>3 DEF Abstract!Next, Abstract!Put
  <2> QED BY <2>2, <2>3 DEF Digest
<1>6. ASSUME NEW r \in RenamePairs, UNCHANGED dirs, RenameFile(s, r[1], r[2]),
             CacheMoved(f, g, u, r[1], r[2])
      PROVE  Abstract!Next
  <2> DEFINE from == r[1]
             to == r[2]
             m == f[u][from]
  <2>1. /\ from # to /\ from \in Paths /\ to \in Paths /\ m \in Digest
        /\ Resolves(u, from) /\ Resolves(u, to)
    BY <1>1, <1>6 DEF ProperRenames, RenameFile
  <2>2. \A v \in Users, q \in Paths :
           g[v][q] = IF v = u /\ q = to THEN m
                     ELSE IF v = u /\ q = from THEN NoMd5 ELSE f[v][q]
    BY <1>6 DEF CacheMoved
  <2>3. m = f[u][from]
    OBVIOUS
  <2> HIDE DEF from, to, m
  <2>4. CASE m = NoMd5
    <3>1. ChangedAt(f, g, u, to, NoMd5)
      BY <2>2, <2>3, <2>4 DEF ChangedAt
    <3> QED BY <1>1, <1>5, <1>6, <2>1, <3>1
  <2>5. CASE m # NoMd5
    <3> DEFINE h == [f[u] EXCEPT ![to] = f[u][from], ![from] = NoMd5]
    <3>1. g = [f EXCEPT ![u] = h]
      <4>1. /\ h = [q \in Paths |-> h[q]]
            /\ \A q \in Paths : h[q] = IF q = from THEN NoMd5
                                       ELSE IF q = to THEN m ELSE f[u][q]
        BY <1>1, <2>1, <2>3
      <4> HIDE DEF h
      <4>2. ASSUME NEW v \in Users, NEW q \in Paths
            PROVE  g[v][q] = IF v = u THEN h[q] ELSE f[v][q]
        <5>1. CASE v # u
          BY <2>2, <5>1
        <5>2. CASE v = u /\ q = to
          BY <2>1, <2>2, <4>1, <5>2
        <5>3. CASE v = u /\ q # to
          BY <2>1, <2>2, <4>1, <5>3
        <5> QED BY <5>1, <5>2, <5>3
      <4>3. Changed(f, g, u, h)
        BY <1>1, <4>1, <4>2 DEF Changed
      <4> QED BY <1>1, <4>3, UserChanged
    <3>2. Abstract!Get(u, from) # NoMd5
      BY <1>1, <1>3, <2>1, <2>3, <2>5 DEF Abstract!Get
    <3>3. Abstract!Move(u, from, to)
      BY <1>1, <1>3, <1>6, <2>1, <3>1, <3>2 DEF Abstract!Move
    <3> QED BY <1>1, <2>1, <3>3 DEF Abstract!Next
  <2> QED BY <2>4, <2>5
<1>7. ASSUME NEW p \in DirPaths, Mkdir(s, p), g = f PROVE Abstract!Next
  <2>1. Abstract!MakeDir(u, p)
    BY <1>1, <1>3, <1>7 DEF Abstract!MakeDir, Mkdir
  <2> QED BY <1>1, <2>1 DEF Abstract!Next
<1>8. ASSUME NEW d \in Paths, RmDirectory(s, d), CacheCut(f, g, u, d) PROVE Abstract!Next
  <2> DEFINE h == [q \in Paths |-> IF Abstract!Below(q, d) THEN NoMd5 ELSE f[u][q]]
  <2>1. g = [f EXCEPT ![u] = h]
    <3>1. h = [q \in Paths |-> h[q]]
      OBVIOUS
    <3>2. \A v \in Users, q \in Paths : g[v][q] = IF v = u THEN h[q] ELSE f[v][q]
      BY <1>2, <1>8 DEF CacheCut
    <3> HIDE DEF h
    <3>3. Changed(f, g, u, h)
      BY <1>1, <3>1, <3>2 DEF Changed
    <3> QED BY <1>1, <3>3, UserChanged
  <2>2. d # << >> /\ d \in dirs[u] /\ dirs' = [dirs EXCEPT ![u] = RemovePath(@, d)]
    BY <1>8 DEF RmDirectory, Root
  <2>3. RemovePath(dirs[u], d) = {e \in dirs[u] : e # d /\ ~Abstract!Below(e, d)}
    BY <1>2 DEF RemovePath
  <2>4. Abstract!RemoveTree(u, d)
    BY <1>1, <2>1, <2>2, <2>3 DEF Abstract!RemoveTree
  <2> QED BY <1>1, <2>4 DEF Abstract!Next
<1>9. ASSUME NEW r \in RenamePairs, RenameDirectory(s, r[1], r[2]), g = f PROVE Abstract!Next
  <2> DEFINE from == r[1]
             to == r[2]
             moved == {e \in dirs[u] : e = from \/ IsUnder(e, from)}
  <2>1. /\ from \in Paths /\ to \in Paths /\ from \in dirs[u] /\ to \notin dirs[u]
        /\ Resolves(u, to) /\ ~IsUnder(to, from)
        /\ dirs' = [dirs EXCEPT ![u] = (@ \ moved) \cup {MovedTo(e, from, to) : e \in moved}]
    BY <1>9 DEF RenameDirectory
  <2>2. moved = {e \in dirs[u] : e = from \/ Abstract!Below(e, from)}
    BY <1>2
  <2>3. {MovedTo(e, from, to) : e \in moved} =
           {to \o SubSeq(e, Len(from) + 1, Len(e)) : e \in moved}
    BY DEF MovedTo
  <2> HIDE DEF from, to, moved
  <2>4. Abstract!MoveDir(u, from, to)
    BY <1>1, <1>2, <1>3, <1>9, <2>1, <2>2, <2>3 DEF Abstract!MoveDir
  <2> QED BY <1>1, <2>1, <2>4 DEF Abstract!Next
<1>10. CacheStep(s)
  BY RequestCacheStep
<1> QED BY <1>4, <1>5, <1>6, <1>7, <1>8, <1>9, <1>10 DEF CacheStep

\* The invariant holds at first.
LEMMA InitIInv == Init => IInv
<1>1. Init => ReferencedStored(store)
  BY DEF Init, EmptyStore, Store, ReferencedStored, Digest
<1>2. Init => CacheIndexed(store)
  BY DEF Init, EmptyStore, Store, CacheIndexed
<1> QED BY <1>1, <1>2, InitType, InitCovered DEF IInv

\* Every user has a map from paths to contents and a tree of directories of his
\* own: every request is one operation of its own user on them, or changes
\* nothing; counting, caching and collecting objects cannot be seen, and what a
\* download delivers is what is in the map if the directories above are there.
THEOREM ImplementsUserFiles ==
    ASSUME PathSorts, NoOverwrite, PlainNames, ProperRenames
    PROVE  Spec => RefinesUserFiles
<1>1. IInv /\ [Next]_vars => IInv'
  BY StepIInv
<1>2. Init => Abstract!Init
  <2> SUFFICES ASSUME Init PROVE Abstract!Init
    OBVIOUS
  <2>1. Contents = store.pathMd5
    BY InitIInv, ContentIsCached DEF IInv, TypeOK, Contents
  <2>2. store.pathMd5 = [u \in Users |-> [p \in Paths |-> NoMd5]]
    BY DEF Init, EmptyStore, Store
  <2>3. dirs = [u \in Users |-> {<< >>}]
    BY DEF Init, Root
  <2> QED BY <2>1, <2>2, <2>3 DEF Abstract!Init
<1>3. IInv /\ IInv' /\ [Next]_vars => [Abstract!Next]_(Abstract!tree)
  <2> SUFFICES ASSUME IInv, IInv', [Next]_vars
               PROVE  Abstract!Next \/ (Contents' = Contents /\ dirs' = dirs)
    BY DEF Abstract!tree
  <2>1. CASE UNCHANGED <<store, dirs>>
    BY <2>1 DEF Contents
  <2>2. ASSUME NEW s \in Sessions, Request(s)
        PROVE  Abstract!Next \/ (Contents' = Contents /\ dirs' = dirs)
    BY <2>2, RequestMaps
  <2> QED BY <2>1, <2>2 DEF vars, Next, ChallengeExpires
<1>4. \A u \in Users, p \in Paths : Download(u, p) = Abstract!Get(u, p)
  BY DEF Download, Abstract!Get, Abstract!Reachable, Resolves, Contents
<1> QED BY InitIInv, <1>1, <1>2, <1>3, <1>4, PTL DEF Spec, RefinesUserFiles, Abstract!Spec

-----------------------------------------------------------------------------
(* What downloads deliver *)

\* A file stays within reach unless a directory above it goes.
LEMMA ReachKept ==
    ASSUME TypeOK, NEW s \in Sessions, NEW v \in Users, NEW q \in Paths, Resolves(v, q),
           \/ UNCHANGED dirs
           \/ \E p \in DirPaths : Mkdir(s, p)
           \/ \E d \in Paths : RmDirectory(s, d) /\ (v = UserOf[s] => ~IsUnder(q, d))
           \/ \E r \in RenamePairs : /\ RenameDirectory(s, r[1], r[2])
                                     /\ v = UserOf[s] => ~IsUnder(q, r[1])
    PROVE  Resolves(v, q)'
<1> DEFINE u == UserOf[s]
<1>1. /\ u \in Users /\ dirs \in [Users -> SUBSET DirPaths]
      /\ q \in Seq(STRING) /\ \A d \in Paths : d \in Seq(STRING)
      /\ \A r \in RenamePairs : r[1] \in Paths
  BY TransferAssumption DEF TypeOK
<1> SUFFICES ASSUME NEW n \in 0 .. Len(q) - 1 PROVE SubSeq(q, 1, n) \in dirs'[v]
  BY DEF Resolves
<1> DEFINE x == SubSeq(q, 1, n)
<1>2. x \in dirs[v]
  BY DEF Resolves
<1>3. \A d \in Paths : ~IsUnder(q, d) => x # d /\ ~IsUnder(x, d)
  BY <1>1, BelowByPrefix
<1> HIDE DEF x
<1>4. CASE UNCHANGED dirs
  BY <1>2, <1>4 DEF x
<1>5. ASSUME NEW p \in DirPaths, Mkdir(s, p) PROVE x \in dirs'[v]
  BY <1>1, <1>2, <1>5 DEF Mkdir
<1>6. ASSUME NEW d \in Paths, RmDirectory(s, d), v = u => ~IsUnder(q, d) PROVE x \in dirs'[v]
  <2>1. dirs' = [dirs EXCEPT ![u] = RemovePath(@, d)]
    BY <1>6 DEF RmDirectory
  <2> QED BY <1>1, <1>2, <1>3, <1>6, <2>1 DEF RemovePath
<1>7. ASSUME NEW r \in RenamePairs, RenameDirectory(s, r[1], r[2]), v = u => ~IsUnder(q, r[1])
      PROVE  x \in dirs'[v]
  <2> DEFINE moved == {e \in dirs[u] : e = r[1] \/ IsUnder(e, r[1])}
  <2>1. dirs' = [dirs EXCEPT ![u] = (@ \ moved) \cup {MovedTo(e, r[1], r[2]) : e \in moved}]
    BY <1>7 DEF RenameDirectory
  <2>2. v = u => x \notin moved
    BY <1>1, <1>3, <1>7
  <2> HIDE DEF moved
  <2> QED BY <1>1, <1>2, <2>1, <2>2
<1> QED BY <1>4, <1>5, <1>6, <1>7 DEF x

\* What download_begin delivers, in terms of the cache.
LEMMA DownloadIsCached ==
    ASSUME NEW v \in Users, NEW q \in Paths
    PROVE  /\ IInv => Download(v, q) = IF Resolves(v, q) THEN store.pathMd5[v][q] ELSE NoMd5
           /\ IInv' => Download(v, q)' = IF Resolves(v, q)' THEN store'.pathMd5[v][q] ELSE NoMd5
<1>1. ASSUME NEW st \in StoreType, Covered(st), ReferencedStored(st)
      PROVE  Content(st, v, q) = st.pathMd5[v][q]
  <2>1. [w \in Users |-> [p \in Paths |-> Content(st, w, p)]][v][q] = Content(st, v, q)
    OBVIOUS
  <2> QED BY <1>1, <2>1, ContentIsCached
<1>2. IInv => Content(store, v, q) = store.pathMd5[v][q]
  BY <1>1 DEF IInv, TypeOK
<1>3. IInv' => Content(store', v, q) = store'.pathMd5[v][q]
  BY <1>1 DEF IInv, TypeOK
<1>4. Download(v, q)' = IF Resolves(v, q)' THEN Content(store', v, q) ELSE NoMd5
  BY DEF Download
<1> QED BY <1>2, <1>3, <1>4 DEF Download

\* A file is delivered unchanged until its own user removes, renames or replaces
\* it, removes or renames a directory above it, or fails to replace it.
THEOREM LossesHaveCauses ==
    ASSUME PathSorts, NoOverwrite, PlainNames, ProperRenames
    PROVE  Spec => OnlyTheseLose
<1>1. IInv /\ [Next]_vars => IInv'
  BY StepIInv
<1>2. IInv /\ IInv' /\ [Next]_vars => [ChangeHasCause]_vars
  <2> SUFFICES ASSUME IInv, IInv', Next, NEW v \in Users, NEW q \in Paths,
                      Download(v, q) # NoMd5, Download(v, q)' # Download(v, q)
               PROVE  \E s \in Sessions :
                /\ UserOf[s] = v
                /\ \/ RmFile(s, q)
                   \/ \E d \in Paths : IsUnder(q, d) /\ RmDirectory(s, d)
                   \/ \E r \in RenamePairs : q \in {r[1], r[2]} /\ RenameFile(s, r[1], r[2])
                   \/ \E r \in RenamePairs : IsUnder(q, r[1]) /\ RenameDirectory(s, r[1], r[2])
                   \/ upload[s].path = q /\ (UploadEnd(s) \/ UploadEndPublishFails(s))
    BY DEF ChangeHasCause
  <2> DEFINE f == store.pathMd5
             g == store'.pathMd5
  <2>1. /\ Resolves(v, q) /\ f[v][q] # NoMd5
        /\ ~Resolves(v, q)' \/ g[v][q] # f[v][q]
    BY DownloadIsCached
  <2>2. ~ChallengeExpires
    <3>1. UNCHANGED <<store, dirs>> => Download(v, q)' = Download(v, q)
      BY DEF Download, Resolves, Content, HeldMd5, IsFile
    <3> QED BY <3>1 DEF ChallengeExpires
  <2>3. PICK s \in Sessions : Request(s)
    BY <2>2 DEF Next
  <2> DEFINE u == UserOf[s]
  <2>4. CacheStep(s) /\ TypeOK
    BY <2>3, RequestCacheStep DEF IInv
  <2>5. CASE UNCHANGED dirs /\ g = f
    BY <2>1, <2>4, <2>5, ReachKept
  <2>6. ASSUME NEW p \in Paths, NEW m \in Digest, UNCHANGED dirs, ChangedAt(f, g, u, p, m),
               \/ f[u][p] = NoMd5
               \/ RmFile(s, p)
               \/ upload[s].path = p /\ (UploadEnd(s) \/ UploadEndPublishFails(s))
        PROVE  /\ u = v
               /\ RmFile(s, q) \/ (upload[s].path = q /\ (UploadEnd(s) \/ UploadEndPublishFails(s)))
    <3>1. g[v][q] # f[v][q]
      BY <2>1, <2>4, <2>6, ReachKept
    <3>2. v = u /\ q = p
      BY <2>6, <3>1 DEF ChangedAt
    <3> QED BY <2>1, <2>6, <3>2
  <2>7. ASSUME NEW r \in RenamePairs, UNCHANGED dirs, RenameFile(s, r[1], r[2]),
               CacheMoved(f, g, u, r[1], r[2])
        PROVE  u = v /\ q \in {r[1], r[2]}
    <3>1. g[v][q] # f[v][q]
      BY <2>1, <2>4, <2>7, ReachKept
    <3> QED BY <2>7, <3>1 DEF CacheMoved
  <2>8. ASSUME NEW p \in DirPaths, Mkdir(s, p), g = f PROVE FALSE
    BY <2>1, <2>4, <2>8, ReachKept
  <2>9. ASSUME NEW d \in Paths, RmDirectory(s, d), CacheCut(f, g, u, d)
        PROVE  u = v /\ IsUnder(q, d)
    <3> SUFFICES ASSUME ~(u = v /\ IsUnder(q, d)) PROVE FALSE
      OBVIOUS
    <3>1. g[v][q] = f[v][q]
      BY <2>9 DEF CacheCut
    <3>2. Resolves(v, q)'
      BY <2>1, <2>4, <2>9, ReachKept
    <3> QED BY <2>1, <3>1, <3>2
  <2>10. ASSUME NEW r \in RenamePairs, RenameDirectory(s, r[1], r[2]), g = f
         PROVE  u = v /\ IsUnder(q, r[1])
    <3> SUFFICES ASSUME ~(u = v /\ IsUnder(q, r[1])) PROVE FALSE
      OBVIOUS
    <3>1. Resolves(v, q)'
      BY <2>1, <2>4, <2>10, ReachKept
    <3> QED BY <2>1, <2>10, <3>1
  <2> QED BY <2>4, <2>5, <2>6, <2>7, <2>8, <2>9, <2>10 DEF CacheStep
<1> QED BY InitIInv, <1>1, <1>2, PTL DEF Spec, OnlyTheseLose
=============================================================================
