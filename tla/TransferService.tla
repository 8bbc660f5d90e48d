-------------------------- MODULE TransferService --------------------------
(***************************************************************************)
(* The metadata side of the storage server: the object store of module     *)
(* ObjectStore and the physical directories under users/, as the request   *)
(* handlers of connection.cpp change them through transfer.cpp.            *)
(*                                                                         *)
(* The server runs one handler at a time (server.cpp, a single epoll       *)
(* loop), so one handler is one action.  What interleaves is the requests  *)
(* of different connections: between upload_begin and upload_end, or       *)
(* between instant_query and instant_upload, any other connection may run  *)
(* any of its handlers.  A request that is refused without any effect is a *)
(* stuttering step and has no action.                                      *)
(***************************************************************************)
EXTENDS ObjectStore

CONSTANTS
    Sessions,     \* logged-in connections, each with a token of its own
    UserOf,       \* the user a session is logged in as
    FilePaths,    \* the paths clients upload to
    DirPaths,     \* the paths clients create directories at
    RenamePairs,  \* the <<from, to>> clients rename
    Overwrites    \* the values of the overwrite flag clients send

ASSUME TransferAssumption ==
    /\ UserOf \in [Sessions -> Users]
    /\ Paths \subseteq Seq(STRING)
    /\ Root \in DirPaths
    /\ FilePaths \subseteq Paths
    /\ DirPaths \subseteq Paths
    /\ RenamePairs \subseteq Paths \X Paths
    /\ Overwrites \subseteq BOOLEAN
    /\ LikeMatch \subseteq Paths \X Paths
    /\ NoMd5 \notin Md5

VARIABLES
    store,      \* objects, Redis keys and file_index: see StoreType
    dirs,       \* dirs[u]: the directories that exist under users/<u>
    upload,     \* upload[s]: Connection::upload_ while its descriptor is open
    challenge   \* <<s, m>>: Redis holds an instant-upload challenge

vars == <<store, dirs, upload, challenge>>

-----------------------------------------------------------------------------
(* State *)

UploadSession == [path : FilePaths, md5 : Md5]
NoUpload == [path |-> Root, md5 |-> NoMd5]

-----------------------------------------------------------------------------
(* The request handlers *)

\* PathGuard::resolve with mustExist = false: every proper prefix is there.
\* Nothing but directories is ever created under users/<u>.
Resolves(u, p) == \A n \in 0 .. Len(p) - 1 : SubSeq(p, 1, n) \in dirs[u]

Mkdir(s, p) ==
    LET u == UserOf[s] IN
    /\ Resolves(u, p)
    /\ p \notin dirs[u]
    /\ dirs' = [dirs EXCEPT ![u] = @ \cup {p}]
    /\ store' = IndexFile(store, u, p, DirRow)
    /\ UNCHANGED <<upload, challenge>>

\* rm of an indexed file; the row decides, whatever is on the disk.
RmFile(s, p) ==
    LET u == UserOf[s] IN
    /\ p # Root
    /\ Resolves(u, p)
    /\ IsFile(store, u, p)
    /\ store' = ReleaseContentRef(store, u, {p})
    /\ UNCHANGED <<dirs, upload, challenge>>

\* The directories left when d has gone with all that is below it.
RemovePath(D, d) == {e \in D : e # d /\ ~IsUnder(e, d)}

\* The rows below the directory are not released.
Mutant_RowsStay(s, d) ==
    LET u == UserOf[s] IN
    /\ d # Root
    /\ Resolves(u, d)
    /\ d \in dirs[u]
    /\ ~IsFile(store, u, d)
    /\ store' = Unindex(store, u, {d})
    /\ dirs' = [dirs EXCEPT ![u] = RemovePath(@, d)]
    /\ UNCHANGED <<upload, challenge>>

Mutant_RmRoot(s, d) ==
    LET u == UserOf[s] IN
    /\ Resolves(u, d)
    /\ d \in dirs[u]
    /\ ~IsFile(store, u, d)
    /\ store' = Unindex(ReleaseContentRef(store, u, IndexedUnderPrefix(store, u, d)), u, {d})
    /\ dirs' = [dirs EXCEPT ![u] = RemovePath(@, d)]
    /\ UNCHANGED <<upload, challenge>>

\* rm of a directory.  The rows of its subdirectories stay in file_index.
RmDirectory(s, d) ==
    LET u == UserOf[s] IN
    /\ d # Root
    /\ Resolves(u, d)
    /\ d \in dirs[u]
    /\ ~IsFile(store, u, d)
    /\ store' = Unindex(ReleaseContentRef(store, u, IndexedUnderPrefix(store, u, d)), u, {d})
    /\ dirs' = [dirs EXCEPT ![u] = RemovePath(@, d)]
    /\ UNCHANGED <<upload, challenge>>

\* rm of a path that is neither: only a stale row or cached md5 can go.
RmStale(s, p) ==
    LET u == UserOf[s] IN
    /\ p # Root
    /\ Resolves(u, p)
    /\ p \notin dirs[u]
    /\ ~IsFile(store, u, p)
    /\ store' = ReleaseContentRef(store, u, {p})
    /\ UNCHANGED <<dirs, upload, challenge>>

\* rename/mv of an indexed file.  The target is not looked at.
RenameFile(s, from, to) ==
    LET u == UserOf[s] IN
    /\ Resolves(u, from)
    /\ Resolves(u, to)
    /\ IsFile(store, u, from)
    /\ store' = RenameIndexedFile(store, u, from, to)
    /\ UNCHANGED <<dirs, upload, challenge>>

\* Where the directory e, at or below from, is after rename(from, to).
MovedTo(e, from, to) == to \o SubSeq(e, Len(from) + 1, Len(e))

\* rename/mv of a physical directory; rename(2) refuses to move a directory
\* into itself.  Bound: every moved directory lands on a path of DirPaths.
RenameDirectory(s, from, to) ==
    LET u     == UserOf[s]
        moved == {e \in dirs[u] : e = from \/ IsUnder(e, from)}
    IN
    /\ Resolves(u, from)
    /\ Resolves(u, to)
    /\ ~IsFile(store, u, from)
    /\ from \in dirs[u]
    /\ to \notin dirs[u]
    /\ ~IsUnder(to, from)
    /\ \A e \in moved : MovedTo(e, from, to) \in DirPaths
    /\ dirs' = [dirs EXCEPT ![u] = (@ \ moved) \cup {MovedTo(e, from, to) : e \in moved}]
    /\ store' = ReindexDirectory(store, u, from, to)
    /\ UNCHANGED <<upload, challenge>>

\* instant_query that hits: the challenge is stored.  A miss has no effect.
InstantQuery(s, m) ==
    /\ m \in store.objects
    /\ challenge' = challenge \cup {<<s, m>>}
    /\ UNCHANGED <<store, dirs, upload>>

\* The 120 s lifetime of a challenge ends.
ChallengeExpires ==
    /\ \E c \in challenge : challenge' = challenge \ {c}
    /\ UNCHANGED <<store, dirs, upload>>

DestinationExists(u, p) == IsFile(store, u, p) \/ p \in dirs[u]

\* instant_upload whose possession proof is right.
InstantUpload(s, p, m, overwrite) ==
    LET u == UserOf[s]
        released == IF IsFile(store, u, p) THEN ReleaseContentRef(store, u, {p}) ELSE store
    IN
    /\ Resolves(u, p)
    /\ <<s, m>> \in challenge
    /\ m \in store.objects
    /\ overwrite \/ ~DestinationExists(u, p)
    /\ challenge' = challenge \ {<<s, m>>}
    /\ store' = AddContentRef(released, u, p, m)
    /\ UNCHANGED <<dirs, upload>>

\* The same, answered Conflict: the challenge is spent all the same.
InstantUploadConflict(s, p, m) ==
    /\ Resolves(UserOf[s], p)
    /\ <<s, m>> \in challenge
    /\ m \in store.objects
    /\ DestinationExists(UserOf[s], p)
    /\ challenge' = challenge \ {<<s, m>>}
    /\ UNCHANGED <<store, dirs, upload>>

\* upload_begin: an upload this connection had open is closed first.
UploadBegin(s, p, m) ==
    /\ Resolves(UserOf[s], p)
    /\ upload' = [upload EXCEPT ![s] = [path |-> p, md5 |-> m]]
    /\ UNCHANGED <<store, dirs, challenge>>

\* The descriptor is closed and nothing else happens: a refused upload_begin,
\* an upload_end that finds the part file incomplete or corrupt, a disconnect.
CloseUpload(s) ==
    /\ upload[s] # NoUpload
    /\ upload' = [upload EXCEPT ![s] = NoUpload]
    /\ UNCHANGED <<store, dirs, challenge>>

\* finishUpload before publishObject: the previous version is released.
ReleasePrevious(u, p) ==
    IF IsFile(store, u, p) THEN ReleaseContentRef(store, u, {p}) ELSE store

\* upload_end of a complete part file.  The path is not resolved again.
UploadEnd(s) ==
    LET u == UserOf[s]
        p == upload[s].path
        m == upload[s].md5
    IN
    /\ upload[s] # NoUpload
    /\ store' = AddContentRef(PublishObject(ReleasePrevious(u, p), m), u, p, m)
    /\ upload' = [upload EXCEPT ![s] = NoUpload]
    /\ UNCHANGED <<dirs, challenge>>

\* upload_end when the copy to objects/ fails (no space, I/O error): the
\* previous version has been released, the new one is not there.
UploadEndPublishFails(s) ==
    /\ upload[s] # NoUpload
    /\ upload[s].md5 \notin ReleasePrevious(UserOf[s], upload[s].path).objects
    /\ store' = ReleasePrevious(UserOf[s], upload[s].path)
    /\ upload' = [upload EXCEPT ![s] = NoUpload]
    /\ UNCHANGED <<dirs, challenge>>

\* p is directly in the directory d.
IsChild(p, d) == IsUnder(p, d) /\ Len(p) = Len(d) + 1

\* The rows are not filtered.
Mutant_AllRows(u, d) == {p \in Paths : IsFile(store, u, p) /\ <<d, p>> \in LikeMatch}

\* listIndexed: of the rows that LIKE selects, those whose path has no further
\* slash after the prefix.  A row LIKE selects outside the directory keeps its
\* leading slash, so that it is dropped as well.
ListIndexed(u, d) ==
    {p \in Paths : /\ IsFile(store, u, p)
                   /\ p = d \/ <<d, p>> \in LikeMatch
                   /\ IsChild(p, d)}

\* The last name of a path.
Name(p) == p[Len(p)]

\* FileManager::listDir: the path of an entry begins at the listed directory.
ListDir(u, d, recursive) ==
    {[name |-> Name(e), path |-> SubSeq(e, Len(d) + 1, Len(e)), type |-> "dir"] :
        e \in {e \in dirs[u] : d \in dirs[u] /\ IsUnder(e, d) /\ (recursive \/ IsChild(e, d))}}

\* ls: an indexed file, which has its full path, is left out when a listed
\* directory has its name.
Ls(u, d, recursive) ==
    LET entries == ListDir(u, d, recursive)
        seen    == {x.name : x \in entries}
    IN  entries \cup {[name |-> Name(p), path |-> p, type |-> "file"] :
                         p \in {p \in ListIndexed(u, d) : Name(p) \notin seen}}

\* download_begin: the content that is delivered, NoMd5 for "file not found".
Download(u, p) == IF Resolves(u, p) THEN Content(store, u, p) ELSE NoMd5

-----------------------------------------------------------------------------
(* Specification *)

Init ==
    /\ store = EmptyStore
    /\ dirs = [u \in Users |-> {Root}]
    /\ upload = [s \in Sessions |-> NoUpload]
    /\ challenge = {}

Request(s) ==
    \/ \E p \in DirPaths : Mkdir(s, p)
    \/ \E p \in Paths : RmFile(s, p) \/ RmDirectory(s, p) \/ RmStale(s, p)
    \/ \E r \in RenamePairs : RenameFile(s, r[1], r[2]) \/ RenameDirectory(s, r[1], r[2])
    \/ \E m \in Md5 : InstantQuery(s, m)
    \/ \E p \in FilePaths, m \in Md5 :
          \/ \E ow \in Overwrites : InstantUpload(s, p, m, ow)
          \/ FALSE \in Overwrites /\ InstantUploadConflict(s, p, m)
          \/ UploadBegin(s, p, m)
    \/ CloseUpload(s)
    \/ UploadEnd(s)
    \/ UploadEndPublishFails(s)

Next == ChallengeExpires \/ \E s \in Sessions : Request(s)

Spec == Init /\ [][Next]_vars

-----------------------------------------------------------------------------
(* Disciplines: what the clients of a run must observe for a guarantee *)

\* No path is used both for a file and for a directory.  The server does not
\* enforce it: a file exists only in file_index, so mkdir of its path succeeds.
PathSorts ==
    /\ FilePaths \cap DirPaths = {}
    /\ RenamePairs \subseteq (FilePaths \X FilePaths) \cup (DirPaths \X DirPaths)

\* instant_upload is never asked to overwrite.
NoOverwrite == Overwrites \subseteq {FALSE}

\* No name holds a character that LIKE gives a meaning to, and none differs
\* from another by case only.
PlainNames == LikeMatch = {dp \in Paths \X Paths : IsUnder(dp[2], dp[1])}

\* No file is renamed to its own name: that leaves its cached md5 without a row.
ProperRenames == \A r \in RenamePairs : r[1] # r[2]

-----------------------------------------------------------------------------
(* Properties *)

\* Every variable has the shape the code gives it, and every user keeps a
\* root directory: onRm refuses to remove it.
TypeOK ==
    /\ store \in StoreType
    /\ dirs \in [Users -> SUBSET DirPaths]
    /\ \A u \in Users : Root \in dirs[u]
    /\ upload \in [Sessions -> UploadSession \cup {NoUpload}]
    /\ challenge \subseteq Sessions \X Md5

\* Objects and cs:obj keys go together, and each has a reference.
NoOrphans(st) ==
    /\ st.objMeta = st.objects
    /\ \A m \in st.objects : st.refs[m] # {}

\* Every object in the store, and every cs:obj key, belongs to content that
\* some reference names: releaseContentRef deletes an object with its last
\* reference, so no object stays behind that nothing could ever collect.
NoOrphanObjects == NoOrphans(store)

\* MySQL and the Redis cache agree: a file row with an md5 has that md5 cached
\* under cs:path (which is what download, rm and rename of a directory read).
RowsCached(st) ==
    \A u \in Users, p \in Paths :
        IsFile(st, u, p) /\ st.index[u][p].md5 # NoMd5
            => st.pathMd5[u][p] = st.index[u][p].md5

\* A cached md5 is counted: the set whose SCARD decides garbage collection
\* holds the user and the path.
CacheReferenced(st) ==
    \A u \in Users, p \in Paths :
        st.pathMd5[u][p] # NoMd5 => <<u, p>> \in st.refs[st.pathMd5[u][p]]

\* Under PathSorts no md5 is cached for a path that is not a file path.
BareDirs(st) ==
    \A u \in Users, p \in Paths \ FilePaths : st.pathMd5[u][p] = NoMd5

\* What has a reference is in the store.
ReferencedStored(st) ==
    \A m \in Md5 : st.refs[m] # {} => m \in st.objects

\* Redis counts every file of file_index: while a file is indexed or cached,
\* the reference set of its content is not empty, so no release by anyone
\* else can take the count to zero.  Holds under PathSorts.
RefsCoverIndex == RowsCached(store) /\ CacheReferenced(store)

\* What stat reports as ready is stored: the object of every indexed or cached
\* file is in the store, after every order of uploads, instant uploads, removals
\* and renames of all sessions.  (Whether the path still resolves is another
\* matter: OnlyMovesStrand.)  Holds under PathSorts and NoOverwrite.
IndexedFilesReadable ==
    \A u \in Users, p \in Paths :
        HeldMd5(store, u, p) # NoMd5 => HeldMd5(store, u, p) \in store.objects

\* A user whose downloads no longer deliver what they did has made a request.
LossIsOwnRequest ==
    \A v \in Users :
        (\E p \in Paths : /\ Content(store, v, p) # NoMd5
                          /\ Content(store', v, p) # Content(store, v, p))
            => \E s \in Sessions : UserOf[s] = v /\ Request(s)

\* A file that can be downloaded is lost or replaced only by a request of its
\* own user: a release by somebody else who shares the object leaves it in the
\* store ("references of other users are not affected").  Under PathSorts.
OthersUntouched == [][LossIsOwnRequest]_vars

\* No reference outlives its file: <<u, p>> is in cs:refs:<m> only while
\* file_index has p as a file with content m, so SCARD is the number of files.
ExactRefs(st) ==
    \A m \in Md5 : \A r \in st.refs[m] : st.index[r[1]][r[2]] = FileRow(m)

\* A rename whose target is a file already, the renamed one included.
RenameOntoFile ==
    \E s \in Sessions, r \in RenamePairs :
        IsFile(store, UserOf[s], r[2]) /\ RenameFile(s, r[1], r[2])

\* A step that leaves a reference without its file is such a rename.
LeakIsRename == ExactRefs(store) /\ ~ExactRefs(store') => RenameOntoFile

\* Counting goes wrong in one way only: apart from a rename onto an existing
\* file, no request leaves a reference behind.  Holds under PathSorts.
RefsStayExact == [][LeakIsRename]_vars

\* Every file can be reached by download and rm, which resolve its directory.
FilesResolvable ==
    \A u \in Users, p \in Paths : IsFile(store, u, p) => Resolves(u, p)

\* A step that puts a file out of reach is an upload_end, whose directory has
\* gone since upload_begin, or the rename of a directory.
StrandingIsMove ==
    FilesResolvable /\ ~FilesResolvable' =>
        \E s \in Sessions :
            \/ UploadEnd(s) /\ ~Resolves(UserOf[s], upload[s].path)
            \/ \E r \in RenamePairs : RenameDirectory(s, r[1], r[2])

\* rm of a directory never leaves a row behind that no request can reach, in
\* whatever state the rows of its subdirectories are: files become unreachable
\* only through an upload that was under way, or with a renamed directory.
\* Holds under PlainNames.
OnlyMovesStrand == [][StrandingIsMove]_vars

\* What is directly in the directory d.
Children(u, d) == {p \in Paths : IsChild(p, d) /\ (p \in dirs[u] \/ IsFile(store, u, p))}

\* ls of a directory shows its subdirectories and its indexed files and nothing
\* else, whatever more the LIKE pattern selects.  The path shown for a file is
\* its own; the path shown for a subdirectory begins at the listed directory, so
\* that it is its own only in a listing of the root.  A recursive ls shows the
\* same files but those, exactly, whose name some directory below has.  Holds if
\* the pattern selects at least what is below the directory.
LsShowsChildren ==
    \A u \in Users, d \in DirPaths :
        d \in dirs[u] =>
            /\ Ls(u, d, FALSE) =
                  {IF p \in dirs[u] THEN [name |-> Name(p), path |-> <<Name(p)>>, type |-> "dir"]
                   ELSE [name |-> Name(p), path |-> p, type |-> "file"] : p \in Children(u, d)}
            /\ \A p \in Paths : IsChild(p, d) /\ IsFile(store, u, p) =>
                  ([name |-> Name(p), path |-> p, type |-> "file"] \in Ls(u, d, TRUE)
                      <=> ~\E e \in dirs[u] : IsUnder(e, d) /\ Name(e) = Name(p))

\* A step that changes what a download delivers is one of these requests.
ChangeHasCause ==
    \A u \in Users, p \in Paths :
        Download(u, p) # NoMd5 /\ Download(u, p)' # Download(u, p) =>
            \E s \in Sessions :
                /\ UserOf[s] = u
                /\ \/ RmFile(s, p)
                   \/ \E d \in Paths : IsUnder(p, d) /\ RmDirectory(s, d)
                   \/ \E r \in RenamePairs : p \in {r[1], r[2]} /\ RenameFile(s, r[1], r[2])
                   \/ \E r \in RenamePairs : IsUnder(p, r[1]) /\ RenameDirectory(s, r[1], r[2])
                   \/ upload[s].path = p /\ (UploadEnd(s) \/ UploadEndPublishFails(s))

\* A file that can be downloaded goes on being delivered until its own user
\* removes it or a directory above it, renames it, something onto it or a
\* directory above it, or ends an upload to its path: the last even if the new
\* version cannot be stored, and the directory's rename although it takes no
\* file along.  Holds under PathSorts, NoOverwrite, PlainNames, ProperRenames.
OnlyTheseLose == [][ChangeHasCause]_vars
=============================================================================
