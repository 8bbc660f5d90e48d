# A TLA+ model of CloudStore

CloudStore is a file storage server: a single-threaded libevent server keeps
the contents of all users once, by MD5, under `objects/`, and counts who refers
to them. This directory models its core logic in TLA+, checks it with TLC on
small instances and proves its central invariants with TLAPS for all instances.

Contents: 1 the system, 2 the modules, 3 the runs and what they show, 4 the
proofs, 5 what is assumed and what is not modelled, 6 the plan.

## 1. The system

| Component | State | Operations |
| --- | --- | --- |
| `TransferService` (`transfer.cpp`) with the handlers of `connection.cpp` | files under `objects/`; Redis `cs:obj:<md5>`, `cs:refs:<md5>` (set of user and path), `cs:path` (md5 of a path), challenges; MySQL `file_index`; directories under `users/<name>`; `upload_` of each connection | mkdir, rm, rename, instant_query, instant_upload, upload_begin, upload_end; ls, stat and download read |
| `FileManager` (`file_manager.cpp`) | directories under `users/` | makeDir, removePath, renamePath, listDir |
| Chunked transfers (`transfer.cpp`, `client.cpp`) | part files `tmp/<user>/<md5>_<name>.part`, descriptors, the object being copied | upload_begin (resume offset), chunk frames, upload_end; lost connections, crashes; download_chunk and the client's loop |
| Frames (`protocol.cpp`, `Connection::onRead`) | socket, input buffer with a high watermark | cutting the stream into frames |
| `CloudClient` (`client.cpp`) | one connection, `seq_`, the reply stream | request/reply; `put` (chunks without replies), `get` |
| `MysqlPool` | idle handles, handles lent | acquire with ping and reconnection, release by destructor |
| `AuthService` | Redis sessions with a sliding lifetime, `users` | register, login, logout, token resumption |
| `RedisStore` | one connection, reconnected on demand | SET, SADD, SREM, SCARD...; a failed command looks like an empty answer |
| `MysqlStmt` | bound values in growing vectors, pointers to them in the client library | bind, execute, fetch |
| `PathGuard` | the file system, links included | normalise a logical path, resolve it under the user's root |
| `Server` | the set of connections | start-up with retries, default accounts, accept with a limit, idle timeouts |
| `cloud_gui` (`gui_main.cpp`) | one `CloudClient` and its progress behind `GuiState::mu` | HTTP handlers on worker threads |

Interaction. The server has one thread: a handler runs from its frame to its
reply without interruption, so handlers never interleave inside. What
interleaves is what spans several requests of a connection (upload_begin ...
upload_end, instant_query ... instant_upload) with the requests of the other
connections, and the commands of a handler with the kernel, Redis' expiry,
outages of MySQL and Redis, and crashes. A handler that blocks blocks the whole server. `cloud_gui` is the only
multi-threaded program. A file is never stored under `users/`: directories are
on the disk, files in `file_index` and Redis only, and the two name spaces know
little of each other.

What is hard: reference counting across users with several stores to keep in
step and no transaction around them; operations that release before they
acquire; two name spaces; resuming into a part file other attempts use; nested
acquisition in the thread that releases; a reply stream without a check of what
a reply answers; a Redis client that notices an outage one command late; pointers
into vectors that grow. Each such
place is a hazard of `PROJECT.json`, at its line, with the properties that
cover it or the reason why none does yet.

## 2. Modules

| Module | Models | Built on |
| --- | --- | --- |
| `ObjectStore` | object files, references, index and cache, and the effect of each function of `transfer.cpp` on them | - |
| `TransferService` | directories, uploads, challenges and all handlers that change the store, atomically | `ObjectStore` |
| `UserFiles` | abstract: for each user a private tree of directories and a private map from paths to contents | - |
| `TransferRefinement` | the mapping from the first to the second | `TransferService`, instance of `UserFiles` |
| `TransferProofs` | theorems | `TransferRefinement` |
| `TransferSteps` | the same handlers command by command, with crashes and failed commands | `ObjectStore` |
| `StepsProofs` | theorems | `TransferSteps` |
| `ChunkedUpload` | one file on its way into the store | - |
| `FrameStream` | `onRead`, `parseHeader`, the watermark | - |
| `ClientStream` | client and server on one connection | - |
| `MysqlPool` | the pool under the event loop | - |
| `MysqlStmt` | prepared statements and their buffers | - |
| `GuiProxy` | handlers, mutex and progress callback of `cloud_gui` | - |
| `ServerLife` | the process: start-up, accounts, connections, sessions, outages and crashes | - |
| `UploadProofs` | theorems | `ChunkedUpload`, `ChunkArithmetic` |
| `FrameProofs`, `ClientProofs`, `PoolProofs`, `GuiProofs`, `ServerProofs` | theorems | the module they are named after |
| `PathGuard` | `normalizeLogical`, `resolve` | - |
| `ChunkArithmetic` | offsets and lengths in unsigned integers that wrap around | - |
| `MCTransfer`, `MCSteps`, `MCServer` | path sets and other constants for TLC | the module they are named after |
| `MCInputs` | the two modules of operators on every small input, and `CloudClient::get` | `PathGuard`, `ChunkArithmetic` |

### ObjectStore and TransferService

`store` is a record of `objects` (complete files under `objects/`), `objMeta`
(`cs:obj`), `refs` (`cs:refs`), `index` (`file_index`) and `pathMd5`
(`cs:path`). One operator per function of `transfer.cpp` maps a store to a
store; one action per outcome of a handler applies them. Handlers with several
outcomes are several actions (`RmFile`, `RmDirectory`, `RmStale`; `RenameFile`,
`RenameDirectory`). A request refused without effect is a stuttering step.
`ReleaseContentRef` takes a set of paths, because `rm` of a directory releases
one after the other and no release changes what another one finds.

`LikeMatch` is the relation SQL computes for `virtual_path LIKE 'd/%'`: for plain
names it is "below d", for a directory called `_` it has more pairs. A content
is its md5; two contents never collide.

Four disciplines of the clients, which the server does not enforce, are named:
`PathSorts` (no path is used for a file and for a directory), `NoOverwrite`
(instant_upload is not asked to overwrite), `PlainNames` (no name holds a character
LIKE interprets) and `ProperRenames` (no file is renamed to itself).
A property that needs one of them says so. Each is needed, as TLC shows when
the path sets of `MCTransfer` are changed accordingly:

* without `PathSorts`, mkdir over an indexed file succeeds, and a rename of that
  directory gives its cached md5 to a path nothing counted (`RefsCoverIndex`
  and later `IndexedFilesReadable` fail);
* without `NoOverwrite`, run `transfer_v_overwrite`;
* without `PlainNames`, rm of a directory called `_` releases the files of its
  siblings (`RefinesUserFiles` fails);
* without `ProperRenames`, a file renamed to itself loses its row and keeps its
  reference and cached md5. Downloads go through the cached md5 and still deliver,
  but rm of its directory goes by the rows and misses it: the file can be
  downloaded after its directory is gone (`RefinesUserFiles` fails; TLC needs a
  directory of three files to show it).
  `RefsStayExact` names the case.

Directories and rows of `file_index` are two name spaces, and `ls` merges them:
`Ls` is that merge and `LsShowsChildren` says what it amounts to. An entry for a file
has the file's own path. An entry for a directory has a path that begins at the
listed directory (`listDir` starts with the prefix `""`): `ls /d` shows `/d/s` as `/s`.
The command line client prints it; the web page takes it for an absolute path and
follows, or removes, whatever has that path (`app.js`, lines 112, 141 and 153), which is
the directory that was clicked on only in a listing of the root.

`Download` is `download_begin`: the path is resolved first, so a file whose directory
has been renamed or removed is not found although its content is kept.

### UserFiles and TransferRefinement

The abstract specification has two variables, `files` and `dirs`. It has no objects,
counts or caches; its `Get` needs the directories above a file, and its `MoveDir`
takes the directories below along and leaves the files, as the code does. The
mapping takes for `files` what `beginDownload` finds (`Contents`) and for `dirs` the
directories. `RefinesUserFiles` has two parts: every step is an operation of
one user of `UserFiles` or none, and what `Download` delivers is `Get`. `Remove` is
also the outcome of an upload whose new version cannot be stored; which requests a
loss may come from is the subject of `OnlyTheseLose`.

### TransferSteps

A handler is the list of commands it has still to run (`prog`), one Redis, MySQL
or file system command at a time; the answers to GET, SCARD and the lookups
decide how the list goes on (`Continue`). One handler runs at a time. `Interrupt`
is a crash or an exception: the rest of the list is lost, nothing is undone, and
no code repairs anything at start-up. `Unnoticed` is a command whose failure the
code takes for an answer: an empty GET, a lookup without a row, an SCARD of 0.

Three variables keep what the properties speak of. `job` has the paths a handler
names and the store its atomic version in `ObjectStore` would leave; `disturbed`
the paths that a handler with a fault named since they were last written without
one; `misled` the contents for which an SCARD went unanswered. What a handler
does never depends on them. `AtomicEffect` connects the two levels: a handler without a fault leaves what the
operators of `ObjectStore` say, from every state faults can lead to, which is
what lets `TransferService` treat it as one step.

### ChunkedUpload

One content on its way to one path of one user. Paths name inodes: a connection may
hold a descriptor of a part file that has been unlinked, and a later attempt creates
another. Blocks are right, wrong or holes. An attempt claims a size, which is the wrong
one if the local file changes between `fileSize` and `md5File`; `upload_begin` truncates
a part file that is longer than the size claimed, whoever has it open.

`row` is what the path holds (nothing, an older version, this content) and `shared`
whether anything else refers to the content. `upload_end` releases the path's version
first; if that was the last reference to the same content, the complete object is
unlinked and written again, in place, so that a crash leaves any prefix of it and a
failed copy leaves nothing. `instant_upload` without overwrite answers Conflict
when the path has a version. The reply to a request that has been carried out can be
lost. The run has no put with `--overwrite`: what that does to an object with one
reference is the subject of `transfer_v_overwrite`.

### FrameStream

Bytes are kept, with a header of two bytes (magic, length) for the twelve real
ones, and payload bytes that look like headers. One iteration of the loop in
`onRead` is one action; nothing but the peer can act between two of them.

### ClientStream

Replies carry, besides what the real ones do, the request they answer, so that
a property can speak of it; the client does not look at it. A `put` is its
sequence of requests and chunk frames: instant_query, then instant_upload on a hit,
otherwise upload_begin, any number of chunks (none for an empty file) and upload_end.
`put` does not look whether the reply to upload_begin has a `file_id`; `encodeChunk`
does, if a chunk is sent (`PutChunkThrows`). Everything else is one request and one
frame.

### MysqlPool

A request is the sequence of pool operations its handler makes: a lookup, login
(whose `logLogin` takes a second connection and swallows errors), rm of a
directory (whose lookups nest in the connection that selected the rows).
`Unwind` is what C++ does to the live `Conn` objects when a handler throws.

### MysqlStmt

`MysqlStmt` gives the client library addresses of vector elements. Binding a
higher index may make the vector grow; `Resize` is the growth of libstdc++, and
a `generation` counts the moves. A pointer is good while its generation is the
buffer's. What the server reads through a dangling parameter is either value
(`given`); what it writes through a dangling column is lost (`out`). `Statements`
are all of the server's, by the types they bind.

### GuiProxy

`LockGuard` is enabled only when nobody owns the mutex, the thread itself
included: a `std::mutex` that its own thread locks again is undefined behaviour,
and with the pthread mutex of the build the thread waits. Requests refused before the
lock are left out.

### ServerLife

Start-up is a loop of attempts, each with one of four outcomes (MySQL refuses,
Redis refuses, PING is not answered by PONG, success); after the last one the
code looks at the two pointers only. Then `ensureDefaultUsers` makes three
accounts if there is none, one INSERT after the other. Accounts, root directories
and Redis sessions survive a crash, connections do not.

A Redis command is `Executed`, `Lost` (nobody notices: the connection was broken
since the last command, or Redis is loading) or it `Throws`. `checkToken` is two
commands, GET and SETEX, and is the only handler split in two: Redis can expire
the session, lose its connection or restart between them. Tokens are random; a
token's user is fixed in advance (`UserOf`) so that a login picks the next token
of its user and nothing is lost. A connection keeps the session and the session
under which its transfer was opened; `upload_` and `download_` are treated alike
by the code at this level and the module follows one of them.

### PathGuard, ChunkArithmetic, MCInputs

Operators, one per function. `MCInputs` has a behaviour per input; only a `get`
has steps. Paths are compared with a lexical reading (which names survive the
".." that follow them), resolution with `Realpath`, that is, with where the kernel
would end up. `Realpath` is RECURSIVE, so `PathGuard` and `MCInputs` are for TLC only.
`ChunkArithmetic` is not; its `OffTLimit` stands for 2^63, where `off_t` becomes
negative, and a `uint64_t` wraps around at twice that. `Fits` is the limit of a frame
on a chunk with its 40 bytes of header.

## 3. Runs

Bounds are named in the configurations. Every run takes less than five minutes
with two workers.

| Run | Instance | Checks |
| --- | --- | --- |
| `transfer_shared` | 2 users, 2 contents, 2 files, rename onto a file, instant_upload with and without overwrite | `RefsCoverIndex`, `OthersUntouched`, `RefsStayExact` |
| `transfer_tree` | 2 sessions of one account, 2 contents, directories `/d`, `/e` and, nested, `/d/a`, files `/a` and `/e/a`, renames of a file into a directory and of a directory (48,600 states up to symmetry) | `TypeOK`, `NoOrphanObjects`, `IndexedFilesReadable`, `LsShowsChildren`, `RefinesUserFiles`, `OnlyMovesStrand`, `OnlyTheseLose` |
| `steps` | a directory with 2 files, 2 contents, up to 2 faults at any command (843,000 states) | `TypeOK`, `UndisturbedReadable`, `AtomicEffect` |
| `upload` | 2 attempts, 3 blocks, 3 faults, 3 inodes (160,000 states) | `TypeOK`, `ObjectIntact`, `HolesOnlyByTruncation`, `ObjectStays`, `EveryPutEnds` |
| `frames` | 3 frames of up to 2 bytes, malformed ones included, any segmentation | `TypeOK`, `FramesInOrder`, `EveryFrameHandled` |
| `client` | 14 requests, up to 2 chunks for each put, 2 write errors | `ReplyIsOwn`, `FalseSuccessSendsNothing`, `EveryRequestReturns` |
| `pool` | 4 handles, 2 clients, 2 outages | `TypeOK`, `BlocksOnlyIfDrained`, `HandlesReturn`, `AnsweredUnlessDrained` |
| `server` | 2 connections, 2 accounts with one login each, 2 start-up attempts, any number of outages and crashes (100,000 states) | `TypeOK`, `AccountsUsable`, `LogoutIsFinal`, `StartUpDecides`, `VanishedFreed` |
| `inputs` | paths of up to 5 components, all trees with links at 3 places, offsets that wrap around at 32, sizes up to 11, chunk sizes past the longest frame | `NormalizeIsLexical`, `ResolvedInside`, `ChunksInRange`, `GetIsWhole` |

What the less obvious properties say:

* `RefsCoverIndex`: while a file is indexed, the reference set whose size decides
  garbage collection holds it, so no release by anybody else collects it.
* `OthersUntouched`: a file that can be downloaded is lost or replaced only by a
  request of its own user.
* `RefsStayExact`: the one way to leak a reference is a rename onto a file.
* `IndexedFilesReadable`: the object of every indexed file is in the store; whether its
  path can still be resolved is the subject of `OnlyMovesStrand`.
* `LsShowsChildren`: a recursive `ls` hides an indexed file exactly if any directory
  below has its name. The instance has `/a` and `/d/a`, where that happens.
* `RefinesUserFiles`: every user has a map of files and a tree of directories of his
  own, and downloads deliver what these say; sharing, counting, the cache and
  garbage collection cannot be observed.
* `OnlyTheseLose`: the requests that end the delivery of a file, all of its own user:
  rm of it or of a directory above it, a rename of it, onto it, or of a directory
  above it (which takes no file along), and upload_end at its path, also one that
  fails, because the previous version is released first.
* `OnlyMovesStrand`: a file gets out of reach of every request in two ways only: an
  upload_end whose directory was removed or renamed since upload_begin
  (`finishUpload` does not resolve the path again), and the rename of a directory,
  which leaves the rows below it under the old prefix.
* `UndisturbedReadable`: the damage of a crash or failed command stays with the
  paths of the handler it happened in, also under shared content. The exception is an SCARD
  that fails: it reads 0, and `releaseContentRef` takes the object from everybody.
* `AtomicEffect`: no order of the commands of a handler, and no debris of earlier
  faults, makes its result depend on being run in pieces.
* `ObjectIntact`: publishing and instant_query compare sizes only; still an
  object of the right size is the right object.
* `HolesOnlyByTruncation`: an attempt gets ahead of its part file only when another one
  claims a smaller size and truncates the file under it, and only then does a write
  leave a hole. Such a file has the wrong MD5 and is not published (`ObjectIntact`).
* `ObjectStays`: a complete object that the path, or something else, goes on referring
  to keeps its blocks, although `upload_end` may unlink it and write it again.
* `EveryPutEnds`: no corrupt part file, truncated object or unlinked descriptor keeps the
  file from its path for ever. Two things do. If the path has an older version and
  the content is already stored, every retry is answered Conflict, while the same put
  would go through if the content were not stored. And a put that claimed, by
  mistake, the size of what a crash left of the object has been told all is well. A
  put whose reply was lost is answered Conflict for ever too, but its file is there.
* `EveryFrameHandled`: the watermark has room for the longest frame and header.
* `ReplyIsOwn`: without write errors the missing comparison of `seq` is harmless.
* `FalseSuccessSendsNothing`: with one of them the replies are out of step. A put with
  data to send then fails for want of a `file_id`, but one that sends no chunk, the
  instant upload on a hit or the put of an empty file, can take another request's
  success for its own and report a file that is not there. With two, any put can.
* `BlocksOnlyIfDrained`: acquires nest at most two deep.
* `HandlesReturn`: handles are lost by failed reconnections only. They are lost
  for good: after an outage has drained the pool, the event loop waits in
  `acquire` for ever although the database is back (`AnsweredUnlessDrained`).
* `AccountsUsable`: a start that is cut while it seeds leaves an administrator or
  an empty table, never a table that is taken for complete without one. The other
  default accounts may stay unmade for good.
* `LogoutIsFinal`: a logout Redis has executed cannot be undone by the write-back
  of a `checkToken`. A logout whose DEL was lost does leave the session alive.
* `VanishedFreed`: places taken by peers that vanished come back.
* `ChunksInRange`: the check `offset + len > total` wraps around, and only the sign
  of `off_t` makes `pwrite` refuse what it lets through.
* `GetIsWhole`: with `chunk_size = 0` in the configuration, and only then, a
  download reports an empty file as a success; with a `chunk_size` that leaves no room
  for a chunk's header in a frame, and only then, it fails, for every file longer than
  fits.

Why the bounds are enough: sharing needs two users and one content, replacing
two contents; releases and counts concern one content at a time. Resuming into
another attempt's file, unlinking and truncating it need two attempts; a third fault
lets a mistaken size, a crash and a lost reply meet. (Three attempts with four inodes
and two faults give nothing else.) A nested directory with the name of a file is what
a recursive `ls` needs to hide it. Fourteen requests are two failed uploads and a
third put, with what comes between.
One maximal frame with a neighbour on either side meets every alignment of the
watermark. The pool has to shrink past two, where nested acquires block. Two
faults let a second one meet what the first left behind; a path that takes part
needs a neighbour with the same content. A write-back races with another
connection's logout, hence two connections; a second start-up attempt sees what
the first one assigned. `OffTLimit = 16` has room for sizes, payloads and a sum that wraps;
three links make a chain and a cycle.

The runs that expect a violation, each with its finding in `PROJECT.json`:

| Run | Property | What happens |
| --- | --- | --- |
| `transfer_v_overwrite` | `IndexedFilesReadable` | without `NoOverwrite`: instant_upload over the last reference of the same content collects the object it then indexes |
| `stmt_v_login` | `FetchDelivers` | in login's SELECT, binding `salt` after `password_hash` moves the vector of lengths, the length of `password_hash` is lost, and the hash comes back empty |
| `gui_v_transfer` | `MutexFreed` | the handler of an upload holds the mutex, `put` reports "hashing", and the callback waits for the mutex in the same thread, for ever; no other request gets it. Every upload does that, and every download of a file that is not empty |

Deadlock is checked where the system cannot stop. It is not where it may: when
every upload has ended, a bounded peer has sent its frames, the pool is drained,
the GUI has locked itself, or an input has been looked at.

### Fairness

* `ChunkedUpload`: each attempt goes on (weak fairness): the client sends its
  next frame, the event loop serves every connection, a user retries a failed
  put. Faults are bounded, not excluded.
* `FrameStream`: the event loop reads what is readable and a callback runs to
  its end.
* `ClientStream`: the server serves what it has received, the client reads.
  The client's user owes nothing.
* `MysqlPool`: the thread runs while it is not blocked; level-triggered
  readiness brings every connection round (strong fairness of `Dispatch`). The
  database need not come back.
* `GuiProxy`: a thread that is not blocked goes on, so that the violation is not a
  thread that merely stops. No fairness of the mutex is assumed, hence `MutexFreed`
  speaks of the mutex and not of those who wait for it.
* `ServerLife`: `main` runs on (weak fairness of `StartUp`) and a handler ends
  (`ResumeSet`). Requests keep the loop busy, so closing an idle connection is
  enabled again and again and not for ever; libevent looks at its timers between
  handlers, hence strong fairness of the close of a vanished peer. Nothing is
  assumed of MySQL, Redis, clients or whoever restarts the process.
* `MCInputs`: the client goes on asking.
* `TransferService` and `TransferSteps` have no fairness and no liveness
  property: a client may stop anywhere.

## 4. Proofs

All theorems hold for every value of the constants that the named ASSUME of the
module allows. What a theorem assumes in addition is named under "Under"; nothing else
is assumed.

| Module | Theorem | States | Under |
| --- | --- | --- | --- |
| `TransferProofs` | `TypeCorrect` | `TypeOK` | - |
| | `NoOrphansEver` | `NoOrphanObjects` | - |
| | `FilesAreCounted` | `RefsCoverIndex` | `PathSorts` |
| | `IndexedStayReadable` | `IndexedFilesReadable` | `PathSorts`, `NoOverwrite` |
| | `UsersAreIsolated` | `OthersUntouched` | `PathSorts` |
| | `OnlyRenamesLeak` | `RefsStayExact` | `PathSorts` |
| | `RemovalStrandsNothing` | `OnlyMovesStrand` | `PlainNames` |
| | `LsIsExact` | `LsShowsChildren` | LIKE selects at least what is below |
| | `ImplementsUserFiles` | `RefinesUserFiles` | all four disciplines |
| | `LossesHaveCauses` | `OnlyTheseLose` | all four disciplines |
| `StepsProofs` | `ProgramsTyped` | `TypeOK` | |
| | `FaultsStayLocal` | `UndisturbedReadable` | |
| | `HandlersAreAtomic` | `AtomicEffect` | |
| `UploadProofs` | `DescriptorsMatchPhases` | `TypeOK` | |
| | `ResumesWithoutHoles` | `HolesOnlyByTruncation` | |
| | `SizeProvesContent` | `ObjectIntact` | |
| | `ObjectsStayWhole` | `ObjectStays` | no put overwrites |
| | `WritesStayInFile` | what `writeChunk` accepts and `pwrite` writes lies in the file, and all of that is written | sizes and lengths below `OffTLimit` |
| | `ChallengesStayInObject` | the range of a challenge lies in the object and is empty for an empty object only | |
| | `ReadsAdvance` | a chunk asked for inside the file brings a byte and none beyond the end, and its frame can be encoded | `chunk_size` from 1 to the longest frame less a chunk's header, sizes below `OffTLimit` |
| `FrameProofs` | `BufferBounded` | `TypeOK` | |
| | `FramesArriveInOrder` | `FramesInOrder` | |
| `ClientProofs` | `RepliesAreOwn` | `ReplyIsOwn` | |
| | `OneErrorSparesSenders` | `FalseSuccessSendsNothing` | |
| `PoolProofs` | `HandlesNeverShared` | `TypeOK` | |
| | `BlocksOnlyWhenDrained` | `BlocksOnlyIfDrained` | |
| | `HandlesGoBack` | `HandlesReturn` | |
| `ServerProofs` | `BuiltOnSetPointers` | `TypeOK` | |
| | `AccountsAlwaysUsable` | `AccountsUsable` | |
| | `LogoutsAreFinal` | `LogoutIsFinal` | |
| `GuiProofs` | `ClientIsGuarded` | `TypeOK` | `NoWorker` is no worker |
| | `ReportSticks` | `SelfLockIsFinal`, defined there | `NoWorker` is no worker |

The arguments, module by module. The inductive invariants below were checked by
TLC on the instance of their run before they were proved, except two that quantify over
sequences TLC cannot enumerate: `Laid` of the frames and `OnTrack` of the handlers.

**The object store.** An "effect" predicate says of each store operation which
fields it changes and how (`IndexFields` ... `ReindexFields` prove them from the
definitions). `NextStoreStep` reduces a step of any handler to one of the few
shapes of `StoreStep`, so that an invariant of the store is proved against these
and not against each handler. `RefsCoverIndex` is not inductive as it stands:
the rename of a directory copies the md5 cached for its old path to the new one
without counting it, so the invariant must say that no md5 is cached for a
directory path. `Covered` adds that (`BareDirs`) and is inductive under
`PathSorts`. Readability needs `ReferencedStored` as well, which
is inductive relative to `Covered` and only if nothing releases an object
between its check and its new reference, hence `NoOverwrite`. The action
properties `OthersUntouched` and `RefsStayExact` follow from `Covered` by one lemma
about each shape of step. `OnlyMovesStrand` and `LsShowsChildren` need no invariant
but `TypeOK`; they rest on lemmas about paths (what has a directory as a proper
prefix is below it, and children of a directory are told apart by their last
name, which is why a listing without recursion hides nothing).

**The refinement.** The mapping takes what `beginDownload` finds, and the directories. A removed
directory releases the rows below it, while downloads go by the cache, so the two
must agree: the invariant is `TypeOK`, `Covered`, `ReferencedStored` and
`CacheIndexed` (a cached md5 is that of a file row). The attempt to prove that last
part showed the need of `ProperRenames`. Each shape of `StoreStep` is then a put, a
removal, the removal of a tree, a move, or nothing, of the abstract map, and each
handler that changes directories is `MakeDir`, `RemoveTree` or `MoveDir`. That a download
delivers what the abstract one does follows from the definitions, because both resolve
the path against the same directories. `OnlyTheseLose` is proved from the same
invariant, handler by handler: a download changes because its path stops resolving,
which takes a removal or a rename of a directory above it, or because its content does.

**Handlers, command by command.** The conjunction of the two properties is not
inductive, as neither speaks of a handler that is half-way. The invariant has three
parts besides `TypeOK` and `UndisturbedReadable`:

* `OnTrack`: what is left of a program is the remainder of one of the programs, that is
  a release in one of its phases (before GET, lookup, SREM, SCARD, or among the deletions), a
  check that decides what comes next, plain writes, or the loop over the rows of a
  directory; and while no fault has happened it leads to `job.goal` from the
  present store. A phase also says what the answers so far have established,
  for instance that before SCARD the path's own reference is gone, and among the
  deletions that the content has no reference or is in `misled`. Every other
  command changes what is kept for its own path only, and the deletions change nothing for
  a path that agrees and is not misled (`Harmless`): this is why damage stays local.
* `Accounted`: the goal agrees on the paths that the outcome takes out of
  `disturbed`; after a fault the handler's paths are all in it.
* `WellKept`: file rows are at file paths only, and sets of references are finite, so
  that an SCARD of 0 means the empty set.

What a program does is a fold over its commands, which the prover cannot unfold;
`Runs` states it as the existence of a trace of stores, one for each command, which a step
shortens by one. `ReleaseContentRef` and its companions in `ObjectStore` are compared
with the traces field by field (`ReleaseEffect`, `AddEffect`, `RenameEffect`). The loop needs
that releasing a set of paths is releasing one of them and then the others. The number
of faults and the set of commands that may fail unnoticed are arbitrary, but for
NEXTROW, which is the head of a loop and no command.

**Uploads.** The invariant is `TypeOK` and `ObjectIsPrefix`: what is under `objects/` is
a beginning of the right content, because only a part file whose MD5 was right is
copied, wherever the copy is cut. `ObjectIntact` follows from it. `HolesOnlyByTruncation`
needs `TypeOK` only: every step that is not a chunk or an upload_begin leaves the part
files and the attempts that send alone (`StepKinds`); a chunk takes its own attempt
no further than the file it has just written and makes no file shorter
(`ChunkStaysBehind`); an upload_begin makes a file shorter only by truncation, and a new
part file is an inode that nobody holds (`BeginStaysBehind`, from `InodesAssumption`: the
descriptors never hold all inodes, which TLC evaluates for the run's instance).
`ObjectStays` rests on the invariant: where `upload_end` writes the object again, it
writes what it was. With `--overwrite` it would be false, since `instant_upload` of the
path's own content unlinks the object and refers to it again, hence the assumption.

**Offsets of chunks.** The sum of an offset and a length wraps around at most once
(`SumOfOffset`), and only for an offset past `OffTLimit`, which `pwrite` refuses. So the check
of `writeChunk`, wrong as it is for such offsets, lets nothing be written outside the
file. These theorems are about the operators, for every width; the invariant
`ChunksInRange` says the same of the inputs TLC enumerates.

**Frames.** The invariant says that the buffer and the wire together are the frames
sent and not handled, one after the other. A concatenation of many sequences is a
recursive definition; `Laid` states it by an offset for each frame instead, so that
sending extends the offsets and taking a frame moves the origin. The frame in front
then determines the header (`FrontHeader`), a malformed one cannot pass for one, and
the bytes `TakeFrame` cuts off are that frame (`FrontFrame`). `sent`, `wire` and
`handled` are unbounded in the argument.

**The reply stream.** No property of the head of the reply queue is inductive. The
invariant describes everything on its way: as long as at most one chunk could not be
written, the stream is `InStep` (chunks of the open upload, then at most the request
that is being waited for, or its reply) or `Behind` by one reply. `Behind` has three
forms: the chunk's error waits to be taken for the reply to upload_end; between two
requests one reply is left; while the client waits two are. In the last two forms the
reply to upload_begin comes one too late: a put that goes on without a `file_id`
cannot send a chunk, so that whatever request it takes for a success, it has sent
none. With a second error this is over, and the theorem does not say more.

**The pool.** `BlocksOnlyIfDrained` needs to know how deep a handler has nested.
`Nested` says that what is left of a program is a suffix of one of the programs, and
that the connections held are as many as that position's depth (`Depths`). `TypeOK`
itself contains the exclusion (no handle twice), proved with it.

**The server.** `AdminFirst` (the administrator is the first account that is made, so
a table with any account has him) makes `AccountsUsable` inductive; `SessionKept` (the
check under way has a session whose token no executed logout has taken, because
the loop runs no other handler between GET and SETEX) does it for `LogoutIsFinal`.

**The GUI.** `TypeOK` states the ownership of the mutex and is inductive.

Only model-checked:

* liveness under fairness (`EveryPutEnds`, `EveryFrameHandled`, `EveryRequestReturns`,
  `AnsweredUnlessDrained`, `StartUpDecides`, `VanishedFreed`, `GetIsWhole`), which is out of the prover's reach;
* `NormalizeIsLexical` and `ResolvedInside`: what `normalizeLogical` and `resolve` compute is a
  matter of induction over the components of a path, and `PathGuard` declares a RECURSIVE
  operator (hence `ChunksInRange`, which `MCInputs` states, has no theorem under that
  name: the three of `UploadProofs` about the same operators take its place);
* `MysqlStmt`, which has a run that expects a violation only.

## 5. Assumptions and what is not modelled

Assumptions that one module makes and another one examines:

* `TransferService` takes a handler to be atomic. `TransferSteps` shows that this is
  so without faults, and what faults do. Mid-handler faults and several
  connections are not combined in one model: a fault ends or completes a handler
  before another one begins, so what a fault leaves behind is a state of the
  store, and `TransferSteps` runs every handler from all of those. It takes the
  directories to be there when a handler resolves its path.
* A connection of `TransferService` is logged in as one user for its life;
  `ServerLife` follows the changes of user. What an upload that is open across
  them is indexed under is not followed further, and no property is about it.
* Every module but `MysqlStmt` takes a statement to do what it says. `MysqlStmt`
  shows that under libstdc++ this is not so for login's SELECT. By the same model the
  SELECTs of `lookupFile` and `listIndexed` lose string columns too, since they bind
  another string after `virtual_path` and after `md5`, which come back empty; and, where freed
  memory has been used again, INSERTs with several parameters are wrong. The other
  modules say what the program does once the binds are right.
* The paths of a run are distinct under the collation of `file_index`, which
  compares the first 255 characters without regard to case.
* A content is its md5.
* `ServerLife`: a Redis that restarts keeps what it has executed, a DEL included.

Not modelled:

* `cs:objsize` and `login_log`, which nothing reads.
* The temporary files shared by the requests of `cloud_gui`, which cannot matter
  while every transfer locks itself up.
* `statPath`, and a recursive removal that fails half-way.
* An object collected while it is being downloaded: the descriptor keeps it, which
  is the file system's promise.
* JSON, hashing, logging, configuration files, argument parsing, the web page, and
  `third_party/httplib.h`: helpers without state, presentation, or not this
  project's code.

## 6. Plan

Done, in this order: the object store and its proofs (everything hangs on it), the
abstract specification, uploads, frames, the reply stream, the pool, the GUI;
then the handlers command by command, the server's life with its sessions, paths
and chunk arithmetic, prepared statements.

Then the proofs: the store, the refinement, uploads, frames, replies, the pool, the
server and the GUI; last the handlers command by command and the arithmetic of
chunks.

Left:

1. `PathGuard` without a RECURSIVE operator, so that single steps of `normalizeLogical` and
   `resolve` can be reasoned about; what they compute in all stays with TLC.
2. `MysqlStmt`: which statements bind in an order that moves no buffer whose address
   was given away.
3. The safety part of `GetIsWhole`, from `ReadsAdvance`.
