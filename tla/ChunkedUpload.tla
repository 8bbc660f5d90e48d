--------------------------- MODULE ChunkedUpload ---------------------------
(***************************************************************************)
(* One file on its way into the object store and onto one path of a user.  *)
(* Every attempt of the client (CloudClient::put) is a connection that     *)
(* asks instant_query and, on a hit, sends instant_upload; on a miss it    *)
(* begins an upload, sends the missing blocks and ends it.  All attempts   *)
(* share one part file under tmp/: the path names an inode, a connection's *)
(* descriptor may hold another one that has been unlinked since.  Attempts *)
(* run concurrently: of several clients, or of one client whose lost       *)
(* connection the server is still reading.  Other paths and users come in  *)
(* only as references that keep the object alive or let it go.             *)
(*                                                                         *)
(* Data is abstracted to blocks: "good" is the right block for its place,  *)
(* "bad" anything else, "hole" what pwrite past the end leaves.            *)
(***************************************************************************)
EXTENDS Integers, Sequences

CONSTANTS
    Conns,      \* connections
    N,          \* blocks of the file
    Inodes,     \* part-file inodes, reused when nothing refers to them
    NoInode,
    Overwrites, \* what put may be called with: FALSE, or TRUE (--overwrite)
    MaxFaults   \* bound: lost connections and replies, corrupted blocks, wrong
                \* sizes, failed copies, crashes and requests about other paths

ASSUME UploadAssumption ==
    /\ N \in Nat \ {0}
    /\ MaxFaults \in Nat
    /\ NoInode \notin Inodes
    /\ Overwrites \subseteq BOOLEAN

\* The file system has inodes to spare: the open descriptors never hold them all.
ASSUME InodesAssumption ==
    \A fds \in [Conns -> Inodes \cup {NoInode}] : \E i \in Inodes : \A c \in Conns : fds[c] # i

VARIABLES
    part,     \* the inode that tmp/<user>/<md5>_<name>.part names, or NoInode
    data,     \* data[i]: the blocks of inode i
    object,   \* the blocks of objects/<md5>; empty if there is none
    row,      \* what the path's row in file_index holds: nothing, an older
              \* version (another content) or this content
    shared,   \* other paths or users refer to the content
    conn,     \* conn[c]: where the attempt is, the size it claims, its
              \* descriptor and the client's offset
    faults    \* faults so far

vars == <<part, data, object, row, shared, conn, faults>>

Block == {"good", "bad", "hole"}
Phase == {"query", "instant", "begin", "send", "done"}
Intact == [i \in 1 .. N |-> "good"]

\* The sizes put may claim.  It measures the file before it hashes it: a file
\* that grows or shrinks in between is claimed with another size than N.
Sizes == 1 .. N + 1

Fresh == [phase |-> "query", size |-> N, fd |-> NoInode, sent |-> 0]

\* fileSize of the part path: 0 when there is no file.
PartSize == IF part = NoInode THEN 0 ELSE Len(data[part])

\* pwrite of one block at offset o.
PWrite(blocks, o, b) ==
    [i \in 1 .. (IF o < Len(blocks) THEN Len(blocks) ELSE o + 1) |->
        IF i = o + 1 THEN b
        ELSE IF i <= Len(blocks) THEN blocks[i]
        ELSE "hole"]

\* The inode of a new part file: one that no descriptor holds.
NewInode == CHOOSE i \in Inodes : i # part /\ \A c \in Conns : conn[c].fd # i

Fault == faults < MaxFaults /\ faults' = faults + 1

\* The attempt ends in success, or fails and is made again.
Done(c) == conn' = [conn EXCEPT ![c] = [Fresh EXCEPT !.phase = "done", !.size = conn[c].size]]
Fails(c) == conn' = [conn EXCEPT ![c] = Fresh]

\* The client hears the server's ok, or the connection is lost before it does.
Answered(c, heard) == IF heard THEN Done(c) /\ UNCHANGED faults ELSE Fails(c) /\ Fault

\* releaseContentRef of the path: the last reference takes the object along.
Released == IF row = "this" /\ ~shared THEN << >> ELSE object

-----------------------------------------------------------------------------
(* Steps of an attempt *)

\* instant_query compares the size only.
InstantQuery(c, size) ==
    /\ conn[c].phase = "query"
    /\ conn' = [conn EXCEPT ![c].phase = IF Len(object) = size THEN "instant" ELSE "begin",
                            ![c].size = size]
    /\ UNCHANGED <<part, data, object, row, shared>>

\* instant_upload: the content gets a reference from the path, in the place of
\* the path's version if the request says overwrite.
InstantUpload(c, overwrite, heard) ==
    /\ conn[c].phase = "instant"
    /\ Len(object) = conn[c].size
    /\ row = "none" \/ overwrite
    /\ object' = Released
    /\ row' = "this"
    /\ Answered(c, heard)
    /\ UNCHANGED <<part, data, shared>>

\* instant_upload, Conflict: the path has a version and may not be overwritten.
InstantConflict(c, overwrite) ==
    /\ conn[c].phase = "instant"
    /\ Len(object) = conn[c].size
    /\ row # "none" /\ ~overwrite
    /\ Fails(c)
    /\ UNCHANGED <<part, data, object, row, shared, faults>>

\* instant_upload: the object has gone or changed its size since the query.
InstantRefused(c) ==
    /\ conn[c].phase = "instant"
    /\ Len(object) # conn[c].size
    /\ Fails(c)
    /\ UNCHANGED <<part, data, object, row, shared, faults>>

\* The reply names a resume offset one block too far.
Mutant_OffsetPastEnd(c) ==
    /\ conn[c].phase = "begin"
    /\ LET i == IF part = NoInode THEN NewInode ELSE part IN
          /\ part' = i
          /\ data' = IF part = NoInode \/ PartSize > conn[c].size
                     THEN [data EXCEPT ![i] = << >>] ELSE data
          /\ conn' = [conn EXCEPT ![c].phase = "send", ![c].fd = i,
                                  ![c].sent = IF Len(data'[i]) >= N THEN N ELSE Len(data'[i]) + 1]
    /\ UNCHANGED <<object, row, shared, faults>>

\* beginUpload: open the part file, creating it if need be and truncating it if
\* it is longer than the size claimed, whoever else has it open; the offset in
\* the reply is its size, and the client seeks there.
UploadBegin(c) ==
    /\ conn[c].phase = "begin"
    /\ LET i == IF part = NoInode THEN NewInode ELSE part IN
          /\ part' = i
          /\ data' = IF part = NoInode \/ PartSize > conn[c].size
                     THEN [data EXCEPT ![i] = << >>] ELSE data
          /\ conn' = [conn EXCEPT ![c].phase = "send", ![c].fd = i,
                                  ![c].sent = Len(data'[i])]
    /\ UNCHANGED <<object, row, shared, faults>>

\* A chunk frame: writeChunk through the descriptor, wherever the path points.
Chunk(c, b) ==
    /\ conn[c].phase = "send"
    /\ conn[c].sent < conn[c].size
    /\ data' = [data EXCEPT ![conn[c].fd] = PWrite(@, conn[c].sent, b)]
    /\ conn' = [conn EXCEPT ![c].sent = @ + 1]
    /\ UNCHANGED <<part, object, row, shared>>

SendChunk(c) == conn[c].sent < N /\ Chunk(c, "good") /\ UNCHANGED faults

\* The local file has changed since it was hashed, or the transfer garbles it.
SendCorrupted(c) == Chunk(c, "bad") /\ Fault

\* The client has sent all it has of what it claimed, and the server has started
\* on upload_end.
Ending(c) == conn[c].phase = "send" /\ (conn[c].sent >= conn[c].size \/ conn[c].sent >= N)

\* upload_end, size mismatch: the file at the path is not the whole file (it
\* may not be the one this connection wrote).  It stays for a later resume.
EndSizeMismatch(c) ==
    /\ Ending(c)
    /\ PartSize # conn[c].size
    /\ Fails(c)
    /\ UNCHANGED <<part, data, object, row, shared, faults>>

\* The corrupt part file is kept.
Mutant_KeepCorrupt(c) ==
    /\ Ending(c)
    /\ PartSize = conn[c].size
    /\ data[part] # Intact
    /\ Fails(c)
    /\ UNCHANGED <<part, data, object, row, shared, faults>>

\* upload_end, md5 mismatch: the part file is unlinked.
EndMd5Mismatch(c) ==
    /\ Ending(c)
    /\ PartSize = conn[c].size
    /\ data[part] # Intact
    /\ part' = NoInode
    /\ Fails(c)
    /\ UNCHANGED <<data, object, row, shared, faults>>

\* The digest is not compared.
Mutant_NoDigestCheck(c) == Ending(c) /\ PartSize = conn[c].size

\* Both checks of upload_end hold.
Passes(c) == Ending(c) /\ PartSize = conn[c].size /\ data[part] = Intact

\* publishObject: an object of the right size is taken as it is.
Published(blocks) == IF Len(Released) = N THEN Released ELSE blocks

\* upload_end of the right file: the path's version is released, the file
\* published, the part file unlinked and the path indexed.
EndPublished(c, heard) ==
    /\ Passes(c)
    /\ object' = Published(data[part])
    /\ part' = NoInode
    /\ row' = "this"
    /\ Answered(c, heard)
    /\ UNCHANGED <<data, shared>>

-----------------------------------------------------------------------------
(* Faults *)

\* The destructor forgets the descriptor.
Mutant_FdLeaks(c) ==
    /\ conn[c].phase # "done"
    /\ Fault
    /\ conn' = [conn EXCEPT ![c].phase = "query"]
    /\ UNCHANGED <<part, data, object, row, shared>>

\* The connection is lost or a request fails; the destructor, or the next
\* upload_begin, closes its descriptor.
Cut(c) ==
    /\ conn[c].phase # "done"
    /\ Fault
    /\ Fails(c)
    /\ UNCHANGED <<part, data, object, row, shared>>

AllCut == [c \in Conns |-> IF conn[c].phase = "done" THEN conn[c] ELSE Fresh]

\* The object is copied even if it is there, so a crash can truncate it.
Mutant_CopiesAgain(blocks) == {Released} \cup {SubSeq(blocks, 1, k) : k \in 0 .. Len(blocks)}

\* What copyToObjectStore, which writes in place with O_TRUNC, has made of the
\* object when the server dies: nothing yet, or the first k blocks.
Copying(blocks) ==
    {Released} \cup IF Len(Released) = N THEN {} ELSE {SubSeq(blocks, 1, k) : k \in 0 .. Len(blocks)}

\* The server dies in upload_end, after the release of the path's version and
\* before or during the copy.
CrashInCopy(c) ==
    /\ Passes(c)
    /\ Fault
    /\ object' \in Copying(data[part])
    /\ row' = "none"
    /\ conn' = AllCut
    /\ UNCHANGED <<part, data, shared>>

\* It dies after the part file has been unlinked, before the path is indexed.
CrashBeforeIndex(c) ==
    /\ Passes(c)
    /\ Fault
    /\ object' = Published(data[part])
    /\ part' = NoInode
    /\ row' = "none"
    /\ conn' = AllCut
    /\ UNCHANGED <<data, shared>>

\* It dies anywhere else.
Crash ==
    /\ \E c \in Conns : conn[c].phase # "done"
    /\ Fault
    /\ conn' = AllCut
    /\ UNCHANGED <<part, data, object, row, shared>>

\* copyToObjectStore fails and unlinks what it has written, or cannot even open
\* the object: the path's version has been released, the part file stays.
CopyFails(c) ==
    /\ Passes(c)
    /\ Len(Released) # N
    /\ Fault
    /\ object' \in {<< >>, Released}
    /\ row' = "none"
    /\ Fails(c)
    /\ UNCHANGED <<part, data, shared>>

-----------------------------------------------------------------------------
(* Requests about other paths that hold the same content *)

\* The first of them is uploaded, in the two ways of put.
OthersPut ==
    /\ ~shared
    /\ Fault
    /\ shared' = TRUE
    /\ object' = IF Len(object) = N THEN object ELSE Intact
    /\ UNCHANGED <<part, data, row, conn>>

\* The last of them is removed, renamed over or overwritten.
OthersRelease ==
    /\ shared
    /\ Fault
    /\ shared' = FALSE
    /\ object' = IF row = "this" THEN object ELSE << >>
    /\ UNCHANGED <<part, data, row, conn>>

-----------------------------------------------------------------------------
(* Specification *)

Init ==
    /\ part = NoInode
    /\ data = [i \in Inodes |-> << >>]
    /\ object = << >>
    /\ row \in {"none", "old"}
    /\ shared = FALSE
    /\ conn = [c \in Conns |-> Fresh]
    /\ faults = 0

\* What client and server do when nothing fails.
Progress(c) ==
    \/ InstantQuery(c, N) /\ UNCHANGED faults
    \/ \E overwrite \in Overwrites : InstantUpload(c, overwrite, TRUE)
    \/ \E overwrite \in Overwrites : InstantConflict(c, overwrite)
    \/ InstantRefused(c)
    \/ UploadBegin(c)
    \/ SendChunk(c)
    \/ EndSizeMismatch(c)
    \/ EndMd5Mismatch(c)
    \/ EndPublished(c, TRUE)

\* What happens to an attempt besides.
Mishap(c) ==
    \/ \E size \in Sizes \ {N} : InstantQuery(c, size) /\ Fault
    \/ \E overwrite \in Overwrites : InstantUpload(c, overwrite, FALSE)
    \/ EndPublished(c, FALSE)
    \/ SendCorrupted(c)
    \/ Cut(c)
    \/ CrashInCopy(c)
    \/ CrashBeforeIndex(c)
    \/ CopyFails(c)

Next ==
    \/ Crash
    \/ OthersPut
    \/ OthersRelease
    \/ \E c \in Conns : Progress(c) \/ Mishap(c)

\* Every attempt goes on: the client sends its next frame, the event loop
\* comes round to the connection, and a failed put is tried again.
Fairness == \A c \in Conns : WF_vars(Progress(c))

Spec == Init /\ [][Next]_vars /\ Fairness

-----------------------------------------------------------------------------
(* Properties *)

\* The variables have the shape the code gives them; a descriptor is open
\* exactly while an attempt is sending.
TypeOK ==
    /\ part \in Inodes \cup {NoInode}
    /\ data \in [Inodes -> Seq(Block)]
    /\ object \in Seq(Block)
    /\ row \in {"none", "old", "this"}
    /\ shared \in BOOLEAN
    /\ conn \in [Conns -> [phase : Phase, size : Sizes, fd : Inodes \cup {NoInode}, sent : Nat]]
    /\ \A c \in Conns : conn[c].fd \in Inodes <=> conn[c].phase = "send"
    /\ faults \in 0 .. MaxFaults

\* What a hit of instant_query and a download may rely on: an object of the
\* right size is the right object, although a crash can leave a shorter one
\* and although a part file may hold blocks of several attempts.
ObjectIntact == Len(object) = N => object = Intact

\* The attempt's next block goes past the end of its part file.
Ahead(c) == conn[c].phase = "send" /\ conn[c].sent > Len(data[conn[c].fd])

HasHole(blocks) == \E k \in 1 .. Len(blocks) : blocks[k] = "hole"

\* An attempt gets ahead of its part file only when another one, which claims a
\* smaller size, truncates the file under it; a hole is left only by an attempt
\* that is ahead.
HolesStep ==
    /\ \A c \in Conns : ~Ahead(c) /\ Ahead(c)' =>
          \E d \in Conns \ {c} : /\ conn[d].phase = "begin" /\ conn'[d].phase = "send"
                                /\ conn[d].size < PartSize
    /\ \A i \in Inodes : ~HasHole(data[i]) /\ HasHole(data'[i]) =>
          \E c \in Conns : Ahead(c) /\ conn[c].fd = i

\* Resuming never skips a block, whoever sent the others, unless an upload_begin
\* with a smaller size has truncated the part file in between.
HolesOnlyByTruncation == [][HolesStep]_vars

\* A complete object keeps its blocks in a step that keeps a reference to it.
KeptIntact ==
    Len(object) = N /\ (\/ shared /\ shared'
                        \/ row = "this" /\ row' = "this") => object' = object

\* An object that is referred to is never damaged: once complete it stays so as
\* long as the path, or another one, keeps its reference, although upload_end
\* unlinks it and writes it again when the path held the same content before.
ObjectStays == [][KeptIntact]_vars

\* The file gets to its path once the faults have stopped, whatever corrupt part
\* file, truncated object or unlinked descriptor they have left, with two
\* exceptions.  The path has an older version and the content is stored already:
\* instant_upload answers Conflict for ever, though an upload would be taken.
\* And a put that claimed just the size of what a crash left of the object has
\* been told that all is well.
EveryPutEnds ==
    \/ <>[](row = "this" /\ object = Intact)
    \/ <>[](row = "old" /\ object = Intact)
    \/ <>[](row = "this" /\ \E c \in Conns : conn[c].phase = "done"
                                            /\ conn[c].size = Len(object) /\ conn[c].size < N)
=============================================================================
