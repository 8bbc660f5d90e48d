--------------------------- MODULE TransferSteps ---------------------------
(***************************************************************************)
(* The handlers that change the object store, command by command.  A       *)
(* handler is the sequence of Redis, MySQL and file system commands it has *)
(* still to run; the replies of some of them decide how it goes on.  The   *)
(* server runs one handler at a time, so nothing of another connection     *)
(* comes between, but                                                      *)
(*  - the server may crash, or a command may throw, and the rest is lost   *)
(*    (nothing is undone and a restart repairs nothing): Interrupt;        *)
(*  - a command may fail without anybody noticing: redis_store.cpp takes   *)
(*    the missing reply for an empty string or 0, lookupFile answers       *)
(*    false, a failed unlink is logged: Unnoticed.                         *)
(* Directories are taken to be there when a handler resolves a path.  The  *)
(* key cs:objsize, which nothing reads, and the part file are left out.    *)
(***************************************************************************)
EXTENDS ObjectStore, FiniteSets

CONSTANTS
    FilePaths,    \* the paths of files
    DirPaths,     \* the directories clients remove
    RenamePairs,  \* the <<from, to>> clients rename
    MayFail,      \* the commands whose failure goes unnoticed
    MaxFaults     \* bound on the faults of a behaviour

ASSUME StepsAssumption ==
    /\ Paths \subseteq Seq(STRING)
    /\ FilePaths \subseteq Paths
    /\ DirPaths \subseteq Paths
    /\ FilePaths \cap DirPaths = {}
    /\ RenamePairs \subseteq FilePaths \X FilePaths
    /\ NoMd5 \notin Md5
    /\ "NEXTROW" \notin MayFail  \* it is the head of a loop and no command
    /\ MaxFaults \in Nat

VARIABLES
    store,      \* see ObjectStore
    prog,       \* the commands the running handler has still to run
    paths,      \* releaseIndexedUnderPrefix: the rows it has still to release
    faults,     \* the number of faults so far
    job,        \* what is expected of the running handler: see JobType
    disturbed,  \* the <<u, p>> named by a handler that met a fault since p was
                \* last written by one that did not
    misled      \* the contents for which an SCARD failed unnoticed

vars == <<store, prog, paths, faults, job, disturbed, misled>>

-----------------------------------------------------------------------------
(* Commands *)

Ops == {"GETPATH", "SETPATH", "DELPATH", "SADD", "SREM", "SCARD", "SETOBJ",
        "DELOBJ", "DELREFS", "LOOKUP", "PREVIOUS", "CONFLICT", "INSROW", "DELROW",
        "COPY", "UNLINK", "NEXTROW"}

Command == [op : Ops, u : Users, p : Paths, md5 : Digest]
Cmd(op, u, p, m) == [op |-> op, u |-> u, p |-> p, md5 |-> m]

RedisWrite(st, c) ==
    CASE c.op = "SETPATH" -> [st EXCEPT !.pathMd5[c.u][c.p] = c.md5]
      [] c.op = "DELPATH" -> [st EXCEPT !.pathMd5[c.u][c.p] = NoMd5]
      [] c.op = "SADD"    -> [st EXCEPT !.refs[c.md5] = @ \cup {<<c.u, c.p>>}]
      [] c.op = "SREM"    -> [st EXCEPT !.refs[c.md5] = @ \ {<<c.u, c.p>>}]
      [] c.op = "SETOBJ"  -> [st EXCEPT !.objMeta = @ \cup {c.md5}]
      [] c.op = "DELOBJ"  -> [st EXCEPT !.objMeta = @ \ {c.md5}]
      [] c.op = "DELREFS" -> [st EXCEPT !.refs[c.md5] = {}]
      [] OTHER            -> st

\* The statements of indexFile and unindex, the copy of copyToObjectStore
\* (skipped when the object is there) and the unlink of an object.
Write(st, c) ==
    CASE c.op = "INSROW" -> [st EXCEPT !.index[c.u][c.p] = FileRow(c.md5)]
      [] c.op = "DELROW" -> [st EXCEPT !.index[c.u][c.p] = NoRow]
      [] c.op = "COPY"   -> [st EXCEPT !.objects = @ \cup {c.md5}]
      [] c.op = "UNLINK" -> [st EXCEPT !.objects = @ \ {c.md5}]
      [] OTHER           -> RedisWrite(st, c)

-----------------------------------------------------------------------------
(* The functions of TransferService as sequences of commands *)

RemoveRef(u, p, m) == <<Cmd("SREM", u, p, m), Cmd("SCARD", u, p, m)>>

DeleteObject(u, p, m) ==
    <<Cmd("UNLINK", u, p, m), Cmd("DELOBJ", u, p, m), Cmd("DELREFS", u, p, m)>>

Unindexing(u, p) == <<Cmd("DELROW", u, p, NoMd5), Cmd("DELPATH", u, p, NoMd5)>>

Releasing(u, p) == <<Cmd("GETPATH", u, p, NoMd5)>> \o Unindexing(u, p)

Adding(u, p, m) ==
    <<Cmd("SADD", u, p, m), Cmd("INSROW", u, p, m), Cmd("SETPATH", u, p, m)>>

FinishUpload(u, p, m) ==
    <<Cmd("PREVIOUS", u, p, NoMd5), Cmd("COPY", u, p, m), Cmd("SETOBJ", u, p, m)>>
        \o Adding(u, p, m)

\* releaseIndexedUnderPrefix is not called.
Mutant_RowsLeft(u, d) == Unindexing(u, d)

RemoveDirectory(u, d) == <<Cmd("NEXTROW", u, d, NoMd5)>> \o Unindexing(u, d)

\* The cached md5 of the source goes last.
Mutant_DelLast(u, from, to, m) ==
    <<Cmd("SREM", u, from, m), Cmd("SADD", u, to, m), Cmd("INSROW", u, to, m),
      Cmd("SETPATH", u, to, m), Cmd("DELROW", u, from, NoMd5), Cmd("DELPATH", u, from, NoMd5)>>

Renaming(u, from, to, m) ==
    <<Cmd("SREM", u, from, m), Cmd("SADD", u, to, m), Cmd("DELPATH", u, from, NoMd5),
      Cmd("INSROW", u, to, m), Cmd("SETPATH", u, to, m), Cmd("DELROW", u, from, NoMd5)>>

-----------------------------------------------------------------------------
(* How a handler goes on *)

\* releaseContentRef with the md5 m, whether GET or the row had it.
WithMd5(u, p, m) == IF m = NoMd5 THEN << >> ELSE RemoveRef(u, p, m)

\* One reference counts as none.
Mutant_OneIsNone(c, n) == IF n <= 1 THEN DeleteObject(c.u, c.p, c.md5) ELSE << >>

\* releaseContentRef once SCARD has answered n.
AfterCount(c, n) == IF n <= 0 THEN DeleteObject(c.u, c.p, c.md5) ELSE << >>

RowMd5(st, c) == IF IsFile(st, c.u, c.p) THEN st.index[c.u][c.p].md5 ELSE NoMd5

\* What is left to do once c, at the head of the program, has been answered.
Continue(st, c, rest) ==
    CASE c.op = "GETPATH" ->
            (IF st.pathMd5[c.u][c.p] = NoMd5 THEN <<Cmd("LOOKUP", c.u, c.p, NoMd5)>>
             ELSE RemoveRef(c.u, c.p, st.pathMd5[c.u][c.p])) \o rest
      [] c.op = "LOOKUP"   -> WithMd5(c.u, c.p, RowMd5(st, c)) \o rest
      [] c.op = "SCARD"    -> AfterCount(c, Cardinality(st.refs[c.md5])) \o rest
      [] c.op = "PREVIOUS" -> (IF IsFile(st, c.u, c.p) THEN Releasing(c.u, c.p) ELSE << >>) \o rest
      [] c.op = "CONFLICT" -> IF IsFile(st, c.u, c.p) THEN << >> ELSE rest
      [] OTHER             -> rest

\* The same when c failed unnoticed: GET and lookupFile find nothing, SCARD is 0.
ContinueUnnoticed(c, rest) ==
    CASE c.op = "GETPATH" -> <<Cmd("LOOKUP", c.u, c.p, NoMd5)>> \o rest
      [] c.op = "SCARD"   -> AfterCount(c, 0) \o rest
      [] OTHER            -> rest

-----------------------------------------------------------------------------
(* Handlers *)

\* touched: the paths the handler names; goal: the store it should leave;
\* outcome: disturbed once it has ended without a fault.
JobType ==
    [touched : SUBSET (Users \X Paths), goal : StoreType,
     outcome : SUBSET (Users \X Paths), clean : BOOLEAN]

NoJob == [touched |-> {}, goal |-> EmptyStore, outcome |-> {}, clean |-> TRUE]

Begin(program, rows, touched, goal, outcome) ==
    /\ prog = << >>
    /\ prog' = program
    /\ paths' = rows
    /\ job' = [touched |-> touched, goal |-> goal, outcome |-> outcome, clean |-> TRUE]
    /\ UNCHANGED <<store, faults, disturbed, misled>>

\* upload_end of a complete part file.
Put(u, p, m) ==
    LET released == IF IsFile(store, u, p) THEN ReleaseContentRef(store, u, {p}) ELSE store IN
    Begin(FinishUpload(u, p, m), {}, {<<u, p>>},
          AddContentRef(PublishObject(released, m), u, p, m), disturbed \ {<<u, p>>})

\* instant_upload without overwrite, its proof checked against the object.
InstantUpload(u, p, m) ==
    /\ m \in store.objects
    /\ IF IsFile(store, u, p)
       THEN Begin(<<Cmd("CONFLICT", u, p, NoMd5)>> \o Adding(u, p, m), {}, {<<u, p>>},
                  store, disturbed)
       ELSE Begin(<<Cmd("CONFLICT", u, p, NoMd5)>> \o Adding(u, p, m), {}, {<<u, p>>},
                  AddContentRef(store, u, p, m), disturbed \ {<<u, p>>})

\* rm of a path that is no directory, whether or not it has a row.
Rm(u, p) ==
    Begin(Releasing(u, p), {}, {<<u, p>>},
          ReleaseContentRef(store, u, {p}), disturbed \ {<<u, p>>})

\* rm of a directory: the rows below it are selected first.
RmDirectory(u, d) ==
    LET rows == IndexedUnderPrefix(store, u, d)
        all  == {<<u, p>> : p \in rows \cup {d}}
    IN  Begin(RemoveDirectory(u, d), rows, all,
              Unindex(ReleaseContentRef(store, u, rows), u, {d}), disturbed \ all)

\* rename of an indexed file: the target inherits the faults of the source.
Rename(u, from, to) ==
    LET inherited == IF <<u, from>> \in disturbed THEN {<<u, to>>} ELSE {} IN
    /\ IsFile(store, u, from)
    /\ Begin(Renaming(u, from, to, store.index[u][from].md5), {}, {<<u, from>>, <<u, to>>},
             RenameIndexedFile(store, u, from, to),
             (disturbed \ {<<u, from>>, <<u, to>>}) \cup inherited)

-----------------------------------------------------------------------------
(* Steps of the running handler *)

\* The handler is over when no command is left.
Account(rest) ==
    IF rest # << >> THEN UNCHANGED <<job, disturbed>>
    ELSE /\ disturbed' = IF job.clean THEN job.outcome ELSE disturbed
         /\ job' = NoJob

\* A command that is executed and answered.
Execute ==
    /\ prog # << >>
    /\ Head(prog).op # "NEXTROW"
    /\ store' = Write(store, Head(prog))
    /\ prog' = Continue(store, Head(prog), Tail(prog))
    /\ Account(prog')
    /\ UNCHANGED <<paths, faults, misled>>

\* The loop of releaseIndexedUnderPrefix; SELECT gave the rows in any order.
NextRow ==
    /\ prog # << >>
    /\ Head(prog).op = "NEXTROW"
    /\ \/ /\ paths = {}
          /\ prog' = Tail(prog)
          /\ UNCHANGED paths
       \/ \E p \in paths :
             /\ paths' = paths \ {p}
             /\ prog' = Releasing(Head(prog).u, p) \o prog
    /\ UNCHANGED <<store, faults, job, disturbed, misled>>

Fault ==
    /\ prog # << >>
    /\ faults < MaxFaults
    /\ faults' = faults + 1
    /\ disturbed' = disturbed \cup job.touched
    /\ UNCHANGED store

\* The server crashes, or the next command throws.
Interrupt ==
    /\ Fault
    /\ prog' = << >>
    /\ paths' = {}
    /\ job' = NoJob
    /\ UNCHANGED misled

\* The next command fails and nobody notices.
Unnoticed ==
    /\ Fault
    /\ Head(prog).op \in MayFail
    /\ prog' = ContinueUnnoticed(Head(prog), Tail(prog))
    /\ job' = IF prog' = << >> THEN NoJob ELSE [job EXCEPT !.clean = FALSE]
    /\ misled' = IF Head(prog).op = "SCARD" THEN misled \cup {Head(prog).md5} ELSE misled
    /\ UNCHANGED paths

-----------------------------------------------------------------------------
(* Specification *)

Init ==
    /\ store = EmptyStore
    /\ prog = << >>
    /\ paths = {}
    /\ faults = 0
    /\ job = NoJob
    /\ disturbed = {}
    /\ misled = {}

Handler ==
    \E u \in Users :
        \/ \E p \in FilePaths, m \in Md5 : Put(u, p, m) \/ InstantUpload(u, p, m)
        \/ \E p \in FilePaths : Rm(u, p)
        \/ \E d \in DirPaths : RmDirectory(u, d)
        \/ \E r \in RenamePairs : Rename(u, r[1], r[2])

Next == Handler \/ Execute \/ NextRow \/ Interrupt \/ Unnoticed

Spec == Init /\ [][Next]_vars

-----------------------------------------------------------------------------
(* Properties *)

\* Every variable has its shape; a handler that is over has released every row
\* that releaseIndexedUnderPrefix selected, or was interrupted.
TypeOK ==
    /\ store \in StoreType
    /\ prog \in Seq(Command)
    /\ paths \subseteq FilePaths
    /\ faults \in 0 .. MaxFaults
    /\ job \in JobType
    /\ prog = << >> => paths = {} /\ job = NoJob
    /\ disturbed \subseteq Users \X Paths
    /\ misled \subseteq Md5

\* Row, cache, reference set and object of a path agree.
Agrees(u, p) ==
    LET m == HeldMd5(store, u, p) IN
    m # NoMd5 =>
        /\ IsFile(store, u, p) => store.index[u][p].md5 = m
        /\ store.pathMd5[u][p] = m
        /\ m \in misled \/ (<<u, p>> \in store.refs[m] /\ m \in store.objects)

\* Faults stay with the paths they happened to: whatever crashes and failed
\* commands there were in releaseContentRef, addContentRef, renameIndexedFile
\* and releaseIndexedUnderPrefix, a file whose own last handler ended without a
\* fault has its row, cached md5, reference and object, also when it shares its
\* content with files that were disturbed.  One fault only reaches further: an
\* SCARD without an answer counts as 0 and takes the object from everybody who
\* has that content.
UndisturbedReadable ==
    \A u \in Users, p \in Paths :
        <<u, p>> \notin disturbed \cup job.touched => Agrees(u, p)

\* The step that ends a handler in which nothing failed.
EndsClean ==
    /\ prog # << >> /\ prog' = << >>
    /\ job.clean /\ faults' = faults

\* From every state, those that earlier faults left behind included, a handler
\* without a fault has the effect that ObjectStore gives it: the order of the
\* commands (release before publish, DEL of the source before SET of the
\* target, the source row last) makes no difference to the result.
AtomicEffect == [][EndsClean => store' = job.goal]_vars
=============================================================================
