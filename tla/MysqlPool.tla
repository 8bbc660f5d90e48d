----------------------------- MODULE MysqlPool -----------------------------
(***************************************************************************)
(* The MySQL connection pool under the server's event loop.  One thread    *)
(* runs every request, so a request that blocks in acquire() blocks them   *)
(* all, and only a release by that same thread could wake it.  A request   *)
(* is the sequence of pool operations and queries its handler makes.  The  *)
(* database may go down and come back.                                     *)
(*                                                                         *)
(* Connections are reopened by the client library (MYSQL_OPT_RECONNECT):   *)
(* mysql_ping fails only while the database is down.  A reconnection that  *)
(* succeeds puts a new handle in the place of the old one; the model keeps *)
(* its name.                                                               *)
(***************************************************************************)
EXTENDS Integers, Sequences

CONSTANTS
    Clients,     \* the server's connections
    PoolSize,    \* mysql_pool_size
    MaxOutages   \* bound: how often the database goes down

ASSUME PoolAssumption == PoolSize \in Nat /\ MaxOutages \in Nat

VARIABLES
    idle,      \* idle_: the handles that can be acquired, a queue
    held,      \* the Conn objects alive in the running request, innermost last
    program,   \* what the running request still has to do
    serving,   \* the client whose request is running, or {}
    waiting,   \* clients whose request has not been answered
    dbUp,      \* the database answers
    outages    \* how often it has gone down

vars == <<idle, held, program, serving, waiting, dbUp, outages>>

-----------------------------------------------------------------------------
(* Requests.  "try" is an acquire whose failure is swallowed. *)

\* A handler that looks one row up (lookupFile, indexFile, registerUser...).
Lookup == <<"acquire", "query", "release">>

\* login: logLogin takes a second connection and ignores every failure, so that
\* its query failing is its connection's release.
Login == <<"acquire", "query", "try", "release", "release">>

\* The file's lookup is held as well while it is unindexed.
Mutant_DeeperNesting ==
    Lookup \o <<"acquire", "query", "acquire", "query">> \o Lookup \o <<"release", "release">>

\* rm of a directory with one indexed file: releaseIndexedUnderPrefix keeps
\* its connection while releaseContentRef looks the file up and unindexes it.
RmDirectory ==
    <<"acquire", "query", "release",     \* the row of the directory
      "acquire", "query",                \* the rows below it
          "acquire", "query", "release",    \* the row of the file
          "acquire", "query", "release",    \* its removal
      "release">>

Programs == {Lookup, Login, RmDirectory}
Operations == {"acquire", "query", "try", "release"}

-----------------------------------------------------------------------------
(* Actions *)

Send(c) ==
    /\ c \notin waiting
    /\ waiting' = waiting \cup {c}
    /\ UNCHANGED <<idle, held, program, serving, dbUp, outages>>

\* The event loop calls the connection's onRead.
Dispatch(c) ==
    /\ serving = {}
    /\ c \in waiting
    /\ serving' = {c}
    /\ program' \in Programs
    /\ UNCHANGED <<idle, held, waiting, dbUp, outages>>

\* The handler returns and the reply is sent.
Reply ==
    /\ serving # {}
    /\ program = << >>
    /\ waiting' = waiting \ serving
    /\ serving' = {}
    /\ UNCHANGED <<idle, held, program, dbUp, outages>>

\* acquire and ping succeed.
Acquire ==
    /\ program # << >>
    /\ Head(program) \in {"acquire", "try"}
    /\ idle # << >>
    /\ dbUp
    /\ held' = Append(held, Head(idle))
    /\ idle' = Tail(idle)
    /\ program' = Tail(program)
    /\ UNCHANGED <<serving, waiting, dbUp, outages>>

\* The connections of the failed request are not returned.
Mutant_NoRaii(pool) ==
    /\ held' = << >>
    /\ idle' = pool
    /\ program' = << >>

\* An exception leaves the handler: every Conn is destroyed, innermost first,
\* and the error is the reply.
Unwind(pool) ==
    /\ held' = << >>
    /\ idle' = pool \o [i \in 1 .. Len(held) |-> held[Len(held) + 1 - i]]
    /\ program' = << >>

\* acquire when the database is down: the handle is closed, connectOne throws,
\* and nothing takes its place in idle_.
AcquireFails ==
    /\ program # << >>
    /\ Head(program) = "acquire"
    /\ idle # << >>
    /\ ~dbUp
    /\ Unwind(Tail(idle))
    /\ UNCHANGED <<serving, waiting, dbUp, outages>>

\* The same in logLogin, which carries on without its connection.
TryFails ==
    /\ program # << >>
    /\ Head(program) = "try"
    /\ idle # << >>
    /\ ~dbUp
    /\ idle' = Tail(idle)
    /\ program' = Tail(Tail(program))
    /\ UNCHANGED <<held, serving, waiting, dbUp, outages>>

Query ==
    /\ program # << >>
    /\ Head(program) = "query"
    /\ dbUp
    /\ program' = Tail(program)
    /\ UNCHANGED <<idle, held, serving, waiting, dbUp, outages>>

\* MysqlStmt throws, or the handler does on what it has read (user exists,
\* wrong password, not found); the connections go back.
QueryFails ==
    /\ program # << >>
    /\ Head(program) = "query"
    /\ Unwind(idle)
    /\ UNCHANGED <<serving, waiting, dbUp, outages>>

\* The handle goes back twice (a Conn that was moved from releases it too).
Mutant_MovedFromReleases ==
    /\ program # << >>
    /\ Head(program) = "release"
    /\ idle' = idle \o <<held[Len(held)], held[Len(held)]>>
    /\ held' = SubSeq(held, 1, Len(held) - 1)
    /\ program' = Tail(program)
    /\ UNCHANGED <<serving, waiting, dbUp, outages>>

\* Conn's destructor.
Release ==
    /\ program # << >>
    /\ Head(program) = "release"
    /\ idle' = Append(idle, held[Len(held)])
    /\ held' = SubSeq(held, 1, Len(held) - 1)
    /\ program' = Tail(program)
    /\ UNCHANGED <<serving, waiting, dbUp, outages>>

DbDown ==
    /\ dbUp
    /\ outages < MaxOutages
    /\ dbUp' = FALSE
    /\ outages' = outages + 1
    /\ UNCHANGED <<idle, held, program, serving, waiting>>

DbUp ==
    /\ ~dbUp
    /\ dbUp' = TRUE
    /\ UNCHANGED <<idle, held, program, serving, waiting, outages>>

-----------------------------------------------------------------------------
(* Specification *)

\* The constructor opens every connection before the server accepts clients.
Init ==
    /\ idle = [i \in 1 .. PoolSize |-> i]
    /\ held = << >>
    /\ program = << >>
    /\ serving = {}
    /\ waiting = {}
    /\ dbUp = TRUE
    /\ outages = 0

\* A step of the event loop's thread inside the running request.
Run == Acquire \/ AcquireFails \/ TryFails \/ Query \/ QueryFails \/ Release \/ Reply

Next ==
    \/ Run
    \/ DbDown
    \/ DbUp
    \/ \E c \in Clients : Send(c) \/ Dispatch(c)

\* The thread runs on while it is not blocked, and epoll reports every
\* connection with unread input again on each turn of the loop, so none is
\* passed over for ever.
Fairness == WF_vars(Run) /\ \A c \in Clients : SF_vars(Dispatch(c))

Spec == Init /\ [][Next]_vars /\ Fairness

-----------------------------------------------------------------------------
(* Properties *)

\* Handles the pool still owns.
Alive == Len(idle) + Len(held)

\* Every variable has its type, and no handle is lent twice or is both lent and
\* idle: two requests never share a MYSQL connection.
TypeOK ==
    /\ idle \in Seq(1 .. PoolSize)
    /\ held \in Seq(1 .. PoolSize)
    /\ \A i, j \in DOMAIN (idle \o held) : (idle \o held)[i] = (idle \o held)[j] => i = j
    /\ program \in Seq(Operations)
    /\ waiting \subseteq Clients
    /\ serving \subseteq waiting
    /\ dbUp \in BOOLEAN
    /\ outages \in 0 .. MaxOutages

\* The pool shrinks only by a failed reconnection during an outage, one handle
\* at a time: whatever a handler throws, its connections go back.
HandlesReturn == [][Alive' < Alive => ~dbUp /\ Alive' = Alive - 1]_vars

\* Acquires nest at most two deep: the event loop blocks in acquire() only when
\* the pool has one handle left or none.
BlocksOnlyIfDrained ==
    program # << >> /\ Head(program) \in {"acquire", "try"} /\ idle = << >> => Alive < 2

\* A request is answered, whatever fails, unless the pool is down to one handle.
AnsweredUnlessDrained ==
    \A c \in Clients : c \in waiting ~> (c \notin waiting \/ Alive < 2)
=============================================================================
