----------------------------- MODULE ServerLife -----------------------------
(***************************************************************************)
(* The life of the server process and of the sessions it serves: start-up  *)
(* against a MySQL and a Redis that may not be there yet (server.cpp), the *)
(* default accounts (auth.cpp), connections that come, go, vanish and time *)
(* out (connection.cpp), login, token resumption and logout, across        *)
(* crashes of the server and outages of Redis.  Accounts, user roots and   *)
(* Redis sessions outlive the process; connections and what they have open *)
(* do not.                                                                 *)
(*                                                                         *)
(* RedisStore notices an outage late: the first command on a broken        *)
(* connection is lost without an error, the next one reconnects or throws  *)
(* (redis_store.cpp, ensure), and a Redis that is loading its data answers *)
(* every command with an error that the callers take for an empty reply.   *)
(***************************************************************************)
EXTENDS Naturals, Sequences, FiniteSets

CONSTANTS
    Conns,           \* connections
    MaxConnections,  \* cfg_.maxConnections
    Clients,         \* the accounts clients register and log in to
    Tokens,          \* session tokens; bound on the number of logins
    UserOf,          \* whose login a token will come from: a token is random and
                     \* used once, so that this can be fixed in advance
    MaxAttempts,     \* start-up attempts: 30 in the code
    None             \* no user, no token

DefaultUsers == <<"admin", "alice", "bob">>
Names == Clients \cup {"admin", "alice", "bob"}

ASSUME ServerAssumption ==
    /\ MaxConnections \in Nat \ {0}
    /\ MaxAttempts \in Nat \ {0}
    /\ UserOf \in [Tokens -> Clients]
    /\ None \notin Names \cup Tokens \cup Conns

VARIABLES
    phase,      \* where main and Server's constructor are
    attempt,    \* the iterations of the start-up loop so far, 0 after it
    pointers,   \* which of mysql_ and redis_ are set
    mysqlUp,    \* MySQL answers
    redis,      \* "down", "loading" or "up"
    redisCtx,   \* ctx_: "none" (null, or its err is set), "good", "broken"
    accounts,   \* the table users
    roots,      \* the directories under users/
    sessions,   \* sessions[t]: the user cs:session:<t> names, or None
    conn,       \* conn[c]: see ConnType
    checking,   \* checkToken between its GET and its SETEX
    issued,     \* the tokens that logins have returned (history)
    loggedOut   \* the tokens whose DEL Redis executed (history)

starting == <<phase, attempt, pointers>>
backends == <<mysqlUp, redis>>
users    == <<accounts, roots>>
history  == <<issued, loggedOut>>
vars     == <<phase, attempt, pointers, mysqlUp, redis, redisCtx, accounts, roots,
              sessions, conn, checking, issued, loggedOut>>

-----------------------------------------------------------------------------
(* State *)

Phases == {"down", "starting", "counting", "seeding", "seeded", "listening"}

\* session_ (authed_ is token # None) and under which session a transfer was
\* begun.  A connection has upload_ and download_; they do not interact and are
\* treated alike here, so that the module follows one of them.
Opened == [user : Names \cup {None}, token : Tokens \cup {None}]
Nothing == [user |-> None, token |-> None]
ConnType == [peer : {"none", "there", "gone"}, session : Opened,
             transfer : Opened]
Closed == [peer |-> "none", session |-> Nothing, transfer |-> Nothing]
NoCheck == [c |-> None, t |-> None, user |-> None]

AllClosed == conn' = [c \in Conns |-> Closed] /\ checking' = NoCheck

-----------------------------------------------------------------------------
(* A Redis command *)

Connected == redisCtx = "good" \/ (redisCtx = "none" /\ redis # "down")

Executed == Connected /\ redis = "up" /\ redisCtx' = "good"

\* The caller gets the default reply.
Lost ==
    \/ redisCtx = "broken" /\ redisCtx' = "none"
    \/ Connected /\ redis = "loading" /\ redisCtx' = "good"

\* ensure throws.
Throws == redisCtx = "none" /\ redis = "down" /\ UNCHANGED redisCtx

-----------------------------------------------------------------------------
(* Start-up *)

Start ==
    /\ phase = "down"
    /\ phase' = "starting"
    /\ attempt' = 0
    /\ pointers' = {}
    /\ redisCtx' = "none"
    /\ UNCHANGED <<mysqlUp, redis, accounts, roots, sessions, conn, checking, history>>

Trying == phase = "starting" /\ attempt < MaxAttempts

\* The loop ends without an exception only here.
AttemptSucceeds ==
    /\ Trying
    /\ mysqlUp
    /\ redis = "up"
    /\ pointers' = {"mysql", "redis"}
    /\ redisCtx' = "good"
    /\ phase' = "counting"
    /\ attempt' = 0
    /\ UNCHANGED <<backends, users, sessions, conn, checking, history>>

\* The attempt is not counted.
Mutant_TriesForEver ==
    /\ Trying
    /\ ~mysqlUp
    /\ UNCHANGED vars

\* MysqlPool's constructor throws: nothing is assigned.
MysqlRefuses ==
    /\ Trying
    /\ ~mysqlUp
    /\ attempt' = attempt + 1
    /\ UNCHANGED <<phase, pointers, redisCtx, backends, users, sessions, conn, checking, history>>

\* RedisStore's constructor throws: mysql_ has been assigned, redis_ keeps what
\* an earlier attempt gave it.
RedisRefuses ==
    /\ Trying
    /\ mysqlUp
    /\ redis = "down"
    /\ pointers' = pointers \cup {"mysql"}
    /\ attempt' = attempt + 1
    /\ UNCHANGED <<phase, redisCtx, backends, users, sessions, conn, checking, history>>

\* Redis lets us connect but does not answer PONG: both are assigned.
PingFails ==
    /\ Trying
    /\ mysqlUp
    /\ redis = "loading"
    /\ pointers' = {"mysql", "redis"}
    /\ redisCtx' = "good"
    /\ attempt' = attempt + 1
    /\ UNCHANGED <<phase, backends, users, sessions, conn, checking, history>>

\* One pointer is enough.
Mutant_EitherPointer ==
    /\ phase = "starting"
    /\ attempt = MaxAttempts
    /\ phase' = IF pointers = {} THEN "down" ELSE "counting"
    /\ attempt' = 0
    /\ UNCHANGED <<pointers, redisCtx, backends, users, sessions, conn, checking, history>>

\* After the last attempt only the pointers are looked at, not the last error.
AttemptsExhausted ==
    /\ phase = "starting"
    /\ attempt = MaxAttempts
    /\ phase' = IF pointers = {"mysql", "redis"} THEN "counting" ELSE "down"
    /\ attempt' = 0
    /\ UNCHANGED <<pointers, redisCtx, backends, users, sessions, conn, checking, history>>

\* ensureDefaultUsers: the table is seeded only when it is empty; an exception
\* ends the process.
CountUsers ==
    /\ phase = "counting"
    /\ phase' = IF ~mysqlUp THEN "down" ELSE IF accounts # {} THEN "seeded" ELSE "seeding"
    /\ UNCHANGED <<attempt, pointers, redisCtx, backends, users, sessions, conn, checking, history>>

\* ensureUserRoot makes the directory unless it is there.
EnsureUserRoot(n) == roots' = roots \cup {n}

\* The default accounts that are not there yet, in the order they are made.
Missing(n) ==
    /\ n \notin accounts
    /\ \E i \in 1 .. Len(DefaultUsers) :
          DefaultUsers[i] = n /\ \A j \in 1 .. i - 1 : DefaultUsers[j] \in accounts

\* registerUser of a default account.  A failure ends the process; the root
\* directory has been made by then.
Seed(n) ==
    /\ phase = "seeding"
    /\ Missing(n)
    /\ EnsureUserRoot(n)
    /\ accounts' = IF mysqlUp THEN accounts \cup {n} ELSE accounts
    /\ phase' = IF ~mysqlUp THEN "down"
                ELSE IF \A i \in 1 .. Len(DefaultUsers) : DefaultUsers[i] \in accounts'
                     THEN "seeded" ELSE "seeding"
    /\ UNCHANGED <<attempt, pointers, redisCtx, backends, sessions, conn, checking, history>>

\* run: the port may be taken.
Listen ==
    /\ phase = "seeded"
    /\ phase' \in {"listening", "down"}
    /\ UNCHANGED <<attempt, pointers, redisCtx, backends, users, sessions, conn, checking, history>>

-----------------------------------------------------------------------------
(* Connections *)

\* A thread for every connection.
Mutant_Threads == phase = "listening"

\* The event loop is free: it runs one handler at a time.
Idle == phase = "listening" /\ checking = NoCheck

Unchanged == UNCHANGED <<starting, backends, users>>

Accept(c) ==
    /\ Idle
    /\ conn[c] = Closed
    /\ Cardinality({d \in Conns : conn[d] # Closed}) < MaxConnections
    /\ conn' = [conn EXCEPT ![c].peer = "there"]
    /\ UNCHANGED <<redisCtx, sessions, checking, history>> /\ Unchanged

\* The peer is cut off; no segment tells the server.
Vanish(c) ==
    /\ conn[c].peer = "there"
    /\ conn' = [conn EXCEPT ![c].peer = "gone"]
    /\ UNCHANGED <<redisCtx, sessions, checking, history>> /\ Unchanged

\* Only the end of the stream closes a connection.
Mutant_NoTimeout(c) ==
    /\ Idle
    /\ conn[c].peer = "there"
    /\ conn' = [conn EXCEPT ![c] = Closed]
    /\ UNCHANGED <<redisCtx, sessions, checking, history>> /\ Unchanged

\* The peer closes, or nothing comes for connIdleTimeoutSec.
Close(c) ==
    /\ Idle
    /\ conn[c] # Closed
    /\ conn' = [conn EXCEPT ![c] = Closed]
    /\ UNCHANGED <<redisCtx, sessions, checking, history>> /\ Unchanged

\* A request of c has been read.
Request(c) == Idle /\ conn[c].peer = "there"
LoggedIn(c) == Request(c) /\ conn[c].session # Nothing

\* The row is inserted before the directory is made.
Mutant_RowFirst(c, n) ==
    /\ Request(c)
    /\ mysqlUp
    /\ n \notin accounts
    /\ accounts' = accounts \cup {n}
    /\ roots' \in {roots, roots \cup {n}}
    /\ UNCHANGED <<starting, backends, redisCtx, sessions, conn, checking, history>>

\* register: the directory, then the row; the row may be refused.  It does not
\* log in.
Register(c, n) ==
    /\ Request(c)
    /\ EnsureUserRoot(n)
    /\ accounts' = IF mysqlUp THEN accounts \cup {n} ELSE accounts
    /\ UNCHANGED <<starting, backends, redisCtx, sessions, conn, checking, history>>

\* login with the right password: a new token each time.  A token the
\* connection had before stays valid in Redis.
Login(c, t) ==
    LET n == UserOf[t] IN
    /\ Request(c)
    /\ mysqlUp
    /\ n \in accounts
    /\ t \notin issued
    /\ \/ Executed /\ sessions' = [sessions EXCEPT ![t] = n]
       \/ Lost /\ UNCHANGED sessions
    /\ issued' = issued \cup {t}
    /\ conn' = [conn EXCEPT ![c].session = [user |-> n, token |-> t]]
    /\ EnsureUserRoot(n)
    /\ UNCHANGED <<starting, backends, accounts, checking, loggedOut>>

\* A request with a token on a connection that is not logged in: checkToken
\* asks Redis for the session.  A reply that is lost reads "session expired".
ResumeGet(c, t) ==
    /\ Request(c)
    /\ conn[c].session = Nothing
    /\ t \in issued
    /\ \/ Executed /\ checking' = IF sessions[t] = None THEN NoCheck
                                  ELSE [c |-> c, t |-> t, user |-> sessions[t]]
       \/ Lost /\ UNCHANGED checking
    /\ UNCHANGED <<sessions, conn, history>> /\ Unchanged

Resumed == [user |-> checking.user, token |-> checking.t]

\* It then writes back what it read, for another sessionTtlSec.
ResumeSet ==
    /\ checking # NoCheck
    /\ \/ /\ Executed
          /\ sessions' = [sessions EXCEPT ![checking.t] = checking.user]
          /\ conn' = [conn EXCEPT ![checking.c].session = Resumed]
       \/ /\ Lost
          /\ conn' = [conn EXCEPT ![checking.c].session = Resumed]
          /\ UNCHANGED sessions
       \/ Throws /\ UNCHANGED <<sessions, conn>>
    /\ checking' = NoCheck
    /\ UNCHANGED history /\ Unchanged

\* logout: an upload or download that is open stays open.  When DEL throws the
\* connection stays logged in; when it is lost the session survives.
Logout(c) ==
    LET t == conn[c].session.token IN
    /\ LoggedIn(c)
    /\ \/ /\ Executed
          /\ sessions' = [sessions EXCEPT ![t] = None]
          /\ loggedOut' = loggedOut \cup {t}
       \/ Lost /\ UNCHANGED <<sessions, loggedOut>>
    /\ conn' = [conn EXCEPT ![c].session = Nothing]
    /\ UNCHANGED <<checking, issued>> /\ Unchanged

\* upload_begin or download_begin.
TransferBegin(c) ==
    /\ LoggedIn(c)
    /\ conn' = [conn EXCEPT ![c].transfer = conn[c].session]
    /\ UNCHANGED <<redisCtx, sessions, checking, history>> /\ Unchanged

\* upload_end, whoever is logged in by now.
TransferEnd(c) ==
    /\ LoggedIn(c)
    /\ conn[c].transfer # Nothing
    /\ conn' = [conn EXCEPT ![c].transfer = Nothing]
    /\ UNCHANGED <<redisCtx, sessions, checking, history>> /\ Unchanged

-----------------------------------------------------------------------------
(* The environment *)

MysqlChanges ==
    /\ mysqlUp' = ~mysqlUp
    /\ UNCHANGED <<starting, redis, redisCtx, users, sessions, conn, checking, history>>

\* Redis goes down, comes back and loads its data; it keeps the sessions.
RedisChanges ==
    /\ redis' = IF redis = "up" THEN "down" ELSE IF redis = "down" THEN "loading" ELSE "up"
    /\ redisCtx' = IF redis = "up" /\ redisCtx = "good" THEN "broken" ELSE redisCtx
    /\ UNCHANGED <<starting, mysqlUp, users, sessions, conn, checking, history>>

Expire(t) ==
    /\ sessions[t] # None
    /\ sessions' = [sessions EXCEPT ![t] = None]
    /\ UNCHANGED <<redisCtx, conn, checking, history>> /\ Unchanged

\* The process ends: a signal, or a crash in the middle of start-up or of a
\* handler.  What is in MySQL, in Redis and on the disk stays.
Crash ==
    /\ phase # "down"
    /\ phase' = "down"
    /\ attempt' = 0
    /\ pointers' = {}
    /\ redisCtx' = "none"
    /\ AllClosed
    /\ UNCHANGED <<backends, users, sessions, history>>

-----------------------------------------------------------------------------
(* Specification *)

Init ==
    /\ phase = "down"
    /\ attempt = 0
    /\ pointers = {}
    /\ mysqlUp = TRUE
    /\ redis = "up"
    /\ redisCtx = "none"
    /\ accounts = {}
    /\ roots = {}
    /\ sessions = [t \in Tokens |-> None]
    /\ conn = [c \in Conns |-> Closed]
    /\ checking = NoCheck
    /\ issued = {}
    /\ loggedOut = {}

StartUp ==
    \/ AttemptSucceeds
    \/ MysqlRefuses
    \/ RedisRefuses
    \/ PingFails
    \/ AttemptsExhausted
    \/ CountUsers
    \/ \E n \in Names : Seed(n)
    \/ Listen

Serve(c) ==
    \/ Accept(c)
    \/ \E n \in Clients : Register(c, n)
    \/ \E t \in Tokens : Login(c, t) \/ ResumeGet(c, t)
    \/ Logout(c)
    \/ TransferBegin(c)
    \/ TransferEnd(c)

Environment ==
    \/ \E c \in Conns : Vanish(c)
    \/ MysqlChanges
    \/ RedisChanges
    \/ \E t \in Tokens : Expire(t)
    \/ Crash

Next ==
    \/ Start
    \/ StartUp
    \/ \E c \in Conns : Serve(c) \/ Close(c)
    \/ ResumeSet
    \/ Environment

\* main runs on, the event loop finishes the handler it is in, and libevent
\* looks at its timers between handlers, so that the requests of others cannot
\* put an idle timeout off for ever.
Fairness ==
    /\ WF_vars(StartUp)
    /\ WF_vars(ResumeSet)
    /\ \A c \in Conns : SF_vars(conn[c].peer = "gone" /\ Close(c))

Spec == Init /\ [][Next]_vars /\ Fairness

-----------------------------------------------------------------------------
(* Properties *)

\* Every variable has its shape; a RedisStore that believes in its connection has
\* not missed an outage; and AuthService and TransferService are built on pointers
\* that are set, whatever order MySQL and Redis came and went in during the
\* attempts, although the loop may end with its last attempt failed.
TypeOK ==
    /\ phase \in Phases
    /\ attempt \in 0 .. MaxAttempts
    /\ pointers \subseteq {"mysql", "redis"}
    /\ phase \notin {"down", "starting"} => pointers = {"mysql", "redis"}
    /\ mysqlUp \in BOOLEAN
    /\ redis \in {"down", "loading", "up"}
    /\ redisCtx \in {"none", "good", "broken"}
    /\ redisCtx = "good" => redis # "down"
    /\ accounts \subseteq Names
    /\ roots \subseteq Names
    /\ sessions \in [Tokens -> Names \cup {None}]
    /\ conn \in [Conns -> ConnType]
    /\ checking \in [c : Conns \cup {None}, t : Tokens \cup {None}, user : Names \cup {None}]
    /\ issued \subseteq Tokens
    /\ loggedOut \subseteq Tokens

\* A server that listens has its administrator, also when an earlier start was
\* cut in the middle of ensureDefaultUsers (which then never makes the rest of
\* the default accounts), and every account has its root directory.
AccountsUsable ==
    /\ phase = "listening" => "admin" \in accounts
    /\ accounts \subseteq roots

\* A logout that reached Redis is final: no checkToken under way writes the
\* session back, and no connection that was not using the token gets in with it.
LogoutIsFinal ==
    [][\A t \in loggedOut :
          /\ sessions'[t] = None
          /\ \A c \in Conns : conn'[c].session.token = t => conn[c].session.token = t]_vars

\* The start-up loop is bounded: a start either serves or gives up.
StartUpDecides == phase = "starting" ~> phase \in {"listening", "down"}

\* A connection whose peer vanished gives its place back (its descriptors, and
\* its share of maxConnections), by the idle timeout.
VanishedFreed == \A c \in Conns : conn[c].peer = "gone" ~> conn[c] = Closed
=============================================================================
