---------------------------- MODULE ServerProofs ----------------------------
(***************************************************************************)
(* Proofs about ServerLife, for any number of connections, clients, tokens *)
(* and start-up attempts.                                                  *)
(***************************************************************************)
EXTENDS ServerLife, TLAPS

-----------------------------------------------------------------------------
(* Records *)

\* The named records are records of their types.
LEMMA RecordTypes ==
    /\ Nothing \in Opened
    /\ Closed \in ConnType
    /\ NoCheck \in [c : Conns \cup {None}, t : Tokens \cup {None}, user : Names \cup {None}]
    /\ \A n \in Names \cup {None}, t \in Tokens \cup {None} : [user |-> n, token |-> t] \in Opened
    /\ \A t \in Tokens : UserOf[t] \in Names
BY ServerAssumption DEF Nothing, Opened, Closed, ConnType, NoCheck, Names

\* Assigning session_ leaves the rest of a connection alone.
LEMMA SessionAssigned ==
    ASSUME NEW f \in [Conns -> ConnType], NEW c \in Conns, NEW o \in Opened
    PROVE  LET g == [f EXCEPT ![c].session = o]
           IN  /\ g \in [Conns -> ConnType]
               /\ \A d \in Conns : /\ g[d].session = IF d = c THEN o ELSE f[d].session
                                   /\ g[d].transfer = f[d].transfer
BY DEF ConnType

\* So does beginning or ending a transfer.
LEMMA TransferAssigned ==
    ASSUME NEW f \in [Conns -> ConnType], NEW c \in Conns, NEW o \in Opened
    PROVE  LET g == [f EXCEPT ![c].transfer = o]
           IN  /\ g \in [Conns -> ConnType]
               /\ \A d \in Conns : /\ g[d].session = f[d].session
                                   /\ g[d].transfer = IF d = c THEN o ELSE f[d].transfer
BY DEF ConnType

\* A peer that comes or vanishes changes neither.
LEMMA PeerAssigned ==
    ASSUME NEW f \in [Conns -> ConnType], NEW c \in Conns, NEW p \in {"there", "gone"}
    PROVE  LET g == [f EXCEPT ![c].peer = p]
           IN  /\ g \in [Conns -> ConnType]
               /\ \A d \in Conns : g[d].session = f[d].session /\ g[d].transfer = f[d].transfer
BY DEF ConnType

\* A connection that is closed forgets both.
LEMMA ConnClosed ==
    ASSUME NEW f \in [Conns -> ConnType], NEW c \in Conns
    PROVE  LET g == [f EXCEPT ![c] = Closed]
           IN  /\ g \in [Conns -> ConnType]
               /\ \A d \in Conns : /\ g[d].session = IF d = c THEN Nothing ELSE f[d].session
                                   /\ g[d].transfer = IF d = c THEN Nothing ELSE f[d].transfer
BY RecordTypes DEF ConnType, Closed

\* Who a session says it is, and whose token it has.
Own(o) == o.user = IF o.token = None THEN None ELSE UserOf[o.token]

\* A part of the invariant: user and token of a session go together.
TokensOwned ==
    /\ \A t \in Tokens : sessions[t] \in {None, UserOf[t]}
    /\ \A c \in Conns : Own(conn[c].session) /\ Own(conn[c].transfer)

\* A connection that is logged in has a token.
LEMMA LoggedInToken ==
    ASSUME TypeOK, TokensOwned, NEW c \in Conns, conn[c].session # Nothing
    PROVE  conn[c].session.token \in Tokens
<1>1. conn[c].session \in Opened
  BY DEF TypeOK, ConnType
<1>2. conn[c].session.token = None => conn[c].session.user = None
  BY DEF TokensOwned, Own
<1>3. conn[c].session.token # None
  BY <1>1, <1>2 DEF Opened, Nothing
<1> QED BY <1>1, <1>3 DEF Opened

-----------------------------------------------------------------------------
(* Types *)

\* Every step of the server, its clients and its environment keeps the types.
LEMMA TypeStep == TypeOK /\ TokensOwned /\ [Next]_vars => TypeOK'
<1> SUFFICES ASSUME TypeOK, TokensOwned, [Next]_vars PROVE TypeOK'
  OBVIOUS
<1> USE DEF starting, backends, users, history, Unchanged
<1>1. CASE UNCHANGED vars
  BY <1>1 DEF vars, TypeOK
<1>2. CASE Start
  BY <1>2, ServerAssumption DEF Start, TypeOK, Phases
<1>3. CASE AttemptSucceeds
  BY <1>3, ServerAssumption DEF AttemptSucceeds, TypeOK, Phases
<1>4. CASE MysqlRefuses
  BY <1>4, ServerAssumption DEF MysqlRefuses, Trying, TypeOK, Phases
<1>5. CASE RedisRefuses
  BY <1>5, ServerAssumption DEF RedisRefuses, Trying, TypeOK, Phases
<1>6. CASE PingFails
  BY <1>6, ServerAssumption DEF PingFails, Trying, TypeOK, Phases
<1>7. CASE AttemptsExhausted
  BY <1>7, ServerAssumption DEF AttemptsExhausted, TypeOK, Phases
<1>8. CASE CountUsers
  BY <1>8 DEF CountUsers, TypeOK, Phases
<1>9. ASSUME NEW n \in Names, Seed(n) PROVE TypeOK'
  BY <1>9 DEF Seed, EnsureUserRoot, TypeOK, Phases
<1>10. CASE Listen
  BY <1>10 DEF Listen, TypeOK, Phases
<1>11. ASSUME NEW c \in Conns, Accept(c) PROVE TypeOK'
  BY <1>11, PeerAssigned DEF Accept, TypeOK
<1>12. ASSUME NEW c \in Conns, NEW n \in Clients, Register(c, n) PROVE TypeOK'
  BY <1>12 DEF Register, EnsureUserRoot, TypeOK, Names
<1>13. ASSUME NEW c \in Conns, NEW t \in Tokens, Login(c, t) PROVE TypeOK'
  <2>1. conn' \in [Conns -> ConnType]
    BY <1>13, SessionAssigned, RecordTypes DEF Login, TypeOK
  <2>2. redisCtx' \in {"none", "good", "broken"} /\ (redisCtx' = "good" => redis' # "down")
    BY <1>13 DEF Login, Executed, Lost, Connected, TypeOK
  <2>3. sessions' \in [Tokens -> Names \cup {None}]
    BY <1>13, RecordTypes DEF Login, TypeOK
  <2> QED BY <1>13, <2>1, <2>2, <2>3, RecordTypes DEF Login, EnsureUserRoot, TypeOK
<1>14. ASSUME NEW c \in Conns, NEW t \in Tokens, ResumeGet(c, t) PROVE TypeOK'
  <2>1. checking' \in [c : Conns \cup {None}, t : Tokens \cup {None}, user : Names \cup {None}]
    BY <1>14, RecordTypes DEF ResumeGet, TypeOK
  <2>2. redisCtx' \in {"none", "good", "broken"} /\ (redisCtx' = "good" => redis' # "down")
    BY <1>14 DEF ResumeGet, Executed, Lost, Connected, TypeOK
  <2> QED BY <1>14, <2>1, <2>2 DEF ResumeGet, TypeOK
<1>15. ASSUME NEW c \in Conns, Logout(c) PROVE TypeOK'
  <2>1. conn' \in [Conns -> ConnType]
    BY <1>15, SessionAssigned, RecordTypes DEF Logout, TypeOK
  <2>2. redisCtx' \in {"none", "good", "broken"} /\ (redisCtx' = "good" => redis' # "down")
    BY <1>15 DEF Logout, Executed, Lost, Connected, TypeOK
  <2>3. sessions' \in [Tokens -> Names \cup {None}]
    BY <1>15 DEF Logout, TypeOK
  <2>4. loggedOut' \subseteq Tokens
    BY <1>15, LoggedInToken DEF Logout, LoggedIn, TypeOK
  <2> QED BY <1>15, <2>1, <2>2, <2>3, <2>4 DEF Logout, TypeOK
<1>16. ASSUME NEW c \in Conns, TransferBegin(c) PROVE TypeOK'
  <2>1. conn[c].session \in Opened
    BY DEF TypeOK, ConnType
  <2> QED BY <1>16, <2>1, TransferAssigned DEF TransferBegin, TypeOK
<1>17. ASSUME NEW c \in Conns, TransferEnd(c) PROVE TypeOK'
  BY <1>17, TransferAssigned, RecordTypes DEF TransferEnd, TypeOK
<1>18. ASSUME NEW c \in Conns, Close(c) PROVE TypeOK'
  BY <1>18, ConnClosed DEF Close, TypeOK
<1>19. CASE ResumeSet
  <2>1. Resumed \in Opened
    BY RecordTypes DEF Resumed, TypeOK
  <2>2. conn' \in [Conns -> ConnType]
    <3>1. conn \in [Conns -> ConnType]
      BY DEF TypeOK
    <3>2. [conn EXCEPT ![checking.c].session = Resumed] \in [Conns -> ConnType]
      <4>1. CASE checking.c \in Conns
        BY <2>1, <3>1, <4>1, SessionAssigned
      <4>2. CASE checking.c \notin Conns
        BY <3>1, <4>2
      <4> QED BY <4>1, <4>2
    <3> QED BY <1>19, <3>1, <3>2 DEF ResumeSet
  <2>3. redisCtx' \in {"none", "good", "broken"} /\ (redisCtx' = "good" => redis' # "down")
    BY <1>19 DEF ResumeSet, Executed, Lost, Throws, Connected, TypeOK
  <2>4. sessions' \in [Tokens -> Names \cup {None}]
    BY <1>19 DEF ResumeSet, TypeOK
  <2> QED BY <1>19, <2>2, <2>3, <2>4, RecordTypes DEF ResumeSet, TypeOK
<1>20. ASSUME NEW c \in Conns, Vanish(c) PROVE TypeOK'
  BY <1>20, PeerAssigned DEF Vanish, TypeOK
<1>21. CASE MysqlChanges
  BY <1>21 DEF MysqlChanges, TypeOK
<1>22. CASE RedisChanges
  BY <1>22 DEF RedisChanges, TypeOK
<1>23. ASSUME NEW t \in Tokens, Expire(t) PROVE TypeOK'
  BY <1>23 DEF Expire, TypeOK
<1>24. CASE Crash
  BY <1>24, RecordTypes, ServerAssumption DEF Crash, AllClosed, TypeOK, Phases
<1> QED
  BY <1>1, <1>2, <1>3, <1>4, <1>5, <1>6, <1>7, <1>8, <1>9, <1>10, <1>11, <1>12, <1>13, <1>14,
     <1>15, <1>16, <1>17, <1>18, <1>19, <1>20, <1>21, <1>22, <1>23, <1>24
     DEF Next, StartUp, Serve, Environment

-----------------------------------------------------------------------------
(* Accounts *)

\* The administrator is the first account: ensureDefaultUsers makes it before
\* the others, and clients register only with a server that listens.
AdminFirst ==
    /\ accounts # {} => "admin" \in accounts
    /\ phase \in {"seeded", "listening"} => accounts # {}
    /\ accounts \subseteq roots

\* Every step keeps AdminFirst.
LEMMA AccountsStep == TypeOK /\ AdminFirst /\ [Next]_vars => AdminFirst'
<1> SUFFICES ASSUME TypeOK, AdminFirst, [Next]_vars PROVE AdminFirst'
  OBVIOUS
<1> USE DEF starting, backends, users, history, Unchanged
<1>1. ASSUME UNCHANGED users, phase' \in {phase, "down", "starting", "counting"} PROVE AdminFirst'
  BY <1>1 DEF AdminFirst
<1>2. CASE UNCHANGED vars
  BY <1>2, <1>1 DEF vars
<1>3. CASE Start \/ AttemptSucceeds \/ MysqlRefuses \/ RedisRefuses \/ PingFails
  BY <1>3, <1>1 DEF Start, AttemptSucceeds, MysqlRefuses, RedisRefuses, PingFails
<1>4. CASE AttemptsExhausted \/ Environment
  BY <1>4, <1>1 DEF AttemptsExhausted, Environment, Vanish, MysqlChanges, RedisChanges, Expire, Crash
<1>5. CASE CountUsers
  BY <1>5 DEF CountUsers, AdminFirst
<1>6. ASSUME NEW n \in Names, Seed(n) PROVE AdminFirst'
  <2>1. PICK i \in 1 .. Len(DefaultUsers) :
           DefaultUsers[i] = n /\ \A j \in 1 .. i - 1 : DefaultUsers[j] \in accounts
    BY <1>6 DEF Seed, Missing
  <2>2. n = "admin" \/ "admin" \in accounts
    <3>1. Len(DefaultUsers) = 3 /\ DefaultUsers[1] = "admin"
      BY DEF DefaultUsers
    <3>2. i = 1 \/ 1 \in 1 .. i - 1
      BY <3>1
    <3> QED BY <2>1, <3>1, <3>2
  <2>3. ASSUME phase' \in {"seeded", "listening"} PROVE accounts' # {}
    BY <1>6, <2>3 DEF Seed
  <2> QED BY <1>6, <2>2, <2>3 DEF Seed, EnsureUserRoot, AdminFirst
<1>7. CASE Listen
  BY <1>7 DEF Listen, AdminFirst
<1>8. ASSUME NEW c \in Conns, NEW n \in Clients, Register(c, n) PROVE AdminFirst'
  BY <1>8 DEF Register, Request, Idle, EnsureUserRoot, AdminFirst
<1>9. ASSUME NEW c \in Conns, NEW t \in Tokens, Login(c, t) PROVE AdminFirst'
  BY <1>9 DEF Login, EnsureUserRoot, AdminFirst
<1>10. ASSUME NEW c \in Conns,
              \/ Accept(c) \/ Logout(c) \/ TransferBegin(c) \/ TransferEnd(c) \/ Close(c)
              \/ \E t \in Tokens : ResumeGet(c, t)
       PROVE  AdminFirst'
  BY <1>10, <1>1 DEF Accept, Logout, TransferBegin, TransferEnd, Close, ResumeGet
<1>11. CASE ResumeSet
  BY <1>11, <1>1 DEF ResumeSet
<1> QED
  BY <1>2, <1>3, <1>4, <1>5, <1>6, <1>7, <1>8, <1>9, <1>10, <1>11 DEF Next, StartUp, Serve

-----------------------------------------------------------------------------
(* Sessions *)

\* Tokens in use were issued, one that is logged out has no session, and a
\* checkToken under way is about a session of its token's user that has not been
\* logged out.
SessionKept ==
    /\ checking # NoCheck => /\ checking.c \in Conns
                             /\ checking.t \in Tokens
                             /\ checking.t \in issued
                             /\ checking.t \notin loggedOut
                             /\ checking.user = UserOf[checking.t]
    /\ loggedOut \subseteq issued
    /\ \A t \in loggedOut : sessions[t] = None
    /\ \A c \in Conns : conn[c].session.token \in issued \cup {None}

\* What a step may do to the tokens that are logged out.
StaysOut ==
    \A t \in loggedOut :
       /\ sessions'[t] = None
       /\ \A c \in Conns : conn'[c].session.token = t => conn[c].session.token = t

\* A step that leaves the sessions in Redis alone and logs nobody in.
Quiet ==
    /\ UNCHANGED <<sessions, issued, loggedOut>>
    /\ checking' \in {checking, NoCheck}
    /\ \A d \in Conns :
          /\ conn'[d].session \in {conn[d].session, Nothing}
          /\ conn'[d].transfer \in {conn[d].transfer, conn[d].session, Nothing}

\* Every step keeps sessions with their users and out of reach once logged out.
LEMMA SessionStep ==
    TypeOK /\ TokensOwned /\ SessionKept /\ [Next]_vars
       => TokensOwned' /\ SessionKept' /\ StaysOut
<1> SUFFICES ASSUME TypeOK, TokensOwned, SessionKept, [Next]_vars
             PROVE  TokensOwned' /\ SessionKept' /\ StaysOut
  OBVIOUS
<1> USE DEF starting, backends, users, history, Unchanged
<1> DEFINE Goal == TokensOwned' /\ SessionKept' /\ StaysOut
<1>1. /\ \A t \in Tokens : sessions[t] \in {None, UserOf[t]}
      /\ \A c \in Conns : Own(conn[c].session) /\ Own(conn[c].transfer)
  BY DEF TokensOwned
<1>2. Own(Nothing) /\ Nothing.token = None
  BY DEF Own, Nothing
<1>3. /\ conn \in [Conns -> ConnType] /\ sessions \in [Tokens -> Names \cup {None}]
      /\ issued \subseteq Tokens /\ loggedOut \subseteq Tokens /\ None \notin Tokens
      /\ \A c \in Conns : conn[c].session \in Opened /\ conn[c].transfer \in Opened
  BY ServerAssumption DEF TypeOK, ConnType
<1>4. ASSUME Quiet PROVE Goal
  <2>1. TokensOwned'
    BY <1>1, <1>2, <1>4 DEF TokensOwned, Quiet
  <2>2. SessionKept'
    BY <1>2, <1>4 DEF SessionKept, Quiet
  <2>3. StaysOut
    BY <1>2, <1>3, <1>4 DEF SessionKept, StaysOut, Quiet
  <2> QED BY <2>1, <2>2, <2>3
<1>5. CASE UNCHANGED vars
  <2>1. Quiet
    BY <1>5 DEF vars, Quiet
  <2> QED BY <1>4, <2>1
<1>6. CASE Start \/ StartUp
  <2>1. UNCHANGED <<sessions, conn, checking, issued, loggedOut>>
    BY <1>6 DEF Start, StartUp, AttemptSucceeds, MysqlRefuses, RedisRefuses, PingFails,
                AttemptsExhausted, CountUsers, Seed, Listen
  <2>2. Quiet
    BY <2>1 DEF Quiet
  <2> QED BY <1>4, <2>2
<1>7. ASSUME NEW c \in Conns, NEW p \in {"there", "gone"}, conn' = [conn EXCEPT ![c].peer = p],
             UNCHANGED <<sessions, checking, issued, loggedOut>>
      PROVE  Goal
  <2>1. \A d \in Conns : conn'[d].session = conn[d].session /\ conn'[d].transfer = conn[d].transfer
    BY <1>3, <1>7, PeerAssigned
  <2>2. Quiet
    BY <1>7, <2>1 DEF Quiet
  <2> QED BY <1>4, <2>2
<1>8. ASSUME NEW c \in Conns, Close(c) PROVE Goal
  <2>1. conn' = [conn EXCEPT ![c] = Closed] /\ UNCHANGED <<sessions, checking, issued, loggedOut>>
    BY <1>8 DEF Close
  <2>2. \A d \in Conns : /\ conn'[d].session = IF d = c THEN Nothing ELSE conn[d].session
                         /\ conn'[d].transfer = IF d = c THEN Nothing ELSE conn[d].transfer
    BY <1>3, <2>1, ConnClosed
  <2>3. Quiet
    BY <2>1, <2>2 DEF Quiet
  <2> QED BY <1>4, <2>3
<1>9. ASSUME NEW c \in Conns, TransferBegin(c) \/ TransferEnd(c) PROVE Goal
  <2>1. PICK o \in {conn[c].session, Nothing} : conn' = [conn EXCEPT ![c].transfer = o]
    BY <1>9 DEF TransferBegin, TransferEnd
  <2>2. o \in Opened /\ UNCHANGED <<sessions, checking, issued, loggedOut>>
    BY <1>3, <1>9, RecordTypes DEF TransferBegin, TransferEnd
  <2>3. \A d \in Conns : /\ conn'[d].session = conn[d].session
                         /\ conn'[d].transfer = IF d = c THEN o ELSE conn[d].transfer
    BY <1>3, <2>1, <2>2, TransferAssigned
  <2>4. Quiet
    BY <2>1, <2>2, <2>3 DEF Quiet
  <2> QED BY <1>4, <2>4
<1>10. ASSUME NEW c \in Conns, NEW n \in Clients, Register(c, n) PROVE Goal
  <2>1. Quiet
    BY <1>10 DEF Register, Quiet
  <2> QED BY <1>4, <2>1
<1>11. CASE MysqlChanges \/ RedisChanges
  <2>1. Quiet
    BY <1>11 DEF MysqlChanges, RedisChanges, Quiet
  <2> QED BY <1>4, <2>1
<1>12. CASE Crash
  <2>1. \A d \in Conns : conn'[d].session = Nothing /\ conn'[d].transfer = Nothing
    BY <1>12 DEF Crash, AllClosed, Closed
  <2>2. Quiet
    BY <1>12, <2>1 DEF Crash, AllClosed, Quiet
  <2> QED BY <1>4, <2>2
<1>13. ASSUME NEW t \in Tokens, Expire(t) PROVE Goal
  <2>1. /\ UNCHANGED <<conn, checking, issued, loggedOut>>
        /\ \A u \in Tokens : sessions'[u] \in {sessions[u], None}
    BY <1>3, <1>13 DEF Expire
  <2>2. TokensOwned'
    BY <1>1, <2>1 DEF TokensOwned
  <2>3. SessionKept'
    BY <1>3, <2>1 DEF SessionKept
  <2>4. StaysOut
    BY <1>3, <2>1 DEF SessionKept, StaysOut
  <2> QED BY <2>2, <2>3, <2>4
<1>14. ASSUME NEW c \in Conns, NEW t \in Tokens, Login(c, t) PROVE Goal
  <2> DEFINE o == [user |-> UserOf[t], token |-> t]
  <2>1. o \in Opened /\ Own(o) /\ o.token = t
    BY <1>3, RecordTypes DEF Own
  <2> HIDE DEF o
  <2>2. /\ \A d \in Conns : conn'[d].session = IF d = c THEN o ELSE conn[d].session
        /\ \A d \in Conns : conn'[d].transfer = conn[d].transfer
    BY <1>3, <1>14, <2>1, SessionAssigned DEF Login, o
  <2>3. /\ \A u \in Tokens : sessions'[u] \in {sessions[u], UserOf[u]}
        /\ \A u \in Tokens \ {t} : sessions'[u] = sessions[u]
    BY <1>3, <1>14 DEF Login
  <2>4. /\ t \notin issued /\ issued' = issued \cup {t}
        /\ UNCHANGED <<checking, loggedOut>>
    BY <1>14 DEF Login
  <2>5. TokensOwned'
    BY <1>1, <2>1, <2>2, <2>3 DEF TokensOwned
  <2>6. t \notin loggedOut
    BY <2>4 DEF SessionKept
  <2>7. SessionKept'
    BY <1>3, <2>1, <2>2, <2>3, <2>4, <2>6 DEF SessionKept
  <2>8. StaysOut
    BY <1>3, <2>1, <2>2, <2>3, <2>6 DEF SessionKept, StaysOut
  <2> QED BY <2>5, <2>7, <2>8
<1>15. ASSUME NEW c \in Conns, NEW t \in Tokens, ResumeGet(c, t) PROVE Goal
  <2>1. UNCHANGED <<sessions, conn, issued, loggedOut>> /\ t \in issued
    BY <1>15 DEF ResumeGet
  <2>2. CASE checking' \in {checking, NoCheck}
    <3>1. Quiet
      BY <2>1, <2>2 DEF Quiet
    <3> QED BY <1>4, <3>1
  <2>3. CASE checking' \notin {checking, NoCheck}
    <3>1. sessions[t] # None /\ checking' = [c |-> c, t |-> t, user |-> sessions[t]]
      BY <1>15, <2>3 DEF ResumeGet
    <3>2. t \notin loggedOut /\ sessions[t] = UserOf[t]
      BY <1>1, <3>1 DEF SessionKept
    <3>3. SessionKept'
      BY <2>1, <3>1, <3>2 DEF SessionKept
    <3>4. TokensOwned'
      BY <1>1, <2>1 DEF TokensOwned
    <3>5. StaysOut
      BY <1>3, <2>1 DEF SessionKept, StaysOut
    <3> QED BY <3>3, <3>4, <3>5
  <2> QED BY <2>2, <2>3
<1>16. ASSUME NEW c \in Conns, Logout(c) PROVE Goal
  <2> DEFINE t == conn[c].session.token
  <2>1. t \in Tokens /\ t \in issued
    BY <1>3, <1>16, LoggedInToken DEF Logout, LoggedIn, SessionKept
  <2>2. \A d \in Conns : /\ conn'[d].session = IF d = c THEN Nothing ELSE conn[d].session
                         /\ conn'[d].transfer = conn[d].transfer
    BY <1>3, <1>16, RecordTypes, SessionAssigned DEF Logout
  <2>3. checking' = NoCheck /\ issued' = issued
    BY <1>16 DEF Logout, LoggedIn, Request, Idle
  <2>4. \/ /\ \A u \in Tokens : sessions'[u] = IF u = t THEN None ELSE sessions[u]
           /\ loggedOut' = loggedOut \cup {t}
        \/ UNCHANGED <<sessions, loggedOut>>
    BY <1>3, <1>16 DEF Logout
  <2> HIDE DEF t
  <2>5. TokensOwned'
    BY <1>1, <1>2, <2>2, <2>4 DEF TokensOwned
  <2>6. SessionKept'
    BY <1>2, <1>3, <2>1, <2>2, <2>3, <2>4 DEF SessionKept
  <2>7. StaysOut
    BY <1>2, <1>3, <2>2, <2>4 DEF SessionKept, StaysOut
  <2> QED BY <2>5, <2>6, <2>7
<1>17. CASE ResumeSet
  <2>1. /\ checking.c \in Conns /\ checking.t \in Tokens /\ checking.t \in issued
        /\ checking.t \notin loggedOut /\ checking.user = UserOf[checking.t]
    BY <1>17 DEF ResumeSet, SessionKept
  <2>2. Resumed \in Opened /\ Own(Resumed) /\ Resumed.token = checking.t
    BY <1>3, <2>1, RecordTypes DEF Resumed, Own
  <2>3. \A d \in Conns : /\ conn'[d].session \in {conn[d].session, Resumed}
                         /\ conn'[d].transfer = conn[d].transfer
    <3>1. conn' = conn \/ conn' = [conn EXCEPT ![checking.c].session = Resumed]
      BY <1>17 DEF ResumeSet
    <3>2. CASE conn' = conn
      BY <3>2
    <3>3. CASE conn' = [conn EXCEPT ![checking.c].session = Resumed]
      <4>1. \A d \in Conns :
               /\ conn'[d].session = IF d = checking.c THEN Resumed ELSE conn[d].session
               /\ conn'[d].transfer = conn[d].transfer
        BY <1>3, <2>1, <2>2, <3>3, SessionAssigned
      <4> QED BY <4>1
    <3> QED BY <3>1, <3>2, <3>3
  <2>4. \A u \in Tokens : \/ sessions'[u] = sessions[u]
                          \/ u = checking.t /\ sessions'[u] = UserOf[u]
    BY <1>3, <1>17, <2>1 DEF ResumeSet
  <2>5. checking' = NoCheck /\ UNCHANGED <<issued, loggedOut>>
    BY <1>17 DEF ResumeSet
  <2>6. TokensOwned'
    BY <1>1, <2>2, <2>3, <2>4 DEF TokensOwned
  <2>7. SessionKept'
    BY <1>3, <2>1, <2>2, <2>3, <2>4, <2>5 DEF SessionKept
  <2>8. StaysOut
    BY <1>3, <2>1, <2>2, <2>3, <2>4 DEF SessionKept, StaysOut
  <2> QED BY <2>6, <2>7, <2>8
<1> QED
  BY <1>5, <1>6, <1>7, <1>8, <1>9, <1>10, <1>11, <1>12, <1>13, <1>14, <1>15, <1>16, <1>17
     DEF Next, Serve, Environment, Accept, Vanish

-----------------------------------------------------------------------------
(* Theorems *)

\* The whole invariant.
IInv == TypeOK /\ AdminFirst /\ TokensOwned /\ SessionKept

\* It holds before the first start.
LEMMA InitIInv == Init => IInv
<1> SUFFICES ASSUME Init PROVE IInv
  OBVIOUS
<1> USE DEF Init
<1>1. TypeOK
  BY RecordTypes, ServerAssumption DEF TypeOK, Phases
<1>2. AdminFirst
  BY DEF AdminFirst
<1>3. TokensOwned /\ SessionKept
  BY DEF TokensOwned, Own, SessionKept, Closed, Nothing
<1> QED BY <1>1, <1>2, <1>3 DEF IInv

\* It is inductive.
LEMMA StepIInv == IInv /\ [Next]_vars => IInv' /\ StaysOut
BY TypeStep, AccountsStep, SessionStep DEF IInv

\* The services are built on pointers that are set, however often and in
\* whatever order MySQL and Redis came and went during the attempts.
THEOREM BuiltOnSetPointers == Spec => []TypeOK
<1>1. IInv => TypeOK
  BY DEF IInv
<1> QED BY InitIInv, StepIInv, <1>1, PTL DEF Spec

\* A server that listens has its administrator and every account its root,
\* wherever earlier starts and registrations were cut.
THEOREM AccountsAlwaysUsable == Spec => []AccountsUsable
<1>1. IInv => AccountsUsable
  BY DEF IInv, AdminFirst, AccountsUsable
<1> QED BY InitIInv, StepIInv, <1>1, PTL DEF Spec

\* After a logout that reached Redis nobody gets in with the token: the write of
\* checkToken does not bring its session back.
THEOREM LogoutsAreFinal == Spec => LogoutIsFinal
<1>1. IInv /\ [Next]_vars => [StaysOut]_vars
  BY StepIInv
<1>2. IInv /\ [Next]_vars => IInv'
  BY StepIInv
<1> QED BY InitIInv, <1>1, <1>2, PTL DEF Spec, LogoutIsFinal, StaysOut
=============================================================================
