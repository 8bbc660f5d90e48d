---------------------------- MODULE StepsProofs ----------------------------
(***************************************************************************)
(* Proofs about TransferSteps, for all users, paths and contents, any      *)
(* number of faults and whatever commands may fail unnoticed.              *)
(*                                                                         *)
(* The invariant follows the program of the running handler.  Every        *)
(* remainder of every program is a release in one of its phases, a run of  *)
(* plain writes, or the loop of releaseIndexedUnderPrefix (OnTrack); and   *)
(* while no fault has happened, what is left to do leads to job.goal.      *)
(***************************************************************************)
EXTENDS TransferSteps, FiniteSetTheorems, SequenceTheorems, TLAPS

-----------------------------------------------------------------------------
(* What is left of a program *)

\* The program a followed by b, and the one whose first command is c.
Cat(a, b) == a \o b
Cons(c, t) == <<c>> \o t

\* The commands that neither decide anything nor delete an object.
PlainOps == {"SETPATH", "DELPATH", "SADD", "SREM", "SETOBJ", "INSROW", "DELROW", "COPY"}

\* Plain commands of a handler that names the paths T.
PlainCommand(T) ==
    {c \in Command : /\ c.op \in PlainOps
                     /\ <<c.u, c.p>> \in T
                     /\ c.op \in {"COPY", "SETOBJ"} => c.md5 \in Md5
                     /\ c.op = "INSROW" => c.p \in FilePaths}

\* The commands of deleteObject.
Deletes(u, p, m) == {Cmd(op, u, p, m) : op \in {"UNLINK", "DELOBJ", "DELREFS"}}

\* The commands s, all of them writes, take the store from st to end.
Runs(st, s, end) ==
    \E tr \in [0 .. Len(s) -> StoreType] :
        /\ tr[0] = st
        /\ tr[Len(s)] = end
        /\ \A i \in 1 .. Len(s) : tr[i] = Write(tr[i - 1], s[i])

\* From the store st, the plain commands s are the end of the job j.
LeadsPlainly(s, st, P, j) ==
    /\ P = {}
    /\ s \in Seq(PlainCommand(j.touched))
    /\ j.clean => Runs(st, s, j.goal)

\* After the plain commands a, the rows P of d are released, then d unindexed.
LeadsToRows(s, st, P, j) ==
    \E a \in Seq(PlainCommand(j.touched)), u \in Users, d \in DirPaths :
        /\ s = Cat(a, RemoveDirectory(u, d))
        /\ \A q \in P \cup {d} : <<u, q>> \in j.touched
        /\ j.clean => \E mid \in StoreType :
                         /\ Runs(st, a, mid)
                         /\ j.goal = Unindex(ReleaseContentRef(mid, u, P), u, {d})

Leads(s, st, P, j) == LeadsPlainly(s, st, P, j) \/ LeadsToRows(s, st, P, j)

\* The end of releaseContentRef, and what comes after it.
Closing(rest, u, p, st, P, j) ==
    /\ <<u, p>> \in j.touched
    /\ \E K \in Seq(Command) :
          /\ rest = Cat(Unindexing(u, p), K)
          /\ Leads(K, ReleaseContentRef(st, u, {p}), P, j)

\* The phases of releaseContentRef: before GET,
Getting(st, s, P, j) ==
    \E u \in Users, p \in Paths, rest \in Seq(Command) :
        /\ s = Cons(Cmd("GETPATH", u, p, NoMd5), rest)
        /\ Closing(rest, u, p, st, P, j)

\* before lookupFile,
LookingUp(st, s, P, j) ==
    \E u \in Users, p \in Paths, rest \in Seq(Command) :
        /\ s = Cons(Cmd("LOOKUP", u, p, NoMd5), rest)
        /\ Closing(rest, u, p, st, P, j)
        /\ j.clean => st.pathMd5[u][p] = NoMd5

\* before SREM,
Removing(st, s, P, j) ==
    \E u \in Users, p \in Paths, m \in Md5, rest \in Seq(Command) :
        /\ s = Cons(Cmd("SREM", u, p, m), Cons(Cmd("SCARD", u, p, m), rest))
        /\ Closing(rest, u, p, st, P, j)
        /\ j.clean => HeldMd5(st, u, p) = m

\* before SCARD,
Counting(st, s, P, j) ==
    \E u \in Users, p \in Paths, m \in Md5, rest \in Seq(Command) :
        /\ s = Cons(Cmd("SCARD", u, p, m), rest)
        /\ Closing(rest, u, p, st, P, j)
        /\ j.clean => HeldMd5(st, u, p) = m /\ <<u, p>> \notin st.refs[m]

\* in deleteObject: nobody refers to the content, or SCARD had no answer.
Deleting(st, s, P, j, M) ==
    \E u \in Users, p \in Paths, m \in Md5, rest \in Seq(Command), mid \in StoreType :
        \E b \in Seq(Deletes(u, p, m)) :
            /\ s = Cat(b, rest)
            /\ m \in M \/ st.refs[m] = {}
            /\ j.clean => Runs(st, b, mid)
            /\ Leads(rest, mid, P, j)

\* finishUpload has yet to look for the previous version.
Replacing(st, s, P, j) ==
    \E u \in Users, p \in Paths, rest \in Seq(Command) :
        /\ s = Cons(Cmd("PREVIOUS", u, p, NoMd5), rest)
        /\ <<u, p>> \in j.touched
        /\ Leads(rest, IF IsFile(st, u, p) THEN ReleaseContentRef(st, u, {p}) ELSE st, P, j)

\* instant_upload has yet to look for a conflict.
Checking(st, s, P, j) ==
    \E u \in Users, p \in Paths, rest \in Seq(PlainCommand(j.touched)) :
        /\ s = Cons(Cmd("CONFLICT", u, p, NoMd5), rest)
        /\ P = {}
        /\ j.clean => IF IsFile(st, u, p) THEN j.goal = st ELSE Runs(st, rest, j.goal)

\* What is left of the running handler, in the store st with the rows P to come
\* and the contents M misled, is a remainder of a program that leads to its goal.
OnTrack(st, s, P, j, M) ==
    \/ Leads(s, st, P, j)
    \/ Getting(st, s, P, j)
    \/ LookingUp(st, s, P, j)
    \/ Removing(st, s, P, j)
    \/ Counting(st, s, P, j)
    \/ Deleting(st, s, P, j, M)
    \/ Replacing(st, s, P, j)
    \/ Checking(st, s, P, j)

-----------------------------------------------------------------------------
(* The inductive invariant *)

\* Agrees, of any store.
AgreesIn(st, M, u, p) ==
    HeldMd5(st, u, p) # NoMd5 =>
        /\ IsFile(st, u, p) => st.index[u][p].md5 = HeldMd5(st, u, p)
        /\ st.pathMd5[u][p] = HeldMd5(st, u, p)
        /\ \/ HeldMd5(st, u, p) \in M
           \/ /\ <<u, p>> \in st.refs[HeldMd5(st, u, p)]
              /\ HeldMd5(st, u, p) \in st.objects

\* File rows are at file paths only, and Redis sets are finite.
WellKept(st) ==
    /\ \A u \in Users, p \in Paths : IsFile(st, u, p) => p \in FilePaths
    /\ \A m \in Digest : IsFiniteSet(st.refs[m])

\* What the goal of a job promises of the paths that its outcome clears; once a
\* fault has happened it promises nothing, and its paths are disturbed.
Accounted(j, D, M) ==
    /\ j.clean => /\ D \ j.touched \subseteq j.outcome
                  /\ \A u \in Users, p \in Paths :
                        <<u, p>> \in j.touched \ j.outcome => AgreesIn(j.goal, M, u, p)
    /\ ~j.clean => j.touched \subseteq D

\* The running handler is on track, and what is not its business agrees.
IInv ==
    /\ TypeOK
    /\ WellKept(store)
    /\ UndisturbedReadable
    /\ prog # << >> => /\ OnTrack(store, prog, paths, job, misled)
                       /\ Accounted(job, disturbed, misled)

-----------------------------------------------------------------------------
(* Sequences *)

\* A command in front of a program.
LEMMA ConsParts ==
    ASSUME NEW S, NEW c \in S, NEW t \in Seq(S)
    PROVE  /\ Cons(c, t) \in Seq(S)
           /\ Cons(c, t) # << >>
           /\ Len(Cons(c, t)) = Len(t) + 1
           /\ Head(Cons(c, t)) = c
           /\ Tail(Cons(c, t)) = t
           /\ Cons(c, t)[1] = c
           /\ \A i \in 1 .. Len(t) : Cons(c, t)[i + 1] = t[i]
BY DEF Cons

\* The first command of the first of two programs.
LEMMA CatParts ==
    ASSUME NEW S, NEW a \in Seq(S), NEW t \in Seq(S)
    PROVE  /\ Cat(a, t) \in Seq(S)
           /\ Cat(<< >>, t) = t /\ Cat(a, << >>) = a
           /\ a # << >> => /\ Cat(a, t) # << >>
                           /\ Head(Cat(a, t)) = Head(a)
                           /\ Tail(Cat(a, t)) = Cat(Tail(a), t)
                           /\ Head(a) \in S /\ Tail(a) \in Seq(S)
                           /\ a = Cons(Head(a), Tail(a))
<1>1. Cat(a, t) \in Seq(S) /\ Cat(<< >>, t) = t /\ Cat(a, << >>) = a
  BY ConcatEmptySeq DEF Cat
<1>. QED
  BY <1>1 DEF Cons, Cat

\* A command in front of the first of two programs, and three programs.
LEMMA CatAssociative ==
    ASSUME NEW S, NEW c \in S, NEW a \in Seq(S), NEW b \in Seq(S), NEW t \in Seq(S)
    PROVE  /\ Cat(Cons(c, a), t) = Cons(c, Cat(a, t))
           /\ Cat(Cat(a, b), t) = Cat(a, Cat(b, t))
<1>. DEFINE x == <<c>>
<1>1. x \in Seq(S)
  OBVIOUS
<1>. HIDE DEF x
<1>2. (x \o a) \o t = x \o (a \o t)
  BY <1>1, ConcatAssociative
<1>3. (a \o b) \o t = a \o (b \o t)
  BY ConcatAssociative
<1>. QED
  BY <1>2, <1>3 DEF x, Cons, Cat

\* Programs that are given by their commands.
One(x) == <<x>>
Two(x, y) == <<x, y>>
Three(x, y, z) == <<x, y, z>>
Six(x, y, z, a, b, c) == <<x, y, z, a, b, c>>

\* They are made of their commands one by one.
LEMMA ShortPrograms ==
    ASSUME NEW x \in Command, NEW y \in Command, NEW z \in Command, NEW t \in Seq(Command)
    PROVE  /\ One(x) \in Seq(Command) /\ Two(x, y) \in Seq(Command) /\ Three(x, y, z) \in Seq(Command)
           /\ Cat(One(x), t) = Cons(x, t)
           /\ Cat(Two(x, y), t) = Cons(x, Cons(y, t))
           /\ Cat(Three(x, y, z), t) = Cons(x, Cons(y, Cons(z, t)))
<1>. DEFINE a == One(x)
            b == One(y)
            c == One(z)
            two == Two(x, y)
            three == Three(x, y, z)
<1>1. /\ a \in Seq(Command) /\ Len(a) = 1 /\ a[1] = x
      /\ b \in Seq(Command) /\ Len(b) = 1 /\ b[1] = y
      /\ c \in Seq(Command) /\ Len(c) = 1 /\ c[1] = z
      /\ two \in Seq(Command) /\ Len(two) = 2 /\ two[1] = x /\ two[2] = y
      /\ three \in Seq(Command) /\ Len(three) = 3 /\ three[1] = x /\ three[2] = y /\ three[3] = z
  BY DEF One, Two, Three
<1>2. \A d \in Command, e \in Seq(Command) : Cons(d, e) = Cat(One(d), e)
  BY DEF Cons, One, Cat
<1>. HIDE DEF a, b, c, two, three
<1>3. \A d, e \in Seq(Command) :
         /\ Cat(d, e) \in Seq(Command) /\ Len(Cat(d, e)) = Len(d) + Len(e)
         /\ \A i \in 1 .. Len(d) + Len(e) : Cat(d, e)[i] = IF i <= Len(d) THEN d[i] ELSE e[i - Len(d)]
  BY ConcatProperties, Zenon DEF Cat
<1>4. /\ Cat(a, b) \in Seq(Command) /\ Len(Cat(a, b)) = 2
      /\ \A i \in 1 .. 2 : Cat(a, b)[i] = IF i <= 1 THEN a[i] ELSE b[i - 1]
  <2>1. /\ Cat(a, b) \in Seq(Command) /\ Len(Cat(a, b)) = Len(a) + Len(b)
        /\ \A i \in 1 .. Len(a) + Len(b) : Cat(a, b)[i] = IF i <= Len(a) THEN a[i] ELSE b[i - Len(a)]
    BY <1>1, <1>3, Zenon
  <2>. QED
    BY <1>1, <2>1
<1>5. /\ Cat(two, c) \in Seq(Command) /\ Len(Cat(two, c)) = 3
      /\ \A i \in 1 .. 3 : Cat(two, c)[i] = IF i <= 2 THEN two[i] ELSE c[i - 2]
  <2>1. /\ Cat(two, c) \in Seq(Command) /\ Len(Cat(two, c)) = Len(two) + Len(c)
        /\ \A i \in 1 .. Len(two) + Len(c) : Cat(two, c)[i] = IF i <= Len(two) THEN two[i] ELSE c[i - Len(two)]
    BY <1>1, <1>3, Zenon
  <2>. QED
    BY <1>1, <2>1
<1>6. two = Cat(a, b)
  <2>1. \A i \in 1 .. 2 : two[i] = Cat(a, b)[i]
    BY <1>1, <1>4
  <2>. QED
    BY <1>1, <1>4, <2>1, SeqEqual
<1>7. three = Cat(two, c)
  <2>1. \A i \in 1 .. 3 : three[i] = Cat(two, c)[i]
    BY <1>1, <1>5
  <2>. QED
    BY <1>1, <1>5, <2>1, SeqEqual
<1>8. \A d, e, f \in Seq(Command) : Cat(Cat(d, e), f) = Cat(d, Cat(e, f))
  BY ConcatAssociative DEF Cat
<1>9. \A e \in Seq(Command) : Cat(two, e) = Cat(a, Cat(b, e))
  BY <1>1, <1>6, <1>8
<1>10. Cat(three, t) = Cat(two, Cat(c, t))
  BY <1>1, <1>7, <1>8
<1>11. Cat(c, t) \in Seq(Command) /\ Cat(b, t) \in Seq(Command) /\ Cat(b, Cat(c, t)) \in Seq(Command)
  BY <1>1, <1>3
<1>12. \A e \in Seq(Command) : Cons(x, e) = Cat(a, e) /\ Cons(y, e) = Cat(b, e) /\ Cons(z, e) = Cat(c, e)
  BY <1>2 DEF a, b, c
<1>13. /\ Cat(a, t) = Cons(x, t)
       /\ Cat(two, t) = Cons(x, Cons(y, t))
       /\ Cat(three, t) = Cons(x, Cons(y, Cons(z, t)))
  BY <1>9, <1>10, <1>11, <1>12
<1>. QED
  BY <1>1, <1>13 DEF a, b, c, two, three

\* Six commands are three and three.
LEMMA SixCommands ==
    ASSUME NEW x \in Command, NEW y \in Command, NEW z \in Command, NEW a \in Command, NEW b \in Command, NEW c \in Command
    PROVE  Six(x, y, z, a, b, c) = Cat(Three(x, y, z), Three(a, b, c))
<1>. DEFINE d == Three(x, y, z)
            e == Three(a, b, c)
            six == Six(x, y, z, a, b, c)
<1>1. /\ d \in Seq(Command) /\ Len(d) = 3 /\ d[1] = x /\ d[2] = y /\ d[3] = z
      /\ e \in Seq(Command) /\ Len(e) = 3 /\ e[1] = a /\ e[2] = b /\ e[3] = c
      /\ six \in Seq(Command) /\ Len(six) = 6 /\ six[1] = x /\ six[2] = y /\ six[3] = z
      /\ six[4] = a /\ six[5] = b /\ six[6] = c
  BY DEF Three, Six
<1>. HIDE DEF d, e, six
<1>2. /\ Cat(d, e) \in Seq(Command) /\ Len(Cat(d, e)) = Len(d) + Len(e)
      /\ \A i \in 1 .. Len(d) + Len(e) : Cat(d, e)[i] = IF i <= Len(d) THEN d[i] ELSE e[i - Len(d)]
  <2>1. \A f, g \in Seq(Command) :
           /\ Cat(f, g) \in Seq(Command) /\ Len(Cat(f, g)) = Len(f) + Len(g)
           /\ \A i \in 1 .. Len(f) + Len(g) : Cat(f, g)[i] = IF i <= Len(f) THEN f[i] ELSE g[i - Len(f)]
    BY ConcatProperties, Zenon DEF Cat
  <2>. QED
    BY <1>1, <2>1, Zenon
<1>3. \A i \in 1 .. 6 : six[i] = Cat(d, e)[i]
  BY <1>1, <1>2
<1>4. six = Cat(d, e)
  <2>1. six \in Seq(Command) /\ Cat(d, e) \in Seq(Command) /\ Len(six) = Len(Cat(d, e)) /\ Len(six) = 6
    BY <1>1, <1>2
  <2>2. \A i \in 1 .. Len(six) : six[i] = Cat(d, e)[i]
    BY <1>3, <2>1
  <2>. QED
    BY <2>1, <2>2, SeqEqual
<1>. QED
  BY <1>4 DEF d, e, six

\* The functions of TransferService, command by command.
LEMMA Programs ==
    ASSUME NEW u \in Users, NEW p \in Paths, NEW m \in Digest, NEW q \in Paths, NEW K \in Seq(Command)
    PROVE  /\ Unindexing(u, p) \in Seq(Command)
           /\ Cat(Unindexing(u, p), K)
                 = Cons(Cmd("DELROW", u, p, NoMd5), Cons(Cmd("DELPATH", u, p, NoMd5), K))
           /\ RemoveRef(u, p, m) \in Seq(Command)
           /\ Cat(RemoveRef(u, p, m), K) = Cons(Cmd("SREM", u, p, m), Cons(Cmd("SCARD", u, p, m), K))
           /\ DeleteObject(u, p, m) \in Seq(Deletes(u, p, m))
           /\ DeleteObject(u, p, m) \in Seq(Command)
           /\ Cat(DeleteObject(u, p, m), K)
                 = Cons(Cmd("UNLINK", u, p, m), Cons(Cmd("DELOBJ", u, p, m), Cons(Cmd("DELREFS", u, p, m), K)))
           /\ Adding(u, p, m) \in Seq(Command)
           /\ Cat(Adding(u, p, m), K)
                 = Cons(Cmd("SADD", u, p, m), Cons(Cmd("INSROW", u, p, m), Cons(Cmd("SETPATH", u, p, m), K)))
           /\ Releasing(u, p) \in Seq(Command)
           /\ Cat(Releasing(u, p), K) = Cons(Cmd("GETPATH", u, p, NoMd5), Cat(Unindexing(u, p), K))
           /\ RemoveDirectory(u, p) = Cons(Cmd("NEXTROW", u, p, NoMd5), Unindexing(u, p))
<1>0. /\ \A op \in {"SADD", "INSROW", "SETPATH", "SREM", "SCARD", "UNLINK", "DELOBJ", "DELREFS"} :
            Cmd(op, u, p, m) \in Command
      /\ \A op \in {"GETPATH", "DELPATH", "DELROW", "NEXTROW"} : Cmd(op, u, p, NoMd5) \in Command
      /\ \A op \in {"UNLINK", "DELOBJ", "DELREFS"} : Cmd(op, u, p, m) \in Deletes(u, p, m)
  BY DEF Cmd, Command, Digest, Deletes, Ops
<1>1. /\ Cmd("SADD", u, p, m) \in Command /\ Cmd("INSROW", u, p, m) \in Command
      /\ Cmd("SETPATH", u, p, m) \in Command
      /\ Cmd("SREM", u, p, m) \in Command /\ Cmd("SCARD", u, p, m) \in Command
      /\ Cmd("UNLINK", u, p, m) \in Command /\ Cmd("DELOBJ", u, p, m) \in Command
      /\ Cmd("DELREFS", u, p, m) \in Command
      /\ Cmd("GETPATH", u, p, NoMd5) \in Command /\ Cmd("NEXTROW", u, p, NoMd5) \in Command
      /\ Cmd("DELROW", u, p, NoMd5) \in Command /\ Cmd("DELPATH", u, p, NoMd5) \in Command
      /\ Cmd("UNLINK", u, p, m) \in Deletes(u, p, m) /\ Cmd("DELOBJ", u, p, m) \in Deletes(u, p, m)
      /\ Cmd("DELREFS", u, p, m) \in Deletes(u, p, m)
  BY <1>0
<1>2. Unindexing(u, p) = Two(Cmd("DELROW", u, p, NoMd5), Cmd("DELPATH", u, p, NoMd5))
  BY DEF Unindexing, Two
<1>3. RemoveRef(u, p, m) = Two(Cmd("SREM", u, p, m), Cmd("SCARD", u, p, m))
  BY DEF RemoveRef, Two
<1>4. DeleteObject(u, p, m) = Three(Cmd("UNLINK", u, p, m), Cmd("DELOBJ", u, p, m), Cmd("DELREFS", u, p, m))
  BY DEF DeleteObject, Three
<1>5. Adding(u, p, m) = Three(Cmd("SADD", u, p, m), Cmd("INSROW", u, p, m), Cmd("SETPATH", u, p, m))
  BY DEF Adding, Three
<1>6. Releasing(u, p) = Cons(Cmd("GETPATH", u, p, NoMd5), Unindexing(u, p))
  BY DEF Releasing, Cons
<1>7. RemoveDirectory(u, p) = Cons(Cmd("NEXTROW", u, p, NoMd5), Unindexing(u, p))
  BY DEF RemoveDirectory, Cons
<1>a. ASSUME NEW x \in Command, NEW y \in Command, NEW z \in Command
      PROVE  /\ Two(x, y) \in Seq(Command) /\ Three(x, y, z) \in Seq(Command)
             /\ Cat(Two(x, y), K) = Cons(x, Cons(y, K))
             /\ Cat(Three(x, y, z), K) = Cons(x, Cons(y, Cons(z, K)))
  BY ShortPrograms
<1>8. Unindexing(u, p) \in Seq(Command) /\ RemoveRef(u, p, m) \in Seq(Command)
  BY <1>1, <1>2, <1>3, <1>a
<1>9. Adding(u, p, m) \in Seq(Command) /\ DeleteObject(u, p, m) \in Seq(Command)
  BY <1>1, <1>4, <1>5, <1>a
<1>10. DeleteObject(u, p, m) \in Seq(Deletes(u, p, m))
  <2>1. ASSUME NEW D, NEW x \in D, NEW y \in D, NEW z \in D PROVE Three(x, y, z) \in Seq(D)
    BY DEF Three
  <2>. QED
    BY <1>1, <1>4, <2>1
<1>11. Releasing(u, p) \in Seq(Command)
  BY <1>1, <1>6, <1>8, ConsParts
<1>12. Cat(Releasing(u, p), K) = Cons(Cmd("GETPATH", u, p, NoMd5), Cat(Unindexing(u, p), K))
  BY <1>1, <1>6, <1>8, CatAssociative
<1>13. /\ Cat(Unindexing(u, p), K)
             = Cons(Cmd("DELROW", u, p, NoMd5), Cons(Cmd("DELPATH", u, p, NoMd5), K))
       /\ Cat(RemoveRef(u, p, m), K) = Cons(Cmd("SREM", u, p, m), Cons(Cmd("SCARD", u, p, m), K))
  BY <1>1, <1>2, <1>3, <1>a
<1>14. /\ Cat(DeleteObject(u, p, m), K)
             = Cons(Cmd("UNLINK", u, p, m), Cons(Cmd("DELOBJ", u, p, m), Cons(Cmd("DELREFS", u, p, m), K)))
       /\ Cat(Adding(u, p, m), K)
             = Cons(Cmd("SADD", u, p, m), Cons(Cmd("INSROW", u, p, m), Cons(Cmd("SETPATH", u, p, m), K)))
  BY <1>1, <1>4, <1>5, <1>a
<1>. QED
  BY <1>7, <1>8, <1>9, <1>10, <1>11, <1>12, <1>13, <1>14

-----------------------------------------------------------------------------
(* Stores *)

\* Two stores with the same fields are the same.
LEMMA SameStore ==
    ASSUME NEW st \in StoreType, NEW r \in StoreType,
           st.objects = r.objects, st.objMeta = r.objMeta,
           \A m \in Digest : st.refs[m] = r.refs[m],
           \A u \in Users, p \in Paths : st.index[u][p] = r.index[u][p],
           \A u \in Users, p \in Paths : st.pathMd5[u][p] = r.pathMd5[u][p]
    PROVE  st = r
<1>1. /\ st.refs \in [Digest -> SUBSET (Users \X Paths)] /\ r.refs \in [Digest -> SUBSET (Users \X Paths)]
      /\ st.index \in [Users -> [Paths -> Row]] /\ r.index \in [Users -> [Paths -> Row]]
      /\ st.pathMd5 \in [Users -> [Paths -> Digest]] /\ r.pathMd5 \in [Users -> [Paths -> Digest]]
  BY DEF StoreType
<1>2. st.refs = r.refs
  BY <1>1
<1>3. st.index = r.index
  <2>1. \A u \in Users : st.index[u] = r.index[u]
    <3>. TAKE u \in Users
    <3>1. st.index[u] \in [Paths -> Row] /\ r.index[u] \in [Paths -> Row]
      BY <1>1
    <3>. QED
      BY <3>1
  <2>. QED
    BY <1>1, <2>1
<1>4. st.pathMd5 = r.pathMd5
  <2>1. \A u \in Users : st.pathMd5[u] = r.pathMd5[u]
    <3>. TAKE u \in Users
    <3>1. st.pathMd5[u] \in [Paths -> Digest] /\ r.pathMd5[u] \in [Paths -> Digest]
      BY <1>1
    <3>. QED
      BY <3>1
  <2>. QED
    BY <1>1, <2>1
<1>. QED
  BY <1>2, <1>3, <1>4 DEF StoreType

\* What the command c makes of a store st: r is the result.
WriteEffect(st, r, c) ==
    /\ r \in StoreType
    /\ r.objects = IF c.op = "COPY" THEN st.objects \cup {c.md5}
                   ELSE IF c.op = "UNLINK" THEN st.objects \ {c.md5}
                   ELSE st.objects
    /\ r.objMeta = IF c.op = "SETOBJ" THEN st.objMeta \cup {c.md5}
                   ELSE IF c.op = "DELOBJ" THEN st.objMeta \ {c.md5}
                   ELSE st.objMeta
    /\ \A n \in Digest :
          r.refs[n] = IF n = c.md5 /\ c.op = "SADD" THEN st.refs[n] \cup {<<c.u, c.p>>}
                      ELSE IF n = c.md5 /\ c.op = "SREM" THEN st.refs[n] \ {<<c.u, c.p>>}
                      ELSE IF n = c.md5 /\ c.op = "DELREFS" THEN {}
                      ELSE st.refs[n]
    /\ \A v \in Users, q \in Paths :
          /\ r.index[v][q] = IF v = c.u /\ q = c.p /\ c.op = "INSROW" THEN FileRow(c.md5)
                             ELSE IF v = c.u /\ q = c.p /\ c.op = "DELROW" THEN NoRow
                             ELSE st.index[v][q]
          /\ r.pathMd5[v][q] = IF v = c.u /\ q = c.p /\ c.op = "SETPATH" THEN c.md5
                               ELSE IF v = c.u /\ q = c.p /\ c.op = "DELPATH" THEN NoMd5
                               ELSE st.pathMd5[v][q]

\* Every command has that effect.
LEMMA WriteFields ==
    ASSUME NEW st \in StoreType, NEW c \in Command,
           c.op \in {"COPY", "SETOBJ"} => c.md5 \in Md5
    PROVE  WriteEffect(st, Write(st, c), c)
<1>1. /\ c.op \in Ops /\ c.u \in Users /\ c.p \in Paths /\ c.md5 \in Digest
      /\ FileRow(c.md5) \in Row /\ NoRow \in Row /\ NoMd5 \in Digest
  BY DEF Command, FileRow, NoRow, Row, Digest
<1>2. /\ st.objects \in SUBSET Md5 /\ st.objMeta \in SUBSET Md5
      /\ st.refs \in [Digest -> SUBSET (Users \X Paths)]
      /\ st.index \in [Users -> [Paths -> Row]]
      /\ st.pathMd5 \in [Users -> [Paths -> Digest]]
      /\ st = Store(st.objects, st.objMeta, st.refs, st.index, st.pathMd5)
  BY DEF StoreType, Store
<1>3. CASE c.op = "SETPATH"
  <2>1. Write(st, c) = [st EXCEPT !.pathMd5 = [st.pathMd5 EXCEPT ![c.u][c.p] = c.md5]]
    BY <1>3 DEF Write, RedisWrite
  <2>. DEFINE f == [st.pathMd5 EXCEPT ![c.u][c.p] = c.md5]
  <2>2. f \in [Users -> [Paths -> Digest]]
    BY <1>1, <1>2
  <2>3. \A v \in Users, q \in Paths : f[v][q] = IF v = c.u /\ q = c.p THEN c.md5 ELSE st.pathMd5[v][q]
    BY <1>1, <1>2
  <2>4. Write(st, c) = [st EXCEPT !.pathMd5 = f]
    BY <2>1
  <2>. DEFINE r == Write(st, c)
  <2>. HIDE DEF f, r
  <2>5. r = [st EXCEPT !.pathMd5 = f]
    BY <2>4 DEF r
  <2>6. /\ r \in StoreType /\ r.pathMd5 = f
        /\ r.objects = st.objects /\ r.objMeta = st.objMeta /\ r.refs = st.refs /\ r.index = st.index
    BY <2>2, <2>5 DEF StoreType
  <2>7. WriteEffect(st, r, c)
    BY <1>3, <2>3, <2>6 DEF WriteEffect
  <2>. QED
    BY <2>7 DEF r
<1>4. CASE c.op = "DELPATH"
  <2>1. Write(st, c) = [st EXCEPT !.pathMd5 = [st.pathMd5 EXCEPT ![c.u][c.p] = NoMd5]]
    BY <1>4 DEF Write, RedisWrite
  <2>. DEFINE f == [st.pathMd5 EXCEPT ![c.u][c.p] = NoMd5]
  <2>2. f \in [Users -> [Paths -> Digest]]
    BY <1>1, <1>2
  <2>3. \A v \in Users, q \in Paths : f[v][q] = IF v = c.u /\ q = c.p THEN NoMd5 ELSE st.pathMd5[v][q]
    BY <1>1, <1>2
  <2>4. Write(st, c) = [st EXCEPT !.pathMd5 = f]
    BY <2>1
  <2>. DEFINE r == Write(st, c)
  <2>. HIDE DEF f, r
  <2>5. r = [st EXCEPT !.pathMd5 = f]
    BY <2>4 DEF r
  <2>6. /\ r \in StoreType /\ r.pathMd5 = f
        /\ r.objects = st.objects /\ r.objMeta = st.objMeta /\ r.refs = st.refs /\ r.index = st.index
    BY <2>2, <2>5 DEF StoreType
  <2>7. WriteEffect(st, r, c)
    BY <1>4, <2>3, <2>6 DEF WriteEffect
  <2>. QED
    BY <2>7 DEF r
<1>5. CASE c.op = "SADD"
  <2>1. Write(st, c) = [st EXCEPT !.refs = [st.refs EXCEPT ![c.md5] = @ \cup {<<c.u, c.p>>}]]
    BY <1>5 DEF Write, RedisWrite
  <2>. DEFINE f == [st.refs EXCEPT ![c.md5] = @ \cup {<<c.u, c.p>>}]
  <2>2. f \in [Digest -> SUBSET (Users \X Paths)]
    BY <1>1, <1>2
  <2>3. \A n \in Digest : f[n] = IF n = c.md5 THEN st.refs[n] \cup {<<c.u, c.p>>} ELSE st.refs[n]
    BY <1>1, <1>2
  <2>4. Write(st, c) = [st EXCEPT !.refs = f]
    BY <2>1
  <2>. DEFINE r == Write(st, c)
  <2>. HIDE DEF f, r
  <2>5. r = [st EXCEPT !.refs = f]
    BY <2>4 DEF r
  <2>6. /\ r \in StoreType /\ r.refs = f
        /\ r.objects = st.objects /\ r.objMeta = st.objMeta /\ r.index = st.index /\ r.pathMd5 = st.pathMd5
    BY <2>2, <2>5 DEF StoreType
  <2>7. WriteEffect(st, r, c)
    BY <1>5, <2>3, <2>6 DEF WriteEffect
  <2>. QED
    BY <2>7 DEF r
<1>6. CASE c.op = "SREM"
  <2>1. Write(st, c) = [st EXCEPT !.refs = [st.refs EXCEPT ![c.md5] = @ \ {<<c.u, c.p>>}]]
    BY <1>6 DEF Write, RedisWrite
  <2>. DEFINE f == [st.refs EXCEPT ![c.md5] = @ \ {<<c.u, c.p>>}]
  <2>2. f \in [Digest -> SUBSET (Users \X Paths)]
    BY <1>1, <1>2
  <2>3. \A n \in Digest : f[n] = IF n = c.md5 THEN st.refs[n] \ {<<c.u, c.p>>} ELSE st.refs[n]
    BY <1>1, <1>2
  <2>4. Write(st, c) = [st EXCEPT !.refs = f]
    BY <2>1
  <2>. DEFINE r == Write(st, c)
  <2>. HIDE DEF f, r
  <2>5. r = [st EXCEPT !.refs = f]
    BY <2>4 DEF r
  <2>6. /\ r \in StoreType /\ r.refs = f
        /\ r.objects = st.objects /\ r.objMeta = st.objMeta /\ r.index = st.index /\ r.pathMd5 = st.pathMd5
    BY <2>2, <2>5 DEF StoreType
  <2>7. WriteEffect(st, r, c)
    BY <1>6, <2>3, <2>6 DEF WriteEffect
  <2>. QED
    BY <2>7 DEF r
<1>7. CASE c.op = "SETOBJ"
  BY <1>1, <1>2, <1>7 DEF WriteEffect, StoreType, Write, RedisWrite
<1>8. CASE c.op = "DELOBJ"
  BY <1>1, <1>2, <1>8 DEF WriteEffect, StoreType, Write, RedisWrite
<1>9. CASE c.op = "DELREFS"
  <2>1. Write(st, c) = [st EXCEPT !.refs = [st.refs EXCEPT ![c.md5] = {}]]
    BY <1>9 DEF Write, RedisWrite
  <2>. DEFINE f == [st.refs EXCEPT ![c.md5] = {}]
  <2>2. f \in [Digest -> SUBSET (Users \X Paths)]
    BY <1>1, <1>2
  <2>3. \A n \in Digest : f[n] = IF n = c.md5 THEN {} ELSE st.refs[n]
    BY <1>1, <1>2
  <2>4. Write(st, c) = [st EXCEPT !.refs = f]
    BY <2>1
  <2>. DEFINE r == Write(st, c)
  <2>. HIDE DEF f, r
  <2>5. r = [st EXCEPT !.refs = f]
    BY <2>4 DEF r
  <2>6. /\ r \in StoreType /\ r.refs = f
        /\ r.objects = st.objects /\ r.objMeta = st.objMeta /\ r.index = st.index /\ r.pathMd5 = st.pathMd5
    BY <2>2, <2>5 DEF StoreType
  <2>7. WriteEffect(st, r, c)
    BY <1>9, <2>3, <2>6 DEF WriteEffect
  <2>. QED
    BY <2>7 DEF r
<1>10. CASE c.op = "INSROW"
  <2>1. Write(st, c) = [st EXCEPT !.index = [st.index EXCEPT ![c.u][c.p] = FileRow(c.md5)]]
    BY <1>10 DEF Write
  <2>. DEFINE f == [st.index EXCEPT ![c.u][c.p] = FileRow(c.md5)]
  <2>2. f \in [Users -> [Paths -> Row]]
    BY <1>1, <1>2
  <2>3. \A v \in Users, q \in Paths : f[v][q] = IF v = c.u /\ q = c.p THEN FileRow(c.md5) ELSE st.index[v][q]
    BY <1>1, <1>2
  <2>4. Write(st, c) = [st EXCEPT !.index = f]
    BY <2>1
  <2>. DEFINE r == Write(st, c)
  <2>. HIDE DEF f, r
  <2>5. r = [st EXCEPT !.index = f]
    BY <2>4 DEF r
  <2>6. /\ r \in StoreType /\ r.index = f
        /\ r.objects = st.objects /\ r.objMeta = st.objMeta /\ r.refs = st.refs /\ r.pathMd5 = st.pathMd5
    BY <2>2, <2>5 DEF StoreType
  <2>7. WriteEffect(st, r, c)
    BY <1>10, <2>3, <2>6 DEF WriteEffect
  <2>. QED
    BY <2>7 DEF r
<1>11. CASE c.op = "DELROW"
  <2>1. Write(st, c) = [st EXCEPT !.index = [st.index EXCEPT ![c.u][c.p] = NoRow]]
    BY <1>11 DEF Write
  <2>. DEFINE f == [st.index EXCEPT ![c.u][c.p] = NoRow]
  <2>2. f \in [Users -> [Paths -> Row]]
    BY <1>1, <1>2
  <2>3. \A v \in Users, q \in Paths : f[v][q] = IF v = c.u /\ q = c.p THEN NoRow ELSE st.index[v][q]
    BY <1>1, <1>2
  <2>4. Write(st, c) = [st EXCEPT !.index = f]
    BY <2>1
  <2>. DEFINE r == Write(st, c)
  <2>. HIDE DEF f, r
  <2>5. r = [st EXCEPT !.index = f]
    BY <2>4 DEF r
  <2>6. /\ r \in StoreType /\ r.index = f
        /\ r.objects = st.objects /\ r.objMeta = st.objMeta /\ r.refs = st.refs /\ r.pathMd5 = st.pathMd5
    BY <2>2, <2>5 DEF StoreType
  <2>7. WriteEffect(st, r, c)
    BY <1>11, <2>3, <2>6 DEF WriteEffect
  <2>. QED
    BY <2>7 DEF r
<1>12. CASE c.op = "COPY"
  BY <1>1, <1>2, <1>12 DEF WriteEffect, StoreType, Write
<1>13. CASE c.op = "UNLINK"
  BY <1>1, <1>2, <1>13 DEF WriteEffect, StoreType, Write
<1>14. CASE c.op \in {"GETPATH", "SCARD", "LOOKUP", "PREVIOUS", "CONFLICT", "NEXTROW"}
  <2>1. Write(st, c) = st
    BY <1>14 DEF Write, RedisWrite
  <2>. QED
    BY <1>1, <1>2, <1>14, <2>1 DEF WriteEffect, StoreType
<1>. QED
  BY <1>1, <1>3, <1>4, <1>5, <1>6, <1>7, <1>8, <1>9, <1>10, <1>11, <1>12, <1>13, <1>14 DEF Ops

-----------------------------------------------------------------------------
(* Running a list of writes *)

\* No command, no change; and the result of a run is a store.
LEMMA RunsNone ==
    ASSUME NEW st \in StoreType
    PROVE  /\ \A e : Runs(st, << >>, e) <=> e = st
           /\ \A s \in Seq(Command) : \A e : Runs(st, s, e) => e \in StoreType
<1>1. Runs(st, << >>, st)
  <2>. DEFINE tr == [i \in 0 .. 0 |-> st]
  <2>1. tr \in [0 .. Len(<< >>) -> StoreType] /\ tr[0] = st /\ tr[Len(<< >>)] = st
    OBVIOUS
  <2>2. \A i \in 1 .. Len(<< >>) : tr[i] = Write(tr[i - 1], << >>[i])
    OBVIOUS
  <2>. QED
    BY <2>1, <2>2 DEF Runs
<1>2. ASSUME NEW e, Runs(st, << >>, e) PROVE e = st
  BY <1>2 DEF Runs
<1>3. ASSUME NEW s \in Seq(Command), NEW e, Runs(st, s, e) PROVE e \in StoreType
  <2>1. Len(s) \in 0 .. Len(s)
    OBVIOUS
  <2>. QED
    BY <1>3, <2>1 DEF Runs
<1>. QED
  BY <1>1, <1>2, <1>3

\* A run does its first command, then the others.
LEMMA RunsCons ==
    ASSUME NEW st \in StoreType, NEW c \in Command, NEW t \in Seq(Command), NEW e
    PROVE  Runs(st, Cons(c, t), e) <=> Write(st, c) \in StoreType /\ Runs(Write(st, c), t, e)
<1>. DEFINE s == Cons(c, t)
            n == Len(t)
            r == Write(st, c)
<1>1. /\ n \in Nat /\ Len(s) = n + 1 /\ s[1] = c
      /\ \A i \in 1 .. n : s[i + 1] = t[i]
  BY DEF Cons
<1>. HIDE DEF s, n
<1>2. ASSUME Runs(st, s, e) PROVE r \in StoreType /\ Runs(r, t, e)
  <2>1. PICK tr \in [0 .. n + 1 -> StoreType] :
           /\ tr[0] = st /\ tr[n + 1] = e
           /\ \A i \in 1 .. n + 1 : tr[i] = Write(tr[i - 1], s[i])
    BY <1>1, <1>2 DEF Runs
  <2>2. 1 \in 1 .. n + 1 /\ 1 \in 0 .. n + 1 /\ 1 - 1 = 0
    BY <1>1
  <2>3. tr[1] = r /\ r \in StoreType
    BY <1>1, <2>1, <2>2
  <2>. DEFINE tr2 == [i \in 0 .. n |-> tr[i + 1]]
  <2>4. tr2 \in [0 .. n -> StoreType] /\ tr2[0] = r /\ tr2[n] = e
    BY <1>1, <2>1, <2>3
  <2>5. \A i \in 1 .. n : tr2[i] = Write(tr2[i - 1], t[i])
    <3>. TAKE i \in 1 .. n
    <3>1. i + 1 \in 1 .. n + 1 /\ i \in 0 .. n /\ i - 1 \in 0 .. n /\ (i - 1) + 1 = i /\ (i + 1) - 1 = i
      BY <1>1
    <3>2. tr[i + 1] = Write(tr[i], s[i + 1]) /\ s[i + 1] = t[i]
      BY <1>1, <2>1, <3>1
    <3>3. tr2[i] = tr[i + 1] /\ tr2[i - 1] = tr[i]
      BY <3>1
    <3>. QED
      BY <3>2, <3>3
  <2>. HIDE DEF tr2
  <2>6. Runs(r, t, e)
    BY <2>4, <2>5 DEF Runs, n
  <2>. QED
    BY <2>3, <2>6
<1>3. ASSUME r \in StoreType, Runs(r, t, e) PROVE Runs(st, s, e)
  <2>1. PICK tr \in [0 .. n -> StoreType] :
           /\ tr[0] = r /\ tr[n] = e
           /\ \A i \in 1 .. n : tr[i] = Write(tr[i - 1], t[i])
    BY <1>3 DEF Runs, n
  <2>. DEFINE tr2 == [i \in 0 .. n + 1 |-> IF i = 0 THEN st ELSE tr[i - 1]]
  <2>2. tr2 \in [0 .. n + 1 -> StoreType] /\ tr2[0] = st /\ tr2[n + 1] = e
    BY <1>1, <2>1
  <2>3. \A i \in 1 .. n + 1 : tr2[i] = Write(tr2[i - 1], s[i])
    <3>. TAKE i \in 1 .. n + 1
    <3>1. CASE i = 1
      <4>1. tr2[1] = tr[0] /\ tr2[1 - 1] = st
        BY <1>1
      <4>. QED
        BY <1>1, <2>1, <3>1, <4>1
    <3>2. CASE i \in 2 .. n + 1
      <4>1. i - 1 \in 1 .. n /\ (i - 1) + 1 = i /\ i - 1 \in 0 .. n + 1 /\ i \in 0 .. n + 1 /\ i # 0 /\ i - 1 # 0
        BY <1>1, <3>2
      <4>2. tr2[i] = tr[i - 1] /\ tr2[i - 1] = tr[(i - 1) - 1]
        BY <4>1
      <4>3. s[i] = t[i - 1]
        BY <1>1, <4>1
      <4>. QED
        BY <2>1, <4>1, <4>2, <4>3
    <3>. QED
      BY <1>1, <3>1, <3>2
  <2>. HIDE DEF tr2
  <2>. QED
    BY <1>1, <2>2, <2>3 DEF Runs
<1>. QED
  BY <1>2, <1>3 DEF s

\* Two runs, one after the other.
LEMMA RunsConcat ==
    ASSUME NEW st, NEW mid, NEW e, NEW a \in Seq(Command), NEW b \in Seq(Command),
           Runs(st, a, mid), Runs(mid, b, e)
    PROVE  Runs(st, Cat(a, b), e)
<1>. DEFINE n == Len(a)
            k == Len(b)
            s == Cat(a, b)
<1>1. /\ n \in Nat /\ k \in Nat /\ Len(s) = n + k
      /\ \A i \in 1 .. n + k : s[i] = IF i <= n THEN a[i] ELSE b[i - n]
  BY ConcatProperties DEF Cat
<1>2. PICK ta \in [0 .. n -> StoreType] :
         /\ ta[0] = st /\ ta[n] = mid
         /\ \A i \in 1 .. n : ta[i] = Write(ta[i - 1], a[i])
  BY DEF Runs
<1>3. PICK tb \in [0 .. k -> StoreType] :
         /\ tb[0] = mid /\ tb[k] = e
         /\ \A i \in 1 .. k : tb[i] = Write(tb[i - 1], b[i])
  BY DEF Runs
<1>. HIDE DEF n, k, s
<1>. DEFINE tr == [i \in 0 .. n + k |-> IF i <= n THEN ta[i] ELSE tb[i - n]]
<1>4. \A i \in n .. n + k : i \in 0 .. n + k /\ tr[i] = tb[i - n]
  <2>. TAKE i \in n .. n + k
  <2>1. CASE i = n
    <3>1. n \in 0 .. n + k /\ n - n = 0
      BY <1>1
    <3>. QED
      BY <1>1, <1>2, <1>3, <2>1, <3>1
  <2>2. CASE i # n
    <3>1. i \in 0 .. n + k /\ ~(i <= n)
      BY <1>1, <2>2
    <3>. QED
      BY <3>1
  <2>. QED
    BY <2>1, <2>2
<1>5. tr \in [0 .. n + k -> StoreType]
  <2>1. \A i \in 0 .. n + k : (i <= n => i \in 0 .. n) /\ (~(i <= n) => i - n \in 0 .. k)
    BY <1>1
  <2>. QED
    BY <1>2, <1>3, <2>1
<1>6. tr[0] = st /\ tr[n + k] = e
  <2>1. n + k \in n .. n + k /\ (n + k) - n = k /\ 0 \in 0 .. n + k /\ 0 <= n
    BY <1>1
  <2>. QED
    BY <1>2, <1>3, <1>4, <2>1
<1>7. \A i \in 1 .. n + k : tr[i] = Write(tr[i - 1], s[i])
  <2>. TAKE i \in 1 .. n + k
  <2>1. CASE i <= n
    <3>1. i \in 1 .. n /\ i \in 0 .. n + k /\ i - 1 \in 0 .. n + k /\ i - 1 <= n
      BY <1>1, <2>1
    <3>2. tr[i] = ta[i] /\ tr[i - 1] = ta[i - 1] /\ s[i] = a[i]
      BY <1>1, <2>1, <3>1
    <3>. QED
      BY <1>2, <3>1, <3>2
  <2>2. CASE ~(i <= n)
    <3>1. /\ i - n \in 1 .. k /\ i - 1 \in n .. n + k /\ i \in n .. n + k
          /\ (i - 1) - n = (i - n) - 1
      BY <1>1, <2>2
    <3>2. tr[i] = tb[i - n] /\ tr[i - 1] = tb[(i - n) - 1] /\ s[i] = b[i - n]
      BY <1>1, <1>4, <2>2, <3>1
    <3>. QED
      BY <1>3, <3>1, <3>2
  <2>. QED
    BY <2>1, <2>2
<1>. HIDE DEF tr
<1>8. Runs(st, s, e)
  BY <1>1, <1>5, <1>6, <1>7 DEF Runs
<1>. QED
  BY <1>8 DEF s

\* Commands that Write can be asked for in any store.
SafeCommand == {c \in Command : c.op \in {"COPY", "SETOBJ"} => c.md5 \in Md5}

\* Two and three commands.
LEMMA RunsShort ==
    ASSUME NEW st \in StoreType,
           NEW x \in SafeCommand, NEW y \in SafeCommand, NEW z \in SafeCommand
    PROVE  /\ Write(st, x) \in StoreType
           /\ Write(Write(st, x), y) \in StoreType
           /\ Write(Write(Write(st, x), y), z) \in StoreType
           /\ Runs(st, Two(x, y), Write(Write(st, x), y))
           /\ Runs(st, Three(x, y, z), Write(Write(Write(st, x), y), z))
<1>. DEFINE r1 == Write(st, x)
            r2 == Write(r1, y)
            r3 == Write(r2, z)
            none == << >>
<1>1. /\ x \in Command /\ y \in Command /\ z \in Command
      /\ \A s \in StoreType, c \in SafeCommand : Write(s, c) \in StoreType
  BY WriteFields DEF SafeCommand, WriteEffect
<1>2. r1 \in StoreType /\ r2 \in StoreType /\ r3 \in StoreType
  BY <1>1
<1>3. none \in Seq(Command)
  OBVIOUS
<1>4. Runs(r2, none, r2) /\ Runs(r3, none, r3)
  BY <1>2, RunsNone
<1>5. \A a \in Seq(Command) : Cat(a, none) = a
  BY CatParts
<1>. HIDE DEF none
<1>6. /\ Two(x, y) = Cons(x, Cons(y, none))
      /\ Three(x, y, z) = Cons(x, Cons(y, Cons(z, none)))
  BY <1>1, <1>3, <1>5, ShortPrograms
<1>7. /\ Cons(y, none) \in Seq(Command) /\ Cons(z, none) \in Seq(Command)
      /\ Cons(y, Cons(z, none)) \in Seq(Command)
  BY <1>1, <1>3, ConsParts
<1>. HIDE DEF r1, r2, r3
<1>8. Runs(r1, Cons(y, none), r2) /\ Runs(r2, Cons(z, none), r3)
  BY <1>1, <1>2, <1>3, <1>4, RunsCons DEF r2, r3
<1>9. Runs(r1, Cons(y, Cons(z, none)), r3)
  BY <1>1, <1>2, <1>7, <1>8, RunsCons DEF r2
<1>10. Runs(st, Two(x, y), r2) /\ Runs(st, Three(x, y, z), r3)
  BY <1>1, <1>2, <1>6, <1>7, <1>8, <1>9, RunsCons DEF r1
<1>. QED
  BY <1>2, <1>10 DEF r1, r2, r3

-----------------------------------------------------------------------------
(* The operations of ObjectStore *)

\* What releaseContentRef of the paths P makes of a store st: r is the result.
ReleaseEffect(st, r, u, P) ==
    /\ r \in StoreType
    /\ r.objects = st.objects \ Collected(st, u, P)
    /\ r.objMeta = st.objMeta \ Collected(st, u, P)
    /\ \A m \in Digest :
          r.refs[m] = IF m = NoMd5 THEN st.refs[m] ELSE RefsAfterRelease(st, u, P, m)
    /\ \A v \in Users, q \in Paths :
          /\ r.index[v][q] = IF v = u /\ q \in P THEN NoRow ELSE st.index[v][q]
          /\ r.pathMd5[v][q] = IF v = u /\ q \in P THEN NoMd5 ELSE st.pathMd5[v][q]

\* releaseContentRef has that effect.
LEMMA ReleaseFields ==
    ASSUME NEW st \in StoreType, NEW u \in Users, NEW P \in SUBSET Paths,
           NEW r, r = ReleaseContentRef(st, u, P)
    PROVE  ReleaseEffect(st, r, u, P)
BY DEF ReleaseEffect, ReleaseContentRef, RefsAfterRelease, Store, Without, StoreType, NoRow, Row, Digest

\* unindex changes rows and cached md5s of one user.
UnindexEffect(st, r, u, P) ==
    /\ r \in StoreType
    /\ r.objects = st.objects /\ r.objMeta = st.objMeta
    /\ \A m \in Digest : r.refs[m] = st.refs[m]
    /\ \A v \in Users, q \in Paths :
          /\ r.index[v][q] = IF v = u /\ q \in P THEN NoRow ELSE st.index[v][q]
          /\ r.pathMd5[v][q] = IF v = u /\ q \in P THEN NoMd5 ELSE st.pathMd5[v][q]

\* unindex has that effect.
LEMMA UnindexFields ==
    ASSUME NEW st \in StoreType, NEW u \in Users, NEW P \in SUBSET Paths,
           NEW r, r = Unindex(st, u, P)
    PROVE  UnindexEffect(st, r, u, P)
BY DEF UnindexEffect, Unindex, Store, Without, StoreType, NoRow, Row, Digest

\* publishObject adds an object and its key.
PublishEffect(st, r, m) ==
    /\ r \in StoreType
    /\ r.objects = st.objects \cup {m} /\ r.objMeta = st.objMeta \cup {m}
    /\ r.refs = st.refs /\ r.index = st.index /\ r.pathMd5 = st.pathMd5

\* publishObject has that effect.
LEMMA PublishFields ==
    ASSUME NEW st \in StoreType, NEW m \in Md5, NEW r, r = PublishObject(st, m)
    PROVE  PublishEffect(st, r, m)
BY DEF PublishEffect, PublishObject, Store, StoreType

\* addContentRef counts, indexes and caches one path.
AddEffect(st, r, u, p, m) ==
    /\ r \in StoreType
    /\ r.objects = st.objects /\ r.objMeta = st.objMeta
    /\ \A n \in Digest :
          r.refs[n] = IF n = m THEN st.refs[n] \cup {<<u, p>>} ELSE st.refs[n]
    /\ \A v \in Users, q \in Paths :
          /\ r.index[v][q] = IF v = u /\ q = p THEN FileRow(m) ELSE st.index[v][q]
          /\ r.pathMd5[v][q] = IF v = u /\ q = p THEN m ELSE st.pathMd5[v][q]

\* addContentRef has that effect.
LEMMA AddFields ==
    ASSUME NEW st \in StoreType, NEW u \in Users, NEW p \in Paths, NEW m \in Md5,
           NEW r, r = AddContentRef(st, u, p, m)
    PROVE  AddEffect(st, r, u, p, m)
<1>1. /\ m \in Digest /\ FileRow(m) \in Row
      /\ st.refs \in [Digest -> SUBSET (Users \X Paths)]
      /\ st.index \in [Users -> [Paths -> Row]]
      /\ st.pathMd5 \in [Users -> [Paths -> Digest]]
  BY DEF FileRow, Row, Digest, StoreType
<1>2. /\ r.objects = st.objects /\ r.objMeta = st.objMeta
      /\ r.refs = [st.refs EXCEPT ![m] = @ \cup {<<u, p>>}]
      /\ r.index = [st.index EXCEPT ![u][p] = FileRow(m)]
      /\ r.pathMd5 = [st.pathMd5 EXCEPT ![u][p] = m]
      /\ r = Store(r.objects, r.objMeta, r.refs, r.index, r.pathMd5)
  BY DEF AddContentRef, Store
<1>3. /\ r.refs \in [Digest -> SUBSET (Users \X Paths)]
      /\ r.index \in [Users -> [Paths -> Row]]
      /\ r.pathMd5 \in [Users -> [Paths -> Digest]]
  BY <1>1, <1>2
<1>4. r \in StoreType
  BY <1>2, <1>3 DEF Store, StoreType
<1>5. \A n \in Digest : r.refs[n] = IF n = m THEN st.refs[n] \cup {<<u, p>>} ELSE st.refs[n]
  BY <1>1, <1>2
<1>6. \A v \in Users, q \in Paths :
         /\ r.index[v][q] = IF v = u /\ q = p THEN FileRow(m) ELSE st.index[v][q]
         /\ r.pathMd5[v][q] = IF v = u /\ q = p THEN m ELSE st.pathMd5[v][q]
  BY <1>1, <1>2
<1>. QED
  BY <1>2, <1>4, <1>5, <1>6 DEF AddEffect

\* renameIndexedFile moves one reference, row and cached md5.
RenameEffect(st, r, u, from, to, m) ==
    /\ m \in Digest
    /\ r \in StoreType
    /\ r.objects = st.objects /\ r.objMeta = st.objMeta
    /\ \A n \in Digest :
          r.refs[n] = IF n = m THEN (st.refs[n] \ {<<u, from>>}) \cup {<<u, to>>}
                      ELSE st.refs[n]
    /\ \A v \in Users, q \in Paths :
          /\ r.index[v][q] = IF v = u /\ q = from THEN NoRow
                             ELSE IF v = u /\ q = to THEN FileRow(m)
                             ELSE st.index[v][q]
          /\ r.pathMd5[v][q] = IF v = u /\ q = to THEN m
                               ELSE IF v = u /\ q = from THEN NoMd5
                               ELSE st.pathMd5[v][q]

\* renameIndexedFile has that effect.
LEMMA RenameFields ==
    ASSUME NEW st \in StoreType, NEW u \in Users, NEW from \in Paths, NEW to \in Paths,
           NEW r, r = RenameIndexedFile(st, u, from, to),
           NEW m, m = st.index[u][from].md5
    PROVE  RenameEffect(st, r, u, from, to, m)
<1>1. /\ st.refs \in [Digest -> SUBSET (Users \X Paths)]
      /\ st.index \in [Users -> [Paths -> Row]]
      /\ st.pathMd5 \in [Users -> [Paths -> Digest]]
  BY DEF StoreType
<1>2. m \in Digest /\ FileRow(m) \in Row /\ NoRow \in Row /\ NoMd5 \in Digest
  BY <1>1 DEF FileRow, NoRow, Row, Digest
<1>3. /\ r.objects = st.objects /\ r.objMeta = st.objMeta
      /\ r.refs = [st.refs EXCEPT ![m] = (@ \ {<<u, from>>}) \cup {<<u, to>>}]
      /\ r.index = [st.index EXCEPT ![u] = [@ EXCEPT ![to] = FileRow(m), ![from] = NoRow]]
      /\ r.pathMd5 = [st.pathMd5 EXCEPT ![u] = [@ EXCEPT ![from] = NoMd5, ![to] = m]]
      /\ r = Store(r.objects, r.objMeta, r.refs, r.index, r.pathMd5)
  BY DEF RenameIndexedFile, Store
<1>4. /\ [st.index[u] EXCEPT ![to] = FileRow(m), ![from] = NoRow] \in [Paths -> Row]
      /\ [st.pathMd5[u] EXCEPT ![from] = NoMd5, ![to] = m] \in [Paths -> Digest]
  BY <1>1, <1>2
<1>5. /\ r.index[u] = [st.index[u] EXCEPT ![to] = FileRow(m), ![from] = NoRow]
      /\ r.pathMd5[u] = [st.pathMd5[u] EXCEPT ![from] = NoMd5, ![to] = m]
      /\ \A v \in Users \ {u} : r.index[v] = st.index[v] /\ r.pathMd5[v] = st.pathMd5[v]
  BY <1>1, <1>3
<1>a. r.refs \in [Digest -> SUBSET (Users \X Paths)]
  <2>. DEFINE X == (st.refs[m] \ {<<u, from>>}) \cup {<<u, to>>}
  <2>1. X \in SUBSET (Users \X Paths)
    <3>1. st.refs[m] \in SUBSET (Users \X Paths)
      BY <1>1, <1>2
    <3>2. <<u, from>> \in Users \X Paths /\ <<u, to>> \in Users \X Paths
      OBVIOUS
    <3>. QED
      BY <3>1, <3>2
  <2>2. r.refs = [st.refs EXCEPT ![m] = X]
    BY <1>3
  <2>. HIDE DEF X
  <2>. QED
    BY <1>1, <2>1, <2>2, Zenon
<1>b. r.index \in [Users -> [Paths -> Row]]
  <2>1. r.index = [st.index EXCEPT ![u] = [st.index[u] EXCEPT ![to] = FileRow(m), ![from] = NoRow]]
    BY <1>3
  <2>. QED
    BY <1>1, <1>4, <2>1, Zenon
<1>6. r.pathMd5 \in [Users -> [Paths -> Digest]]
  <2>1. r.pathMd5 = [st.pathMd5 EXCEPT ![u] = [st.pathMd5[u] EXCEPT ![from] = NoMd5, ![to] = m]]
    BY <1>3
  <2>. QED
    BY <1>1, <1>4, <2>1, Zenon
<1>7. r \in StoreType
  BY <1>3, <1>a, <1>b, <1>6 DEF Store, StoreType
<1>8. \A n \in Digest :
         r.refs[n] = IF n = m THEN (st.refs[n] \ {<<u, from>>}) \cup {<<u, to>>} ELSE st.refs[n]
  BY <1>1, <1>2, <1>3
<1>9. \A v \in Users, q \in Paths :
         /\ r.index[v][q] = IF v = u /\ q = from THEN NoRow
                            ELSE IF v = u /\ q = to THEN FileRow(m)
                            ELSE st.index[v][q]
         /\ r.pathMd5[v][q] = IF v = u /\ q = to THEN m
                              ELSE IF v = u /\ q = from THEN NoMd5
                              ELSE st.pathMd5[v][q]
  BY <1>1, <1>5
<1>. QED
  BY <1>2, <1>3, <1>7, <1>8, <1>9 DEF RenameEffect

-----------------------------------------------------------------------------
(* What the programs do *)

\* The commands the handlers are made of.
LEMMA CmdParts ==
    ASSUME NEW op \in Ops, NEW u \in Users, NEW p \in Paths, NEW m \in Digest,
           op \in {"COPY", "SETOBJ"} => m \in Md5
    PROVE  /\ Cmd(op, u, p, m) \in SafeCommand /\ Cmd(op, u, p, m) \in Command
           /\ Cmd(op, u, p, m).op = op /\ Cmd(op, u, p, m).u = u
           /\ Cmd(op, u, p, m).p = p /\ Cmd(op, u, p, m).md5 = m
BY DEF Cmd, Command, SafeCommand

\* Each of them has the effect that WriteEffect says.
LEMMA SafeWrite ==
    ASSUME NEW st \in StoreType, NEW c \in SafeCommand, NEW r, r = Write(st, c)
    PROVE  WriteEffect(st, r, c)
BY WriteFields DEF SafeCommand

\* unindex: DELETE of the row, DEL of the cached md5.
LEMMA UnindexRuns ==
    ASSUME NEW st \in StoreType, NEW u \in Users, NEW p \in Paths
    PROVE  Runs(st, Unindexing(u, p), Unindex(st, u, {p}))
<1>. DEFINE x == Cmd("DELROW", u, p, NoMd5)
            y == Cmd("DELPATH", u, p, NoMd5)
            r1 == Write(st, x)
            r2 == Write(r1, y)
            goal == Unindex(st, u, {p})
<1>1. "DELROW" \in Ops /\ "DELPATH" \in Ops /\ NoMd5 \in Digest /\ {p} \in SUBSET Paths
  BY DEF Ops, Digest
<1>2. /\ x \in SafeCommand /\ x.op = "DELROW" /\ x.u = u /\ x.p = p /\ x.md5 = NoMd5
      /\ y \in SafeCommand /\ y.op = "DELPATH" /\ y.u = u /\ y.p = p /\ y.md5 = NoMd5
  BY <1>1, CmdParts
<1>3. Unindexing(u, p) = Two(x, y)
  BY DEF Unindexing, Two
<1>. HIDE DEF x, y
<1>4. /\ r1 \in StoreType /\ r2 \in StoreType /\ Runs(st, Two(x, y), r2)
  BY <1>2, RunsShort
<1>5. WriteEffect(st, r1, x) /\ WriteEffect(r1, r2, y)
  BY <1>2, <1>4, SafeWrite
<1>. HIDE DEF r1, r2
<1>6. goal \in StoreType /\ UnindexEffect(st, goal, u, {p})
  BY <1>1, UnindexFields DEF UnindexEffect
<1>. HIDE DEF goal
<1>7. r2.objects = goal.objects /\ r2.objMeta = goal.objMeta
  BY <1>2, <1>5, <1>6 DEF WriteEffect, UnindexEffect
<1>8. \A m \in Digest : r2.refs[m] = goal.refs[m]
  BY <1>2, <1>5, <1>6 DEF WriteEffect, UnindexEffect
<1>9. \A v \in Users, q \in Paths : r2.index[v][q] = goal.index[v][q]
  BY <1>2, <1>5, <1>6 DEF WriteEffect, UnindexEffect
<1>10. \A v \in Users, q \in Paths : r2.pathMd5[v][q] = goal.pathMd5[v][q]
  BY <1>2, <1>5, <1>6 DEF WriteEffect, UnindexEffect
<1>11. r2 = goal
  BY <1>4, <1>6, <1>7, <1>8, <1>9, <1>10, SameStore
<1>. QED
  BY <1>3, <1>4, <1>11 DEF goal

\* addContentRef: SADD, INSERT and SET.
LEMMA AddRuns ==
    ASSUME NEW st \in StoreType, NEW u \in Users, NEW p \in Paths, NEW m \in Md5
    PROVE  Runs(st, Adding(u, p, m), AddContentRef(st, u, p, m))
<1>. DEFINE x == Cmd("SADD", u, p, m)
            y == Cmd("INSROW", u, p, m)
            z == Cmd("SETPATH", u, p, m)
            r1 == Write(st, x)
            r2 == Write(r1, y)
            r3 == Write(r2, z)
            goal == AddContentRef(st, u, p, m)
<1>1. "SADD" \in Ops /\ "INSROW" \in Ops /\ "SETPATH" \in Ops /\ m \in Digest
  BY DEF Ops, Digest
<1>2. /\ x \in SafeCommand /\ x.op = "SADD" /\ x.u = u /\ x.p = p /\ x.md5 = m
      /\ y \in SafeCommand /\ y.op = "INSROW" /\ y.u = u /\ y.p = p /\ y.md5 = m
      /\ z \in SafeCommand /\ z.op = "SETPATH" /\ z.u = u /\ z.p = p /\ z.md5 = m
  BY <1>1, CmdParts
<1>3. Adding(u, p, m) = Three(x, y, z)
  BY DEF Adding, Three
<1>. HIDE DEF x, y, z
<1>4. r1 \in StoreType /\ r2 \in StoreType /\ r3 \in StoreType /\ Runs(st, Three(x, y, z), r3)
  BY <1>2, RunsShort
<1>5. WriteEffect(st, r1, x) /\ WriteEffect(r1, r2, y) /\ WriteEffect(r2, r3, z)
  BY <1>2, <1>4, SafeWrite
<1>. HIDE DEF r1, r2, r3
<1>a. AddEffect(st, goal, u, p, m)
  BY AddFields
<1>6. goal \in StoreType /\ AddEffect(st, goal, u, p, m)
  BY <1>a DEF AddEffect
<1>. HIDE DEF goal
<1>7. r3.objects = goal.objects /\ r3.objMeta = goal.objMeta
  BY <1>2, <1>5, <1>6 DEF WriteEffect, AddEffect
<1>8. \A n \in Digest : r3.refs[n] = goal.refs[n]
  <2>. TAKE n \in Digest
  <2>1. r1.refs[n] = IF n = m THEN st.refs[n] \cup {<<u, p>>} ELSE st.refs[n]
    <3>1. WriteEffect(st, r1, x) /\ x.op = "SADD" /\ x.u = u /\ x.p = p /\ x.md5 = m
      BY <1>2, <1>5
    <3>. QED
      BY <3>1 DEF WriteEffect
  <2>2. r2.refs[n] = r1.refs[n] /\ r3.refs[n] = r2.refs[n]
    BY <1>2, <1>5 DEF WriteEffect
  <2>3. goal.refs[n] = IF n = m THEN st.refs[n] \cup {<<u, p>>} ELSE st.refs[n]
    BY <1>6 DEF AddEffect
  <2>. QED
    BY <2>1, <2>2, <2>3
<1>9. \A v \in Users, q \in Paths : r3.index[v][q] = goal.index[v][q]
  BY <1>2, <1>5, <1>6 DEF WriteEffect, AddEffect
<1>10. \A v \in Users, q \in Paths : r3.pathMd5[v][q] = goal.pathMd5[v][q]
  BY <1>2, <1>5, <1>6 DEF WriteEffect, AddEffect
<1>11. r3 = goal
  BY <1>4, <1>6, <1>7, <1>8, <1>9, <1>10, SameStore
<1>. QED
  BY <1>3, <1>4, <1>11 DEF goal

\* publishObject: the copy and the key cs:obj.
LEMMA PublishRuns ==
    ASSUME NEW st \in StoreType, NEW u \in Users, NEW p \in Paths, NEW m \in Md5
    PROVE  Runs(st, Two(Cmd("COPY", u, p, m), Cmd("SETOBJ", u, p, m)), PublishObject(st, m))
<1>. DEFINE x == Cmd("COPY", u, p, m)
            y == Cmd("SETOBJ", u, p, m)
            r1 == Write(st, x)
            r2 == Write(r1, y)
            goal == PublishObject(st, m)
<1>1. "COPY" \in Ops /\ "SETOBJ" \in Ops /\ m \in Digest
  BY DEF Ops, Digest
<1>2. /\ x \in SafeCommand /\ x.op = "COPY" /\ x.u = u /\ x.p = p /\ x.md5 = m
      /\ y \in SafeCommand /\ y.op = "SETOBJ" /\ y.u = u /\ y.p = p /\ y.md5 = m
  BY <1>1, CmdParts
<1>. HIDE DEF x, y
<1>3. r1 \in StoreType /\ r2 \in StoreType /\ Runs(st, Two(x, y), r2)
  BY <1>2, RunsShort
<1>4. WriteEffect(st, r1, x) /\ WriteEffect(r1, r2, y)
  BY <1>2, <1>3, SafeWrite
<1>. HIDE DEF r1, r2
<1>5. goal \in StoreType /\ PublishEffect(st, goal, m)
  BY PublishFields DEF PublishEffect
<1>. HIDE DEF goal
<1>6. r2.objects = goal.objects /\ r2.objMeta = goal.objMeta
  BY <1>2, <1>4, <1>5 DEF WriteEffect, PublishEffect
<1>7. /\ \A n \in Digest : r2.refs[n] = goal.refs[n]
      /\ \A v \in Users, q \in Paths : r2.index[v][q] = goal.index[v][q]
      /\ \A v \in Users, q \in Paths : r2.pathMd5[v][q] = goal.pathMd5[v][q]
  BY <1>2, <1>4, <1>5 DEF WriteEffect, PublishEffect
<1>8. r2 = goal
  BY <1>3, <1>5, <1>6, <1>7, SameStore
<1>. QED
  BY <1>3, <1>8 DEF goal, x, y

\* renameIndexedFile: the six commands, whether or not source and target differ.
LEMMA RenameRuns ==
    ASSUME NEW st \in StoreType, NEW u \in Users, NEW from \in Paths, NEW to \in Paths,
           NEW m, m = st.index[u][from].md5
    PROVE  Runs(st, Renaming(u, from, to, m), RenameIndexedFile(st, u, from, to))
<1>. DEFINE x == Cmd("SREM", u, from, m)
            y == Cmd("SADD", u, to, m)
            z == Cmd("DELPATH", u, from, NoMd5)
            a == Cmd("INSROW", u, to, m)
            b == Cmd("SETPATH", u, to, m)
            c == Cmd("DELROW", u, from, NoMd5)
            r1 == Write(st, x)
            r2 == Write(r1, y)
            r3 == Write(r2, z)
            r4 == Write(r3, a)
            r5 == Write(r4, b)
            r6 == Write(r5, c)
            goal == RenameIndexedFile(st, u, from, to)
<1>0. RenameEffect(st, goal, u, from, to, m)
  BY RenameFields
<1>1. /\ m \in Digest /\ goal \in StoreType /\ NoMd5 \in Digest
      /\ "SREM" \in Ops /\ "SADD" \in Ops /\ "DELPATH" \in Ops
      /\ "INSROW" \in Ops /\ "SETPATH" \in Ops /\ "DELROW" \in Ops
  BY <1>0 DEF Ops, Digest, RenameEffect
<1>2. /\ x \in SafeCommand /\ x.op = "SREM" /\ x.u = u /\ x.p = from /\ x.md5 = m
      /\ y \in SafeCommand /\ y.op = "SADD" /\ y.u = u /\ y.p = to /\ y.md5 = m
      /\ z \in SafeCommand /\ z.op = "DELPATH" /\ z.u = u /\ z.p = from /\ z.md5 = NoMd5
  BY <1>1, CmdParts
<1>3. /\ a \in SafeCommand /\ a.op = "INSROW" /\ a.u = u /\ a.p = to /\ a.md5 = m
      /\ b \in SafeCommand /\ b.op = "SETPATH" /\ b.u = u /\ b.p = to /\ b.md5 = m
      /\ c \in SafeCommand /\ c.op = "DELROW" /\ c.u = u /\ c.p = from /\ c.md5 = NoMd5
  BY <1>1, CmdParts
<1>4. Renaming(u, from, to, m) = Six(x, y, z, a, b, c)
  BY DEF Renaming, Six
<1>. HIDE DEF x, y, z, a, b, c
<1>5. /\ x \in Command /\ y \in Command /\ z \in Command /\ a \in Command /\ b \in Command /\ c \in Command
  BY <1>2, <1>3 DEF SafeCommand
<1>6. r1 \in StoreType /\ r2 \in StoreType /\ r3 \in StoreType /\ Runs(st, Three(x, y, z), r3)
  BY <1>2, RunsShort
<1>7. r4 \in StoreType /\ r5 \in StoreType /\ r6 \in StoreType /\ Runs(r3, Three(a, b, c), r6)
  <2>. HIDE DEF r3
  <2>. QED
    BY <1>3, <1>6, RunsShort
<1>8. Runs(st, Renaming(u, from, to, m), r6)
  <2>. HIDE DEF r3, r6
  <2>1. Renaming(u, from, to, m) = Cat(Three(x, y, z), Three(a, b, c))
    BY <1>4, <1>5, SixCommands
  <2>2. << >> \in Seq(Command)
    OBVIOUS
  <2>3. Three(x, y, z) \in Seq(Command) /\ Three(a, b, c) \in Seq(Command)
    BY <1>5, <2>2, ShortPrograms
  <2>. QED
    BY <1>6, <1>7, <2>1, <2>3, RunsConcat
<1>9. WriteEffect(st, r1, x) /\ WriteEffect(r1, r2, y) /\ WriteEffect(r2, r3, z)
  BY <1>2, <1>6, SafeWrite
<1>10. WriteEffect(r3, r4, a) /\ WriteEffect(r4, r5, b) /\ WriteEffect(r5, r6, c)
  <2>. HIDE DEF r3
  <2>. QED
    BY <1>3, <1>6, <1>7, SafeWrite
<1>. HIDE DEF r1, r2, r3, r4, r5, r6, goal
<1>11. r3.objects = st.objects /\ r3.objMeta = st.objMeta
  BY <1>2, <1>9 DEF WriteEffect
<1>12. r6.objects = goal.objects /\ r6.objMeta = goal.objMeta
  BY <1>0, <1>3, <1>10, <1>11 DEF WriteEffect, RenameEffect
<1>13. ASSUME NEW n \in Digest PROVE r6.refs[n] = goal.refs[n]
  <2>1. r1.refs[n] = IF n = m THEN st.refs[n] \ {<<u, from>>} ELSE st.refs[n]
    <3>1. WriteEffect(st, r1, x) /\ x.op = "SREM" /\ x.u = u /\ x.p = from /\ x.md5 = m
      BY <1>2, <1>9
    <3>. QED
      BY <3>1 DEF WriteEffect
  <2>2. r2.refs[n] = IF n = m THEN r1.refs[n] \cup {<<u, to>>} ELSE r1.refs[n]
    <3>1. WriteEffect(r1, r2, y) /\ y.op = "SADD" /\ y.u = u /\ y.p = to /\ y.md5 = m
      BY <1>2, <1>9
    <3>. QED
      BY <3>1 DEF WriteEffect
  <2>3. r3.refs[n] = r2.refs[n]
    <3>1. WriteEffect(r2, r3, z) /\ z.op = "DELPATH"
      BY <1>2, <1>9
    <3>. QED
      BY <3>1 DEF WriteEffect
  <2>4. r6.refs[n] = r3.refs[n]
    BY <1>3, <1>10 DEF WriteEffect
  <2>5. goal.refs[n] = IF n = m THEN (st.refs[n] \ {<<u, from>>}) \cup {<<u, to>>} ELSE st.refs[n]
    BY <1>0 DEF RenameEffect
  <2>. QED
    BY <2>1, <2>2, <2>3, <2>4, <2>5
<1>14. ASSUME NEW v \in Users, NEW q \in Paths
       PROVE  r6.index[v][q] = goal.index[v][q] /\ r6.pathMd5[v][q] = goal.pathMd5[v][q]
  <2>1. /\ r3.index[v][q] = st.index[v][q]
        /\ r3.pathMd5[v][q] = IF v = u /\ q = from THEN NoMd5 ELSE st.pathMd5[v][q]
    BY <1>2, <1>9 DEF WriteEffect
  <2>2. /\ r5.index[v][q] = IF v = u /\ q = to THEN FileRow(m) ELSE r3.index[v][q]
        /\ r5.pathMd5[v][q] = IF v = u /\ q = to THEN m ELSE r3.pathMd5[v][q]
    BY <1>3, <1>10 DEF WriteEffect
  <2>3. /\ r6.index[v][q] = IF v = u /\ q = from THEN NoRow ELSE r5.index[v][q]
        /\ r6.pathMd5[v][q] = r5.pathMd5[v][q]
    BY <1>3, <1>10 DEF WriteEffect
  <2>. QED
    BY <1>0, <2>1, <2>2, <2>3 DEF RenameEffect
<1>15. r6 = goal
  BY <1>1, <1>7, <1>12, <1>13, <1>14, SameStore
<1>. QED
  BY <1>8, <1>15 DEF goal

\* The md5 of a path, and stores that agree on it.
LEMMA HeldParts ==
    ASSUME NEW st \in StoreType, NEW u \in Users, NEW p \in Paths
    PROVE  /\ HeldMd5(st, u, p) \in Digest
           /\ IsFile(st, u, p) \in BOOLEAN
           /\ st.index[u][p] \in Row /\ st.pathMd5[u][p] \in Digest
           /\ \A r \in StoreType :
                 r.index[u][p] = st.index[u][p] /\ r.pathMd5[u][p] = st.pathMd5[u][p]
                     => HeldMd5(r, u, p) = HeldMd5(st, u, p) /\ IsFile(r, u, p) = IsFile(st, u, p)
           /\ \A r \in StoreType :
                 r.index[u][p] = NoRow /\ r.pathMd5[u][p] = NoMd5
                     => HeldMd5(r, u, p) = NoMd5 /\ ~IsFile(r, u, p)
BY DEF HeldMd5, IsFile, StoreType, Row, NoRow, Digest

-----------------------------------------------------------------------------
(* releaseContentRef *)

\* The references to the content m but that of u's path p.
OtherRefs(st, u, p, m) == st.refs[m] \ {<<u, p>>}

\* What the release of one path leaves in the reference sets, and when it
\* collects the object.
LEMMA ReleaseOne ==
    ASSUME NEW st \in StoreType, NEW u \in Users, NEW p \in Paths, NEW m \in Md5
    PROVE  /\ RefsAfterRelease(st, u, {p}, m)
                 = IF HeldMd5(st, u, p) = m THEN OtherRefs(st, u, p, m) ELSE st.refs[m]
           /\ m \in Collected(st, u, {p})
                 <=> HeldMd5(st, u, p) = m /\ OtherRefs(st, u, p, m) = {}
<1>1. st.refs[m] \in SUBSET (Users \X Paths)
  BY DEF StoreType, Digest
<1>2. \A r \in st.refs[m] : r = <<r[1], r[2]>>
  BY <1>1
<1>3. \A r \in st.refs[m] : (r[1] = u /\ r[2] \in {p}) <=> r = <<u, p>>
  BY <1>2
<1>4. RefsAfterRelease(st, u, {p}, m)
         = {r \in st.refs[m] : ~(r = <<u, p>> /\ HeldMd5(st, u, p) = m)}
  BY <1>3 DEF RefsAfterRelease
<1>5. RefsAfterRelease(st, u, {p}, m)
         = IF HeldMd5(st, u, p) = m THEN OtherRefs(st, u, p, m) ELSE st.refs[m]
  BY <1>4 DEF OtherRefs
<1>6. m \in Collected(st, u, {p}) <=> HeldMd5(st, u, p) = m /\ RefsAfterRelease(st, u, {p}, m) = {}
  BY DEF Collected
<1>. QED
  BY <1>5, <1>6

\* Without an object to delete, the release is what unindex does.
LEMMA ReleaseIsUnindex ==
    ASSUME NEW st \in StoreType, NEW u \in Users, NEW p \in Paths,
           \/ HeldMd5(st, u, p) = NoMd5
           \/ /\ HeldMd5(st, u, p) \in Md5
              /\ <<u, p>> \notin st.refs[HeldMd5(st, u, p)]
              /\ st.refs[HeldMd5(st, u, p)] # {}
    PROVE  Unindex(st, u, {p}) = ReleaseContentRef(st, u, {p})
<1>. DEFINE r == Unindex(st, u, {p})
            goal == ReleaseContentRef(st, u, {p})
<1>0. {p} \in SUBSET Paths
  OBVIOUS
<1>1. UnindexEffect(st, r, u, {p})
  BY <1>0, UnindexFields
<1>2. ReleaseEffect(st, goal, u, {p})
  BY <1>0, ReleaseFields
<1>. HIDE DEF r, goal
<1>3. \A m \in Md5 : RefsAfterRelease(st, u, {p}, m) = st.refs[m] /\ m \notin Collected(st, u, {p})
  <2>. TAKE m \in Md5
  <2>1. m # NoMd5
    BY StepsAssumption
  <2>2. CASE HeldMd5(st, u, p) = m
    <3>1. <<u, p>> \notin st.refs[m] /\ st.refs[m] # {}
      BY <2>1, <2>2
    <3>2. OtherRefs(st, u, p, m) = st.refs[m]
      BY <3>1 DEF OtherRefs
    <3>3. RefsAfterRelease(st, u, {p}, m) = OtherRefs(st, u, p, m)
      BY <2>2, ReleaseOne
    <3>4. m \in Collected(st, u, {p}) => OtherRefs(st, u, p, m) = {}
      BY ReleaseOne
    <3>. QED
      BY <3>1, <3>2, <3>3, <3>4
  <2>3. CASE HeldMd5(st, u, p) # m
    <3>1. RefsAfterRelease(st, u, {p}, m) = st.refs[m]
      BY <2>3, ReleaseOne
    <3>2. m \notin Collected(st, u, {p})
      BY <2>3, ReleaseOne
    <3>. QED
      BY <3>1, <3>2
  <2>. QED
    BY <2>2, <2>3
<1>4. Collected(st, u, {p}) = {}
  BY <1>3 DEF Collected
<1>5. r \in StoreType /\ goal \in StoreType /\ r.objects = goal.objects /\ r.objMeta = goal.objMeta
  BY <1>1, <1>2, <1>4 DEF UnindexEffect, ReleaseEffect
<1>6. \A m \in Digest : r.refs[m] = goal.refs[m]
  BY <1>1, <1>2, <1>3 DEF UnindexEffect, ReleaseEffect, Digest
<1>7. /\ \A v \in Users, q \in Paths : r.index[v][q] = goal.index[v][q]
      /\ \A v \in Users, q \in Paths : r.pathMd5[v][q] = goal.pathMd5[v][q]
  BY <1>1, <1>2 DEF UnindexEffect, ReleaseEffect
<1>8. r = goal
  BY <1>5, <1>6, <1>7, SameStore
<1>. QED
  BY <1>8 DEF r, goal

\* With nobody left to refer to the content, deleteObject and then unindex are
\* what the release does.
LEMMA DeleteIsRelease ==
    ASSUME NEW st \in StoreType, NEW u \in Users, NEW p \in Paths, NEW m \in Md5,
           HeldMd5(st, u, p) = m, st.refs[m] = {}
    PROVE  \E mid \in StoreType :
              /\ Runs(st, DeleteObject(u, p, m), mid)
              /\ Runs(mid, Unindexing(u, p), ReleaseContentRef(st, u, {p}))
<1>. DEFINE x == Cmd("UNLINK", u, p, m)
            y == Cmd("DELOBJ", u, p, m)
            z == Cmd("DELREFS", u, p, m)
            r1 == Write(st, x)
            r2 == Write(r1, y)
            mid == Write(r2, z)
            r == Unindex(mid, u, {p})
            goal == ReleaseContentRef(st, u, {p})
<1>0. /\ {p} \in SUBSET Paths /\ m \in Digest /\ m # NoMd5
      /\ "UNLINK" \in Ops /\ "DELOBJ" \in Ops /\ "DELREFS" \in Ops
  BY StepsAssumption DEF Ops, Digest
<1>1. /\ x \in SafeCommand /\ x.op = "UNLINK" /\ x.u = u /\ x.p = p /\ x.md5 = m
      /\ y \in SafeCommand /\ y.op = "DELOBJ" /\ y.u = u /\ y.p = p /\ y.md5 = m
      /\ z \in SafeCommand /\ z.op = "DELREFS" /\ z.u = u /\ z.p = p /\ z.md5 = m
  BY <1>0, CmdParts
<1>2. DeleteObject(u, p, m) = Three(x, y, z)
  BY DEF DeleteObject, Three
<1>. HIDE DEF x, y, z
<1>3. r1 \in StoreType /\ r2 \in StoreType /\ mid \in StoreType /\ Runs(st, Three(x, y, z), mid)
  BY <1>1, RunsShort
<1>4. WriteEffect(st, r1, x) /\ WriteEffect(r1, r2, y) /\ WriteEffect(r2, mid, z)
  BY <1>1, <1>3, SafeWrite
<1>. HIDE DEF r1, r2, mid
<1>5. UnindexEffect(mid, r, u, {p})
  BY <1>0, <1>3, UnindexFields
<1>6. ReleaseEffect(st, goal, u, {p})
  BY <1>0, ReleaseFields
<1>7. Runs(mid, Unindexing(u, p), r)
  BY <1>3, UnindexRuns
<1>. HIDE DEF r, goal
<1>8. /\ mid.objects = st.objects \ {m} /\ mid.objMeta = st.objMeta \ {m}
      /\ \A n \in Digest : mid.refs[n] = IF n = m THEN {} ELSE st.refs[n]
  BY <1>1, <1>4 DEF WriteEffect
<1>9. \A v \in Users, q \in Paths : mid.index[v][q] = st.index[v][q] /\ mid.pathMd5[v][q] = st.pathMd5[v][q]
  BY <1>1, <1>4 DEF WriteEffect
<1>10. \A n \in Md5 : /\ RefsAfterRelease(st, u, {p}, n) = st.refs[n]
                      /\ n \in Collected(st, u, {p}) <=> n = m
  <2>. TAKE n \in Md5
  <2>1. CASE n = m
    <3>1. OtherRefs(st, u, p, m) = {}
      BY DEF OtherRefs
    <3>2. RefsAfterRelease(st, u, {p}, m) = OtherRefs(st, u, p, m) /\ m \in Collected(st, u, {p})
      BY <3>1, ReleaseOne
    <3>. QED
      BY <2>1, <3>1, <3>2
  <2>2. CASE n # m
    BY <2>2, ReleaseOne
  <2>. QED
    BY <2>1, <2>2
<1>11. Collected(st, u, {p}) = {m}
  <2>1. Collected(st, u, {p}) \subseteq Md5
    BY DEF Collected
  <2>. QED
    BY <1>10, <2>1
<1>12. r \in StoreType /\ goal \in StoreType /\ r.objects = goal.objects /\ r.objMeta = goal.objMeta
  BY <1>5, <1>6, <1>8, <1>11 DEF UnindexEffect, ReleaseEffect
<1>13. \A n \in Digest : r.refs[n] = goal.refs[n]
  <2>. TAKE n \in Digest
  <2>1. r.refs[n] = IF n = m THEN {} ELSE st.refs[n]
    BY <1>5, <1>8 DEF UnindexEffect
  <2>2. goal.refs[n] = IF n = NoMd5 THEN st.refs[n] ELSE RefsAfterRelease(st, u, {p}, n)
    BY <1>6 DEF ReleaseEffect
  <2>3. n # NoMd5 => RefsAfterRelease(st, u, {p}, n) = st.refs[n]
    BY <1>10 DEF Digest
  <2>. QED
    BY <2>1, <2>2, <2>3
<1>14. /\ \A v \in Users, q \in Paths : r.index[v][q] = goal.index[v][q]
       /\ \A v \in Users, q \in Paths : r.pathMd5[v][q] = goal.pathMd5[v][q]
  BY <1>5, <1>6, <1>9 DEF UnindexEffect, ReleaseEffect
<1>15. r = goal
  BY <1>12, <1>13, <1>14, SameStore
<1>. QED
  BY <1>2, <1>3, <1>7, <1>15 DEF goal

\* SREM comes first in the release, and changes nothing of what it leads to.
LEMMA RemoveThenRelease ==
    ASSUME NEW st \in StoreType, NEW u \in Users, NEW p \in Paths, NEW m \in Md5,
           HeldMd5(st, u, p) = m,
           NEW r, r = Write(st, Cmd("SREM", u, p, m))
    PROVE  /\ r \in StoreType
           /\ HeldMd5(r, u, p) = m
           /\ <<u, p>> \notin r.refs[m]
           /\ ReleaseContentRef(r, u, {p}) = ReleaseContentRef(st, u, {p})
<1>. DEFINE x == Cmd("SREM", u, p, m)
            g1 == ReleaseContentRef(r, u, {p})
            g2 == ReleaseContentRef(st, u, {p})
<1>0. {p} \in SUBSET Paths /\ m \in Digest /\ m # NoMd5 /\ "SREM" \in Ops
  BY StepsAssumption DEF Ops, Digest
<1>1. x \in SafeCommand /\ x.op = "SREM" /\ x.u = u /\ x.p = p /\ x.md5 = m /\ r = Write(st, x)
  BY <1>0, CmdParts
<1>. HIDE DEF x
<1>2. WriteEffect(st, r, x)
  BY <1>1, SafeWrite
<1>3. /\ r \in StoreType /\ r.objects = st.objects /\ r.objMeta = st.objMeta
      /\ \A n \in Digest : r.refs[n] = IF n = m THEN st.refs[n] \ {<<u, p>>} ELSE st.refs[n]
      /\ \A v \in Users, q \in Paths : r.index[v][q] = st.index[v][q] /\ r.pathMd5[v][q] = st.pathMd5[v][q]
  BY <1>1, <1>2 DEF WriteEffect
<1>4. HeldMd5(r, u, p) = m
  BY <1>3, HeldParts
<1>5. <<u, p>> \notin r.refs[m]
  BY <1>0, <1>3
<1>6. ReleaseEffect(r, g1, u, {p}) /\ ReleaseEffect(st, g2, u, {p})
  BY <1>0, <1>3, ReleaseFields
<1>. HIDE DEF g1, g2
<1>7. \A n \in Md5 : /\ RefsAfterRelease(r, u, {p}, n) = RefsAfterRelease(st, u, {p}, n)
                     /\ n \in Collected(r, u, {p}) <=> n \in Collected(st, u, {p})
  <2>. TAKE n \in Md5
  <2>1. n \in Digest
    BY DEF Digest
  <2>2. CASE n = m
    <3>1. OtherRefs(r, u, p, n) = OtherRefs(st, u, p, n)
      BY <1>3, <2>1, <2>2 DEF OtherRefs
    <3>2. RefsAfterRelease(r, u, {p}, n) = OtherRefs(r, u, p, n)
      BY <1>3, <1>4, <2>2, ReleaseOne
    <3>3. RefsAfterRelease(st, u, {p}, n) = OtherRefs(st, u, p, n)
      BY <2>2, ReleaseOne
    <3>4. n \in Collected(r, u, {p}) <=> OtherRefs(r, u, p, n) = {}
      BY <1>3, <1>4, <2>2, ReleaseOne
    <3>5. n \in Collected(st, u, {p}) <=> OtherRefs(st, u, p, n) = {}
      BY <2>2, ReleaseOne
    <3>. QED
      BY <3>1, <3>2, <3>3, <3>4, <3>5
  <2>3. CASE n # m
    <3>1. r.refs[n] = st.refs[n]
      BY <1>3, <2>1, <2>3
    <3>2. RefsAfterRelease(r, u, {p}, n) = r.refs[n] /\ n \notin Collected(r, u, {p})
      BY <1>3, <1>4, <2>3, ReleaseOne
    <3>3. RefsAfterRelease(st, u, {p}, n) = st.refs[n] /\ n \notin Collected(st, u, {p})
      BY <2>3, ReleaseOne
    <3>. QED
      BY <3>1, <3>2, <3>3
  <2>. QED
    BY <2>2, <2>3
<1>8. Collected(r, u, {p}) = Collected(st, u, {p})
  <2>1. Collected(r, u, {p}) \subseteq Md5 /\ Collected(st, u, {p}) \subseteq Md5
    BY DEF Collected
  <2>. QED
    BY <1>7, <2>1
<1>9. g1 \in StoreType /\ g2 \in StoreType /\ g1.objects = g2.objects /\ g1.objMeta = g2.objMeta
  BY <1>3, <1>6, <1>8 DEF ReleaseEffect
<1>10. \A n \in Digest : g1.refs[n] = g2.refs[n]
  <2>. TAKE n \in Digest
  <2>1. g1.refs[n] = IF n = NoMd5 THEN r.refs[n] ELSE RefsAfterRelease(r, u, {p}, n)
    BY <1>6 DEF ReleaseEffect
  <2>2. g2.refs[n] = IF n = NoMd5 THEN st.refs[n] ELSE RefsAfterRelease(st, u, {p}, n)
    BY <1>6 DEF ReleaseEffect
  <2>3. n = NoMd5 => r.refs[n] = st.refs[n]
    BY <1>0, <1>3
  <2>4. n # NoMd5 => RefsAfterRelease(r, u, {p}, n) = RefsAfterRelease(st, u, {p}, n)
    BY <1>7 DEF Digest
  <2>. QED
    BY <2>1, <2>2, <2>3, <2>4
<1>11. /\ \A v \in Users, q \in Paths : g1.index[v][q] = g2.index[v][q]
       /\ \A v \in Users, q \in Paths : g1.pathMd5[v][q] = g2.pathMd5[v][q]
  BY <1>3, <1>6 DEF ReleaseEffect
<1>12. g1 = g2
  BY <1>9, <1>10, <1>11, SameStore
<1>. QED
  BY <1>3, <1>4, <1>5, <1>12 DEF g1, g2

\* Releasing no path changes nothing.
LEMMA ReleaseNone ==
    ASSUME NEW st \in StoreType, NEW u \in Users
    PROVE  ReleaseContentRef(st, u, {}) = st
<1>. DEFINE r == ReleaseContentRef(st, u, {})
<1>1. ReleaseEffect(st, r, u, {})
  BY ReleaseFields
<1>. HIDE DEF r
<1>2. Collected(st, u, {}) = {} /\ \A m \in Digest : RefsAfterRelease(st, u, {}, m) = st.refs[m]
  BY DEF Collected, RefsAfterRelease
<1>3. r \in StoreType /\ r.objects = st.objects /\ r.objMeta = st.objMeta
  BY <1>1, <1>2 DEF ReleaseEffect
<1>4. \A m \in Digest : r.refs[m] = st.refs[m]
  BY <1>1, <1>2 DEF ReleaseEffect
<1>5. /\ \A v \in Users, q \in Paths : r.index[v][q] = st.index[v][q]
      /\ \A v \in Users, q \in Paths : r.pathMd5[v][q] = st.pathMd5[v][q]
  BY <1>1 DEF ReleaseEffect
<1>6. r = st
  BY <1>3, <1>4, <1>5, SameStore
<1>. QED
  BY <1>6 DEF r

\* The rows of a directory can be released one by one, in any order.
LEMMA ReleaseRest ==
    ASSUME NEW st \in StoreType, NEW u \in Users, NEW P \in SUBSET Paths, NEW p \in P
    PROVE  ReleaseContentRef(ReleaseContentRef(st, u, {p}), u, P \ {p}) = ReleaseContentRef(st, u, P)
<1>. DEFINE one == ReleaseContentRef(st, u, {p})
            two == ReleaseContentRef(one, u, P \ {p})
            all == ReleaseContentRef(st, u, P)
<1>0. p \in Paths /\ {p} \in SUBSET Paths /\ P \ {p} \in SUBSET Paths
  OBVIOUS
<1>1. ReleaseEffect(st, one, u, {p}) /\ ReleaseEffect(st, all, u, P)
  BY <1>0, ReleaseFields
<1>2. one \in StoreType
  BY <1>1 DEF ReleaseEffect
<1>. HIDE DEF one, all
<1>3. ReleaseEffect(one, two, u, P \ {p})
  BY <1>0, <1>2, ReleaseFields
<1>. HIDE DEF two
<1>4. \A q \in Paths : HeldMd5(one, u, q) = IF q = p THEN NoMd5 ELSE HeldMd5(st, u, q)
  <2>. TAKE q \in Paths
  <2>1. CASE q = p
    <3>1. one.index[u][q] = NoRow /\ one.pathMd5[u][q] = NoMd5
      BY <1>1, <2>1 DEF ReleaseEffect
    <3>. QED
      BY <1>2, <2>1, <3>1, HeldParts
  <2>2. CASE q # p
    <3>1. one.index[u][q] = st.index[u][q] /\ one.pathMd5[u][q] = st.pathMd5[u][q]
      BY <1>1, <2>2 DEF ReleaseEffect
    <3>. QED
      BY <1>2, <2>2, <3>1, HeldParts
  <2>. QED
    BY <2>1, <2>2
<1>5. \A m \in Md5 : /\ m # NoMd5 /\ m \in Digest
                     /\ st.refs[m] \subseteq Users \X Paths
                     /\ one.refs[m] = RefsAfterRelease(st, u, {p}, m)
  <2>1. \A m \in Md5 : m # NoMd5 /\ m \in Digest /\ st.refs[m] \subseteq Users \X Paths
    BY StepsAssumption DEF Digest, StoreType
  <2>. QED
    BY <1>1, <2>1 DEF ReleaseEffect
<1>6. ASSUME NEW m \in Md5
      PROVE  RefsAfterRelease(one, u, P \ {p}, m) = RefsAfterRelease(st, u, P, m)
  <2>1. \A r \in st.refs[m] : r[2] \in Paths
    BY <1>5
  <2>2. ASSUME NEW r \in st.refs[m]
        PROVE  r \in RefsAfterRelease(one, u, P \ {p}, m) <=> r \in RefsAfterRelease(st, u, P, m)
    <3>1. r \in one.refs[m] <=> ~(r[1] = u /\ r[2] \in {p} /\ HeldMd5(st, u, r[2]) = m)
      BY <1>5 DEF RefsAfterRelease
    <3>2. r \in RefsAfterRelease(one, u, P \ {p}, m)
             <=> r \in one.refs[m] /\ ~(r[1] = u /\ r[2] \in P \ {p} /\ HeldMd5(one, u, r[2]) = m)
      BY DEF RefsAfterRelease
    <3>3. r \in RefsAfterRelease(st, u, P, m) <=> ~(r[1] = u /\ r[2] \in P /\ HeldMd5(st, u, r[2]) = m)
      BY DEF RefsAfterRelease
    <3>4. r[2] \in P \ {p} => HeldMd5(one, u, r[2]) = HeldMd5(st, u, r[2])
      BY <1>4, <2>1
    <3>. QED
      BY <3>1, <3>2, <3>3, <3>4
  <2>3. /\ RefsAfterRelease(one, u, P \ {p}, m) \subseteq st.refs[m]
        /\ RefsAfterRelease(st, u, P, m) \subseteq st.refs[m]
    BY <1>5 DEF RefsAfterRelease
  <2>. QED
    BY <2>2, <2>3
<1>7. ASSUME NEW m \in Md5
      PROVE  m \in Collected(st, u, P) <=> m \in Collected(st, u, {p}) \/ m \in Collected(one, u, P \ {p})
  <2>1. m \in Collected(st, u, {p}) <=> HeldMd5(st, u, p) = m /\ one.refs[m] = {}
    BY <1>5 DEF Collected
  <2>2. m \in Collected(one, u, P \ {p})
           <=> (\E q \in P \ {p} : HeldMd5(st, u, q) = m) /\ RefsAfterRelease(st, u, P, m) = {}
    BY <1>4, <1>6 DEF Collected
  <2>3. m \in Collected(st, u, P)
           <=> (\E q \in P : HeldMd5(st, u, q) = m) /\ RefsAfterRelease(st, u, P, m) = {}
    BY DEF Collected
  <2>4. one.refs[m] = {} => RefsAfterRelease(st, u, P, m) = {}
    BY <1>6 DEF RefsAfterRelease
  <2>5. ASSUME RefsAfterRelease(st, u, P, m) = {}, one.refs[m] # {}
        PROVE  \E q \in P \ {p} : HeldMd5(st, u, q) = m
    <3>1. PICK r \in one.refs[m] : TRUE
      BY <2>5
    <3>2. r[1] = u /\ r[2] \in P \ {p} /\ HeldMd5(one, u, r[2]) = m
      BY <1>6, <2>5, <3>1 DEF RefsAfterRelease
    <3>. QED
      BY <1>4, <3>2
  <2>. QED
    BY <2>1, <2>2, <2>3, <2>4, <2>5
<1>8. st.objects \subseteq Md5 /\ st.objMeta \subseteq Md5
  BY DEF StoreType
<1>9. /\ one.objects = st.objects \ Collected(st, u, {p}) /\ one.objMeta = st.objMeta \ Collected(st, u, {p})
      /\ two.objects = one.objects \ Collected(one, u, P \ {p})
      /\ two.objMeta = one.objMeta \ Collected(one, u, P \ {p})
      /\ all.objects = st.objects \ Collected(st, u, P) /\ all.objMeta = st.objMeta \ Collected(st, u, P)
      /\ two \in StoreType /\ all \in StoreType
  BY <1>1, <1>3 DEF ReleaseEffect
<1>10. two.objects = all.objects /\ two.objMeta = all.objMeta
  BY <1>7, <1>8, <1>9
<1>11. \A m \in Digest : two.refs[m] = all.refs[m]
  <2>. TAKE m \in Digest
  <2>1. two.refs[m] = IF m = NoMd5 THEN one.refs[m] ELSE RefsAfterRelease(one, u, P \ {p}, m)
    BY <1>3 DEF ReleaseEffect
  <2>2. all.refs[m] = IF m = NoMd5 THEN st.refs[m] ELSE RefsAfterRelease(st, u, P, m)
    BY <1>1 DEF ReleaseEffect
  <2>3. m = NoMd5 => one.refs[m] = st.refs[m]
    BY <1>1 DEF ReleaseEffect
  <2>4. m # NoMd5 => RefsAfterRelease(one, u, P \ {p}, m) = RefsAfterRelease(st, u, P, m)
    BY <1>6 DEF Digest
  <2>. QED
    BY <2>1, <2>2, <2>3, <2>4
<1>12. ASSUME NEW v \in Users, NEW q \in Paths
       PROVE  two.index[v][q] = all.index[v][q] /\ two.pathMd5[v][q] = all.pathMd5[v][q]
  <2>1. /\ one.index[v][q] = IF v = u /\ q \in {p} THEN NoRow ELSE st.index[v][q]
        /\ one.pathMd5[v][q] = IF v = u /\ q \in {p} THEN NoMd5 ELSE st.pathMd5[v][q]
    BY <1>1 DEF ReleaseEffect
  <2>2. /\ two.index[v][q] = IF v = u /\ q \in P \ {p} THEN NoRow ELSE one.index[v][q]
        /\ two.pathMd5[v][q] = IF v = u /\ q \in P \ {p} THEN NoMd5 ELSE one.pathMd5[v][q]
    BY <1>3 DEF ReleaseEffect
  <2>3. /\ all.index[v][q] = IF v = u /\ q \in P THEN NoRow ELSE st.index[v][q]
        /\ all.pathMd5[v][q] = IF v = u /\ q \in P THEN NoMd5 ELSE st.pathMd5[v][q]
    BY <1>1 DEF ReleaseEffect
  <2>. QED
    BY <2>1, <2>2, <2>3
<1>13. two = all
  <2>1. two \in StoreType /\ all \in StoreType
    BY <1>9
  <2>2. /\ \A v \in Users, q \in Paths : two.index[v][q] = all.index[v][q]
        /\ \A v \in Users, q \in Paths : two.pathMd5[v][q] = all.pathMd5[v][q]
    BY <1>12
  <2>. QED
    BY <1>10, <1>11, <2>1, <2>2, SameStore
<1>. QED
  BY <1>13 DEF one, two, all

-----------------------------------------------------------------------------
(* Remainders of programs *)

\* Plain commands are commands, and may be run in any store.
LEMMA PlainParts ==
    ASSUME NEW T
    PROVE  /\ PlainCommand(T) \subseteq SafeCommand /\ PlainCommand(T) \subseteq Command
           /\ Seq(PlainCommand(T)) \subseteq Seq(Command)
           /\ << >> \in Seq(PlainCommand(T)) /\ << >> \in Seq(Command)
<1>1. PlainCommand(T) \subseteq SafeCommand /\ PlainCommand(T) \subseteq Command
  BY DEF PlainCommand, SafeCommand
<1>2. ASSUME NEW s \in Seq(PlainCommand(T)) PROVE s \in Seq(Command)
  BY <1>1, SeqMonotonic
<1>. QED
  BY <1>1, <1>2

\* unindex is plain.
LEMMA UnindexingPlain ==
    ASSUME NEW u \in Users, NEW p \in Paths, NEW T, <<u, p>> \in T
    PROVE  Unindexing(u, p) \in Seq(PlainCommand(T))
<1>. DEFINE x == Cmd("DELROW", u, p, NoMd5)
            y == Cmd("DELPATH", u, p, NoMd5)
<1>1. x \in PlainCommand(T) /\ y \in PlainCommand(T)
  BY DEF PlainCommand, PlainOps, Cmd, Command, Ops, Digest
<1>. HIDE DEF x, y
<1>2. <<x, y>> \in Seq(PlainCommand(T))
  BY <1>1
<1>. QED
  BY <1>2 DEF Unindexing, x, y

\* The loop of releaseIndexedUnderPrefix and what follows it.
LEMMA RowLoop ==
    ASSUME NEW u \in Users, NEW d \in DirPaths
    PROVE  /\ d \in Paths
           /\ Cmd("NEXTROW", u, d, NoMd5) \in Command
           /\ Unindexing(u, d) \in Seq(Command)
           /\ RemoveDirectory(u, d) \in Seq(Command)
           /\ RemoveDirectory(u, d) # << >>
           /\ Head(RemoveDirectory(u, d)) = Cmd("NEXTROW", u, d, NoMd5)
           /\ Tail(RemoveDirectory(u, d)) = Unindexing(u, d)
<1>1. d \in Paths
  BY StepsAssumption
<1>2. Cmd("NEXTROW", u, d, NoMd5) \in Command
  BY <1>1 DEF Cmd, Command, Ops, Digest
<1>3. RemoveDirectory(u, d) = Cons(Cmd("NEXTROW", u, d, NoMd5), Unindexing(u, d))
  BY DEF RemoveDirectory, Cons
<1>4. Unindexing(u, d) \in Seq(PlainCommand({<<u, d>>}))
  BY <1>1, UnindexingPlain
<1>5. Unindexing(u, d) \in Seq(Command)
  BY <1>4, PlainParts
<1>. DEFINE c == Cmd("NEXTROW", u, d, NoMd5)
            t == Unindexing(u, d)
<1>. HIDE DEF c, t
<1>6. Cons(c, t) \in Seq(Command) /\ Cons(c, t) # << >> /\ Head(Cons(c, t)) = c /\ Tail(Cons(c, t)) = t
  <2>1. c \in Command /\ t \in Seq(Command)
    BY <1>2, <1>5 DEF c, t
  <2>. QED
    BY <2>1, ConsParts
<1>. QED
  BY <1>1, <1>2, <1>3, <1>5, <1>6 DEF c, t

\* Plain commands in front of what leads to the goal.
LEMMA LeadsAfter ==
    ASSUME NEW st, NEW mid, NEW P, NEW j, NEW a \in Seq(PlainCommand(j.touched)), NEW K \in Seq(Command),
           j.clean => Runs(st, a, mid), Leads(K, mid, P, j)
    PROVE  Leads(Cat(a, K), st, P, j)
<1>. DEFINE S == PlainCommand(j.touched)
<1>1. a \in Seq(Command) /\ Seq(S) \subseteq Seq(Command)
  BY PlainParts
<1>2. CASE LeadsPlainly(K, mid, P, j)
  <2>1. P = {} /\ K \in Seq(S) /\ (j.clean => Runs(mid, K, j.goal))
    BY <1>2 DEF LeadsPlainly
  <2>2. Cat(a, K) \in Seq(S)
    BY <2>1, CatParts
  <2>3. j.clean => Runs(st, Cat(a, K), j.goal)
    BY <1>1, <2>1, RunsConcat
  <2>. QED
    BY <2>1, <2>2, <2>3 DEF Leads, LeadsPlainly
<1>3. CASE LeadsToRows(K, mid, P, j)
  <2>1. PICK b \in Seq(S), u \in Users, d \in DirPaths :
           /\ K = Cat(b, RemoveDirectory(u, d))
           /\ \A q \in P \cup {d} : <<u, q>> \in j.touched
           /\ j.clean => \E end \in StoreType :
                            /\ Runs(mid, b, end)
                            /\ j.goal = Unindex(ReleaseContentRef(end, u, P), u, {d})
    BY <1>3 DEF LeadsToRows
  <2>2. b \in Seq(Command)
    BY <1>1
  <2>3. RemoveDirectory(u, d) \in Seq(Command) /\ Cmd("NEXTROW", u, d, NoMd5) \in Command
    BY RowLoop
  <2>4. Cat(a, b) \in Seq(S)
    BY CatParts
  <2>5. Cat(a, K) = Cat(Cat(a, b), RemoveDirectory(u, d))
    BY <1>1, <2>1, <2>2, <2>3, CatAssociative
  <2>6. ASSUME j.clean
        PROVE  \E end \in StoreType :
                  /\ Runs(st, Cat(a, b), end)
                  /\ j.goal = Unindex(ReleaseContentRef(end, u, P), u, {d})
    <3>1. PICK end \in StoreType :
             /\ Runs(mid, b, end)
             /\ j.goal = Unindex(ReleaseContentRef(end, u, P), u, {d})
      BY <2>1, <2>6
    <3>2. Runs(st, Cat(a, b), end)
      BY <1>1, <2>2, <2>6, <3>1, RunsConcat
    <3>. QED
      BY <3>1, <3>2
  <2>7. LeadsToRows(Cat(a, K), st, P, j)
    BY <2>1, <2>4, <2>5, <2>6 DEF LeadsToRows
  <2>. QED
    BY <2>7 DEF Leads
<1>. QED
  BY <1>2, <1>3 DEF Leads

\* What leads to a goal is a program; without the promise, from any store.
LEMMA LeadsParts ==
    ASSUME NEW st, NEW P, NEW j, NEW s, Leads(s, st, P, j)
    PROVE  /\ s \in Seq(Command)
           /\ \A k, r : k.touched = j.touched /\ ~k.clean => Leads(s, r, P, k)
<1>1. CASE LeadsPlainly(s, st, P, j)
  <2>1. s \in Seq(Command)
    BY <1>1, PlainParts DEF LeadsPlainly
  <2>2. \A k, r : k.touched = j.touched /\ ~k.clean => Leads(s, r, P, k)
    BY <1>1 DEF Leads, LeadsPlainly
  <2>. QED
    BY <2>1, <2>2
<1>2. CASE LeadsToRows(s, st, P, j)
  <2>1. PICK a \in Seq(PlainCommand(j.touched)), u \in Users, d \in DirPaths :
           /\ s = Cat(a, RemoveDirectory(u, d))
           /\ \A q \in P \cup {d} : <<u, q>> \in j.touched
    BY <1>2 DEF LeadsToRows
  <2>2. s \in Seq(Command)
    <3>1. a \in Seq(Command) /\ RemoveDirectory(u, d) \in Seq(Command)
      BY PlainParts, RowLoop
    <3>. QED
      BY <2>1, <3>1, CatParts
  <2>3. ASSUME NEW k, NEW r, k.touched = j.touched, ~k.clean PROVE Leads(s, r, P, k)
    <3>1. LeadsToRows(s, r, P, k)
      BY <2>1, <2>3 DEF LeadsToRows
    <3>. QED
      BY <3>1 DEF Leads
  <2>. QED
    BY <2>2, <2>3
<1>. QED
  BY <1>1, <1>2 DEF Leads

\* The first of the plain commands is run.
LEMMA LeadsStep ==
    ASSUME NEW st \in StoreType, NEW P, NEW j, NEW s, Leads(s, st, P, j),
           s # << >>, Head(s).op # "NEXTROW"
    PROVE  /\ Head(s) \in PlainCommand(j.touched)
           /\ Leads(Tail(s), Write(st, Head(s)), P, j)
<1>. DEFINE S == PlainCommand(j.touched)
<1>0. S \subseteq Command /\ Seq(S) \subseteq Seq(Command)
  BY PlainParts
<1>1. CASE LeadsPlainly(s, st, P, j)
  <2>1. P = {} /\ s \in Seq(S) /\ (j.clean => Runs(st, s, j.goal))
    BY <1>1 DEF LeadsPlainly
  <2>2. Head(s) \in S /\ Tail(s) \in Seq(S) /\ s = Cons(Head(s), Tail(s))
    BY <2>1, CatParts
  <2>3. Head(s) \in Command /\ Tail(s) \in Seq(Command)
    BY <1>0, <2>2
  <2>4. j.clean => Runs(Write(st, Head(s)), Tail(s), j.goal)
    BY <2>1, <2>2, <2>3, RunsCons
  <2>5. LeadsPlainly(Tail(s), Write(st, Head(s)), P, j)
    BY <2>1, <2>2, <2>4 DEF LeadsPlainly
  <2>. QED
    BY <2>2, <2>5 DEF Leads
<1>2. CASE LeadsToRows(s, st, P, j)
  <2>1. PICK a \in Seq(S), u \in Users, d \in DirPaths :
           /\ s = Cat(a, RemoveDirectory(u, d))
           /\ \A q \in P \cup {d} : <<u, q>> \in j.touched
           /\ j.clean => \E mid \in StoreType :
                            /\ Runs(st, a, mid)
                            /\ j.goal = Unindex(ReleaseContentRef(mid, u, P), u, {d})
    BY <1>2 DEF LeadsToRows
  <2>2. a \in Seq(Command) /\ RemoveDirectory(u, d) \in Seq(Command)
    BY <1>0, RowLoop
  <2>3. a # << >>
    <3>. SUFFICES ASSUME a = << >> PROVE FALSE
      OBVIOUS
    <3>1. s = RemoveDirectory(u, d)
      BY <2>1, <2>2, CatParts
    <3>2. Head(s) = Cmd("NEXTROW", u, d, NoMd5)
      BY <3>1, RowLoop
    <3>. QED
      BY <3>2 DEF Cmd
  <2>4. /\ Head(s) = Head(a) /\ Tail(s) = Cat(Tail(a), RemoveDirectory(u, d))
        /\ Head(a) \in Command /\ Tail(a) \in Seq(Command) /\ a = Cons(Head(a), Tail(a))
    BY <2>1, <2>2, <2>3, CatParts
  <2>5. Head(a) \in S /\ Tail(a) \in Seq(S)
    BY <2>3, CatParts
  <2>6. ASSUME j.clean
        PROVE  \E mid \in StoreType :
                  /\ Runs(Write(st, Head(s)), Tail(a), mid)
                  /\ j.goal = Unindex(ReleaseContentRef(mid, u, P), u, {d})
    <3>1. PICK mid \in StoreType :
             /\ Runs(st, a, mid)
             /\ j.goal = Unindex(ReleaseContentRef(mid, u, P), u, {d})
      BY <2>1, <2>6
    <3>2. Runs(Write(st, Head(s)), Tail(a), mid)
      BY <2>4, <3>1, RunsCons
    <3>. QED
      BY <3>1, <3>2
  <2>7. LeadsToRows(Tail(s), Write(st, Head(s)), P, j)
    BY <2>1, <2>4, <2>5, <2>6 DEF LeadsToRows
  <2>. QED
    BY <2>4, <2>5, <2>7 DEF Leads
<1>. QED
  BY <1>1, <1>2 DEF Leads

\* s is the loop over the rows P, and then the goal is reached.
AtLoop(s, st, P, j) ==
    \E u \in Users, d \in DirPaths :
        /\ s = RemoveDirectory(u, d)
        /\ \A q \in P \cup {d} : <<u, q>> \in j.touched
        /\ j.clean => j.goal = Unindex(ReleaseContentRef(st, u, P), u, {d})

\* Before the loop of releaseIndexedUnderPrefix there is nothing else to run.
LEMMA LeadsLoop ==
    ASSUME NEW st \in StoreType, NEW P, NEW j, NEW s, Leads(s, st, P, j),
           s # << >>, Head(s).op = "NEXTROW"
    PROVE  AtLoop(s, st, P, j)
<1>. DEFINE S == PlainCommand(j.touched)
<1>0. S \subseteq Command /\ Seq(S) \subseteq Seq(Command) /\ \A c \in S : c.op # "NEXTROW"
  <2>1. \A c \in S : c.op # "NEXTROW"
    BY DEF PlainCommand, PlainOps
  <2>. QED
    BY <2>1, PlainParts
<1>1. ~LeadsPlainly(s, st, P, j)
  <2>. SUFFICES ASSUME LeadsPlainly(s, st, P, j) PROVE FALSE
    OBVIOUS
  <2>1. s \in Seq(S)
    BY DEF LeadsPlainly
  <2>2. Head(s) \in S
    BY <2>1, CatParts
  <2>. QED
    BY <1>0, <2>2
<1>2. PICK a \in Seq(S), u \in Users, d \in DirPaths :
         /\ s = Cat(a, RemoveDirectory(u, d))
         /\ \A q \in P \cup {d} : <<u, q>> \in j.touched
         /\ j.clean => \E mid \in StoreType :
                          /\ Runs(st, a, mid)
                          /\ j.goal = Unindex(ReleaseContentRef(mid, u, P), u, {d})
  BY <1>1 DEF LeadsToRows, Leads
<1>3. a \in Seq(Command) /\ RemoveDirectory(u, d) \in Seq(Command)
  BY <1>0, RowLoop
<1>4. a = << >>
  <2>. SUFFICES ASSUME a # << >> PROVE FALSE
    OBVIOUS
  <2>1. Head(s) = Head(a)
    BY <1>2, <1>3, CatParts
  <2>2. Head(a) \in S
    BY CatParts
  <2>. QED
    BY <1>0, <2>1, <2>2
<1>5. s = RemoveDirectory(u, d)
  BY <1>2, <1>3, <1>4, CatParts
<1>6. j.clean => j.goal = Unindex(ReleaseContentRef(st, u, P), u, {d})
  BY <1>2, <1>4, RunsNone
<1>. QED
  BY <1>2, <1>5, <1>6 DEF AtLoop

\* When nothing is left, no row is, and the goal has been reached.
LEMMA LeadsEnd ==
    ASSUME NEW st \in StoreType, NEW P, NEW j, Leads(<< >>, st, P, j)
    PROVE  P = {} /\ (j.clean => st = j.goal)
<1>1. ~LeadsToRows(<< >>, st, P, j)
  <2>. SUFFICES ASSUME NEW a \in Seq(PlainCommand(j.touched)), NEW u \in Users, NEW d \in DirPaths,
                       << >> = Cat(a, RemoveDirectory(u, d))
                PROVE  FALSE
    BY DEF LeadsToRows
  <2>1. a \in Seq(Command) /\ RemoveDirectory(u, d) \in Seq(Command) /\ RemoveDirectory(u, d) # << >>
    BY PlainParts, RowLoop
  <2>2. a = << >>
    BY <2>1, CatParts
  <2>. QED
    BY <2>1, <2>2, CatParts
<1>2. P = {} /\ (j.clean => Runs(st, << >>, j.goal))
  BY <1>1 DEF Leads, LeadsPlainly
<1>. QED
  BY <1>2, RunsNone

-----------------------------------------------------------------------------
(* One command of the running handler *)

\* The command c, in the store st, disturbs no path outside T.
Harmless(st, c, T, M) ==
    /\ c \in SafeCommand
    /\ c.op \in {"SETPATH", "DELPATH", "SADD", "SREM", "INSROW", "DELROW"} => <<c.u, c.p>> \in T
    /\ c.op = "INSROW" => c.p \in FilePaths
    /\ c.op \in {"UNLINK", "DELREFS"} => c.md5 \in M \/ st.refs[c.md5] = {}
    /\ c.op = "SCARD" => c.md5 \in Md5

\* The job of a handler that has met a fault.
Unclean(j) == [j EXCEPT !.clean = FALSE]

\* The contents misled once c has failed unnoticed.
MisledBy(M, c) == IF c.op = "SCARD" THEN M \cup {c.md5} ELSE M

\* The first command of s is harmless, and whether it is answered or fails
\* unnoticed, what comes next is on track.
Proceeds(st, s, P, j, M) ==
    /\ Harmless(st, Head(s), j.touched, M)
    /\ OnTrack(Write(st, Head(s)), Continue(st, Head(s), Tail(s)), P, j, M)
    /\ OnTrack(st, ContinueUnnoticed(Head(s), Tail(s)), P, Unclean(j), MisledBy(M, Head(s)))

\* Only the promise of the job is given up.
LEMMA UncleanParts ==
    ASSUME NEW j \in JobType
    PROVE  /\ Unclean(j) \in JobType /\ Unclean(j).clean = FALSE
           /\ Unclean(j).touched = j.touched /\ Unclean(j).goal = j.goal
           /\ Unclean(j).outcome = j.outcome
BY DEF Unclean, JobType

\* Without its promise, a program leads to the goal from any store.
LEMMA LeadsUnclean ==
    ASSUME NEW st, NEW r, NEW P, NEW j \in JobType, NEW s, Leads(s, st, P, j)
    PROVE  Leads(s, r, P, Unclean(j))
<1>. DEFINE k == Unclean(j)
<1>1. k.touched = j.touched /\ ~k.clean
  BY UncleanParts
<1>. HIDE DEF k
<1>2. \A i, e : i.touched = j.touched /\ ~i.clean => Leads(s, e, P, i)
  BY LeadsParts
<1>3. Leads(s, r, P, k)
  BY <1>1, <1>2
<1>. QED
  BY <1>3 DEF k

\* The parts of a program with another in front.
LEMMA CatProgram ==
    ASSUME NEW a \in Seq(Command), a # << >>, NEW t \in Seq(Command)
    PROVE  /\ Head(Cat(a, t)) = Head(a) /\ Tail(Cat(a, t)) = Cat(Tail(a), t)
           /\ a = Cons(Head(a), Tail(a)) /\ Tail(a) \in Seq(Command)
BY CatParts

\* The parts of a program with a command in front.
LEMMA ConsProgram ==
    ASSUME NEW c \in Command, NEW t \in Seq(Command), NEW s, s = Cons(c, t)
    PROVE  s \in Seq(Command) /\ s # << >> /\ Head(s) = c /\ Tail(s) = t
BY DEF Cons

\* Commands whose answer nobody looks at.
LEMMA PlainStep ==
    ASSUME NEW st, NEW c, NEW t, c.op \in PlainOps \cup {"UNLINK", "DELOBJ", "DELREFS"}
    PROVE  Continue(st, c, t) = t /\ ContinueUnnoticed(c, t) = t
BY DEF Continue, ContinueUnnoticed, PlainOps

\* Commands that only ask.
LEMMA AskStep ==
    ASSUME NEW st, NEW c, c.op \in {"GETPATH", "LOOKUP", "SCARD", "PREVIOUS", "CONFLICT"}
    PROVE  Write(st, c) = st
BY DEF Write, RedisWrite

\* Plain commands, and those before the loop over the rows.
LEMMA LeadsProceeds ==
    ASSUME NEW st \in StoreType, NEW P, NEW j \in JobType, NEW M, NEW s,
           Leads(s, st, P, j), s # << >>, Head(s).op # "NEXTROW"
    PROVE  Proceeds(st, s, P, j, M)
<1>. DEFINE c == Head(s)
            t == Tail(s)
<1>1. c \in PlainCommand(j.touched) /\ Leads(t, Write(st, c), P, j)
  BY LeadsStep
<1>. HIDE DEF c, t
<1>2. Harmless(st, c, j.touched, M) /\ c.op \in PlainOps
  BY <1>1 DEF PlainCommand, PlainOps, Harmless, SafeCommand
<1>3. Continue(st, c, t) = t /\ ContinueUnnoticed(c, t) = t
  BY <1>2, PlainStep
<1>4. Leads(t, st, P, Unclean(j))
  BY <1>1, LeadsUnclean
<1>5. /\ OnTrack(Write(st, c), t, P, j, M)
      /\ OnTrack(st, t, P, Unclean(j), MisledBy(M, c))
  BY <1>1, <1>4 DEF OnTrack
<1>. QED
  BY <1>2, <1>3, <1>5 DEF Proceeds, c, t

\* releaseContentRef is over but for unindex.
LEMMA ClosingLeads ==
    ASSUME NEW st, NEW r, NEW u \in Users, NEW p \in Paths, NEW P, NEW j, NEW rest,
           Closing(rest, u, p, st, P, j),
           j.clean => Runs(r, Unindexing(u, p), ReleaseContentRef(st, u, {p}))
    PROVE  Leads(rest, r, P, j)
<1>1. PICK K \in Seq(Command) :
         rest = Cat(Unindexing(u, p), K) /\ Leads(K, ReleaseContentRef(st, u, {p}), P, j)
  BY DEF Closing
<1>2. Unindexing(u, p) \in Seq(PlainCommand(j.touched))
  BY UnindexingPlain DEF Closing
<1>. QED
  BY <1>1, <1>2, LeadsAfter

\* It may be entered again from a store in which the release leads to the same.
LEMMA ClosingParts ==
    ASSUME NEW st, NEW u \in Users, NEW p \in Paths, NEW P, NEW j, NEW rest,
           Closing(rest, u, p, st, P, j)
    PROVE  /\ rest \in Seq(Command)
           /\ <<u, p>> \in j.touched
           /\ \A r : ReleaseContentRef(r, u, {p}) = ReleaseContentRef(st, u, {p})
                         => Closing(rest, u, p, r, P, j)
<1>1. PICK K \in Seq(Command) :
         rest = Cat(Unindexing(u, p), K) /\ Leads(K, ReleaseContentRef(st, u, {p}), P, j)
  BY DEF Closing
<1>2. <<u, p>> \in j.touched
  BY DEF Closing
<1>3. Unindexing(u, p) \in Seq(Command)
  BY <1>2, UnindexingPlain, PlainParts
<1>4. rest \in Seq(Command)
  BY <1>1, <1>3, CatParts
<1>5. \A r : ReleaseContentRef(r, u, {p}) = ReleaseContentRef(st, u, {p}) => Closing(rest, u, p, r, P, j)
  BY <1>1, <1>2 DEF Closing
<1>. QED
  BY <1>2, <1>4, <1>5

\* The same without the promise.
LEMMA ClosingUnclean ==
    ASSUME NEW st, NEW r, NEW u \in Users, NEW p \in Paths, NEW P, NEW j \in JobType, NEW rest,
           Closing(rest, u, p, st, P, j)
    PROVE  Closing(rest, u, p, r, P, Unclean(j))
<1>1. PICK K \in Seq(Command) :
         rest = Cat(Unindexing(u, p), K) /\ Leads(K, ReleaseContentRef(st, u, {p}), P, j)
  BY DEF Closing
<1>2. <<u, p>> \in Unclean(j).touched
  BY UncleanParts DEF Closing
<1>3. Leads(K, ReleaseContentRef(r, u, {p}), P, Unclean(j))
  BY <1>1, LeadsUnclean
<1>. QED
  BY <1>1, <1>2, <1>3 DEF Closing

\* GET of the cached md5: SREM comes next, or lookupFile.
LEMMA GettingProceeds ==
    ASSUME NEW st \in StoreType, NEW P, NEW j \in JobType, NEW M, NEW s, Getting(st, s, P, j)
    PROVE  Proceeds(st, s, P, j, M)
<1>1. PICK u \in Users, p \in Paths, rest \in Seq(Command) :
         s = Cons(Cmd("GETPATH", u, p, NoMd5), rest) /\ Closing(rest, u, p, st, P, j)
  BY DEF Getting
<1>. DEFINE c == Cmd("GETPATH", u, p, NoMd5)
            m == st.pathMd5[u][p]
            l == Cmd("LOOKUP", u, p, NoMd5)
<1>2. c \in SafeCommand /\ c \in Command /\ c.op = "GETPATH" /\ c.u = u /\ c.p = p
  BY CmdParts DEF Ops, Digest
<1>3. m \in Digest /\ (m # NoMd5 => m \in Md5 /\ HeldMd5(st, u, p) = m)
  BY HeldParts DEF HeldMd5, Digest
<1>4. /\ Continue(st, c, rest) = IF m = NoMd5 THEN Cat(One(l), rest) ELSE Cat(RemoveRef(u, p, m), rest)
      /\ ContinueUnnoticed(c, rest) = Cat(One(l), rest)
  BY <1>2 DEF Continue, ContinueUnnoticed, Cat, One
<1>. HIDE DEF c
<1>5. Head(s) = c /\ Tail(s) = rest
  BY <1>1, <1>2, ConsProgram DEF c
<1>6. Cat(One(l), rest) = Cons(l, rest)
  BY DEF Cat, One, Cons
<1>7. Cat(RemoveRef(u, p, m), rest) = Cons(Cmd("SREM", u, p, m), Cons(Cmd("SCARD", u, p, m), rest))
  BY <1>3, Programs
<1>8. Harmless(st, c, j.touched, M) /\ MisledBy(M, c) = M
  BY <1>2 DEF Harmless, MisledBy
<1>9. Write(st, c) = st
  BY <1>2, AskStep
<1>10. OnTrack(st, Continue(st, c, rest), P, j, M)
  <2>1. CASE m = NoMd5
    <3>1. LookingUp(st, Cons(l, rest), P, j)
      BY <1>1, <2>1 DEF LookingUp
    <3>. QED
      BY <1>4, <1>6, <2>1, <3>1 DEF OnTrack
  <2>2. CASE m # NoMd5
    <3>. HIDE DEF m
    <3>1. Removing(st, Cat(RemoveRef(u, p, m), rest), P, j)
      BY <1>1, <1>3, <1>7, <2>2 DEF Removing
    <3>. QED
      BY <1>4, <2>2, <3>1 DEF OnTrack
  <2>. QED
    BY <2>1, <2>2
<1>11. OnTrack(st, Cons(l, rest), P, Unclean(j), M)
  <2>1. Closing(rest, u, p, st, P, Unclean(j))
    BY <1>1, ClosingUnclean
  <2>2. LookingUp(st, Cons(l, rest), P, Unclean(j))
    BY <2>1, UncleanParts DEF LookingUp
  <2>. QED
    BY <2>2 DEF OnTrack
<1>. QED
  BY <1>4, <1>5, <1>6, <1>8, <1>9, <1>10, <1>11 DEF Proceeds

\* lookupFile for the md5 of the row: SREM comes next, or unindex.
LEMMA LookingUpProceeds ==
    ASSUME NEW st \in StoreType, NEW P, NEW j \in JobType, NEW M, NEW s, LookingUp(st, s, P, j)
    PROVE  Proceeds(st, s, P, j, M)
<1>1. PICK u \in Users, p \in Paths, rest \in Seq(Command) :
         /\ s = Cons(Cmd("LOOKUP", u, p, NoMd5), rest) /\ Closing(rest, u, p, st, P, j)
         /\ j.clean => st.pathMd5[u][p] = NoMd5
  BY DEF LookingUp
<1>. DEFINE c == Cmd("LOOKUP", u, p, NoMd5)
            m == RowMd5(st, c)
<1>2. c \in SafeCommand /\ c \in Command /\ c.op = "LOOKUP" /\ c.u = u /\ c.p = p
  BY CmdParts DEF Ops, Digest
<1>3. /\ m \in Digest /\ (m # NoMd5 => m \in Md5)
      /\ j.clean => HeldMd5(st, u, p) = m
  <2>1. m = IF IsFile(st, u, p) THEN st.index[u][p].md5 ELSE NoMd5
    BY <1>2 DEF RowMd5
  <2>2. m \in Digest
    BY <2>1, HeldParts DEF Row, Digest
  <2>. QED
    BY <1>1, <2>1, <2>2 DEF HeldMd5, Digest
<1>4. /\ Continue(st, c, rest) = Cat(WithMd5(u, p, m), rest)
      /\ ContinueUnnoticed(c, rest) = rest
  BY <1>2 DEF Continue, ContinueUnnoticed, Cat
<1>. HIDE DEF c, m
<1>5. Head(s) = c /\ Tail(s) = rest
  BY <1>1, <1>2, ConsProgram DEF c
<1>6. Cat(WithMd5(u, p, m), rest)
         = IF m = NoMd5 THEN rest
           ELSE Cons(Cmd("SREM", u, p, m), Cons(Cmd("SCARD", u, p, m), rest))
  <2>1. CASE m = NoMd5
    BY <2>1, CatParts DEF WithMd5
  <2>2. CASE m # NoMd5
    <3>1. WithMd5(u, p, m) = RemoveRef(u, p, m)
      BY <2>2 DEF WithMd5
    <3>. QED
      BY <1>3, <2>2, <3>1, Programs
  <2>. QED
    BY <2>1, <2>2
<1>7. Harmless(st, c, j.touched, M) /\ MisledBy(M, c) = M
  BY <1>2 DEF Harmless, MisledBy
<1>8. Write(st, c) = st
  BY <1>2, AskStep
<1>9. OnTrack(st, Continue(st, c, rest), P, j, M)
  <2>1. CASE m = NoMd5
    <3>1. j.clean => Runs(st, Unindexing(u, p), ReleaseContentRef(st, u, {p}))
      <4>1. Runs(st, Unindexing(u, p), Unindex(st, u, {p}))
        BY UnindexRuns
      <4>2. j.clean => Unindex(st, u, {p}) = ReleaseContentRef(st, u, {p})
        BY <1>3, <2>1, ReleaseIsUnindex
      <4>. QED
        BY <4>1, <4>2
    <3>2. Leads(rest, st, P, j)
      BY <1>1, <3>1, ClosingLeads
    <3>. QED
      BY <1>4, <1>6, <2>1, <3>2 DEF OnTrack
  <2>2. CASE m # NoMd5
    <3>1. Removing(st, Cons(Cmd("SREM", u, p, m), Cons(Cmd("SCARD", u, p, m), rest)), P, j)
      BY <1>1, <1>3, <2>2 DEF Removing
    <3>. QED
      BY <1>4, <1>6, <2>2, <3>1 DEF OnTrack
  <2>. QED
    BY <2>1, <2>2
<1>10. OnTrack(st, rest, P, Unclean(j), M)
  <2>1. Closing(rest, u, p, st, P, Unclean(j)) /\ ~Unclean(j).clean
    BY <1>1, ClosingUnclean, UncleanParts
  <2>2. Leads(rest, st, P, Unclean(j))
    BY <2>1, ClosingLeads
  <2>. QED
    BY <2>2 DEF OnTrack
<1>. QED
  BY <1>4, <1>5, <1>7, <1>8, <1>9, <1>10 DEF Proceeds

\* SREM of the reference: SCARD comes next.
LEMMA RemovingProceeds ==
    ASSUME NEW st \in StoreType, NEW P, NEW j \in JobType, NEW M, NEW s, Removing(st, s, P, j)
    PROVE  Proceeds(st, s, P, j, M)
<1>1. PICK u \in Users, p \in Paths, m \in Md5, rest \in Seq(Command) :
         /\ s = Cons(Cmd("SREM", u, p, m), Cons(Cmd("SCARD", u, p, m), rest))
         /\ Closing(rest, u, p, st, P, j)
         /\ j.clean => HeldMd5(st, u, p) = m
  BY DEF Removing
<1>. DEFINE c == Cmd("SREM", u, p, m)
            d == Cmd("SCARD", u, p, m)
            t == Cons(d, rest)
            r == Write(st, c)
<1>2. /\ c \in SafeCommand /\ c \in Command /\ c.op = "SREM" /\ c.u = u /\ c.p = p
      /\ d \in Command
  BY CmdParts DEF Ops, Digest
<1>3. r \in StoreType
  BY <1>2, SafeWrite DEF WriteEffect
<1>4. Closing(rest, u, p, r, P, j) /\ (j.clean => HeldMd5(r, u, p) = m /\ <<u, p>> \notin r.refs[m])
  <2>1. CASE j.clean
    <3>1. /\ HeldMd5(r, u, p) = m /\ <<u, p>> \notin r.refs[m]
          /\ ReleaseContentRef(r, u, {p}) = ReleaseContentRef(st, u, {p})
      BY <1>1, <2>1, RemoveThenRelease
    <3>. QED
      BY <1>1, <3>1, ClosingParts
  <2>2. CASE ~j.clean
    <3>1. PICK K \in Seq(Command) :
             rest = Cat(Unindexing(u, p), K) /\ Leads(K, ReleaseContentRef(st, u, {p}), P, j)
      BY <1>1 DEF Closing
    <3>2. \A k, e : k.touched = j.touched /\ ~k.clean => Leads(K, e, P, k)
      BY <3>1, LeadsParts
    <3>3. Leads(K, ReleaseContentRef(r, u, {p}), P, j)
      BY <2>2, <3>2
    <3>4. <<u, p>> \in j.touched
      BY <1>1 DEF Closing
    <3>. QED
      BY <2>2, <3>1, <3>3, <3>4 DEF Closing
  <2>. QED
    BY <2>1, <2>2
<1>. HIDE DEF r
<1>5. Counting(r, t, P, j)
  BY <1>1, <1>4 DEF Counting
<1>6. Counting(st, t, P, Unclean(j))
  <2>1. Closing(rest, u, p, st, P, Unclean(j)) /\ ~Unclean(j).clean
    BY <1>1, ClosingUnclean, UncleanParts
  <2>. QED
    BY <2>1 DEF Counting
<1>7. t \in Seq(Command)
  BY <1>2, ConsProgram
<1>a. s = Cons(c, t)
  BY <1>1
<1>. HIDE DEF c, d, t
<1>8. Head(s) = c /\ Tail(s) = t
  BY <1>2, <1>7, <1>a, ConsProgram
<1>9. Continue(st, c, t) = t /\ ContinueUnnoticed(c, t) = t
  BY <1>2, PlainStep DEF PlainOps
<1>10. <<u, p>> \in j.touched
  BY <1>1 DEF Closing
<1>11. Harmless(st, c, j.touched, M) /\ MisledBy(M, c) = M
  BY <1>2, <1>10 DEF Harmless, MisledBy
<1>12. OnTrack(r, t, P, j, M) /\ OnTrack(st, t, P, Unclean(j), M)
  BY <1>5, <1>6 DEF OnTrack
<1>13. OnTrack(Write(st, c), t, P, j, M)
  BY <1>12 DEF r
<1>. QED
  BY <1>8, <1>9, <1>11, <1>12, <1>13 DEF Proceeds

\* SCARD: with no reference left, or no answer, the object is deleted.
LEMMA CountingProceeds ==
    ASSUME NEW st \in StoreType, WellKept(st), NEW P, NEW j \in JobType, NEW M, NEW s,
           Counting(st, s, P, j)
    PROVE  Proceeds(st, s, P, j, M)
<1>1. PICK u \in Users, p \in Paths, m \in Md5, rest \in Seq(Command) :
         /\ s = Cons(Cmd("SCARD", u, p, m), rest)
         /\ Closing(rest, u, p, st, P, j)
         /\ j.clean => HeldMd5(st, u, p) = m /\ <<u, p>> \notin st.refs[m]
  BY DEF Counting
<1>. DEFINE c == Cmd("SCARD", u, p, m)
            n == Cardinality(st.refs[m])
            b == DeleteObject(u, p, m)
<1>0. m \in Digest
  BY DEF Digest
<1>2. c \in SafeCommand /\ c \in Command /\ c.op = "SCARD" /\ c.u = u /\ c.p = p /\ c.md5 = m
  BY <1>0, CmdParts DEF Ops
<1>3. n \in Nat /\ (n = 0 <=> st.refs[m] = {})
  BY <1>0, FS_EmptySet, FS_CardinalityType DEF WellKept
<1>4. /\ Continue(st, c, rest) = Cat(AfterCount(c, n), rest)
      /\ ContinueUnnoticed(c, rest) = Cat(AfterCount(c, 0), rest)
  BY <1>2 DEF Continue, ContinueUnnoticed, Cat
<1>5. AfterCount(c, 0) = b /\ AfterCount(c, n) = IF st.refs[m] = {} THEN b ELSE << >>
  <2>. HIDE DEF n
  <2>1. (0 <= 0) /\ (n <= 0 <=> n = 0)
    BY <1>3
  <2>. QED
    BY <1>2, <1>3, <2>1 DEF AfterCount
<1>. HIDE DEF c, n
<1>6. Head(s) = c /\ Tail(s) = rest
  BY <1>1, <1>2, ConsProgram DEF c
<1>7. Harmless(st, c, j.touched, M) /\ MisledBy(M, c) = M \cup {m}
  BY <1>2 DEF Harmless, MisledBy
<1>8. Write(st, c) = st
  BY <1>2, AskStep
<1>9. b \in Seq(Deletes(u, p, m))
  BY <1>0, Programs
<1>. HIDE DEF b
<1>10. OnTrack(st, Continue(st, c, rest), P, j, M)
  <2>1. CASE st.refs[m] = {}
    <3>1. \E mid \in StoreType :
             /\ j.clean => Runs(st, b, mid)
             /\ j.clean => Runs(mid, Unindexing(u, p), ReleaseContentRef(st, u, {p}))
      <4>1. CASE j.clean
        BY <1>1, <2>1, <4>1, DeleteIsRelease DEF b
      <4>2. CASE ~j.clean
        BY <4>2
      <4>. QED
        BY <4>1, <4>2
    <3>2. PICK mid \in StoreType :
             /\ j.clean => Runs(st, b, mid)
             /\ j.clean => Runs(mid, Unindexing(u, p), ReleaseContentRef(st, u, {p}))
      BY <3>1
    <3>3. Leads(rest, mid, P, j)
      BY <1>1, <3>2, ClosingLeads
    <3>4. Deleting(st, Cat(b, rest), P, j, M)
      BY <1>9, <2>1, <3>2, <3>3 DEF Deleting
    <3>. QED
      BY <1>4, <1>5, <2>1, <3>4 DEF OnTrack
  <2>2. CASE st.refs[m] # {}
    <3>1. j.clean => Runs(st, Unindexing(u, p), ReleaseContentRef(st, u, {p}))
      <4>1. Runs(st, Unindexing(u, p), Unindex(st, u, {p}))
        BY UnindexRuns
      <4>2. j.clean => Unindex(st, u, {p}) = ReleaseContentRef(st, u, {p})
        BY <1>1, <2>2, ReleaseIsUnindex
      <4>. QED
        BY <4>1, <4>2
    <3>2. Leads(rest, st, P, j)
      BY <1>1, <3>1, ClosingLeads
    <3>3. Cat(<< >>, rest) = rest
      BY CatParts
    <3>4. Continue(st, c, rest) = rest
      BY <1>4, <1>5, <2>2, <3>3
    <3>. QED
      BY <3>2, <3>4 DEF OnTrack
  <2>. QED
    BY <2>1, <2>2
<1>11. OnTrack(st, Cat(b, rest), P, Unclean(j), M \cup {m})
  <2>1. Closing(rest, u, p, st, P, Unclean(j)) /\ ~Unclean(j).clean
    BY <1>1, ClosingUnclean, UncleanParts
  <2>2. Leads(rest, st, P, Unclean(j))
    BY <2>1, ClosingLeads
  <2>3. Deleting(st, Cat(b, rest), P, Unclean(j), M \cup {m})
    BY <1>9, <2>1, <2>2 DEF Deleting
  <2>. QED
    BY <2>3 DEF OnTrack
<1>. QED
  BY <1>4, <1>5, <1>6, <1>7, <1>8, <1>10, <1>11 DEF Proceeds

\* The commands of deleteObject, one after the other.
LEMMA DeletingProceeds ==
    ASSUME NEW st \in StoreType, NEW P, NEW j \in JobType, NEW M, NEW s,
           Deleting(st, s, P, j, M), s # << >>, Head(s).op # "NEXTROW"
    PROVE  Proceeds(st, s, P, j, M)
<1>1. PICK u \in Users, p \in Paths, m \in Md5, rest \in Seq(Command), mid \in StoreType :
         \E b \in Seq(Deletes(u, p, m)) :
            /\ s = Cat(b, rest)
            /\ m \in M \/ st.refs[m] = {}
            /\ j.clean => Runs(st, b, mid)
            /\ Leads(rest, mid, P, j)
  BY DEF Deleting
<1>2. PICK b \in Seq(Deletes(u, p, m)) :
            /\ s = Cat(b, rest)
            /\ m \in M \/ st.refs[m] = {}
            /\ j.clean => Runs(st, b, mid)
            /\ Leads(rest, mid, P, j)
  BY <1>1
<1>0. m \in Digest
  BY DEF Digest
<1>3. \A c \in Deletes(u, p, m) : /\ c \in SafeCommand /\ c \in Command /\ c.md5 = m
                                  /\ c.op \in {"UNLINK", "DELOBJ", "DELREFS"}
  BY <1>0 DEF Deletes, Cmd, Command, SafeCommand, Ops
<1>4. b \in Seq(Command)
  <2>1. Deletes(u, p, m) \subseteq Command
    BY <1>3
  <2>. QED
    BY <2>1, SeqMonotonic
<1>5. CASE b = << >>
  <2>1. s = rest
    BY <1>2, <1>5, CatParts
  <2>2. Leads(rest, st, P, j)
    <3>1. CASE j.clean
      BY <1>2, <1>5, <3>1, RunsNone
    <3>2. CASE ~j.clean
      <4>1. \A k, e : k.touched = j.touched /\ ~k.clean => Leads(rest, e, P, k)
        BY <1>2, LeadsParts
      <4>. QED
        BY <3>2, <4>1
    <3>. QED
      BY <3>1, <3>2
  <2>. QED
    BY <2>1, <2>2, LeadsProceeds
<1>6. CASE b # << >>
  <2>. DEFINE c == Head(b)
              t == Tail(b)
              r == Write(st, c)
  <2>1. c \in Deletes(u, p, m) /\ t \in Seq(Deletes(u, p, m))
    <3>. DEFINE S == Deletes(u, p, m)
    <3>1. b \in Seq(S)
      OBVIOUS
    <3>. HIDE DEF S
    <3>2. Head(b) \in S /\ Tail(b) \in Seq(S)
      BY <1>6, <3>1
    <3>. QED
      BY <3>2 DEF S
  <2>2. /\ c \in SafeCommand /\ c \in Command /\ c.md5 = m
        /\ c.op \in {"UNLINK", "DELOBJ", "DELREFS"}
    BY <1>3, <2>1
  <2>3. Head(s) = c /\ Tail(s) = Cat(t, rest) /\ b = Cons(c, t) /\ t \in Seq(Command)
    <3>1. /\ Head(Cat(b, rest)) = c /\ Tail(Cat(b, rest)) = Cat(t, rest)
          /\ b = Cons(c, t) /\ t \in Seq(Command)
      BY <1>4, <1>6, CatProgram
    <3>. QED
      BY <1>2, <3>1
  <2>. HIDE DEF c, t
  <2>4. WriteEffect(st, r, c)
    BY <2>2, SafeWrite
  <2>5. r \in StoreType /\ (st.refs[m] = {} => r.refs[m] = {})
    BY <1>0, <2>2, <2>4 DEF WriteEffect
  <2>6. j.clean => Runs(r, t, mid)
    BY <1>2, <2>2, <2>3, RunsCons
  <2>. HIDE DEF r
  <2>7. Deleting(r, Cat(t, rest), P, j, M)
    BY <1>2, <2>1, <2>5, <2>6 DEF Deleting
  <2>8. Deleting(st, Cat(t, rest), P, Unclean(j), M)
    <3>1. Leads(rest, mid, P, Unclean(j)) /\ ~Unclean(j).clean
      BY <1>2, LeadsUnclean, UncleanParts
    <3>. QED
      BY <1>2, <2>1, <3>1 DEF Deleting
  <2>9. Continue(st, c, Cat(t, rest)) = Cat(t, rest) /\ ContinueUnnoticed(c, Cat(t, rest)) = Cat(t, rest)
    BY <2>2, PlainStep
  <2>10. Harmless(st, c, j.touched, M) /\ MisledBy(M, c) = M
    BY <1>2, <2>2 DEF Harmless, MisledBy
  <2>11. OnTrack(Write(st, c), Cat(t, rest), P, j, M)
    BY <2>7 DEF OnTrack, r
  <2>12. OnTrack(st, Cat(t, rest), P, Unclean(j), M)
    BY <2>8 DEF OnTrack
  <2>. QED
    BY <2>3, <2>9, <2>10, <2>11, <2>12 DEF Proceeds
<1>. QED
  BY <1>5, <1>6

\* finishUpload looks for the previous version, and releases it.
LEMMA ReplacingProceeds ==
    ASSUME NEW st \in StoreType, NEW P, NEW j \in JobType, NEW M, NEW s, Replacing(st, s, P, j)
    PROVE  Proceeds(st, s, P, j, M)
<1>1. PICK u \in Users, p \in Paths, rest \in Seq(Command) :
         /\ s = Cons(Cmd("PREVIOUS", u, p, NoMd5), rest)
         /\ <<u, p>> \in j.touched
         /\ Leads(rest, IF IsFile(st, u, p) THEN ReleaseContentRef(st, u, {p}) ELSE st, P, j)
  BY DEF Replacing
<1>. DEFINE c == Cmd("PREVIOUS", u, p, NoMd5)
<1>2. c \in SafeCommand /\ c \in Command /\ c.op = "PREVIOUS" /\ c.u = u /\ c.p = p
  BY CmdParts DEF Ops, Digest
<1>3. /\ Continue(st, c, rest) = IF IsFile(st, u, p) THEN Cat(Releasing(u, p), rest) ELSE Cat(<< >>, rest)
      /\ ContinueUnnoticed(c, rest) = rest
  BY <1>2 DEF Continue, ContinueUnnoticed, Cat
<1>. HIDE DEF c
<1>4. Head(s) = c /\ Tail(s) = rest
  BY <1>1, <1>2, ConsProgram DEF c
<1>5. Harmless(st, c, j.touched, M) /\ MisledBy(M, c) = M
  BY <1>2 DEF Harmless, MisledBy
<1>6. Write(st, c) = st
  BY <1>2, AskStep
<1>7. OnTrack(st, Continue(st, c, rest), P, j, M)
  <2>1. CASE IsFile(st, u, p)
    <3>0. NoMd5 \in Digest
      BY DEF Digest
    <3>1. Unindexing(u, p) \in Seq(Command)
      BY <3>0, Programs
    <3>2. Cat(Releasing(u, p), rest) = Cons(Cmd("GETPATH", u, p, NoMd5), Cat(Unindexing(u, p), rest))
      BY <3>0, Programs
    <3>3. Cat(Unindexing(u, p), rest) \in Seq(Command)
      BY <3>1, CatParts
    <3>4. Closing(Cat(Unindexing(u, p), rest), u, p, st, P, j)
      BY <1>1, <2>1 DEF Closing
    <3>5. Getting(st, Cat(Releasing(u, p), rest), P, j)
      BY <3>2, <3>3, <3>4 DEF Getting
    <3>. QED
      BY <1>3, <2>1, <3>5 DEF OnTrack
  <2>2. CASE ~IsFile(st, u, p)
    <3>1. Continue(st, c, rest) = rest
      BY <1>3, <2>2, CatParts
    <3>. QED
      BY <1>1, <2>2, <3>1 DEF OnTrack
  <2>. QED
    BY <2>1, <2>2
<1>8. OnTrack(st, rest, P, Unclean(j), M)
  <2>1. Leads(rest, st, P, Unclean(j))
    BY <1>1, LeadsUnclean
  <2>. QED
    BY <2>1 DEF OnTrack
<1>. QED
  BY <1>3, <1>4, <1>5, <1>6, <1>7, <1>8 DEF Proceeds

\* instant_upload looks for a conflict, and ends if there is one.
LEMMA CheckingProceeds ==
    ASSUME NEW st \in StoreType, NEW P, NEW j \in JobType, NEW M, NEW s, Checking(st, s, P, j)
    PROVE  Proceeds(st, s, P, j, M)
<1>1. PICK u \in Users, p \in Paths, rest \in Seq(PlainCommand(j.touched)) :
         /\ s = Cons(Cmd("CONFLICT", u, p, NoMd5), rest)
         /\ P = {}
         /\ j.clean => IF IsFile(st, u, p) THEN j.goal = st ELSE Runs(st, rest, j.goal)
  BY DEF Checking
<1>. DEFINE c == Cmd("CONFLICT", u, p, NoMd5)
<1>2. c \in SafeCommand /\ c \in Command /\ c.op = "CONFLICT" /\ c.u = u /\ c.p = p
  BY CmdParts DEF Ops, Digest
<1>3. /\ Continue(st, c, rest) = IF IsFile(st, u, p) THEN << >> ELSE rest
      /\ ContinueUnnoticed(c, rest) = rest
  BY <1>2 DEF Continue, ContinueUnnoticed
<1>. HIDE DEF c
<1>0. rest \in Seq(Command) /\ << >> \in Seq(PlainCommand(j.touched))
  BY PlainParts
<1>4. Head(s) = c /\ Tail(s) = rest
  BY <1>0, <1>1, <1>2, ConsProgram DEF c
<1>5. Harmless(st, c, j.touched, M) /\ MisledBy(M, c) = M
  BY <1>2 DEF Harmless, MisledBy
<1>6. Write(st, c) = st
  BY <1>2, AskStep
<1>7. OnTrack(st, Continue(st, c, rest), P, j, M)
  <2>1. CASE IsFile(st, u, p)
    <3>1. j.clean => Runs(st, << >>, j.goal)
      BY <1>1, <2>1, RunsNone
    <3>2. LeadsPlainly(<< >>, st, P, j)
      BY <1>0, <1>1, <3>1 DEF LeadsPlainly
    <3>. QED
      BY <1>3, <2>1, <3>2 DEF OnTrack, Leads
  <2>2. CASE ~IsFile(st, u, p)
    <3>1. LeadsPlainly(rest, st, P, j)
      BY <1>1, <2>2 DEF LeadsPlainly
    <3>. QED
      BY <1>3, <2>2, <3>1 DEF OnTrack, Leads
  <2>. QED
    BY <2>1, <2>2
<1>8. OnTrack(st, rest, P, Unclean(j), M)
  <2>1. LeadsPlainly(rest, st, P, Unclean(j))
    BY <1>1, UncleanParts DEF LeadsPlainly
  <2>. QED
    BY <2>1 DEF OnTrack, Leads
<1>. QED
  BY <1>3, <1>4, <1>5, <1>6, <1>7, <1>8 DEF Proceeds

-----------------------------------------------------------------------------
(* Every step of the running handler *)

\* Of the phases that begin with a command of their own: that command, and that
\* the whole is a program.
LEMMA PhaseParts ==
    ASSUME NEW st, NEW P, NEW j, NEW s,
           \/ Getting(st, s, P, j) \/ LookingUp(st, s, P, j) \/ Removing(st, s, P, j)
           \/ Counting(st, s, P, j) \/ Replacing(st, s, P, j) \/ Checking(st, s, P, j)
    PROVE  s \in Seq(Command) /\ s # << >> /\ Head(s).op # "NEXTROW"
<1>1. ASSUME NEW op \in Ops \ {"NEXTROW"}, NEW u \in Users, NEW p \in Paths, NEW m \in Digest,
             NEW rest \in Seq(Command), s = Cons(Cmd(op, u, p, m), rest)
      PROVE  s \in Seq(Command) /\ s # << >> /\ Head(s).op # "NEXTROW"
  <2>1. Cmd(op, u, p, m) \in Command /\ Cmd(op, u, p, m).op = op
    BY DEF Cmd, Command
  <2>. QED
    BY <1>1, <2>1, ConsProgram
<1>2. /\ NoMd5 \in Digest /\ \A m \in Md5 : m \in Digest
      /\ {"GETPATH", "LOOKUP", "SREM", "SCARD", "PREVIOUS", "CONFLICT"} \subseteq Ops \ {"NEXTROW"}
  BY DEF Digest, Ops
<1>3. CASE Getting(st, s, P, j)
  BY <1>1, <1>2, <1>3 DEF Getting
<1>4. CASE LookingUp(st, s, P, j)
  BY <1>1, <1>2, <1>4 DEF LookingUp
<1>5. CASE Removing(st, s, P, j)
  <2>1. PICK u \in Users, p \in Paths, m \in Md5, rest \in Seq(Command) :
           s = Cons(Cmd("SREM", u, p, m), Cons(Cmd("SCARD", u, p, m), rest))
    BY <1>5 DEF Removing
  <2>2. Cmd("SCARD", u, p, m) \in Command
    BY DEF Cmd, Command, Ops, Digest
  <2>3. Cons(Cmd("SCARD", u, p, m), rest) \in Seq(Command)
    BY <2>2, ConsProgram
  <2>. QED
    BY <1>1, <1>2, <2>1, <2>3
<1>6. CASE Counting(st, s, P, j)
  BY <1>1, <1>2, <1>6 DEF Counting
<1>7. CASE Replacing(st, s, P, j)
  BY <1>1, <1>2, <1>7 DEF Replacing
<1>8. CASE Checking(st, s, P, j)
  BY <1>1, <1>2, <1>8, PlainParts DEF Checking
<1>. QED
  BY <1>3, <1>4, <1>5, <1>6, <1>7, <1>8

\* deleteObject is at its first command, or it is over.
LEMMA DeletingParts ==
    ASSUME NEW st \in StoreType, NEW P, NEW j, NEW M, NEW s, Deleting(st, s, P, j, M)
    PROVE  /\ s \in Seq(Command)
           /\ \/ Leads(s, st, P, j)
              \/ s # << >> /\ Head(s).op # "NEXTROW"
<1>1. PICK u \in Users, p \in Paths, m \in Md5, rest \in Seq(Command), mid \in StoreType :
         \E b \in Seq(Deletes(u, p, m)) :
            /\ s = Cat(b, rest)
            /\ j.clean => Runs(st, b, mid)
            /\ Leads(rest, mid, P, j)
  BY DEF Deleting
<1>2. PICK b \in Seq(Deletes(u, p, m)) :
            /\ s = Cat(b, rest)
            /\ j.clean => Runs(st, b, mid)
            /\ Leads(rest, mid, P, j)
  BY <1>1
<1>3. \A c \in Deletes(u, p, m) : c \in Command /\ c.op # "NEXTROW"
  BY DEF Deletes, Cmd, Command, Ops, Digest
<1>4. b \in Seq(Command)
  <2>1. Deletes(u, p, m) \subseteq Command
    BY <1>3
  <2>. QED
    BY <2>1, SeqMonotonic
<1>5. s \in Seq(Command)
  BY <1>2, <1>4, CatParts
<1>6. CASE b = << >>
  <2>1. s = rest
    BY <1>2, <1>6, CatParts
  <2>2. Leads(rest, st, P, j)
    <3>1. CASE j.clean
      BY <1>2, <1>6, <3>1, RunsNone
    <3>2. CASE ~j.clean
      <4>1. \A k, e : k.touched = j.touched /\ ~k.clean => Leads(rest, e, P, k)
        BY <1>2, LeadsParts
      <4>. QED
        BY <3>2, <4>1
    <3>. QED
      BY <3>1, <3>2
  <2>. QED
    BY <1>5, <2>1, <2>2
<1>7. CASE b # << >>
  <2>1. s # << >> /\ Head(s) = Head(b)
    BY <1>2, <1>4, <1>7, CatParts
  <2>2. Head(b) \in Deletes(u, p, m)
    BY <1>7, CatParts
  <2>. QED
    BY <1>3, <1>5, <2>1, <2>2
<1>. QED
  BY <1>6, <1>7

\* The remainder of a handler is a program, its first command may be run or may
\* fail unless it is the head of the loop, and at its end the goal is reached.
LEMMA TrackParts ==
    ASSUME NEW st \in StoreType, WellKept(st), NEW P, NEW j \in JobType, NEW M, NEW s,
           OnTrack(st, s, P, j, M)
    PROVE  /\ s \in Seq(Command)
           /\ s # << >> /\ Head(s).op # "NEXTROW" => Proceeds(st, s, P, j, M)
           /\ s = << >> \/ Head(s).op = "NEXTROW" => Leads(s, st, P, j)
<1>1. CASE Leads(s, st, P, j)
  BY <1>1, LeadsParts, LeadsProceeds
<1>2. CASE Deleting(st, s, P, j, M)
  BY <1>2, DeletingParts, DeletingProceeds
<1>3. CASE \/ Getting(st, s, P, j) \/ LookingUp(st, s, P, j) \/ Removing(st, s, P, j)
           \/ Counting(st, s, P, j) \/ Replacing(st, s, P, j) \/ Checking(st, s, P, j)
  <2>1. s \in Seq(Command) /\ s # << >> /\ Head(s).op # "NEXTROW"
    BY <1>3, PhaseParts
  <2>2. Proceeds(st, s, P, j, M)
    BY <1>3, GettingProceeds, LookingUpProceeds, RemovingProceeds, CountingProceeds,
       ReplacingProceeds, CheckingProceeds
  <2>. QED
    BY <2>1, <2>2
<1>. QED
  BY <1>1, <1>2, <1>3 DEF OnTrack

\* The loop of releaseIndexedUnderPrefix takes a row, or ends.
LEMMA LoopStep ==
    ASSUME NEW st \in StoreType, NEW P \in SUBSET Paths, NEW j \in JobType, NEW M, NEW s,
           Leads(s, st, P, j), s # << >>, Head(s).op = "NEXTROW"
    PROVE  /\ P = {} => OnTrack(st, Tail(s), P, j, M)
           /\ \A p \in P : OnTrack(st, Releasing(Head(s).u, p) \o s, P \ {p}, j, M)
<1>1. PICK u \in Users, d \in DirPaths :
         /\ s = RemoveDirectory(u, d)
         /\ \A q \in P \cup {d} : <<u, q>> \in j.touched
         /\ j.clean => j.goal = Unindex(ReleaseContentRef(st, u, P), u, {d})
  <2>1. AtLoop(s, st, P, j)
    BY LeadsLoop
  <2>. QED
    BY <2>1 DEF AtLoop
<1>2. d \in Paths /\ s \in Seq(Command) /\ Head(s).u = u /\ Tail(s) = Unindexing(u, d)
  <2>1. s = RemoveDirectory(u, d)
    BY <1>1
  <2>2. d \in Paths /\ s \in Seq(Command) /\ Head(s) = Cmd("NEXTROW", u, d, NoMd5) /\ Tail(s) = Unindexing(u, d)
    BY <2>1, RowLoop
  <2>. QED
    BY <2>2 DEF Cmd
<1>3. ASSUME P = {} PROVE OnTrack(st, Tail(s), P, j, M)
  <2>1. Unindexing(u, d) \in Seq(PlainCommand(j.touched))
    BY <1>1, <1>2, UnindexingPlain
  <2>2. j.clean => j.goal = Unindex(st, u, {d})
    BY <1>1, <1>3, ReleaseNone
  <2>3. Runs(st, Unindexing(u, d), Unindex(st, u, {d}))
    BY <1>2, UnindexRuns
  <2>4. LeadsPlainly(Unindexing(u, d), st, P, j)
    BY <1>3, <2>1, <2>2, <2>3 DEF LeadsPlainly
  <2>. QED
    BY <1>2, <2>4 DEF OnTrack, Leads
<1>4. ASSUME NEW p \in P PROVE OnTrack(st, Releasing(Head(s).u, p) \o s, P \ {p}, j, M)
  <2>. DEFINE r == ReleaseContentRef(st, u, {p})
  <2>0. p \in Paths /\ {p} \in SUBSET Paths /\ NoMd5 \in Digest
    BY DEF Digest
  <2>1. r \in StoreType
    BY <2>0, ReleaseFields DEF ReleaseEffect
  <2>2. j.clean => j.goal = Unindex(ReleaseContentRef(r, u, P \ {p}), u, {d})
    BY <1>1, ReleaseRest
  <2>. HIDE DEF r
  <2>3. << >> \in Seq(PlainCommand(j.touched)) /\ Runs(r, << >>, r)
    BY <2>1, PlainParts, RunsNone
  <2>4. s = Cat(<< >>, RemoveDirectory(u, d))
    BY <1>1, <1>2, CatParts
  <2>5. LeadsToRows(s, r, P \ {p}, j)
    BY <1>1, <2>1, <2>2, <2>3, <2>4 DEF LeadsToRows
  <2>6. Leads(s, r, P \ {p}, j)
    BY <2>5 DEF Leads
  <2>7. Unindexing(u, p) \in Seq(Command)
    BY <2>0, Programs, <1>2
  <2>8. Cat(Unindexing(u, p), s) \in Seq(Command)
    BY <1>2, <2>7, CatParts
  <2>9. Closing(Cat(Unindexing(u, p), s), u, p, st, P \ {p}, j)
    BY <1>1, <1>2, <2>6 DEF Closing, r
  <2>10. Cat(Releasing(u, p), s) = Cons(Cmd("GETPATH", u, p, NoMd5), Cat(Unindexing(u, p), s))
    BY <1>2, <2>0, Programs
  <2>11. Getting(st, Cat(Releasing(u, p), s), P \ {p}, j)
    BY <2>0, <2>8, <2>9, <2>10 DEF Getting
  <2>12. Releasing(Head(s).u, p) \o s = Cat(Releasing(u, p), s)
    BY <1>2 DEF Cat
  <2>. QED
    BY <2>11, <2>12 DEF OnTrack
<1>. QED
  BY <1>3, <1>4

\* A harmless command leaves alone what it does not name.
LEMMA HarmlessWrite ==
    ASSUME NEW st \in StoreType, WellKept(st), NEW c, NEW T, NEW M, Harmless(st, c, T, M),
           NEW r, r = Write(st, c)
    PROVE  /\ r \in StoreType /\ WellKept(r)
           /\ \A u \in Users, p \in Paths :
                 <<u, p>> \notin T /\ AgreesIn(st, M, u, p) => AgreesIn(r, M, u, p)
<1>0. c \in SafeCommand /\ c.u \in Users /\ c.p \in Paths /\ c.md5 \in Digest
  BY DEF Harmless, SafeCommand, Command
<1>1. WriteEffect(st, r, c)
  BY <1>0, SafeWrite
<1>2. r \in StoreType
  BY <1>1 DEF WriteEffect
<1>3. ASSUME NEW u \in Users, NEW p \in Paths, IsFile(r, u, p) PROVE p \in FilePaths
  <2>1. CASE u = c.u /\ p = c.p /\ c.op = "INSROW"
    BY <2>1 DEF Harmless
  <2>2. CASE ~(u = c.u /\ p = c.p /\ c.op = "INSROW")
    <3>1. r.index[u][p] = NoRow \/ r.index[u][p] = st.index[u][p]
      BY <1>1, <2>2 DEF WriteEffect
    <3>2. IsFile(st, u, p)
      BY <1>3, <3>1 DEF IsFile, NoRow
    <3>. QED
      BY <3>2 DEF WellKept
  <2>. QED
    BY <2>1, <2>2
<1>4. ASSUME NEW m \in Digest PROVE IsFiniteSet(r.refs[m])
  <2>0. IsFiniteSet(st.refs[m])
    BY DEF WellKept
  <2>1. \/ r.refs[m] = st.refs[m] \cup {<<c.u, c.p>>}
        \/ r.refs[m] = st.refs[m] \ {<<c.u, c.p>>}
        \/ r.refs[m] = {}
        \/ r.refs[m] = st.refs[m]
    BY <1>1 DEF WriteEffect
  <2>2. IsFiniteSet(st.refs[m] \cup {<<c.u, c.p>>})
    BY <2>0, FS_AddElement
  <2>3. IsFiniteSet(st.refs[m] \ {<<c.u, c.p>>})
    BY <2>0, FS_RemoveElement
  <2>. QED
    BY <2>0, <2>1, <2>2, <2>3, FS_EmptySet
<1>5. ASSUME NEW u \in Users, NEW p \in Paths, <<u, p>> \notin T, AgreesIn(st, M, u, p)
      PROVE  AgreesIn(r, M, u, p)
  <2>. DEFINE h == HeldMd5(st, u, p)
  <2>1. c.op \in {"SETPATH", "DELPATH", "SADD", "SREM", "INSROW", "DELROW"} => <<c.u, c.p>> # <<u, p>>
    BY <1>5 DEF Harmless
  <2>2. r.index[u][p] = st.index[u][p] /\ r.pathMd5[u][p] = st.pathMd5[u][p]
    BY <1>1, <2>1 DEF WriteEffect
  <2>3. HeldMd5(r, u, p) = h /\ IsFile(r, u, p) = IsFile(st, u, p) /\ h \in Digest
    BY <1>2, <2>2, HeldParts
  <2>4. ASSUME h # NoMd5, h \notin M, <<u, p>> \in st.refs[h] /\ h \in st.objects
        PROVE  <<u, p>> \in r.refs[h] /\ h \in r.objects
    <3>. HIDE DEF h
    <3>1. ~(c.op \in {"UNLINK", "DELREFS"} /\ c.md5 = h)
      BY <2>4 DEF Harmless
    <3>2. h \in r.objects
      BY <1>1, <2>4, <3>1 DEF WriteEffect
    <3>3. <<u, p>> \in r.refs[h]
      <4>1. \/ r.refs[h] = st.refs[h] \cup {<<c.u, c.p>>}
            \/ c.op = "SREM" /\ r.refs[h] = st.refs[h] \ {<<c.u, c.p>>}
            \/ r.refs[h] = st.refs[h]
        BY <1>1, <2>3, <3>1 DEF WriteEffect
      <4>. QED
        BY <2>1, <2>4, <4>1
    <3>. QED
      BY <3>2, <3>3
  <2>5. h # NoMd5 => /\ IsFile(st, u, p) => st.index[u][p].md5 = h
                     /\ st.pathMd5[u][p] = h
                     /\ h \in M \/ (<<u, p>> \in st.refs[h] /\ h \in st.objects)
    BY <1>5 DEF AgreesIn
  <2>. HIDE DEF h
  <2>. QED
    BY <2>2, <2>3, <2>4, <2>5 DEF AgreesIn
<1>. QED
  BY <1>2, <1>3, <1>4, <1>5 DEF WellKept


-----------------------------------------------------------------------------
(* How the handlers begin *)

\* The job of a handler that has just begun.
JobOf(T, G, O) == [touched |-> T, goal |-> G, outcome |-> O, clean |-> TRUE]

\* What the program s of a new handler needs: it leads to the goal, and the goal
\* keeps the promise of its outcome.
Started(st, s, P, j, D, M) ==
    /\ j \in JobType
    /\ P \subseteq FilePaths
    /\ OnTrack(st, s, P, j, M)
    /\ Accounted(j, D, M)

\* The writes of addContentRef and publishObject are plain.
LEMMA AddingPlain ==
    ASSUME NEW u \in Users, NEW p \in FilePaths, NEW m \in Digest, NEW T, <<u, p>> \in T
    PROVE  /\ Adding(u, p, m) \in Seq(PlainCommand(T))
           /\ m \in Md5 => Two(Cmd("COPY", u, p, m), Cmd("SETOBJ", u, p, m)) \in Seq(PlainCommand(T))
<1>0. p \in Paths
  BY StepsAssumption
<1>. DEFINE x == Cmd("SADD", u, p, m)
            y == Cmd("INSROW", u, p, m)
            z == Cmd("SETPATH", u, p, m)
            a == Cmd("COPY", u, p, m)
            b == Cmd("SETOBJ", u, p, m)
<1>1. x \in PlainCommand(T) /\ y \in PlainCommand(T) /\ z \in PlainCommand(T)
  BY <1>0 DEF PlainCommand, PlainOps, Cmd, Command, Ops, Digest
<1>2. m \in Md5 => a \in PlainCommand(T) /\ b \in PlainCommand(T)
  BY <1>0 DEF PlainCommand, PlainOps, Cmd, Command, Ops, Digest
<1>. HIDE DEF x, y, z, a, b
<1>3. <<x, y, z>> \in Seq(PlainCommand(T))
  BY <1>1
<1>4. m \in Md5 => <<a, b>> \in Seq(PlainCommand(T))
  BY <1>2
<1>. QED
  BY <1>3, <1>4 DEF Adding, Two, x, y, z, a, b

\* So are those of renameIndexedFile.
LEMMA RenamingPlain ==
    ASSUME NEW u \in Users, NEW from \in FilePaths, NEW to \in FilePaths, NEW m \in Digest,
           NEW T, <<u, from>> \in T, <<u, to>> \in T
    PROVE  Renaming(u, from, to, m) \in Seq(PlainCommand(T))
<1>0. from \in Paths /\ to \in Paths
  BY StepsAssumption
<1>. DEFINE x == Cmd("SREM", u, from, m)
            y == Cmd("SADD", u, to, m)
            z == Cmd("DELPATH", u, from, NoMd5)
            a == Cmd("INSROW", u, to, m)
            b == Cmd("SETPATH", u, to, m)
            c == Cmd("DELROW", u, from, NoMd5)
<1>1. x \in PlainCommand(T) /\ y \in PlainCommand(T) /\ z \in PlainCommand(T)
  BY <1>0 DEF PlainCommand, PlainOps, Cmd, Command, Ops, Digest
<1>2. a \in PlainCommand(T) /\ b \in PlainCommand(T) /\ c \in PlainCommand(T)
  BY <1>0 DEF PlainCommand, PlainOps, Cmd, Command, Ops, Digest
<1>. HIDE DEF x, y, z, a, b, c
<1>3. <<x, y, z, a, b, c>> \in Seq(PlainCommand(T))
  BY <1>1, <1>2
<1>. QED
  BY <1>3 DEF Renaming, x, y, z, a, b, c

\* A path that addContentRef has recorded agrees, its object being there.
LEMMA AddAgrees ==
    ASSUME NEW st \in StoreType, NEW r, NEW u \in Users, NEW p \in Paths, NEW m \in Md5, NEW M,
           AddEffect(st, r, u, p, m), m \in st.objects
    PROVE  AgreesIn(r, M, u, p)
<1>1. /\ r.index[u][p] = FileRow(m) /\ r.pathMd5[u][p] = m /\ m \in r.objects
      /\ <<u, p>> \in r.refs[m]
  BY DEF AddEffect, Digest
<1>2. m # NoMd5
  BY StepsAssumption
<1>3. HeldMd5(r, u, p) = m
  BY <1>1, <1>2 DEF HeldMd5
<1>4. r.index[u][p].md5 = m
  BY <1>1 DEF FileRow
<1>. QED
  BY <1>1, <1>3, <1>4 DEF AgreesIn

\* A path that is not recorded agrees.
LEMMA GoneAgrees ==
    ASSUME NEW r \in StoreType, NEW u \in Users, NEW p \in Paths, NEW M,
           r.index[u][p] = NoRow, r.pathMd5[u][p] = NoMd5
    PROVE  AgreesIn(r, M, u, p)
<1>1. HeldMd5(r, u, p) = NoMd5
  BY HeldParts
<1>. QED
  BY <1>1 DEF AgreesIn

\* A job whose goal agrees on every path it clears keeps its promise.
LEMMA JobAccounted ==
    ASSUME NEW T \in SUBSET (Users \X Paths), NEW G \in StoreType, NEW M, NEW D,
           NEW O \in SUBSET (Users \X Paths), D \ T \subseteq O,
           \A v \in Users, q \in Paths : <<v, q>> \in T \ O => AgreesIn(G, M, v, q),
           NEW j, j = JobOf(T, G, O)
    PROVE  Accounted(j, D, M)
<1>1. j.touched = T /\ j.goal = G /\ j.outcome = O /\ j.clean = TRUE
  BY DEF JobOf
<1>. QED
  BY <1>1 DEF Accounted

\* The set of the one path that a handler names, and sets of such pairs.
Only(u, p) == {<<u, p>>}
PathSet(D) == D \subseteq Users \X Paths

\* The job j names u's path p and promises the store G.
Promises(j, u, p, G, D, M) ==
    /\ j \in JobType /\ j.touched = Only(u, p) /\ <<u, p>> \in j.touched
    /\ j.goal = G /\ j.clean = TRUE /\ Accounted(j, D, M)

\* A job that names one path and clears it keeps its promise if that path agrees.
LEMMA OneAccounted ==
    ASSUME NEW u \in Users, NEW p \in Paths, NEW G \in StoreType, NEW M,
           NEW D, PathSet(D), AgreesIn(G, M, u, p),
           NEW j, j = JobOf(Only(u, p), G, D \ Only(u, p))
    PROVE  Promises(j, u, p, G, D, M)
<1>. DEFINE T == Only(u, p)
            O == D \ T
<1>1. /\ T \in SUBSET (Users \X Paths) /\ <<u, p>> \in T
      /\ \A v \in Users, q \in Paths : <<v, q>> \in T => v = u /\ q = p
  BY DEF Only
<1>2. O \in SUBSET (Users \X Paths) /\ D \ T \subseteq O /\ j = JobOf(T, G, O)
  BY <1>1 DEF PathSet
<1>. HIDE DEF T, O
<1>3. \A v \in Users, q \in Paths : <<v, q>> \in T \ O => AgreesIn(G, M, v, q)
  BY <1>1
<1>4. Accounted(j, D, M)
  BY <1>1, <1>2, <1>3, JobAccounted
<1>5. j \in JobType /\ j.touched = T /\ j.goal = G /\ j.clean = TRUE
  BY <1>1, <1>2 DEF JobOf, JobType
<1>. QED
  BY <1>1, <1>4, <1>5 DEF T, Promises


\* upload_end begins on track.
LEMMA PutStarts ==
    ASSUME NEW st \in StoreType, NEW u \in Users, NEW p \in FilePaths, NEW m \in Md5, NEW M,
           NEW D, PathSet(D), NEW rel, NEW j,
           rel = IF IsFile(st, u, p) THEN ReleaseContentRef(st, u, {p}) ELSE st,
           j = JobOf(Only(u, p), AddContentRef(PublishObject(rel, m), u, p, m), D \ Only(u, p))
    PROVE  Started(st, FinishUpload(u, p, m), {}, j, D, M)
<1>. DEFINE pub == PublishObject(rel, m)
            G == AddContentRef(pub, u, p, m)
            a == Two(Cmd("COPY", u, p, m), Cmd("SETOBJ", u, p, m))
            b == Adding(u, p, m)
<1>0. p \in Paths /\ m \in Digest /\ NoMd5 \in Digest
  BY StepsAssumption DEF Digest
<1>1. rel \in StoreType
  <2>1. ReleaseContentRef(st, u, {p}) \in StoreType
    BY <1>0, ReleaseFields DEF ReleaseEffect
  <2>. QED
    BY <2>1
<1>2. PublishEffect(rel, pub, m)
  BY <1>1, PublishFields
<1>3. pub \in StoreType /\ m \in pub.objects
  BY <1>2 DEF PublishEffect
<1>4. AddEffect(pub, G, u, p, m)
  <2>. HIDE DEF pub
  <2>. QED
    BY <1>0, <1>3, AddFields
<1>5. G \in StoreType
  BY <1>4 DEF AddEffect
<1>6. AgreesIn(G, M, u, p)
  <2>. HIDE DEF pub, G
  <2>. QED
    BY <1>0, <1>3, <1>4, AddAgrees
<1>7. j = JobOf(Only(u, p), G, D \ Only(u, p))
  OBVIOUS
<1>8. Runs(rel, a, pub) /\ Runs(pub, b, G)
  <2>1. Runs(rel, a, pub)
    BY <1>0, <1>1, PublishRuns
  <2>2. Runs(pub, b, G)
    <3>. HIDE DEF pub
    <3>. QED
      BY <1>0, <1>3, AddRuns
  <2>. QED
    BY <2>1, <2>2
<1>. HIDE DEF pub, G
<1>10. /\ j \in JobType /\ <<u, p>> \in j.touched /\ j.goal = G /\ Accounted(j, D, M)
  <2>1. Promises(j, u, p, G, D, M)
    BY <1>0, <1>5, <1>6, <1>7, OneAccounted
  <2>. QED
    BY <2>1 DEF Promises
<1>11. a \in Seq(PlainCommand(j.touched)) /\ b \in Seq(PlainCommand(j.touched))
  BY <1>0, <1>10, AddingPlain
<1>. HIDE DEF a, b
<1>12. Cat(a, b) \in Seq(PlainCommand(j.touched))
  BY <1>11, CatParts
<1>13. a \in Seq(Command) /\ b \in Seq(Command) /\ Cat(a, b) \in Seq(Command)
  BY <1>11, <1>12, PlainParts
<1>14. FinishUpload(u, p, m) = Cons(Cmd("PREVIOUS", u, p, NoMd5), Cat(a, b))
  <2>. DEFINE x == Cmd("PREVIOUS", u, p, NoMd5)
              y == Cmd("COPY", u, p, m)
              z == Cmd("SETOBJ", u, p, m)
  <2>1. x \in Command /\ y \in Command /\ z \in Command
    BY <1>0 DEF Cmd, Command, Ops
  <2>2. FinishUpload(u, p, m) = Cat(Three(x, y, z), b)
    BY DEF FinishUpload, Cat, Three, b
  <2>. HIDE DEF x, y, z
  <2>4. Cat(Three(x, y, z), b) = Cons(x, Cons(y, Cons(z, b))) /\ Cat(Two(y, z), b) = Cons(y, Cons(z, b))
    BY <1>13, <2>1, ShortPrograms
  <2>. QED
    BY <2>2, <2>4 DEF x, y, z, a
<1>9. Runs(rel, Cat(a, b), G)
  BY <1>8, <1>13, RunsConcat
<1>15. Leads(Cat(a, b), rel, {}, j)
  BY <1>10, <1>12, <1>9 DEF Leads, LeadsPlainly
<1>16. Replacing(st, FinishUpload(u, p, m), {}, j)
  BY <1>0, <1>14, <1>10, <1>13, <1>15 DEF Replacing
<1>. QED
  BY <1>10, <1>16 DEF Started, OnTrack

\* So does instant_upload of a path that has no file.
LEMMA InstantStarts ==
    ASSUME NEW st \in StoreType, NEW u \in Users, NEW p \in FilePaths, NEW m \in Md5, NEW M,
           NEW D, PathSet(D), NEW j, m \in st.objects, ~IsFile(st, u, p),
           j = JobOf(Only(u, p), AddContentRef(st, u, p, m), D \ Only(u, p))
    PROVE  Started(st, Cons(Cmd("CONFLICT", u, p, NoMd5), Adding(u, p, m)), {}, j, D, M)
<1>. DEFINE G == AddContentRef(st, u, p, m)
            b == Adding(u, p, m)
<1>0. p \in Paths /\ m \in Digest
  BY StepsAssumption DEF Digest
<1>1. AddEffect(st, G, u, p, m)
  BY <1>0, AddFields
<1>2. G \in StoreType
  BY <1>1 DEF AddEffect
<1>3. AgreesIn(G, M, u, p)
  <2>. HIDE DEF G
  <2>. QED
    BY <1>0, <1>1, AddAgrees
<1>4. j = JobOf(Only(u, p), G, D \ Only(u, p))
  OBVIOUS
<1>5. Runs(st, b, G)
  BY <1>0, AddRuns
<1>. HIDE DEF G
<1>6. j \in JobType /\ <<u, p>> \in j.touched /\ j.goal = G /\ Accounted(j, D, M)
  <2>1. Promises(j, u, p, G, D, M)
    BY <1>0, <1>2, <1>3, <1>4, OneAccounted
  <2>. QED
    BY <2>1 DEF Promises
<1>7. b \in Seq(PlainCommand(j.touched))
  BY <1>0, <1>6, AddingPlain
<1>. HIDE DEF b
<1>8. Checking(st, Cons(Cmd("CONFLICT", u, p, NoMd5), b), {}, j)
  BY <1>0, <1>5, <1>6, <1>7 DEF Checking
<1>. QED
  BY <1>6, <1>8 DEF Started, OnTrack, b

\* And one that will meet a conflict: it clears nothing.
LEMMA ConflictStarts ==
    ASSUME NEW st \in StoreType, NEW u \in Users, NEW p \in FilePaths, NEW m \in Md5, NEW M,
           NEW D, PathSet(D), NEW j, IsFile(st, u, p),
           <<u, p>> \notin D => AgreesIn(st, M, u, p),
           j = JobOf(Only(u, p), st, D)
    PROVE  Started(st, Cons(Cmd("CONFLICT", u, p, NoMd5), Adding(u, p, m)), {}, j, D, M)
<1>. DEFINE T == Only(u, p)
            b == Adding(u, p, m)
<1>0. p \in Paths /\ m \in Digest
  BY StepsAssumption DEF Digest
<1>1. /\ T \in SUBSET (Users \X Paths) /\ <<u, p>> \in T
      /\ \A v \in Users, q \in Paths : <<v, q>> \in T => v = u /\ q = p
  BY <1>0 DEF Only
<1>2. j = JobOf(T, st, D) /\ D \ T \subseteq D /\ D \in SUBSET (Users \X Paths)
  BY DEF PathSet
<1>. HIDE DEF T
<1>3. \A v \in Users, q \in Paths : <<v, q>> \in T \ D => AgreesIn(st, M, v, q)
  BY <1>1
<1>4. Accounted(j, D, M)
  BY <1>1, <1>2, <1>3, JobAccounted
<1>5. j \in JobType /\ j.touched = T /\ j.goal = st
  BY <1>1, <1>2 DEF JobOf, JobType
<1>6. b \in Seq(PlainCommand(j.touched))
  BY <1>0, <1>1, <1>5, AddingPlain
<1>. HIDE DEF b
<1>7. Checking(st, Cons(Cmd("CONFLICT", u, p, NoMd5), b), {}, j)
  BY <1>0, <1>5, <1>6 DEF Checking
<1>. QED
  BY <1>4, <1>5, <1>7 DEF Started, OnTrack, b

\* rm of a file begins on track.
LEMMA RmStarts ==
    ASSUME NEW st \in StoreType, NEW u \in Users, NEW p \in FilePaths, NEW M,
           NEW D, PathSet(D), NEW j,
           j = JobOf(Only(u, p), ReleaseContentRef(st, u, {p}), D \ Only(u, p))
    PROVE  Started(st, Releasing(u, p), {}, j, D, M)
<1>. DEFINE G == ReleaseContentRef(st, u, {p})
            none == << >>
<1>0. p \in Paths /\ NoMd5 \in Digest /\ none \in Seq(Command)
  BY StepsAssumption DEF Digest
<1>1. ReleaseEffect(st, G, u, {p})
  BY <1>0, ReleaseFields
<1>2. G \in StoreType /\ G.index[u][p] = NoRow /\ G.pathMd5[u][p] = NoMd5
  BY <1>0, <1>1 DEF ReleaseEffect
<1>3. j = JobOf(Only(u, p), G, D \ Only(u, p))
  OBVIOUS
<1>4. AgreesIn(G, M, u, p)
  BY <1>0, <1>2, GoneAgrees
<1>5. j \in JobType /\ <<u, p>> \in j.touched /\ j.goal = G /\ Accounted(j, D, M)
  <2>. HIDE DEF G
  <2>1. Promises(j, u, p, G, D, M)
    BY <1>0, <1>2, <1>3, <1>4, OneAccounted
  <2>. QED
    BY <2>1 DEF Promises
<1>6. Leads(none, G, {}, j)
  <2>1. none \in Seq(PlainCommand(j.touched))
    BY PlainParts
  <2>2. Runs(G, none, G)
    BY <1>2, RunsNone
  <2>. QED
    BY <1>5, <2>1, <2>2 DEF Leads, LeadsPlainly
<1>. HIDE DEF none
<1>7. /\ Cat(Releasing(u, p), none) = Cons(Cmd("GETPATH", u, p, NoMd5), Cat(Unindexing(u, p), none))
      /\ Releasing(u, p) \in Seq(Command) /\ Unindexing(u, p) \in Seq(Command)
  BY <1>0, Programs
<1>8. Cat(Unindexing(u, p), none) \in Seq(Command) /\ Cat(Releasing(u, p), none) = Releasing(u, p)
  BY <1>0, <1>7, CatParts DEF none
<1>9. Closing(Cat(Unindexing(u, p), none), u, p, st, {}, j)
  BY <1>0, <1>5, <1>6 DEF Closing
<1>10. Getting(st, Releasing(u, p), {}, j)
  BY <1>0, <1>7, <1>8, <1>9 DEF Getting
<1>. QED
  BY <1>5, <1>10 DEF Started, OnTrack


\* u's paths of the set S.
Own(u, S) == {<<u, q>> : q \in S}

\* rm of a directory begins on track.
LEMMA RmDirectoryStarts ==
    ASSUME NEW st \in StoreType, WellKept(st), NEW u \in Users, NEW d \in DirPaths, NEW M,
           NEW D, PathSet(D), NEW j, NEW P, P = IndexedUnderPrefix(st, u, d),
           j = JobOf(Own(u, P \cup {d}), Unindex(ReleaseContentRef(st, u, P), u, {d}),
                     D \ Own(u, P \cup {d}))
    PROVE  Started(st, RemoveDirectory(u, d), P, j, D, M)
<1>. DEFINE rel == ReleaseContentRef(st, u, P)
            G == Unindex(rel, u, {d})
            T == Own(u, P \cup {d})
            O == D \ T
            none == << >>
<1>0. d \in Paths /\ P \in SUBSET Paths /\ P \subseteq FilePaths
  BY StepsAssumption DEF WellKept, IndexedUnderPrefix
<1>1. ReleaseEffect(st, rel, u, P)
  BY <1>0, ReleaseFields
<1>2. rel \in StoreType /\ \A q \in P : rel.index[u][q] = NoRow /\ rel.pathMd5[u][q] = NoMd5
  BY <1>0, <1>1 DEF ReleaseEffect
<1>3. UnindexEffect(rel, G, u, {d})
  <2>. HIDE DEF rel
  <2>. QED
    BY <1>0, <1>2, UnindexFields
<1>4. G \in StoreType /\ \A q \in P \cup {d} : G.index[u][q] = NoRow /\ G.pathMd5[u][q] = NoMd5
  <2>. HIDE DEF rel, G
  <2>. QED
    BY <1>0, <1>2, <1>3 DEF UnindexEffect
<1>5. /\ T \in SUBSET (Users \X Paths) /\ O \in SUBSET (Users \X Paths) /\ D \ T \subseteq O
      /\ \A v \in Users, q \in Paths : <<v, q>> \in T => v = u /\ q \in P \cup {d}
      /\ \A q \in P \cup {d} : <<u, q>> \in T
  BY <1>0 DEF Own, PathSet
<1>6. j = JobOf(T, G, O)
  OBVIOUS
<1>. HIDE DEF G, T, O
<1>7. \A v \in Users, q \in Paths : <<v, q>> \in T \ O => AgreesIn(G, M, v, q)
  <2>1. \A q \in P \cup {d} : AgreesIn(G, M, u, q)
    BY <1>0, <1>4, GoneAgrees
  <2>. QED
    BY <1>5, <2>1
<1>8. Accounted(j, D, M)
  BY <1>4, <1>5, <1>6, <1>7, JobAccounted
<1>9. j \in JobType /\ j.touched = T /\ j.goal = G
  BY <1>4, <1>5, <1>6 DEF JobOf, JobType
<1>10. none \in Seq(PlainCommand(j.touched))
  BY PlainParts
<1>11. Runs(st, none, st)
  BY RunsNone
<1>12. RemoveDirectory(u, d) = Cat(none, RemoveDirectory(u, d))
  BY RowLoop, CatParts
<1>. HIDE DEF none
<1>13. j.goal = Unindex(ReleaseContentRef(st, u, P), u, {d})
  BY <1>9 DEF G, rel
<1>14. \A q \in P \cup {d} : <<u, q>> \in j.touched
  BY <1>5, <1>9
<1>15. LeadsToRows(RemoveDirectory(u, d), st, P, j)
  BY <1>10, <1>11, <1>12, <1>13, <1>14 DEF LeadsToRows
<1>. QED
  BY <1>0, <1>8, <1>9, <1>15 DEF Started, OnTrack, Leads

\* The two paths of a rename.
Both(u, p, q) == {<<u, p>>, <<u, q>>}

\* A file that is renamed without a fault agrees at its new path if it did at
\* its old one, where nothing is left.
LEMMA RenameAgrees ==
    ASSUME NEW st \in StoreType, NEW u \in Users, NEW from \in Paths, NEW to \in Paths, NEW M,
           NEW r, NEW m, m = st.index[u][from].md5, IsFile(st, u, from),
           RenameEffect(st, r, u, from, to, m)
    PROVE  /\ from # to => AgreesIn(r, M, u, from)
           /\ AgreesIn(st, M, u, from) => AgreesIn(r, M, u, to)
<1>0. r \in StoreType /\ m \in Digest
  BY DEF RenameEffect
<1>1. ASSUME from # to PROVE AgreesIn(r, M, u, from)
  <2>1. r.index[u][from] = NoRow /\ r.pathMd5[u][from] = NoMd5
    BY <1>1 DEF RenameEffect
  <2>. QED
    BY <1>0, <2>1, GoneAgrees
<1>2. ASSUME AgreesIn(st, M, u, from) PROVE AgreesIn(r, M, u, to)
  <2>1. r.pathMd5[u][to] = m /\ (r.index[u][to] = NoRow \/ r.index[u][to] = FileRow(m))
    BY DEF RenameEffect
  <2>2. HeldMd5(r, u, to) = m
    BY <2>1 DEF HeldMd5, IsFile, NoRow, FileRow
  <2>3. IsFile(r, u, to) => r.index[u][to].md5 = m
    BY <2>1 DEF IsFile, NoRow, FileRow
  <2>4. m # NoMd5 => HeldMd5(st, u, from) = m
    <3>1. m # NoMd5 => HeldMd5(st, u, from) # NoMd5
      BY DEF HeldMd5
    <3>. QED
      BY <1>2, <3>1 DEF AgreesIn
  <2>5. m # NoMd5 => m \in M \/ m \in st.objects
    BY <1>2, <2>4 DEF AgreesIn
  <2>6. <<u, to>> \in r.refs[m] /\ r.objects = st.objects
    BY <1>0 DEF RenameEffect
  <2>. QED
    BY <2>1, <2>2, <2>3, <2>5, <2>6 DEF AgreesIn
<1>. QED
  BY <1>1, <1>2

\* rename begins on track.
LEMMA RenameStarts ==
    ASSUME NEW st \in StoreType, NEW u \in Users, NEW from \in FilePaths, NEW to \in FilePaths, NEW M,
           NEW D, PathSet(D), NEW j, NEW I, IsFile(st, u, from),
           <<u, from>> \notin D => AgreesIn(st, M, u, from),
           I = IF <<u, from>> \in D THEN Only(u, to) ELSE {},
           j = JobOf(Both(u, from, to), RenameIndexedFile(st, u, from, to), (D \ Both(u, from, to)) \cup I)
    PROVE  Started(st, Renaming(u, from, to, st.index[u][from].md5), {}, j, D, M)
<1>. DEFINE m == st.index[u][from].md5
            G == RenameIndexedFile(st, u, from, to)
            T == Both(u, from, to)
            O == (D \ T) \cup I
            s == Renaming(u, from, to, m)
<1>0. from \in Paths /\ to \in Paths
  BY StepsAssumption
<1>1. RenameEffect(st, G, u, from, to, m)
  BY <1>0, RenameFields
<1>2. Runs(st, s, G)
  BY <1>0, RenameRuns
<1>3. /\ T \in SUBSET (Users \X Paths) /\ O \in SUBSET (Users \X Paths) /\ D \ T \subseteq O
      /\ <<u, from>> \in T /\ <<u, to>> \in T
      /\ <<u, from>> \in D => <<u, to>> \in O
      /\ \A v \in Users, q \in Paths : <<v, q>> \in T => v = u /\ (q = from \/ q = to)
  BY <1>0 DEF Both, Only, PathSet
<1>4. j = JobOf(T, G, O)
  OBVIOUS
<1>. HIDE DEF m, G, T, O
<1>5. G \in StoreType /\ m \in Digest
  BY <1>1 DEF RenameEffect
<1>6. /\ from # to => AgreesIn(G, M, u, from)
      /\ AgreesIn(st, M, u, from) => AgreesIn(G, M, u, to)
  <2>1. m = st.index[u][from].md5
    BY DEF m
  <2>. QED
    BY <1>0, <1>1, <2>1, RenameAgrees
<1>7. ASSUME NEW v \in Users, NEW q \in Paths, <<v, q>> \in T \ O PROVE AgreesIn(G, M, v, q)
  <2>1. v = u /\ (q = from \/ q = to)
    BY <1>3, <1>7
  <2>2. CASE q = to
    BY <1>3, <1>6, <1>7, <2>1, <2>2
  <2>3. CASE q # to
    BY <1>6, <2>1, <2>3
  <2>. QED
    BY <2>2, <2>3
<1>8. Accounted(j, D, M)
  BY <1>3, <1>4, <1>5, <1>7, JobAccounted
<1>9. j \in JobType /\ j.touched = T /\ j.goal = G
  BY <1>3, <1>4, <1>5 DEF JobOf, JobType
<1>10. s \in Seq(PlainCommand(j.touched))
  BY <1>3, <1>5, <1>9, RenamingPlain
<1>11. LeadsPlainly(s, st, {}, j)
  BY <1>2, <1>9, <1>10 DEF LeadsPlainly
<1>. QED
  BY <1>8, <1>9, <1>11 DEF Started, OnTrack, Leads, m


-----------------------------------------------------------------------------
(* The steps *)

\* The undisturbed paths of the store st agree.
Undisturbed(st, D, T, M) ==
    \A u \in Users, p \in Paths : <<u, p>> \notin D \cup T => AgreesIn(st, M, u, p)

\* IInv, as a formula about values.
Sound(st, s, P, f, j, D, M) ==
    /\ st \in StoreType /\ WellKept(st)
    /\ s \in Seq(Command)
    /\ P \subseteq FilePaths
    /\ f \in 0 .. MaxFaults
    /\ j \in JobType
    /\ s = << >> => P = {} /\ j = NoJob
    /\ PathSet(D)
    /\ M \subseteq Md5
    /\ Undisturbed(st, D, j.touched, M)
    /\ s # << >> => OnTrack(st, s, P, j, M) /\ Accounted(j, D, M)

\* That is what IInv says, before a step and after it.
LEMMA IInvIsSound ==
    /\ IInv <=> Sound(store, prog, paths, faults, job, disturbed, misled)
    /\ IInv' <=> Sound(store', prog', paths', faults', job', disturbed', misled')
<1>1. IInv <=> Sound(store, prog, paths, faults, job, disturbed, misled)
  <2>1. UndisturbedReadable <=> Undisturbed(store, disturbed, job.touched, misled)
    BY DEF UndisturbedReadable, Undisturbed, Agrees, AgreesIn
  <2>. QED
    BY <2>1 DEF IInv, TypeOK, Sound, PathSet
<1>2. IInv' <=> Sound(store', prog', paths', faults', job', disturbed', misled')
  <2>1. UndisturbedReadable' <=> Undisturbed(store', disturbed', job'.touched, misled')
    BY DEF UndisturbedReadable, Undisturbed, Agrees, AgreesIn
  <2>2. /\ WellKept(store)' <=> WellKept(store')
        /\ OnTrack(store, prog, paths, job, misled)' <=> OnTrack(store', prog', paths', job', misled')
        /\ Accounted(job, disturbed, misled)' <=> Accounted(job', disturbed', misled')
    OBVIOUS
  <2>. QED
    BY <2>1, <2>2 DEF IInv, TypeOK, Sound, PathSet
<1>. QED
  BY <1>1, <1>2

\* NoJob is a job that names nothing.
LEMMA NoJobParts == NoJob \in JobType /\ NoJob.touched = {} /\ NoJob.clean = TRUE
<1>1. EmptyStore \in StoreType
  BY DEF EmptyStore, Store, StoreType, NoRow, Row, Digest
<1>. QED
  BY <1>1 DEF NoJob, JobType

\* After a step of a handler the state is sound, whether or not it was the last.
LEMMA GoesOn ==
    ASSUME NEW st \in StoreType, WellKept(st), NEW s, NEW P \in SUBSET FilePaths, NEW f \in 0 .. MaxFaults,
           NEW j \in JobType, NEW D, PathSet(D), NEW M \in SUBSET Md5, NEW j2, NEW D2,
           OnTrack(st, s, P, j, M), Accounted(j, D, M), Undisturbed(st, D, j.touched, M),
           s # << >> => j2 = j /\ D2 = D,
           s = << >> => j2 = NoJob /\ D2 = IF j.clean THEN j.outcome ELSE D
    PROVE  Sound(st, s, P, f, j2, D2, M)
<1>1. s \in Seq(Command)
  BY TrackParts
<1>2. CASE s # << >>
  BY <1>1, <1>2 DEF Sound
<1>3. CASE s = << >>
  <2>1. Leads(s, st, P, j)
    BY <1>3, TrackParts
  <2>2. P = {} /\ (j.clean => st = j.goal)
    BY <1>3, <2>1, LeadsEnd
  <2>3. NoJob \in JobType /\ NoJob.touched = {}
    BY NoJobParts
  <2>4. PathSet(D2)
    <3>1. PathSet(j.outcome)
      BY DEF JobType, PathSet
    <3>. QED
      BY <1>3, <3>1
  <2>5. ASSUME NEW u \in Users, NEW p \in Paths, <<u, p>> \notin D2 PROVE AgreesIn(st, M, u, p)
    <3>1. CASE j.clean /\ <<u, p>> \in j.touched
      <4>1. <<u, p>> \in j.touched \ j.outcome
        BY <1>3, <2>5, <3>1
      <4>. QED
        BY <2>2, <3>1, <4>1 DEF Accounted
    <3>2. CASE ~(j.clean /\ <<u, p>> \in j.touched)
      <4>1. <<u, p>> \notin D \cup j.touched
        BY <1>3, <2>5, <3>2 DEF Accounted
      <4>. QED
        BY <4>1 DEF Undisturbed
    <3>. QED
      BY <3>1, <3>2
  <2>6. Undisturbed(st, D2, {}, M)
    BY <2>5 DEF Undisturbed
  <2>7. j2 = NoJob /\ P = {}
    BY <1>3, <2>2
  <2>. QED
    BY <1>1, <1>3, <2>3, <2>4, <2>6, <2>7 DEF Sound
<1>. QED
  BY <1>2, <1>3


\* A handler that has begun with a program that leads to its goal.
LEMMA BeginKeeps ==
    ASSUME IInv, NEW s, NEW P, NEW T, NEW G, NEW O, Begin(s, P, T, G, O), s # << >>,
           NEW j, j = JobOf(T, G, O), Started(store, s, P, j, disturbed, misled)
    PROVE  IInv'
<1>1. Sound(store, prog, paths, faults, job, disturbed, misled)
  BY IInvIsSound
<1>2. /\ prog = << >> /\ prog' = s /\ paths' = P /\ job' = j
      /\ store' = store /\ faults' = faults /\ disturbed' = disturbed /\ misled' = misled
  BY DEF Begin, JobOf
<1>3. job.touched = {}
  BY <1>1, <1>2, NoJobParts DEF Sound
<1>4. s \in Seq(Command)
  BY <1>1, TrackParts DEF Sound, Started
<1>5. Undisturbed(store, disturbed, j.touched, misled)
  BY <1>1, <1>3 DEF Sound, Undisturbed
<1>6. Sound(store, s, P, faults, j, disturbed, misled)
  BY <1>1, <1>4, <1>5 DEF Sound, Started
<1>7. Sound(store', prog', paths', faults', job', disturbed', misled')
  BY <1>2, <1>6
<1>. QED
  BY <1>7, IInvIsSound

\* No program is empty.
LEMMA ProgramsNotEmpty ==
    ASSUME NEW u \in Users, NEW p \in Paths, NEW q \in Paths, NEW m \in Digest
    PROVE  /\ FinishUpload(u, p, m) # << >>
           /\ Cons(Cmd("CONFLICT", u, p, NoMd5), Adding(u, p, m)) # << >>
           /\ Releasing(u, p) # << >>
           /\ RemoveDirectory(u, p) # << >>
           /\ Renaming(u, p, q, m) # << >>
<1>1. Adding(u, p, m) \in Seq(Command) /\ Unindexing(u, p) \in Seq(Command)
  <2>. DEFINE none == << >>
  <2>1. none \in Seq(Command)
    OBVIOUS
  <2>. HIDE DEF none
  <2>. QED
    BY <2>1, Programs
<1>2. FinishUpload(u, p, m) # << >>
  BY <1>1 DEF FinishUpload, Cmd, Digest
<1>3. Cons(Cmd("CONFLICT", u, p, NoMd5), Adding(u, p, m)) # << >>
  BY <1>1 DEF Cons, Cmd, Digest
<1>4. Releasing(u, p) # << >> /\ RemoveDirectory(u, p) # << >>
  BY <1>1 DEF Releasing, RemoveDirectory, Cmd, Digest
<1>5. Renaming(u, p, q, m) # << >>
  BY DEF Renaming
<1>. QED
  BY <1>2, <1>3, <1>4, <1>5

\* Between two handlers every path that is not disturbed agrees.
LEMMA IdleAgrees ==
    ASSUME IInv, prog = << >>
    PROVE  /\ store \in StoreType /\ WellKept(store) /\ PathSet(disturbed)
           /\ \A u \in Users, p \in Paths : <<u, p>> \notin disturbed => AgreesIn(store, misled, u, p)
<1>1. Sound(store, prog, paths, faults, job, disturbed, misled)
  BY IInvIsSound
<1>2. job.touched = {}
  BY <1>1, NoJobParts DEF Sound
<1>. QED
  BY <1>1, <1>2 DEF Sound, Undisturbed

\* A handler begins when no other runs.
LEMMA HandlerIsFirst == Handler => prog = << >>
<1>1. ASSUME NEW u, NEW p, NEW m, Put(u, p, m) PROVE prog = << >>
  BY <1>1 DEF Put, Begin
<1>2. ASSUME NEW u, NEW p, NEW m, InstantUpload(u, p, m) PROVE prog = << >>
  BY <1>2 DEF InstantUpload, Begin
<1>3. ASSUME NEW u, NEW p, Rm(u, p) PROVE prog = << >>
  BY <1>3 DEF Rm, Begin
<1>4. ASSUME NEW u, NEW d, RmDirectory(u, d) PROVE prog = << >>
  BY <1>4 DEF RmDirectory, Begin
<1>5. ASSUME NEW u, NEW p, NEW q, Rename(u, p, q) PROVE prog = << >>
  BY <1>5 DEF Rename, Begin
<1>. QED
  BY <1>1, <1>2, <1>3, <1>4, <1>5 DEF Handler

\* The beginning of a handler keeps the invariant.
LEMMA HandlerKeeps ==
    ASSUME IInv, Handler
    PROVE  IInv'
<1>0. prog = << >>
  BY HandlerIsFirst
<1>1. /\ store \in StoreType /\ WellKept(store) /\ PathSet(disturbed)
      /\ \A u \in Users, p \in Paths : <<u, p>> \notin disturbed => AgreesIn(store, misled, u, p)
  BY <1>0, IdleAgrees
<1>2. FilePaths \subseteq Paths /\ DirPaths \subseteq Paths /\ Md5 \subseteq Digest
  BY StepsAssumption DEF Digest
<1>3. ASSUME NEW u \in Users, NEW p \in FilePaths, NEW m \in Md5, Put(u, p, m) PROVE IInv'
  <2>. DEFINE rel == IF IsFile(store, u, p) THEN ReleaseContentRef(store, u, {p}) ELSE store
              G == AddContentRef(PublishObject(rel, m), u, p, m)
              O == disturbed \ Only(u, p)
              s == FinishUpload(u, p, m)
              j == JobOf(Only(u, p), G, O)
  <2>1. Begin(s, {}, Only(u, p), G, O)
    BY <1>3 DEF Put, Only
  <2>2. Started(store, s, {}, j, disturbed, misled)
    BY <1>1, PutStarts
  <2>3. s # << >>
    BY <1>2, ProgramsNotEmpty
  <2>. HIDE DEF rel, G, O, s
  <2>. QED
    BY <2>1, <2>2, <2>3, BeginKeeps
<1>4. ASSUME NEW u \in Users, NEW p \in FilePaths, NEW m \in Md5, InstantUpload(u, p, m) PROVE IInv'
  <2>. DEFINE s == Cons(Cmd("CONFLICT", u, p, NoMd5), Adding(u, p, m))
              G == AddContentRef(store, u, p, m)
              O == disturbed \ Only(u, p)
  <2>0. s # << >>
    BY <1>2, ProgramsNotEmpty
  <2>1. CASE IsFile(store, u, p)
    <3>. DEFINE j == JobOf(Only(u, p), store, disturbed)
    <3>1. Begin(s, {}, Only(u, p), store, disturbed)
      BY <1>4, <2>1 DEF InstantUpload, Only, Cons
    <3>2. Started(store, s, {}, j, disturbed, misled)
      <4>1. <<u, p>> \notin disturbed => AgreesIn(store, misled, u, p)
        BY <1>1, <1>2
      <4>. QED
        BY <1>1, <2>1, <4>1, ConflictStarts
    <3>. HIDE DEF s
    <3>. QED
      BY <2>0, <3>1, <3>2, BeginKeeps
  <2>2. CASE ~IsFile(store, u, p)
    <3>. DEFINE j == JobOf(Only(u, p), G, O)
    <3>1. Begin(s, {}, Only(u, p), G, O) /\ m \in store.objects
      BY <1>4, <2>2 DEF InstantUpload, Only, Cons
    <3>2. Started(store, s, {}, j, disturbed, misled)
      BY <1>1, <2>2, <3>1, InstantStarts
    <3>. HIDE DEF s, G, O
    <3>. QED
      BY <2>0, <3>1, <3>2, BeginKeeps
  <2>. QED
    BY <2>1, <2>2
<1>5. ASSUME NEW u \in Users, NEW p \in FilePaths, Rm(u, p) PROVE IInv'
  <2>. DEFINE G == ReleaseContentRef(store, u, {p})
              O == disturbed \ Only(u, p)
              s == Releasing(u, p)
              j == JobOf(Only(u, p), G, O)
  <2>1. Begin(s, {}, Only(u, p), G, O)
    BY <1>5 DEF Rm, Only
  <2>2. Started(store, s, {}, j, disturbed, misled)
    BY <1>1, RmStarts
  <2>3. s # << >>
    <3>1. NoMd5 \in Digest
      BY DEF Digest
    <3>. QED
      BY <1>2, <3>1, ProgramsNotEmpty
  <2>. HIDE DEF G, O, s
  <2>. QED
    BY <2>1, <2>2, <2>3, BeginKeeps
<1>6. ASSUME NEW u \in Users, NEW d \in DirPaths, RmDirectory(u, d) PROVE IInv'
  <2>. DEFINE P == IndexedUnderPrefix(store, u, d)
              T == Own(u, P \cup {d})
              G == Unindex(ReleaseContentRef(store, u, P), u, {d})
              O == disturbed \ T
              s == RemoveDirectory(u, d)
              j == JobOf(T, G, O)
  <2>1. Begin(s, P, T, G, O)
    BY <1>6 DEF RmDirectory, Own
  <2>2. Started(store, s, P, j, disturbed, misled)
    BY <1>1, RmDirectoryStarts
  <2>3. s # << >>
    BY RowLoop
  <2>. HIDE DEF P, T, G, O, s
  <2>. QED
    BY <2>1, <2>2, <2>3, BeginKeeps
<1>7. ASSUME NEW u \in Users, NEW r \in RenamePairs, Rename(u, r[1], r[2]) PROVE IInv'
  <2>. DEFINE from == r[1]
              to == r[2]
              I == IF <<u, from>> \in disturbed THEN Only(u, to) ELSE {}
              T == Both(u, from, to)
              G == RenameIndexedFile(store, u, from, to)
              O == (disturbed \ T) \cup I
              s == Renaming(u, from, to, store.index[u][from].md5)
              j == JobOf(T, G, O)
  <2>0. from \in FilePaths /\ to \in FilePaths /\ from \in Paths /\ to \in Paths
    BY <1>2, StepsAssumption
  <2>. HIDE DEF from, to
  <2>1. Begin(s, {}, T, G, O) /\ IsFile(store, u, from)
    BY <1>7 DEF Rename, Only, Both, from, to
  <2>2. Started(store, s, {}, j, disturbed, misled)
    <3>1. <<u, from>> \notin disturbed => AgreesIn(store, misled, u, from)
      BY <1>1, <2>0
    <3>. QED
      BY <1>1, <2>0, <2>1, <3>1, RenameStarts
  <2>3. s # << >>
    BY DEF Renaming
  <2>. HIDE DEF I, T, G, O, s
  <2>. QED
    BY <2>1, <2>2, <2>3, BeginKeeps
<1>. QED
  BY <1>3, <1>4, <1>5, <1>6, <1>7 DEF Handler


\* What a command of a handler, executed or failed, does to the invariant.
LEMMA CommandProceeds ==
    ASSUME IInv, prog # << >>, Head(prog).op # "NEXTROW"
    PROVE  /\ Proceeds(store, prog, paths, job, misled)
           /\ Harmless(store, Head(prog), job.touched, misled)
<1>1. Sound(store, prog, paths, faults, job, disturbed, misled)
  BY IInvIsSound
<1>2. Proceeds(store, prog, paths, job, misled)
  BY <1>1, TrackParts DEF Sound
<1>. QED
  BY <1>2 DEF Proceeds

\* A command that is executed keeps the invariant, and the last one of a handler
\* without a fault reaches the goal.
LEMMA ExecuteKeeps ==
    ASSUME IInv, Execute
    PROVE  IInv' /\ (prog' = << >> /\ job.clean => store' = job.goal)
<1>1. Sound(store, prog, paths, faults, job, disturbed, misled)
  BY IInvIsSound
<1>2. /\ prog # << >> /\ Head(prog).op # "NEXTROW"
      /\ store' = Write(store, Head(prog))
      /\ prog' = Continue(store, Head(prog), Tail(prog))
      /\ paths' = paths /\ faults' = faults /\ misled' = misled
      /\ Account(prog')
  BY DEF Execute
<1>3. Proceeds(store, prog, paths, job, misled) /\ Harmless(store, Head(prog), job.touched, misled)
  BY <1>2, CommandProceeds
<1>4. /\ store' \in StoreType /\ WellKept(store')
      /\ \A u \in Users, p \in Paths :
            <<u, p>> \notin job.touched /\ AgreesIn(store, misled, u, p) => AgreesIn(store', misled, u, p)
  BY <1>1, <1>2, <1>3, HarmlessWrite DEF Sound
<1>5. OnTrack(store', prog', paths, job, misled)
  BY <1>2, <1>3 DEF Proceeds
<1>6. Undisturbed(store', disturbed, job.touched, misled)
  BY <1>1, <1>4 DEF Sound, Undisturbed
<1>7. /\ prog' # << >> => job' = job /\ disturbed' = disturbed
      /\ prog' = << >> => job' = NoJob /\ disturbed' = IF job.clean THEN job.outcome ELSE disturbed
  BY <1>2 DEF Account
<1>8. /\ paths \in SUBSET FilePaths /\ faults \in 0 .. MaxFaults /\ job \in JobType
      /\ PathSet(disturbed) /\ misled \in SUBSET Md5 /\ Accounted(job, disturbed, misled)
  BY <1>1, <1>2 DEF Sound
<1>9. Sound(store', prog', paths, faults, job', disturbed', misled)
  BY <1>4, <1>5, <1>6, <1>7, <1>8, GoesOn
<1>10. Sound(store', prog', paths', faults', job', disturbed', misled')
  BY <1>2, <1>9
<1>11. IInv'
  BY <1>10, IInvIsSound
<1>12. ASSUME prog' = << >>, job.clean PROVE store' = job.goal
  <2>1. Leads(prog', store', paths, job)
    BY <1>4, <1>5, <1>8, <1>12, TrackParts
  <2>. QED
    BY <1>4, <1>12, <2>1, LeadsEnd
<1>. QED
  BY <1>11, <1>12

\* So does the loop over the rows, which never ends a handler.
LEMMA NextRowKeeps ==
    ASSUME IInv, NextRow
    PROVE  IInv' /\ prog' # << >>
<1>1. Sound(store, prog, paths, faults, job, disturbed, misled)
  BY IInvIsSound
<1>2. /\ prog # << >> /\ Head(prog).op = "NEXTROW"
      /\ store' = store /\ faults' = faults /\ job' = job
      /\ disturbed' = disturbed /\ misled' = misled
      /\ \/ paths = {} /\ prog' = Tail(prog) /\ paths' = paths
         \/ \E p \in paths : paths' = paths \ {p} /\ prog' = Releasing(Head(prog).u, p) \o prog
  BY DEF NextRow
<1>3. Leads(prog, store, paths, job)
  BY <1>1, <1>2, TrackParts DEF Sound
<1>4. paths \in SUBSET Paths
  BY <1>1, StepsAssumption DEF Sound
<1>5. /\ paths = {} => OnTrack(store, Tail(prog), paths, job, misled)
      /\ \A p \in paths : OnTrack(store, Releasing(Head(prog).u, p) \o prog, paths \ {p}, job, misled)
  BY <1>1, <1>2, <1>3, <1>4, LoopStep DEF Sound
<1>6. OnTrack(store, prog', paths', job, misled) /\ paths' \subseteq FilePaths
  BY <1>1, <1>2, <1>5 DEF Sound
<1>7. prog' # << >>
  <2>1. PICK u \in Users, d \in DirPaths : prog = RemoveDirectory(u, d)
    <3>1. AtLoop(prog, store, paths, job)
      BY <1>1, <1>2, <1>3, LeadsLoop DEF Sound
    <3>. QED
      BY <3>1 DEF AtLoop
  <2>2. Tail(prog) = Unindexing(u, d) /\ Head(prog) = Cmd("NEXTROW", u, d, NoMd5) /\ prog \in Seq(Command)
    BY <2>1, RowLoop
  <2>3. Tail(prog) # << >>
    BY <2>2 DEF Unindexing
  <2>4. ASSUME NEW p \in paths PROVE Releasing(Head(prog).u, p) \o prog # << >>
    <3>1. Head(prog).u = u /\ p \in Paths /\ NoMd5 \in Digest
      BY <1>4, <2>2 DEF Cmd, Digest
    <3>2. Releasing(u, p) # << >> /\ Releasing(u, p) \in Seq(Command)
      BY <2>2, <3>1, Programs, ProgramsNotEmpty
    <3>3. Cat(Releasing(u, p), prog) # << >>
      BY <2>2, <3>2, CatParts
    <3>. QED
      BY <3>1, <3>3 DEF Cat
  <2>. QED
    BY <1>2, <2>3, <2>4
<1>8. prog' \in Seq(Command)
  BY <1>1, <1>6, TrackParts DEF Sound
<1>9. Sound(store, prog', paths', faults, job, disturbed, misled)
  BY <1>1, <1>2, <1>6, <1>7, <1>8 DEF Sound
<1>10. Sound(store', prog', paths', faults', job', disturbed', misled')
  BY <1>2, <1>9
<1>. QED
  BY <1>7, <1>10, IInvIsSound

\* A crash keeps it: what it leaves undone is on the paths of the handler.
LEMMA InterruptKeeps ==
    ASSUME IInv, Interrupt
    PROVE  IInv'
<1>1. Sound(store, prog, paths, faults, job, disturbed, misled)
  BY IInvIsSound
<1>2. /\ store' = store /\ prog' = << >> /\ paths' = {} /\ job' = NoJob /\ misled' = misled
      /\ faults < MaxFaults /\ faults' = faults + 1 /\ disturbed' = disturbed \cup job.touched
  BY DEF Interrupt, Fault
<1>3. faults' \in 0 .. MaxFaults
  BY <1>1, <1>2, StepsAssumption DEF Sound
<1>4. PathSet(disturbed')
  BY <1>1, <1>2 DEF Sound, PathSet, JobType
<1>5. Undisturbed(store, disturbed', {}, misled)
  BY <1>1, <1>2 DEF Sound, Undisturbed
<1>6. NoJob \in JobType /\ NoJob.touched = {}
  BY NoJobParts
<1>7. Sound(store, << >>, {}, faults', NoJob, disturbed', misled)
  BY <1>1, <1>3, <1>4, <1>5, <1>6 DEF Sound
<1>8. Sound(store', prog', paths', faults', job', disturbed', misled')
  BY <1>2, <1>7
<1>. QED
  BY <1>8, IInvIsSound

\* A command that fails unnoticed keeps it too: from then on the handler
\* promises nothing, and SCARD misleads about its content.
LEMMA UnnoticedKeeps ==
    ASSUME IInv, Unnoticed
    PROVE  IInv'
<1>. DEFINE c == Head(prog)
            j == Unclean(job)
            D == disturbed \cup job.touched
            M == MisledBy(misled, c)
<1>1. Sound(store, prog, paths, faults, job, disturbed, misled)
  BY IInvIsSound
<1>2. /\ store' = store /\ paths' = paths /\ prog # << >> /\ c.op \in MayFail
      /\ faults < MaxFaults /\ faults' = faults + 1 /\ disturbed' = D /\ misled' = M
      /\ prog' = ContinueUnnoticed(c, Tail(prog))
      /\ job' = IF prog' = << >> THEN NoJob ELSE j
  BY DEF Unnoticed, Fault, MisledBy, Unclean
<1>3. c.op # "NEXTROW"
  BY <1>2, StepsAssumption
<1>4. Proceeds(store, prog, paths, job, misled) /\ Harmless(store, c, job.touched, misled)
  BY <1>2, <1>3, CommandProceeds
<1>5. OnTrack(store, prog', paths, j, M)
  BY <1>2, <1>4 DEF Proceeds
<1>6. misled \subseteq M /\ M \in SUBSET Md5
  BY <1>1, <1>4 DEF Sound, Harmless, MisledBy
<1>7. /\ store \in StoreType /\ WellKept(store) /\ paths \in SUBSET FilePaths /\ job \in JobType
      /\ Undisturbed(store, disturbed, job.touched, misled)
  BY <1>1 DEF Sound
<1>8. j \in JobType /\ j.clean = FALSE /\ j.touched = job.touched
  BY <1>7, UncleanParts
<1>9. faults' \in 0 .. MaxFaults
  BY <1>1, <1>2, StepsAssumption DEF Sound
<1>10. PathSet(D)
  BY <1>1 DEF Sound, PathSet, JobType
<1>. HIDE DEF j, M
<1>11. Undisturbed(store, D, j.touched, M)
  <2>. SUFFICES ASSUME NEW u \in Users, NEW p \in Paths, <<u, p>> \notin D \cup j.touched
                PROVE  AgreesIn(store, M, u, p)
    BY DEF Undisturbed
  <2>1. AgreesIn(store, misled, u, p)
    BY <1>7 DEF Undisturbed
  <2>. QED
    BY <1>6, <2>1 DEF AgreesIn
<1>12. Accounted(j, D, M)
  BY <1>8 DEF Accounted
<1>13. Sound(store, prog', paths, faults', job', D, M)
  <2>. HIDE DEF D
  <2>1. /\ prog' # << >> => job' = j /\ D = D
        /\ prog' = << >> => job' = NoJob /\ D = IF j.clean THEN j.outcome ELSE D
    BY <1>2, <1>8
  <2>. QED
    BY <1>5, <1>6, <1>7, <1>8, <1>9, <1>10, <1>11, <1>12, <2>1, GoesOn
<1>14. Sound(store', prog', paths', faults', job', disturbed', misled')
  BY <1>2, <1>13
<1>. QED
  BY <1>14, IInvIsSound


-----------------------------------------------------------------------------
(* Theorems *)

\* The empty store, with no handler running, satisfies the invariant.
LEMMA InitIInv == Init => IInv
<1>. SUFFICES ASSUME Init PROVE IInv
  OBVIOUS
<1>. DEFINE e == EmptyStore
            none == << >>
<1>1. /\ store = e /\ prog = none /\ paths = {} /\ faults = 0 /\ job = NoJob
      /\ disturbed = {} /\ misled = {}
  BY DEF Init
<1>2. /\ e \in StoreType
      /\ \A m \in Digest : e.refs[m] = {}
      /\ \A u \in Users, p \in Paths : e.index[u][p] = NoRow /\ e.pathMd5[u][p] = NoMd5
  BY DEF EmptyStore, Store, StoreType, NoRow, Row, Digest
<1>. HIDE DEF e
<1>3. WellKept(e)
  <2>1. \A u \in Users, p \in Paths : ~IsFile(e, u, p)
    BY <1>2 DEF IsFile, NoRow
  <2>. QED
    BY <1>2, <2>1, FS_EmptySet DEF WellKept
<1>4. Undisturbed(e, {}, {}, {})
  BY <1>2, GoneAgrees DEF Undisturbed
<1>5. NoJob \in JobType /\ NoJob.touched = {}
  BY NoJobParts
<1>6. 0 \in 0 .. MaxFaults /\ PathSet({}) /\ none \in Seq(Command)
  BY StepsAssumption DEF PathSet
<1>7. Sound(e, none, {}, 0, NoJob, {}, {})
  BY <1>2, <1>3, <1>4, <1>5, <1>6 DEF Sound
<1>8. Sound(store, prog, paths, faults, job, disturbed, misled)
  BY <1>1, <1>7
<1>. QED
  BY <1>8, IInvIsSound

\* Every step keeps the invariant.
LEMMA NextIInv == IInv /\ [Next]_vars => IInv'
<1>. SUFFICES ASSUME IInv, [Next]_vars PROVE IInv'
  OBVIOUS
<1>1. CASE Handler
  BY <1>1, HandlerKeeps
<1>2. CASE Execute
  BY <1>2, ExecuteKeeps
<1>3. CASE NextRow
  BY <1>3, NextRowKeeps
<1>4. CASE Interrupt
  BY <1>4, InterruptKeeps
<1>5. CASE Unnoticed
  BY <1>5, UnnoticedKeeps
<1>6. CASE UNCHANGED vars
  <2>1. Sound(store, prog, paths, faults, job, disturbed, misled)
    BY IInvIsSound
  <2>2. Sound(store', prog', paths', faults', job', disturbed', misled')
    BY <1>6, <2>1 DEF vars
  <2>. QED
    BY <2>2, IInvIsSound
<1>. QED
  BY <1>1, <1>2, <1>3, <1>4, <1>5, <1>6 DEF Next

\* Every reachable state satisfies it.
LEMMA Invariance == Spec => []IInv
BY InitIInv, NextIInv, PTL DEF Spec

\* Whatever crashes and unnoticed failures there are, what is left of a handler
\* of TransferService is a sequence of commands, and a handler that is over has
\* taken every row that releaseIndexedUnderPrefix selected, or was interrupted.
THEOREM ProgramsTyped == Spec => []TypeOK
<1>1. IInv => TypeOK
  BY DEF IInv
<1>. QED
  BY <1>1, Invariance, PTL

\* A file whose own last handler (upload_end, instant_upload, rm, rename) ended
\* without a fault has its row, its cached md5, its reference and its object,
\* whatever crashes and failed commands hit the handlers of other paths, also
\* those that share its content; an SCARD that failed for that very content is
\* the one exception.
THEOREM FaultsStayLocal == Spec => []UndisturbedReadable
<1>1. IInv => UndisturbedReadable
  BY DEF IInv
<1>. QED
  BY <1>1, Invariance, PTL

\* The commands of a handler in which nothing failed add up to the effect that
\* ObjectStore gives it, from every state, also those that earlier crashes and
\* failed commands of releaseContentRef, finishUpload, renameIndexedFile or
\* releaseIndexedUnderPrefix left behind.
THEOREM HandlersAreAtomic == Spec => AtomicEffect
<1>1. IInv /\ [Next]_vars => [EndsClean => store' = job.goal]_vars
  <2>. SUFFICES ASSUME IInv, Next, prog # << >>, prog' = << >>, job.clean, faults' = faults
                PROVE  store' = job.goal
    BY DEF EndsClean
  <2>1. CASE Handler
    BY <2>1, HandlerIsFirst
  <2>2. CASE Execute
    BY <2>2, ExecuteKeeps
  <2>3. CASE NextRow
    BY <2>3, NextRowKeeps
  <2>4. CASE Fault
    <3>1. faults \in 0 .. MaxFaults /\ MaxFaults \in Nat
      BY StepsAssumption DEF IInv, TypeOK
    <3>. QED
      BY <2>4, <3>1 DEF Fault
  <2>. QED
    BY <2>1, <2>2, <2>3, <2>4 DEF Next, Interrupt, Unnoticed
<1>. QED
  BY <1>1, Invariance, PTL DEF Spec, AtomicEffect
=============================================================================
