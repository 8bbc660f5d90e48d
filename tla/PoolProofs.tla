----------------------------- MODULE PoolProofs -----------------------------
(***************************************************************************)
(* Proofs about MysqlPool, for any number of handles, clients and outages. *)
(***************************************************************************)
EXTENDS MysqlPool, SequenceTheorems, TLAPS

-----------------------------------------------------------------------------
(* The inductive invariant *)

\* Handles s lent or idle, none twice; and t, none of them in s.
Apart(s, t) ==
    /\ \A i, j \in 1 .. Len(s) : s[i] = s[j] => i = j
    /\ \A i, j \in 1 .. Len(t) : t[i] = t[j] => i = j
    /\ \A i \in 1 .. Len(s), j \in 1 .. Len(t) : s[i] # t[j]

\* What is left of program P before its operation k.
Rest(P, k) == SubSeq(P, k, Len(P))

\* The connections a request with program P holds before its operation k.
Depths(P) ==
    IF P = Lookup THEN <<0, 1, 1, 0>>
    ELSE IF P = Login THEN <<0, 1, 1, 2, 1, 0>>
    ELSE <<0, 1, 1, 0, 1, 1, 2, 2, 1, 2, 2, 1, 0>>

\* Acquires and releases of a request balance, and a request that is over has
\* nothing left to do.
Nested ==
    /\ \E P \in Programs : \E k \in 1 .. Len(P) + 1 :
          program = Rest(P, k) /\ Len(held) = Depths(P)[k]
    /\ serving = {} => program = << >>

\* The whole invariant.
IInv == TypeOK /\ Nested
-----------------------------------------------------------------------------
(* Lemmas *)

\* An acquire nests one deeper and never deeper than two, a release finds
\* something to release, and a "try" stands right before its release.
Balanced(P) ==
    LET d == Depths(P) IN
    /\ P \in Seq(Operations) /\ Len(P) > 0
    /\ d[1] = 0 /\ d[Len(P) + 1] = 0
    /\ \A k \in 1 .. Len(P) :
          /\ P[k] \in {"acquire", "try"} => d[k] \in 0 .. 1 /\ d[k + 1] = d[k] + 1
          /\ P[k] = "try" => k < Len(P) /\ d[k + 2] = d[k]
          /\ P[k] = "query" => d[k + 1] = d[k]
          /\ P[k] = "release" => d[k] > 0 /\ d[k + 1] = d[k] - 1

\* Every program is balanced.
LEMMA ProgramsBalanced == \A P \in Programs : Balanced(P)
<1>1. Lookup # Login /\ Lookup # RmDirectory /\ Login # RmDirectory
  BY DEF Lookup, Login, RmDirectory
<1>2. Balanced(Lookup)
  BY DEF Balanced, Depths, Lookup, Operations
<1>3. Balanced(Login)
  <2>1. Depths(Login) = <<0, 1, 1, 2, 1, 0>>
    BY <1>1 DEF Depths
  <2> QED BY <2>1 DEF Balanced, Login, Operations
<1>4. Balanced(RmDirectory)
  <2>1. Depths(RmDirectory) = <<0, 1, 1, 0, 1, 1, 2, 2, 1, 2, 2, 1, 0>>
    BY <1>1 DEF Depths
  <2> QED BY <2>1 DEF Balanced, RmDirectory, Operations
<1> QED BY <1>2, <1>3, <1>4 DEF Programs

\* The rest of a program begins with its next operation.
LEMMA RestGoesOn ==
    ASSUME NEW P \in Seq(Operations), NEW k \in 1 .. Len(P) + 1
    PROVE  /\ Rest(P, k) \in Seq(Operations)
           /\ Rest(P, k) # << >> => /\ k \in 1 .. Len(P)
                                    /\ Head(Rest(P, k)) = P[k]
                                    /\ Tail(Rest(P, k)) = Rest(P, k + 1)
           /\ k \in 1 .. Len(P) => Rest(P, k) # << >>
           /\ Rest(P, 1) = P
           /\ Rest(P, Len(P) + 1) = << >>
<1>1. Rest(P, Len(P) + 1) = << >>
  BY SubSeqEmpty DEF Rest
<1>2. Rest(P, 1) = P
  BY SubSeqFull DEF Rest
<1>3. Rest(P, k) \in Seq(Operations)
  BY DEF Rest
<1>4. ASSUME k # Len(P) + 1
      PROVE  Head(Rest(P, k)) = P[k] /\ Tail(Rest(P, k)) = Rest(P, k + 1)
  <2>1. k \in 1 .. Len(P) /\ Len(P) \in k .. Len(P)
    BY <1>4
  <2> QED BY <2>1, HeadTailOfSubSeq DEF Rest
<1>5. ASSUME k \in 1 .. Len(P) PROVE Rest(P, k) # << >>
  <2>1. k \in Int /\ Len(P) \in Int /\ \A i \in k .. Len(P) : P[i] \in Operations
    OBVIOUS
  <2>2. Len(Rest(P, k)) = IF k <= Len(P) THEN Len(P) - k + 1 ELSE 0
    BY <2>1, SubSeqProperties DEF Rest
  <2>3. Len(Rest(P, k)) # 0
    BY <2>1, <2>2, <1>5
  <2> QED BY <2>3
<1> QED BY <1>1, <1>2, <1>3, <1>4, <1>5

\* TypeOK's words for handles that are apart.
LEMMA ApartInConcat ==
    ASSUME NEW S, NEW s \in Seq(S), NEW t \in Seq(S)
    PROVE  Apart(s, t) <=>
              \A i, j \in DOMAIN (s \o t) : (s \o t)[i] = (s \o t)[j] => i = j
<1> DEFINE c == s \o t
           once == \A i, j \in DOMAIN c : c[i] = c[j] => i = j
<1>1. /\ Len(s) \in Nat /\ Len(t) \in Nat /\ DOMAIN c = 1 .. Len(s) + Len(t)
      /\ \A i \in 1 .. Len(s) : c[i] = s[i] /\ i \in DOMAIN c
      /\ \A j \in 1 .. Len(t) : c[Len(s) + j] = t[j] /\ Len(s) + j \in DOMAIN c
      /\ \A i \in DOMAIN c : i \in 1 .. Len(s) \/ (i - Len(s) \in 1 .. Len(t) /\ c[i] = t[i - Len(s)])
  OBVIOUS
<1> HIDE DEF c
<1>2. ASSUME once PROVE Apart(s, t)
  <2>1. ASSUME NEW i \in 1 .. Len(s), NEW j \in 1 .. Len(s), s[i] = s[j] PROVE i = j
    BY <1>1, <1>2, <2>1
  <2>2. ASSUME NEW i \in 1 .. Len(t), NEW j \in 1 .. Len(t), t[i] = t[j] PROVE i = j
    <3>1. Len(s) + i = Len(s) + j
      BY <1>1, <1>2, <2>2
    <3> QED BY <1>1, <3>1
  <2>3. ASSUME NEW i \in 1 .. Len(s), NEW j \in 1 .. Len(t) PROVE s[i] # t[j]
    <3>1. i # Len(s) + j
      BY <1>1
    <3> QED BY <1>1, <1>2, <3>1
  <2> QED BY <2>1, <2>2, <2>3 DEF Apart
<1>3. ASSUME Apart(s, t) PROVE once
  <2> SUFFICES ASSUME NEW i \in DOMAIN c, NEW j \in DOMAIN c, c[i] = c[j] PROVE i = j
    OBVIOUS
  <2>1. CASE i \in 1 .. Len(s) /\ j \in 1 .. Len(s)
    BY <1>1, <1>3, <2>1 DEF Apart
  <2>2. CASE i \in 1 .. Len(s) /\ j \notin 1 .. Len(s)
    BY <1>1, <1>3, <2>2 DEF Apart
  <2>3. CASE i \notin 1 .. Len(s) /\ j \in 1 .. Len(s)
    BY <1>1, <1>3, <2>3 DEF Apart
  <2>4. CASE i \notin 1 .. Len(s) /\ j \notin 1 .. Len(s)
    <3>1. i - Len(s) = j - Len(s)
      BY <1>1, <1>3, <2>4 DEF Apart
    <3> QED BY <1>1, <3>1
  <2> QED BY <2>1, <2>2, <2>3, <2>4
<1> QED BY <1>2, <1>3 DEF c

\* A handle that is acquired moves from idle to held.
LEMMA ApartAcquire ==
    ASSUME NEW S, NEW s \in Seq(S), NEW t \in Seq(S), s # << >>, Apart(s, t)
    PROVE  Apart(Tail(s), Append(t, Head(s)))
<1>1. /\ Len(s) \in Nat \ {0} /\ Head(s) = s[1]
      /\ Len(Tail(s)) = Len(s) - 1 /\ \A i \in 1 .. Len(s) - 1 : Tail(s)[i] = s[i + 1]
      /\ Len(t) \in Nat /\ Len(Append(t, Head(s))) = Len(t) + 1
      /\ \A i \in 1 .. Len(t) : Append(t, Head(s))[i] = t[i]
      /\ Append(t, Head(s))[Len(t) + 1] = Head(s)
  BY EmptySeq
<1> QED BY <1>1 DEF Apart

\* The handle acquired last goes back to the end of idle.
LEMMA ApartRelease ==
    ASSUME NEW S, NEW s \in Seq(S), NEW t \in Seq(S), Len(t) > 0, Apart(s, t)
    PROVE  /\ Append(s, t[Len(t)]) \in Seq(S)
           /\ SubSeq(t, 1, Len(t) - 1) \in Seq(S)
           /\ Len(SubSeq(t, 1, Len(t) - 1)) = Len(t) - 1
           /\ Apart(Append(s, t[Len(t)]), SubSeq(t, 1, Len(t) - 1))
<1> DEFINE a == Append(s, t[Len(t)])
           f == SubSeq(t, 1, Len(t) - 1)
<1>1. Len(t) \in Nat \ {0} /\ Len(s) \in Nat /\ t[Len(t)] \in S
  OBVIOUS
<1>2. /\ a \in Seq(S) /\ Len(a) = Len(s) + 1 /\ a[Len(s) + 1] = t[Len(t)]
      /\ \A i \in 1 .. Len(s) : a[i] = s[i]
  BY <1>1, AppendProperties
<1>3. f \in Seq(S) /\ Len(f) = Len(t) - 1 /\ \A i \in 1 .. Len(t) - 1 : f[i] = t[i]
  <2>1. \A i \in 1 .. Len(t) - 1 : t[i] \in S
    BY <1>1
  <2>2. 1 \in Int /\ Len(t) - 1 \in Int
    BY <1>1
  <2>3. /\ f \in Seq(S)
        /\ Len(f) = IF 1 <= Len(t) - 1 THEN Len(t) - 1 - 1 + 1 ELSE 0
        /\ \A i \in 1 .. Len(t) - 1 - 1 + 1 : f[i] = t[1 + i - 1]
    BY <2>1, <2>2, SubSeqProperties
  <2>4. Len(t) - 1 - 1 + 1 = Len(t) - 1 /\ \A i \in Int : 1 + i - 1 = i
    BY <1>1
  <2>5. Len(f) = Len(t) - 1
    <3>1. Len(f) = IF 1 <= Len(t) - 1 THEN Len(t) - 1 - 1 + 1 ELSE 0
      BY <2>3
    <3> HIDE DEF f
    <3>2. \A n \in Nat : n > 0 => (IF 1 <= n - 1 THEN n - 1 - 1 + 1 ELSE 0) = n - 1
      OBVIOUS
    <3> QED BY <1>1, <3>1, <3>2
  <2>6. ASSUME NEW i \in 1 .. Len(t) - 1 PROVE f[i] = t[i]
    <3>1. i \in Int /\ i \in 1 .. Len(t) - 1 - 1 + 1
      BY <2>4
    <3>2. f[i] = t[1 + i - 1]
      BY <2>3, <3>1
    <3> QED BY <2>4, <3>1, <3>2
  <2> QED BY <2>3, <2>5, <2>6
<1> HIDE DEF a, f
<1>4. Apart(a, f)
  <2>1. ASSUME NEW i \in 1 .. Len(a), NEW j \in 1 .. Len(a), a[i] = a[j] PROVE i = j
    BY <1>1, <1>2, <2>1 DEF Apart
  <2>2. ASSUME NEW i \in 1 .. Len(f), NEW j \in 1 .. Len(f), f[i] = f[j] PROVE i = j
    BY <1>1, <1>3, <2>2 DEF Apart
  <2>3. ASSUME NEW i \in 1 .. Len(a), NEW j \in 1 .. Len(f) PROVE a[i] # f[j]
    <3>1. j \in 1 .. Len(t) /\ j # Len(t) /\ f[j] = t[j] /\ Len(t) \in 1 .. Len(t)
      BY <1>1, <1>3
    <3>2. CASE i = Len(s) + 1
      BY <1>2, <3>1, <3>2 DEF Apart
    <3>3. CASE i # Len(s) + 1
      BY <1>1, <1>2, <3>1, <3>3, SMTT(30) DEF Apart
    <3> QED BY <3>2, <3>3
  <2> QED BY <2>1, <2>2, <2>3 DEF Apart
<1> QED BY <1>2, <1>3, <1>4 DEF a, f

\* The same of all handles at once, when an exception destroys every Conn.
LEMMA ApartUnwind ==
    ASSUME NEW S, NEW s \in Seq(S), NEW t \in Seq(S), Apart(s, t)
    PROVE  LET back == [i \in 1 .. Len(t) |-> t[Len(t) + 1 - i]]
           IN  /\ s \o back \in Seq(S)
               /\ Len(s \o back) = Len(s) + Len(t)
               /\ Apart(s \o back, << >>)
<1> DEFINE back == [i \in 1 .. Len(t) |-> t[Len(t) + 1 - i]]
           c == s \o back
<1>1. Len(t) \in Nat /\ Len(s) \in Nat
  OBVIOUS
<1>2. back \in Seq(S) /\ Len(back) = Len(t) /\ \A i \in 1 .. Len(t) : back[i] = t[Len(t) + 1 - i]
  BY <1>1
<1> HIDE DEF back
<1>3. Apart(s, back)
  <2>1. \A i \in 1 .. Len(t) : Len(t) + 1 - i \in 1 .. Len(t)
    BY <1>1
  <2>2. ASSUME NEW i \in 1 .. Len(t), NEW j \in 1 .. Len(t), back[i] = back[j] PROVE i = j
    <3>1. Len(t) + 1 - i = Len(t) + 1 - j
      BY <1>2, <2>1, <2>2 DEF Apart
    <3> QED BY <1>1, <3>1
  <2>3. \A i \in 1 .. Len(s), j \in 1 .. Len(t) : s[i] # back[j]
    BY <1>2, <2>1 DEF Apart
  <2> QED BY <1>2, <2>2, <2>3 DEF Apart
<1>4. \A i, j \in DOMAIN c : c[i] = c[j] => i = j
  BY <1>2, <1>3, ApartInConcat
<1>5. c \in Seq(S) /\ Len(c) = Len(s) + Len(t)
  <2>1. \A b \in Seq(S) : s \o b \in Seq(S) /\ Len(s \o b) = Len(s) + Len(b)
    OBVIOUS
  <2> QED BY <1>2, <2>1
<1> HIDE DEF c
<1>6. Apart(c, << >>)
  <2>1. DOMAIN c = 1 .. Len(c) /\ Len(<< >>) = 0
    BY <1>5
  <2> QED BY <1>4, <2>1 DEF Apart
<1> QED BY <1>5, <1>6 DEF c, back

\* What is left of idle when its first handle is lost.
LEMMA ApartLoss ==
    ASSUME NEW S, NEW s \in Seq(S), NEW t \in Seq(S), s # << >>, Apart(s, t)
    PROVE  Tail(s) \in Seq(S) /\ Len(Tail(s)) = Len(s) - 1 /\ Apart(Tail(s), t)
<1>1. /\ Len(s) \in Nat \ {0} /\ Tail(s) \in Seq(S)
      /\ Len(Tail(s)) = Len(s) - 1 /\ \A i \in 1 .. Len(s) - 1 : Tail(s)[i] = s[i + 1]
  BY EmptySeq
<1> QED BY <1>1 DEF Apart

-----------------------------------------------------------------------------
(* The invariant is inductive *)

\* TypeOK without the words about concatenation.
LEMMA TypeOKApart ==
    ASSUME idle \in Seq(1 .. PoolSize), held \in Seq(1 .. PoolSize)
    PROVE  Apart(idle, held) <=>
              \A i, j \in DOMAIN (idle \o held) :
                  (idle \o held)[i] = (idle \o held)[j] => i = j
BY ApartInConcat

\* The constructor's pool.
LEMMA InitNested == Init => IInv
<1> SUFFICES ASSUME Init PROVE IInv
  OBVIOUS
<1> USE PoolAssumption DEF Init
<1>1. idle \in Seq(1 .. PoolSize) /\ held \in Seq(1 .. PoolSize) /\ Len(held) = 0 /\ Len(idle) = PoolSize
  OBVIOUS
<1>2. Apart(idle, held)
  BY <1>1 DEF Apart
<1>3. TypeOK
  <2>1. \A i, j \in DOMAIN (idle \o held) : (idle \o held)[i] = (idle \o held)[j] => i = j
    BY <1>1, <1>2, TypeOKApart
  <2>2. program \in Seq(Operations)
    OBVIOUS
  <2> QED BY <1>1, <2>1, <2>2 DEF TypeOK
<1>4. Lookup \in Programs /\ Balanced(Lookup)
  BY ProgramsBalanced DEF Programs
<1>5. Len(Lookup) + 1 \in 1 .. Len(Lookup) + 1 /\ Rest(Lookup, Len(Lookup) + 1) = << >>
  BY <1>4, RestGoesOn DEF Balanced
<1>6. Nested
  BY <1>1, <1>4, <1>5 DEF Nested, Balanced
<1> QED BY <1>3, <1>6 DEF IInv

\* The pool shrinks only by what a failed reconnection loses.
Shrinks == Alive' < Alive => ~dbUp /\ Alive' = Alive - 1

\* What a step has to establish.
LEMMA NextStateOK ==
    ASSUME IInv,
           idle' \in Seq(1 .. PoolSize), held' \in Seq(1 .. PoolSize), Apart(idle', held'),
           waiting' \subseteq Clients, serving' \subseteq waiting',
           dbUp' \in BOOLEAN, outages' \in 0 .. MaxOutages,
           NEW P \in Programs, NEW k \in 1 .. Len(P) + 1,
           program' = Rest(P, k), Len(held') = Depths(P)[k],
           serving' = {} => program' = << >>
    PROVE  IInv'
<1>1. \A i, j \in DOMAIN (idle' \o held') : (idle' \o held')[i] = (idle' \o held')[j] => i = j
  BY ApartInConcat
<1>2. program' \in Seq(Operations)
  BY ProgramsBalanced, RestGoesOn DEF Balanced
<1>3. TypeOK'
  BY <1>1, <1>2 DEF TypeOK
<1>4. Nested'
  BY DEF Nested
<1> QED BY <1>3, <1>4 DEF IInv

\* The running request stands before an operation of one of the programs.
LEMMA AtOperation ==
    ASSUME IInv
    PROVE  \E P \in Programs : \E k \in 1 .. Len(P) + 1 :
              /\ Balanced(P) /\ P \in Seq(Operations) /\ Len(P) \in Nat /\ k \in Nat
              /\ program = Rest(P, k) /\ Len(held) = Depths(P)[k]
              /\ program # << >> => /\ k \in 1 .. Len(P)
                                    /\ k + 1 \in 1 .. Len(P) + 1
                                    /\ Head(program) = P[k]
                                    /\ Tail(program) = Rest(P, k + 1)
              /\ program = << >> => Len(held) = 0
<1>0. PICK P \in Programs : \E k \in 1 .. Len(P) + 1 :
         program = Rest(P, k) /\ Len(held) = Depths(P)[k]
  BY DEF IInv, Nested
<1>1. PICK k \in 1 .. Len(P) + 1 : program = Rest(P, k) /\ Len(held) = Depths(P)[k]
  BY <1>0
<1>2. Balanced(P) /\ P \in Seq(Operations) /\ Len(P) \in Nat /\ k \in Nat
  BY ProgramsBalanced DEF Balanced
<1>3. ASSUME program # << >>
      PROVE  k \in 1 .. Len(P) /\ Head(program) = P[k] /\ Tail(program) = Rest(P, k + 1)
  BY <1>1, <1>2, <1>3, RestGoesOn
<1>4. ASSUME program = << >> PROVE Len(held) = 0
  <2>0. k \in 1 .. Len(P) => Rest(P, k) # << >>
    BY <1>2, RestGoesOn
  <2>1. k \notin 1 .. Len(P)
    BY <1>1, <1>4, <2>0
  <2>2. k = Len(P) + 1
    BY <1>2, <2>1
  <2> QED BY <1>1, <1>2, <2>2 DEF Balanced
<1>5. k \in 1 .. Len(P) => k + 1 \in 1 .. Len(P) + 1
  BY <1>2
<1> QED BY <1>1, <1>2, <1>3, <1>4, <1>5

\* A request that is over, or that an exception has left.
LEMMA Finished ==
    \E P \in Programs : \E k \in 1 .. Len(P) + 1 : Rest(P, k) = << >> /\ Depths(P)[k] = 0
<1>1. Lookup \in Programs /\ Balanced(Lookup)
  BY ProgramsBalanced DEF Programs
<1>2. Len(Lookup) + 1 \in 1 .. Len(Lookup) + 1 /\ Rest(Lookup, Len(Lookup) + 1) = << >>
  BY <1>1, RestGoesOn DEF Balanced
<1> QED BY <1>1, <1>2 DEF Balanced

\* Every step keeps the invariant and loses no handle but to an outage.
LEMMA StepKeeps == IInv /\ [Next]_vars => IInv' /\ Shrinks
<1> SUFFICES ASSUME IInv, [Next]_vars PROVE IInv' /\ Shrinks
  OBVIOUS
<1> DEFINE H == 1 .. PoolSize
<1>1. /\ idle \in Seq(H) /\ held \in Seq(H) /\ Len(idle) \in Nat /\ Len(held) \in Nat
      /\ waiting \subseteq Clients /\ serving \subseteq waiting
      /\ dbUp \in BOOLEAN /\ outages \in 0 .. MaxOutages
      /\ serving = {} => program = << >>
  BY DEF IInv, TypeOK, Nested
<1>2. Apart(idle, held)
  BY ApartInConcat DEF IInv, TypeOK
<1>3. PICK P \in Programs : \E i \in 1 .. Len(P) + 1 :
         /\ Balanced(P) /\ P \in Seq(Operations) /\ Len(P) \in Nat /\ i \in Nat
         /\ program = Rest(P, i) /\ Len(held) = Depths(P)[i]
         /\ program # << >> => /\ i \in 1 .. Len(P)
                               /\ i + 1 \in 1 .. Len(P) + 1
                               /\ Head(program) = P[i]
                               /\ Tail(program) = Rest(P, i + 1)
         /\ program = << >> => Len(held) = 0
  BY AtOperation
<1>4. PICK k \in 1 .. Len(P) + 1 :
         /\ Balanced(P) /\ P \in Seq(Operations) /\ Len(P) \in Nat /\ k \in Nat
         /\ program = Rest(P, k) /\ Len(held) = Depths(P)[k]
         /\ program # << >> => /\ k \in 1 .. Len(P)
                               /\ k + 1 \in 1 .. Len(P) + 1
                               /\ Head(program) = P[k]
                               /\ Tail(program) = Rest(P, k + 1)
         /\ program = << >> => Len(held) = 0
  BY <1>3
<1>5. PICK F \in Programs : \E i \in 1 .. Len(F) + 1 : Rest(F, i) = << >> /\ Depths(F)[i] = 0
  BY Finished
<1>6. PICK f \in 1 .. Len(F) + 1 : Rest(F, f) = << >> /\ Depths(F)[f] = 0
  BY <1>5
<1>7. ASSUME UNCHANGED <<idle, held>> PROVE Shrinks
  BY <1>1, <1>7 DEF Shrinks, Alive
<1>8. << >> \in Seq(H) /\ Len(<< >>) = 0
  OBVIOUS
<1> HIDE DEF H
<1>a. CASE UNCHANGED vars
  <2>1. IInv'
    BY <1>a, <1>1, <1>2, <1>4, NextStateOK DEF vars, H
  <2> QED BY <2>1, <1>7, <1>a DEF vars
<1>b. ASSUME NEW c \in Clients, Send(c) PROVE IInv' /\ Shrinks
  <2>1. IInv'
    BY <1>b, <1>1, <1>2, <1>4, NextStateOK DEF Send, H
  <2> QED BY <2>1, <1>7, <1>b DEF Send
<1>c. ASSUME NEW c \in Clients, Dispatch(c) PROVE IInv' /\ Shrinks
  <2>1. program' \in Programs
    BY <1>c DEF Dispatch
  <2>2. Balanced(program') /\ 1 \in 1 .. Len(program') + 1 /\ Rest(program', 1) = program'
    BY <2>1, ProgramsBalanced, RestGoesOn DEF Balanced
  <2>3. Len(held') = Depths(program')[1]
    BY <1>c, <1>1, <1>4, <2>2 DEF Dispatch, Balanced
  <2>4. IInv'
    BY <1>c, <1>1, <1>2, <2>1, <2>2, <2>3, NextStateOK DEF Dispatch, H
  <2> QED BY <2>4, <1>7, <1>c DEF Dispatch
<1>d. CASE Reply
  <2>1. IInv'
    BY <1>d, <1>1, <1>2, <1>4, NextStateOK DEF Reply, H
  <2> QED BY <2>1, <1>7, <1>d DEF Reply
<1>e. CASE DbDown
  <2>1. outages' \in 0 .. MaxOutages
    BY <1>e, <1>1, PoolAssumption DEF DbDown
  <2>2. IInv'
    BY <1>e, <1>1, <1>2, <1>4, <2>1, NextStateOK DEF DbDown, H
  <2> QED BY <2>2, <1>7, <1>e DEF DbDown
<1>f. CASE DbUp
  <2>1. IInv'
    BY <1>f, <1>1, <1>2, <1>4, NextStateOK DEF DbUp, H
  <2> QED BY <2>1, <1>7, <1>f DEF DbUp
<1>g. CASE Query
  <2>1. Len(held') = Depths(P)[k + 1]
    BY <1>g, <1>4 DEF Query, Balanced
  <2>2. IInv'
    BY <1>g, <1>1, <1>2, <1>4, <2>1, NextStateOK DEF Query, H
  <2> QED BY <2>2, <1>7, <1>g DEF Query
<1>h. CASE Acquire
  <2>1. /\ idle' \in Seq(H) /\ held' \in Seq(H)
        /\ Len(idle') = Len(idle) - 1 /\ Len(held') = Len(held) + 1
    BY <1>h, <1>1, EmptySeq DEF Acquire
  <2>2. Apart(idle', held')
    BY <1>h, <1>1, <1>2, ApartAcquire DEF Acquire
  <2>3. Depths(P)[k + 1] = Depths(P)[k] + 1
    BY <1>h, <1>4 DEF Acquire, Balanced
  <2>4. IInv'
    BY <1>h, <1>1, <1>4, <2>1, <2>2, <2>3, NextStateOK DEF Acquire, H
  <2>5. Shrinks
    BY <1>1, <2>1 DEF Shrinks, Alive
  <2> QED BY <2>4, <2>5
<1>i. CASE Release
  <2>1. Len(held) > 0 /\ Depths(P)[k + 1] = Depths(P)[k] - 1
    BY <1>i, <1>4 DEF Release, Balanced
  <2>2. /\ idle' \in Seq(H) /\ held' \in Seq(H) /\ Apart(idle', held')
        /\ Len(held') = Len(held) - 1
    BY <1>i, <1>1, <1>2, <2>1, ApartRelease DEF Release
  <2>3. Len(idle') = Len(idle) + 1
    BY <1>i, <1>1 DEF Release
  <2>4. IInv'
    BY <1>i, <1>1, <1>4, <2>1, <2>2, NextStateOK DEF Release, H
  <2>5. Shrinks
    BY <1>1, <2>2, <2>3 DEF Shrinks, Alive
  <2> QED BY <2>4, <2>5
<1>j. CASE TryFails
  <2>1. idle' \in Seq(H) /\ Len(idle') = Len(idle) - 1 /\ Apart(idle', held)
    BY <1>j, <1>1, <1>2, ApartLoss DEF TryFails
  <2>2. k + 1 \in 1 .. Len(P) /\ Depths(P)[k + 2] = Depths(P)[k]
    BY <1>j, <1>4 DEF TryFails, Balanced
  <2>3. program' = Rest(P, k + 1 + 1) /\ k + 1 + 1 = k + 2 /\ k + 2 \in 1 .. Len(P) + 1
    <3>1. k + 1 \in 1 .. Len(P) + 1 /\ k + 1 + 1 = k + 2 /\ k + 2 \in 1 .. Len(P) + 1
      BY <1>4, <2>2
    <3>2. k + 1 \in 1 .. Len(P) => Rest(P, k + 1) # << >>
      BY <1>4, <3>1, RestGoesOn
    <3>3. Tail(Rest(P, k + 1)) = Rest(P, k + 1 + 1)
      <4>1. Rest(P, k + 1) # << >> => Tail(Rest(P, k + 1)) = Rest(P, k + 1 + 1)
        <5>1. \A m \in 1 .. Len(P) + 1 : Rest(P, m) # << >> => Tail(Rest(P, m)) = Rest(P, m + 1)
          BY <1>4, RestGoesOn
        <5> QED BY <3>1, <5>1
      <4> QED BY <2>2, <3>2, <4>1
    <3>4. Tail(program) = Rest(P, k + 1) /\ program' = Tail(Tail(program))
      BY <1>j, <1>4 DEF TryFails
    <3> QED BY <3>1, <3>3, <3>4
  <2>4. IInv'
    BY <1>j, <1>1, <1>4, <2>1, <2>2, <2>3, NextStateOK DEF TryFails, H
  <2>5. Shrinks
    BY <1>j, <1>1, <2>1 DEF Shrinks, Alive, TryFails
  <2> QED BY <2>4, <2>5
<1>k. CASE AcquireFails
  <2>1. Tail(idle) \in Seq(H) /\ Len(Tail(idle)) = Len(idle) - 1 /\ Apart(Tail(idle), held)
    BY <1>k, <1>1, <1>2, ApartLoss DEF AcquireFails
  <2>2. /\ idle' \in Seq(H) /\ Len(idle') = Len(Tail(idle)) + Len(held)
        /\ Apart(idle', << >>) /\ held' = << >>
    BY <1>k, <1>1, <2>1, ApartUnwind DEF AcquireFails, Unwind
  <2>3. IInv'
    BY <1>k, <1>1, <1>6, <1>8, <2>2, NextStateOK DEF AcquireFails, Unwind, H
  <2>4. Shrinks
    BY <1>k, <1>1, <1>8, <2>1, <2>2 DEF Shrinks, Alive, AcquireFails
  <2> QED BY <2>3, <2>4
<1>l. CASE QueryFails
  <2>1. /\ idle' \in Seq(H) /\ Len(idle') = Len(idle) + Len(held)
        /\ Apart(idle', << >>) /\ held' = << >>
    BY <1>l, <1>1, <1>2, ApartUnwind DEF QueryFails, Unwind
  <2>2. IInv'
    BY <1>l, <1>1, <1>6, <1>8, <2>1, NextStateOK DEF QueryFails, Unwind, H
  <2>3. Shrinks
    BY <1>1, <1>8, <2>1 DEF Shrinks, Alive
  <2> QED BY <2>2, <2>3
<1> QED
  BY <1>a, <1>b, <1>c, <1>d, <1>e, <1>f, <1>g, <1>h, <1>i, <1>j, <1>k, <1>l DEF Next, Run

-----------------------------------------------------------------------------
(* Theorems *)

\* Two requests never share a MYSQL connection: whatever is acquired, thrown
\* and released, no handle is lent twice or is both lent and idle.
THEOREM HandlesNeverShared == Spec => []TypeOK
<1>1. IInv => TypeOK
  BY DEF IInv
<1> QED BY InitNested, StepKeeps, <1>1, PTL DEF Spec

\* The event loop blocks in acquire() only when the pool has one handle left or
\* none: no handler nests its connections more than two deep.
THEOREM BlocksOnlyWhenDrained == Spec => []BlocksOnlyIfDrained
<1>1. IInv => BlocksOnlyIfDrained
  <2> SUFFICES ASSUME IInv, program # << >>, Head(program) \in {"acquire", "try"}, idle = << >>
               PROVE  Alive < 2
    BY DEF BlocksOnlyIfDrained
  <2>1. Len(held) \in 0 .. 1
    BY AtOperation DEF Balanced
  <2>2. Len(idle) = 0
    OBVIOUS
  <2>3. \A m \in 0 .. 1 : 0 + m < 2
    OBVIOUS
  <2> QED BY <2>1, <2>2, <2>3 DEF Alive
<1> QED BY InitNested, StepKeeps, <1>1, PTL DEF Spec

\* Whatever a handler throws, its connections go back to the pool: a handle is
\* lost only by a failed reconnection during an outage, one at a time.
THEOREM HandlesGoBack == Spec => HandlesReturn
<1>1. IInv /\ [Next]_vars => [Shrinks]_vars
  BY StepKeeps
<1>2. IInv /\ [Next]_vars => IInv'
  BY StepKeeps
<1> QED BY InitNested, <1>1, <1>2, PTL DEF Spec, HandlesReturn, Shrinks
=============================================================================
