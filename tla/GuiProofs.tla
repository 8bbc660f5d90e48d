----------------------------- MODULE GuiProofs -----------------------------
(***************************************************************************)
(* Proofs about GuiProxy, for any number of worker threads.                *)
(***************************************************************************)
EXTENDS GuiProxy, TLAPS

\* No worker is in the client before the first request.
LEMMA InitOwned ==
    ASSUME NoWorker \notin Workers
    PROVE  Init => TypeOK
BY DEF Init, TypeOK, InClient, Kinds

\* Every step of a worker keeps the mutex with the thread that is in the client.
LEMMA StepOwned ==
    ASSUME NoWorker \notin Workers
    PROVE  TypeOK /\ [Next]_vars => TypeOK'
<1> SUFFICES ASSUME TypeOK, [Next]_vars PROVE TypeOK'
  OBVIOUS
<1> USE DEF TypeOK, InClient
<1>1. ASSUME NEW w \in Workers, NEW k \in Kinds, Receive(w, k) PROVE TypeOK'
  BY <1>1 DEF Receive
<1>2. ASSUME NEW w \in Workers, LockGuard(w) PROVE TypeOK'
  BY <1>2 DEF LockGuard
<1>3. ASSUME NEW w \in Workers, ReportProgress(w) PROVE TypeOK'
  BY <1>3 DEF ReportProgress
<1>4. ASSUME NEW w \in Workers, Answer(w) PROVE TypeOK'
  BY <1>4 DEF Answer
<1>5. CASE UNCHANGED vars
  BY <1>5 DEF vars
<1> QED BY <1>1, <1>2, <1>3, <1>4, <1>5 DEF Next

\* However many workers the HTTP server has, GuiState::mu is owned by exactly the
\* thread that is in the CloudClient: no two threads read one reply stream, and
\* no way out of a handler keeps the mutex.
THEOREM ClientIsGuarded ==
    ASSUME NoWorker \notin Workers
    PROVE  Spec => []TypeOK
BY InitOwned, StepOwned, PTL DEF Spec

\* Once a transfer reports its progress, nobody ever gets the mutex again: the
\* thread stays in the callback and the owner stays the same, whatever the
\* other workers do.
SelfLockIsFinal ==
    [][\A w \in Workers : pc[w] = "report" => pc'[w] = "report" /\ owner' = owner]_vars

\* The progress callback of gui_main.cpp locks the mutex in the thread that has
\* it, and from then on the GUI is stuck, for any number of workers.
THEOREM ReportSticks ==
    ASSUME NoWorker \notin Workers
    PROVE  Spec => SelfLockIsFinal
<1>1. TypeOK /\ [Next]_vars =>
         [\A w \in Workers : pc[w] = "report" => pc'[w] = "report" /\ owner' = owner]_vars
  <2> SUFFICES ASSUME TypeOK, Next, NEW w \in Workers, pc[w] = "report"
               PROVE  pc'[w] = "report" /\ owner' = owner
    OBVIOUS
  <2>1. owner = w /\ owner # NoWorker
    BY DEF TypeOK, InClient
  <2>2. ASSUME NEW v \in Workers, NEW k \in Kinds, Receive(v, k)
        PROVE  pc'[w] = "report" /\ owner' = owner
    BY <2>2 DEF Receive, TypeOK
  <2>3. ASSUME NEW v \in Workers, LockGuard(v) PROVE FALSE
    BY <2>1, <2>3 DEF LockGuard
  <2>4. ASSUME NEW v \in Workers, ReportProgress(v) PROVE pc'[w] = "report" /\ owner' = owner
    BY <2>4 DEF ReportProgress, TypeOK
  <2>5. ASSUME NEW v \in Workers, Answer(v) PROVE FALSE
    <3>1. v \in InClient
      BY <2>5 DEF Answer, InClient
    <3>2. v = w
      BY <2>1, <3>1 DEF TypeOK
    <3> QED BY <2>5, <3>2 DEF Answer
  <2> QED BY <2>2, <2>3, <2>4, <2>5 DEF Next
<1> QED BY <1>1, ClientIsGuarded, PTL DEF Spec, SelfLockIsFinal
=============================================================================
