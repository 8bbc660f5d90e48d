------------------------------ MODULE GuiProxy ------------------------------
(***************************************************************************)
(* cloud_gui: an HTTP server whose worker threads share one CloudClient    *)
(* (one TCP connection, one reply stream) behind the mutex GuiState::mu.   *)
(* Each handler locks mu and calls the client.  put() and get() report     *)
(* their progress through a callback that locks mu too, in the same        *)
(* thread; std::mutex is not recursive, so the thread waits until nobody,  *)
(* itself included, owns the mutex.                                        *)
(*                                                                         *)
(* Requests that are refused before the lock is taken change nothing and   *)
(* are left out.                                                           *)
(***************************************************************************)
CONSTANTS
    Workers,    \* threads of the HTTP server
    NoWorker    \* nobody owns the mutex

\* The requests.  call: status, connect, login, register, logout, ls, mkdir, rm,
\* rename; upload: put, which reports "hashing" before anything else;
\* download: get, which reports once the first chunk is there.
Kinds == {"call", "upload", "download"}

VARIABLES
    owner,   \* the thread that owns GuiState::mu
    pc,      \* pc[w]: where worker w is in its handler
    kind     \* kind[w]: the request it serves, or served last

vars == <<owner, pc, kind>>

-----------------------------------------------------------------------------
(* Steps of a worker *)

\* A request has been read; an upload's body is in the temporary file.
Receive(w, k) ==
    /\ pc[w] = "idle"
    /\ pc' = [pc EXCEPT ![w] = "lock"]
    /\ kind' = [kind EXCEPT ![w] = k]
    /\ UNCHANGED owner

\* lock_guard: in the handler, or in the progress callback.
LockGuard(w) ==
    /\ pc[w] \in {"lock", "report"}
    /\ owner = NoWorker
    /\ owner' = w
    /\ pc' = [pc EXCEPT ![w] = IF @ = "lock" THEN "client" ELSE "rest"]
    /\ UNCHANGED kind

\* put and get call reportProgress.
ReportProgress(w) ==
    /\ pc[w] = "client"
    /\ kind[w] \in {"upload", "download"}
    /\ pc' = [pc EXCEPT ![w] = "report"]
    /\ UNCHANGED <<owner, kind>>

\* The client call returns or throws and the handler answers.  A download that
\* is refused, or of an empty file, ends before it reports anything.
Answer(w) ==
    /\ pc[w] = "rest" \/ (pc[w] = "client" /\ kind[w] # "upload")
    /\ owner' = NoWorker
    /\ pc' = [pc EXCEPT ![w] = "idle"]
    /\ UNCHANGED kind

-----------------------------------------------------------------------------
(* Specification *)

Init ==
    /\ owner = NoWorker
    /\ pc = [w \in Workers |-> "idle"]
    /\ kind = [w \in Workers |-> "call"]

Next ==
    \E w \in Workers :
        \/ \E k \in Kinds : Receive(w, k)
        \/ LockGuard(w)
        \/ ReportProgress(w)
        \/ Answer(w)

\* A thread that is not blocked goes on, and the storage server answers.  No
\* fairness among the threads that wait for the mutex is assumed.
Fairness == \A w \in Workers : WF_vars(LockGuard(w) \/ ReportProgress(w) \/ Answer(w))

Spec == Init /\ [][Next]_vars /\ Fairness

-----------------------------------------------------------------------------
(* Properties *)

InClient == {w \in Workers : pc[w] \in {"client", "report", "rest"}}

\* Every variable has its type, and the mutex is owned by exactly the thread that
\* is in the client: it is taken before the call and freed on every way out, and
\* no thread reads the reply to another thread's request.
TypeOK ==
    /\ owner \in Workers \cup {NoWorker}
    /\ pc \in [Workers -> {"idle", "lock", "client", "report", "rest"}]
    /\ kind \in [Workers -> Kinds]
    /\ \A w \in Workers : w \in InClient <=> owner = w

\* The GUI serves on: the mutex of the client is freed again and again, so that a
\* browser can log in, list, upload, download and remove, one request after the
\* other, as the manual says.
MutexFreed == []<>(owner = NoWorker)
=============================================================================
