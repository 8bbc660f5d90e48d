---------------------------- MODULE ClientStream ----------------------------
(***************************************************************************)
(* One CloudClient and the server on one TCP connection.  The client sends *)
(* a request and takes the next frame as its reply, without comparing seq. *)
(* put sends its chunks without reading anything; the server answers a     *)
(* chunk only if it fails.  Frames arrive in order.                        *)
(*                                                                         *)
(* A put asks instant_query; on a hit it sends instant_upload, otherwise   *)
(* it begins the upload, sends the chunks and ends it.  Every other        *)
(* command, and each download_chunk of a get, is one request and one frame *)
(* back: "call".                                                           *)
(***************************************************************************)
EXTENDS Integers, Sequences

CONSTANTS
    MaxRequests,     \* bound: JSON requests the client sends
    MaxChunks,       \* bound: chunks a put sends
    MaxWriteErrors   \* bound: chunks the server fails to write

ASSUME StreamAssumption ==
    /\ MaxRequests \in Nat
    /\ MaxChunks \in Nat \ {0}
    /\ MaxWriteErrors \in Nat

VARIABLES
    mode,       \* the client: "ready", "await" a reply, or in a put at its
                \* "instant" upload, its upload "begin" or its "send" loop
    op,         \* the request it sent last
    seq,        \* seq_: the number of that request
    fileId,     \* the file_id of the reply it received last, as the seq of the
                \* request that made it; 0 if that reply has none
    chunks,     \* chunks sent in this put
    requests,   \* frames on their way to the server
    replies,    \* frames on their way to the client
    upload,     \* the server's upload_ while open: the seq of its upload_begin
    damaged,    \* a chunk of that upload was not written
    errors      \* write errors so far

client == <<mode, op, seq, fileId, chunks>>
server == <<upload, damaged, errors>>
vars == <<client, requests, replies, server>>

Ops == {"call", "query", "instant", "begin", "end"}

\* A chunk frame has op "chunk" and, for its seq, the file it names.
Frame == [op : Ops \cup {"chunk"}, seq : 0 .. MaxRequests]

\* for: the seq of the request it answers, 0 for a chunk's error.  ok: a JSON
\* frame with code 0 (a frame with a downloaded chunk is none).
Reply == [op : Ops \cup {"chunk"}, for : 0 .. MaxRequests, ok : BOOLEAN]

-----------------------------------------------------------------------------
(* The client *)

\* CloudClient::request up to the frame it sends.
Request(o) ==
    /\ seq < MaxRequests
    /\ seq' = seq + 1
    /\ op' = o
    /\ mode' = "await"
    /\ requests' = Append(requests, [op |-> o, seq |-> seq + 1])
    /\ UNCHANGED <<replies, server>>

Call == mode = "ready" /\ Request("call") /\ UNCHANGED <<fileId, chunks>>

PutQuery == mode = "ready" /\ Request("query") /\ UNCHANGED <<fileId, chunks>>

\* The shell reads a line and runs the command; it goes on after an error.
Command == Call \/ PutQuery

PutInstant == mode = "instant" /\ Request("instant") /\ UNCHANGED <<fileId, chunks>>

PutBegin == mode = "begin" /\ Request("begin") /\ UNCHANGED <<fileId, chunks>>

\* All chunks are sent: none if the server had them all, if the file is empty or
\* if nothing can be read from it.
PutEnd == mode = "send" /\ Request("end") /\ UNCHANGED <<fileId, chunks>>

PutChunk ==
    /\ mode = "send"
    /\ fileId # 0
    /\ chunks < MaxChunks
    /\ chunks' = chunks + 1
    /\ requests' = Append(requests, [op |-> "chunk", seq |-> fileId])
    /\ UNCHANGED <<mode, op, seq, fileId, replies, server>>

\* encodeChunk refuses a file_id that is none, and the put is over.
PutChunkThrows ==
    /\ mode = "send"
    /\ fileId = 0
    /\ mode' = "ready"
    /\ UNCHANGED <<op, seq, fileId, chunks, requests, replies, server>>

\* Where the command goes on once it has reply r.  An error is thrown to the
\* shell; of a success, put looks at nothing but what it needs: hit, which is
\* false if r has none, or file_id and offset, whatever r answers.
ModeAfter(r) ==
    IF ~r.ok THEN {"ready"}
    ELSE IF op = "query" THEN {"begin"} \cup (IF r.op = "query" THEN {"instant"} ELSE {})
    ELSE IF op = "begin" THEN {"send"}
    ELSE {"ready"}

\* The file_id in reply r: upload_begin has one, and of the calls download_begin.
FileIds(r) ==
    IF ~r.ok THEN {0}
    ELSE IF r.op = "begin" THEN {r.for}
    ELSE IF r.op = "call" THEN {0, r.for}
    ELSE {0}

\* recvJson: the next frame is the reply.
Receive ==
    /\ mode = "await"
    /\ replies # << >>
    /\ mode' \in ModeAfter(Head(replies))
    /\ fileId' \in FileIds(Head(replies))
    /\ chunks' = 0
    /\ replies' = Tail(replies)
    /\ UNCHANGED <<op, seq, requests, server>>

\* The connection is lost and the user connects again.
Reconnect ==
    /\ seq > 0
    /\ requests' = << >>
    /\ replies' = << >>
    /\ mode' = "ready"
    /\ upload' = 0
    /\ damaged' = FALSE
    /\ UNCHANGED <<op, seq, fileId, chunks, errors>>

-----------------------------------------------------------------------------
(* The server *)

\* The frame at the head of the server's input is an o.
Serving(o) == requests # << >> /\ Head(requests).op = o

Answer(ok) ==
    /\ requests' = Tail(requests)
    /\ replies' = Append(replies,
          [op |-> Head(requests).op, ok |-> ok,
           for |-> IF Head(requests).op = "chunk" THEN 0 ELSE Head(requests).seq])
    /\ UNCHANGED client

ServeCall ==
    /\ Serving("call") \/ Serving("query") \/ Serving("instant")
    /\ \E ok \in BOOLEAN : Answer(ok)
    /\ UNCHANGED server

\* onUploadBegin: the upload that was open is closed, whatever the outcome.
ServeBegin ==
    /\ Serving("begin")
    /\ \E ok \in BOOLEAN :
          /\ Answer(ok)
          /\ upload' = IF ok THEN Head(requests).seq ELSE 0
    /\ damaged' = FALSE
    /\ UNCHANGED errors

\* Every chunk is acknowledged.
Mutant_ChunkAnswered ==
    /\ Serving("chunk")
    /\ upload # 0
    /\ Head(requests).seq = upload
    /\ Answer(TRUE)
    /\ UNCHANGED server

\* handleChunk: no reply.
ServeChunk ==
    /\ Serving("chunk")
    /\ upload # 0
    /\ Head(requests).seq = upload
    /\ requests' = Tail(requests)
    /\ UNCHANGED <<client, replies, server>>

\* handleChunk throws: no upload, or not that one.
ServeChunkUnexpected ==
    /\ Serving("chunk")
    /\ upload = 0 \/ Head(requests).seq # upload
    /\ Answer(FALSE)
    /\ UNCHANGED server

\* writeChunk throws: pwrite failed.
ServeChunkError ==
    /\ Serving("chunk")
    /\ upload # 0
    /\ Head(requests).seq = upload
    /\ errors < MaxWriteErrors
    /\ errors' = errors + 1
    /\ damaged' = TRUE
    /\ Answer(FALSE)
    /\ UNCHANGED upload

\* The exception of the handler is logged and nothing is sent.
Mutant_NoErrorReply ==
    /\ Serving("end")
    /\ \E ok \in {FALSE, upload # 0 /\ ~damaged} :
          IF ok THEN Answer(ok)
          ELSE requests' = Tail(requests) /\ UNCHANGED <<client, replies>>
    /\ upload' = 0
    /\ damaged' = FALSE
    /\ UNCHANGED errors

\* onUploadEnd: only the whole file passes finishUpload.
ServeEnd ==
    /\ Serving("end")
    /\ \E ok \in {FALSE, upload # 0 /\ ~damaged} : Answer(ok)
    /\ upload' = 0
    /\ damaged' = FALSE
    /\ UNCHANGED errors

-----------------------------------------------------------------------------
(* Specification *)

Init ==
    /\ mode = "ready"
    /\ op = "call"
    /\ seq = 0
    /\ fileId = 0
    /\ chunks = 0
    /\ requests = << >>
    /\ replies = << >>
    /\ upload = 0
    /\ damaged = FALSE
    /\ errors = 0

Serve ==
    \/ ServeCall
    \/ ServeBegin
    \/ ServeChunk
    \/ ServeChunkUnexpected
    \/ ServeChunkError
    \/ ServeEnd

Next ==
    \/ Command
    \/ PutInstant
    \/ PutBegin
    \/ PutChunk
    \/ PutChunkThrows
    \/ PutEnd
    \/ Receive
    \/ Reconnect
    \/ Serve

\* The server's loop serves what it has received; the client reads.
Spec == Init /\ [][Next]_vars /\ WF_vars(Serve) /\ WF_vars(Receive)

-----------------------------------------------------------------------------
(* Properties *)

\* Every variable has its type.
TypeOK ==
    /\ mode \in {"ready", "await", "instant", "begin", "send"}
    /\ op \in Ops
    /\ seq \in 0 .. MaxRequests
    /\ fileId \in 0 .. MaxRequests
    /\ chunks \in 0 .. MaxChunks
    /\ requests \in Seq(Frame)
    /\ replies \in Seq(Reply)
    /\ upload \in 0 .. MaxRequests
    /\ damaged \in BOOLEAN
    /\ errors \in 0 .. MaxWriteErrors

\* The frame a request takes for its reply is its reply, as long as the server
\* has been able to write every chunk: then each request is answered exactly
\* once and nothing else is sent, over all puts, calls and reconnections.
ReplyIsOwn ==
    errors = 0 /\ mode = "await" /\ replies # << >> => Head(replies).for = seq

\* A put takes the success of another request for that of its own last one, and
\* so reports a file that may not be there.
Misled ==
    /\ mode = "await"
    /\ op \in {"end", "instant"}
    /\ replies # << >>
    /\ Head(replies).ok
    /\ Head(replies).for # seq

\* One chunk error puts the stream out of step by one reply.  A put with data to
\* send then fails, for want of a file_id; one that sends none (the instant
\* upload on a hit, an empty or unreadable file) can be misled.  It takes two
\* errors to mislead a put that has sent chunks.
FalseSuccessSendsNothing == Misled => errors >= 2 \/ (errors = 1 /\ chunks = 0)

\* No request waits for ever, chunk errors or not: what the server has to say
\* about it, or about something else, arrives.
EveryRequestReturns == mode = "await" ~> mode # "await"
=============================================================================
