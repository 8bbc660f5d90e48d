---------------------------- MODULE ClientProofs ----------------------------
(***************************************************************************)
(* Theorems about ClientStream.  The client never compares the seq of a    *)
(* frame with that of its request, so everything rests on what is on its   *)
(* way: as long as the server has failed to write at most one chunk, the   *)
(* stream is InStep (nothing outstanding but the reply the client waits    *)
(* for) or, after the one error, Behind by exactly one reply.              *)
(***************************************************************************)
EXTENDS ClientStream, TLAPS

\* The frames s: chunks of the upload u, and after them q requests.
ChunksThen(s, q, u) ==
    /\ q <= Len(s)
    /\ \A i \in 1 .. Len(s) : s[i].op = "chunk" <=> i <= Len(s) - q
    /\ \A i \in 1 .. Len(s) : s[i].op = "chunk" => s[i].seq = u /\ u # 0

\* The last frame on its way to the server is the request sent last.
LastRequest == requests[Len(requests)] = [op |-> op, seq |-> seq]

\* The put that is sending chunks sends them to the upload that is open.
Sending == mode = "send" /\ fileId # 0 /\ upload = fileId /\ ChunksThen(requests, 0, upload)

\* The request sent last is still to be served.
Unserved ==
    /\ replies = << >>
    /\ ChunksThen(requests, 1, upload)
    /\ LastRequest
    /\ op # "end" => Len(requests) = 1

\* It has been served, and its reply is all that is on its way.
Served ==
    /\ requests = << >>
    /\ Len(replies) = 1
    /\ replies[1].op = op
    /\ replies[1].for = seq
    /\ op = "begin" /\ replies[1].ok => upload = seq

\* The next frame the client receives is the answer to what it sent last.
InStep ==
    \/ mode \in {"ready", "instant", "begin"} /\ requests = << >> /\ replies = << >>
    \/ Sending /\ replies = << >>
    \/ mode = "await" /\ seq # 0 /\ Unserved
    \/ mode = "await" /\ seq # 0 /\ Served

\* A chunk's error is on its way and will be taken for the reply to upload_end.
ErrorWaiting ==
    /\ replies # << >>
    /\ ~replies[1].ok
    /\ \/ Sending /\ Len(replies) = 1
       \/ /\ mode = "await" /\ op = "end"
          /\ \/ Len(replies) = 1 /\ ChunksThen(requests, 1, upload) /\ LastRequest
             \/ Len(replies) = 2 /\ requests = << >> /\ replies[2].op = op

\* Between two requests, the reply to the last one has not been received.  A put
\* that has got past its upload_begin has no file_id.
OneLeft ==
    /\ mode \in {"ready", "instant", "begin", "send"}
    /\ mode \in {"instant", "begin"} => op = "query"
    /\ mode = "send" => op = "begin" /\ fileId = 0
    /\ chunks = 0
    /\ \/ replies = << >> /\ ChunksThen(requests, 1, upload) /\ LastRequest
       \/ requests = << >> /\ Len(replies) = 1 /\ replies[1].op = op

\* Request o of a put comes after request prev.
Follows(o, prev) ==
    /\ o \in {"instant", "begin"} => prev = "query"
    /\ o = "end" => prev = "begin"

\* The client waits, and the reply to the request before comes first.
TwoLeft ==
    /\ mode = "await" /\ chunks = 0
    /\ \/ /\ replies = << >>
          /\ ChunksThen(requests, 2, upload)
          /\ LastRequest
          /\ Follows(op, requests[Len(requests) - 1].op)
       \/ /\ Len(replies) = 1 /\ Len(requests) = 1
          /\ ChunksThen(requests, 1, upload)
          /\ LastRequest
          /\ Follows(op, replies[1].op)
       \/ /\ Len(replies) = 2 /\ requests = << >>
          /\ replies[2].op = op
          /\ Follows(op, replies[1].op)

Behind == errors = 1 /\ (ErrorWaiting \/ OneLeft \/ TwoLeft)

IInv == TypeOK /\ (errors <= 1 => InStep \/ Behind)

-----------------------------------------------------------------------------
(* Lemmas on the frames that are on their way *)

\* Nothing on its way is no chunk and no request.
LEMMA NothingThen == ASSUME NEW s, Len(s) = 0, NEW u PROVE ChunksThen(s, 0, u)
<1>1. \A i \in 1 .. Len(s) : FALSE
  OBVIOUS
<1>2. 0 <= Len(s)
  OBVIOUS
<1>3. \A i \in 1 .. Len(s) : s[i].op = "chunk" <=> i <= Len(s) - 0
  BY <1>1
<1>4. \A i \in 1 .. Len(s) : s[i].op = "chunk" => s[i].seq = u /\ u # 0
  BY <1>1
<1>. QED
  BY <1>2, <1>3, <1>4 DEF ChunksThen

\* Append adds one element at the end.
LEMMA Appended ==
    ASSUME NEW S, NEW s \in Seq(S), NEW e \in S
    PROVE  /\ Append(s, e) \in Seq(S)
           /\ Append(s, e) # << >>
           /\ Len(Append(s, e)) = Len(s) + 1
           /\ Append(s, e)[Len(s) + 1] = e
           /\ \A i \in 1 .. Len(s) : Append(s, e)[i] = s[i]
OBVIOUS

\* Tail drops the first element and keeps the order of the others.
LEMMA Tailed ==
    ASSUME NEW S, NEW s \in Seq(S), s # << >>
    PROVE  /\ Tail(s) \in Seq(S)
           /\ Head(s) = s[1] /\ Head(s) \in S
           /\ Len(s) \in Nat \ {0}
           /\ Len(Tail(s)) = Len(s) - 1
           /\ \A i \in 1 .. Len(s) - 1 : Tail(s)[i] = s[i + 1]
           /\ Len(s) = 1 => Tail(s) = << >>
<1>1. \A t \in Seq(S) : Len(t) = 0 => t = << >>
  OBVIOUS
<1>2. Tail(s) \in Seq(S) /\ Len(s) \in Nat \ {0} /\ Len(Tail(s)) = Len(s) - 1
  OBVIOUS
<1>3. ASSUME Len(s) = 1 PROVE Tail(s) = << >>
  <2>1. Len(Tail(s)) = 0
    BY <1>2, <1>3
  <2>. QED
    BY <1>1, <1>2, <2>1, Zenon
<1>. QED
  BY <1>2, <1>3

\* A request goes behind what is on its way.
LEMMA RequestAppended ==
    ASSUME NEW S, NEW s \in Seq(S), NEW e \in S, NEW q \in Nat, NEW u,
           ChunksThen(s, q, u), e.op # "chunk"
    PROVE  ChunksThen(Append(s, e), q + 1, u)
<1>. DEFINE t == Append(s, e)
<1>1. /\ Len(t) = Len(s) + 1 /\ Len(s) \in Nat
      /\ t[Len(s) + 1] = e
      /\ \A i \in 1 .. Len(s) : t[i] = s[i]
  BY Appended
<1>. HIDE DEF t
<1>2. \A i \in 1 .. Len(t) : i = Len(s) + 1 \/ i \in 1 .. Len(s)
  BY <1>1
<1>3. q + 1 <= Len(t) /\ Len(t) - (q + 1) = Len(s) - q
  BY <1>1 DEF ChunksThen
<1>4. \A i \in 1 .. Len(t) : t[i].op = "chunk" <=> i <= Len(s) - q
  BY <1>1, <1>2 DEF ChunksThen
<1>5. \A i \in 1 .. Len(t) : t[i].op = "chunk" => t[i].seq = u /\ u # 0
  BY <1>1, <1>2 DEF ChunksThen
<1>6. ChunksThen(t, q + 1, u)
  BY <1>3, <1>4, <1>5 DEF ChunksThen
<1>. QED
  BY <1>6 DEF t

\* A chunk of u goes behind the chunks of u.
LEMMA ChunkAppended ==
    ASSUME NEW S, NEW s \in Seq(S), NEW e \in S, NEW u,
           ChunksThen(s, 0, u), e.op = "chunk", e.seq = u, u # 0
    PROVE  ChunksThen(Append(s, e), 0, u)
BY DEF ChunksThen

\* A chunk at the front belongs to u, and the rest has the same shape.
LEMMA ChunkServed ==
    ASSUME NEW S, NEW s \in Seq(S), NEW q \in Nat, NEW u,
           ChunksThen(s, q, u), s # << >>, Head(s).op = "chunk"
    PROVE  /\ ChunksThen(Tail(s), q, u)
           /\ Head(s).seq = u /\ u # 0
           /\ Len(s) > q
BY DEF ChunksThen

\* A request at the front has no chunk behind it, so that any upload will do for
\* the rest.
LEMMA RequestServed ==
    ASSUME NEW S, NEW s \in Seq(S), NEW q \in Nat, NEW u, NEW v,
           ChunksThen(s, q, u), s # << >>, Head(s).op # "chunk"
    PROVE  Len(s) = q /\ ChunksThen(Tail(s), q - 1, v)
<1>1. Head(s) = s[1] /\ 1 \in 1 .. Len(s)
  OBVIOUS
<1>2. Len(s) = q
  BY <1>1 DEF ChunksThen
<1>3. \A i \in 1 .. Len(s) : s[i].op # "chunk"
  BY <1>2 DEF ChunksThen
<1>4. Len(Tail(s)) = q - 1 /\ \A i \in 1 .. Len(Tail(s)) : Tail(s)[i] = s[i + 1] /\ i + 1 \in 1 .. Len(s)
  BY <1>2
<1>5. \A i \in 1 .. Len(Tail(s)) : Tail(s)[i].op # "chunk"
  BY <1>3, <1>4
<1>. QED
  BY <1>2, <1>4, <1>5 DEF ChunksThen

-----------------------------------------------------------------------------
(* Types *)

\* What Answer adds is a reply.
LEMMA AnswerType ==
    ASSUME TypeOK, NEW ok \in BOOLEAN, requests # << >>, Answer(ok)
    PROVE  requests' \in Seq(Frame) /\ replies' \in Seq(Reply)
<1>1. Head(requests) \in Frame /\ Tail(requests) \in Seq(Frame)
  BY DEF TypeOK
<1>2. 0 \in 0 .. MaxRequests
  BY StreamAssumption
<1>3. [op |-> Head(requests).op, ok |-> ok,
       for |-> IF Head(requests).op = "chunk" THEN 0 ELSE Head(requests).seq] \in Reply
  BY <1>1, <1>2 DEF Frame, Reply
<1>. QED
  BY <1>1, <1>3 DEF TypeOK, Answer

\* Every step keeps TypeOK.
LEMMA TypeStep == TypeOK /\ [Next]_vars => TypeOK'
<1>. SUFFICES ASSUME TypeOK, [Next]_vars PROVE TypeOK'
  OBVIOUS
<1>a. ASSUME NEW o \in Ops, Request(o), fileId' = fileId, chunks' = chunks PROVE TypeOK'
  <2>1. seq + 1 \in 0 .. MaxRequests
    BY <1>a, StreamAssumption DEF TypeOK, Request
  <2>2. [op |-> o, seq |-> seq + 1] \in Frame
    BY <2>1 DEF Frame
  <2>3. requests' \in Seq(Frame)
    BY <1>a, <2>2 DEF TypeOK, Request
  <2>. QED
    BY <1>a, <2>1, <2>3 DEF TypeOK, Request, server
<1>1. CASE Command
  BY <1>1, <1>a DEF Command, Call, PutQuery, Ops
<1>2. CASE PutBegin
  BY <1>2, <1>a DEF PutBegin, Ops
<1>3. CASE PutEnd
  BY <1>3, <1>a DEF PutEnd, Ops
<1>i. CASE PutInstant
  BY <1>i, <1>a DEF PutInstant, Ops
<1>t. CASE PutChunkThrows
  BY <1>t DEF TypeOK, PutChunkThrows, server
<1>4. CASE PutChunk
  <2>1. [op |-> "chunk", seq |-> fileId] \in Frame
    BY DEF TypeOK, Frame
  <2>2. requests' \in Seq(Frame)
    BY <1>4, <2>1 DEF TypeOK, PutChunk
  <2>3. chunks' \in 0 .. MaxChunks
    BY <1>4, StreamAssumption DEF TypeOK, PutChunk
  <2>. QED
    BY <1>4, <2>2, <2>3 DEF TypeOK, PutChunk, server
<1>5. CASE Receive
  <2>1. Head(replies) \in Reply /\ Tail(replies) \in Seq(Reply)
    BY <1>5 DEF TypeOK, Receive
  <2>2. fileId' \in 0 .. MaxRequests /\ chunks' \in 0 .. MaxChunks
    BY <1>5, <2>1, StreamAssumption DEF Receive, Reply, FileIds
  <2>3. mode' \in {"ready", "await", "instant", "begin", "send"}
    BY <1>5 DEF Receive, ModeAfter
  <2>. QED
    BY <1>5, <2>1, <2>2, <2>3 DEF TypeOK, Receive, server
<1>6. CASE Reconnect
  <2>1. damaged' \in BOOLEAN
    BY <1>6, Zenon DEF Reconnect
  <2>2. upload' \in 0 .. MaxRequests
    BY <1>6, StreamAssumption DEF Reconnect
  <2>. QED
    BY <1>6, <2>1, <2>2 DEF TypeOK, Reconnect
<1>7. CASE ServeCall
  <2>. PICK ok \in BOOLEAN : Answer(ok)
    BY <1>7 DEF ServeCall
  <2>1. requests' \in Seq(Frame) /\ replies' \in Seq(Reply)
    BY <1>7, AnswerType DEF ServeCall, Serving
  <2>. QED
    BY <1>7, <2>1 DEF TypeOK, ServeCall, Answer, client, server
<1>8. CASE ServeBegin
  <2>. PICK ok \in BOOLEAN : Answer(ok) /\ upload' = IF ok THEN Head(requests).seq ELSE 0
    BY <1>8 DEF ServeBegin
  <2>1. requests' \in Seq(Frame) /\ replies' \in Seq(Reply)
    BY <1>8, AnswerType DEF ServeBegin, Serving
  <2>2. Head(requests) \in Frame
    BY <1>8 DEF TypeOK, ServeBegin, Serving
  <2>3. upload' \in 0 .. MaxRequests
    BY <2>2, StreamAssumption DEF Frame
  <2>. QED
    BY <1>8, <2>1, <2>3 DEF TypeOK, ServeBegin, Answer, client
<1>9. CASE ServeChunk
  BY <1>9, Tailed DEF TypeOK, ServeChunk, Serving, client, server
<1>10. CASE ServeChunkUnexpected
  <2>1. requests' \in Seq(Frame) /\ replies' \in Seq(Reply)
    BY <1>10, AnswerType DEF ServeChunkUnexpected, Serving
  <2>. QED
    BY <1>10, <2>1 DEF TypeOK, ServeChunkUnexpected, Answer, client, server
<1>11. CASE ServeChunkError
  <2>1. requests' \in Seq(Frame) /\ replies' \in Seq(Reply)
    BY <1>11, AnswerType DEF ServeChunkError, Serving
  <2>2. errors' \in 0 .. MaxWriteErrors
    BY <1>11, StreamAssumption DEF TypeOK, ServeChunkError
  <2>. QED
    BY <1>11, <2>1, <2>2 DEF TypeOK, ServeChunkError, Answer, client
<1>12. CASE ServeEnd
  <2>0. (upload # 0 /\ ~damaged) \in BOOLEAN
    BY DEF TypeOK
  <2>. PICK ok \in {FALSE, upload # 0 /\ ~damaged} : Answer(ok)
    BY <1>12 DEF ServeEnd
  <2>1. requests' \in Seq(Frame) /\ replies' \in Seq(Reply)
    BY <1>12, <2>0, AnswerType DEF ServeEnd, Serving
  <2>2. damaged' \in BOOLEAN
    BY <1>12, Zenon DEF ServeEnd
  <2>3. upload' \in 0 .. MaxRequests
    BY <1>12, StreamAssumption DEF ServeEnd
  <2>. QED
    BY <1>12, <2>1, <2>2, <2>3 DEF TypeOK, ServeEnd, Answer, client
<1>13. CASE UNCHANGED vars
  BY <1>13 DEF TypeOK, vars, client, server
<1>. QED
  BY <1>1, <1>2, <1>3, <1>i, <1>t, <1>4, <1>5, <1>6, <1>7, <1>8, <1>9, <1>10, <1>11, <1>12,
     <1>13 DEF Next, Serve

-----------------------------------------------------------------------------
(* The stream *)

Stream == InStep \/ Behind

\* The frames on their way once the client has sent a request.
LEMMA RequestSent ==
    ASSUME TypeOK, NEW o \in Ops, Request(o),
           NEW q \in Nat, ChunksThen(requests, q, upload)
    PROVE  /\ ChunksThen(requests', q + 1, upload')
           /\ LastRequest'
           /\ Len(requests') = Len(requests) + 1
           /\ Len(requests) > 0 => requests'[Len(requests') - 1] = requests[Len(requests)]
           /\ seq' # 0
           /\ mode' = "await" /\ op' = o
           /\ replies' = replies /\ upload' = upload /\ errors' = errors
<1>. DEFINE e == [op |-> o, seq |-> seq + 1]
<1>1. requests \in Seq(Frame) /\ seq \in Nat /\ seq + 1 \in 0 .. MaxRequests
  BY StreamAssumption DEF TypeOK, Request
<1>2. e \in Frame /\ e.op # "chunk"
  BY <1>1 DEF Frame, Ops
<1>3. requests' = Append(requests, e) /\ upload' = upload /\ errors' = errors /\ seq' = seq + 1 /\ op' = o
  BY DEF Request, server
<1>. HIDE DEF e
<1>4. ChunksThen(requests', q + 1, upload')
  BY <1>1, <1>2, <1>3, RequestAppended
<1>5. /\ Len(requests') = Len(requests) + 1 /\ Len(requests) \in Nat
      /\ requests'[Len(requests) + 1] = e
      /\ \A i \in 1 .. Len(requests) : requests'[i] = requests[i]
  BY <1>1, <1>2, <1>3, Appended
<1>6. LastRequest'
  BY <1>3, <1>5 DEF LastRequest, e
<1>7. Len(requests) > 0 => requests'[Len(requests') - 1] = requests[Len(requests)]
  BY <1>5
<1>. QED
  BY <1>1, <1>3, <1>4, <1>5, <1>6, <1>7 DEF Request

\* Sending a request other than upload_end.
LEMMA SentFromReady ==
    ASSUME TypeOK, Stream, errors <= 1,
           NEW o \in Ops \ {"end"}, Request(o), chunks' = chunks,
           mode \in {"ready", "instant", "begin"},
           o \in {"instant", "begin"} => mode = o
    PROVE  Stream'
<1>1. CASE InStep
  <2>1. requests = << >> /\ replies = << >>
    BY <1>1 DEF InStep, Sending
  <2>2. ChunksThen(requests, 0, upload) /\ Len(requests) = 0
    BY <2>1, NothingThen
  <2>3. /\ ChunksThen(requests', 1, upload') /\ LastRequest' /\ Len(requests') = 1
        /\ seq' # 0 /\ mode' = "await" /\ op' = o /\ replies' = << >>
    BY <2>1, <2>2, RequestSent
  <2>. QED
    BY <2>3 DEF Stream, InStep, Unserved
<1>2. CASE Behind
  <2>0. errors = 1 /\ OneLeft
    BY <1>2 DEF Behind, ErrorWaiting, TwoLeft, Sending
  <2>1. CASE replies = << >> /\ ChunksThen(requests, 1, upload) /\ LastRequest
    <3>1. Len(requests) > 0
      BY <2>1 DEF ChunksThen, TypeOK
    <3>2. Follows(o, requests[Len(requests)].op) /\ chunks' = 0
      BY <2>0, <2>1 DEF OneLeft, LastRequest, Follows
    <3>3. /\ ChunksThen(requests', 2, upload') /\ LastRequest'
          /\ requests'[Len(requests') - 1] = requests[Len(requests)]
          /\ mode' = "await" /\ op' = o /\ replies' = << >> /\ errors' = 1
      BY <2>0, <2>1, <3>1, RequestSent
    <3>. QED
      BY <3>2, <3>3 DEF Stream, Behind, TwoLeft
  <2>2. CASE requests = << >> /\ Len(replies) = 1 /\ replies[1].op = op
    <3>1. ChunksThen(requests, 0, upload) /\ Len(requests) = 0
      BY <2>2, NothingThen
    <3>2. Follows(o, replies[1].op) /\ chunks' = 0
      BY <2>0, <2>2 DEF OneLeft, Follows
    <3>3. /\ ChunksThen(requests', 1, upload') /\ LastRequest' /\ Len(requests') = 1
          /\ mode' = "await" /\ op' = o /\ replies' = replies /\ errors' = 1
      BY <2>0, <3>1, RequestSent
    <3>. QED
      BY <2>2, <3>2, <3>3 DEF Stream, Behind, TwoLeft
  <2>. QED
    BY <2>0, <2>1, <2>2 DEF OneLeft
<1>. QED
  BY <1>1, <1>2 DEF Stream

\* Sending upload_end.
LEMMA SentEnd ==
    ASSUME TypeOK, Stream, errors <= 1, Request("end"), mode = "send", chunks' = chunks
    PROVE  Stream'
<1>0. CASE Sending /\ (replies = << >> \/ (errors = 1 /\ replies # << >> /\ ~replies[1].ok /\ Len(replies) = 1))
  <2>1. /\ ChunksThen(requests', 1, upload') /\ LastRequest'
        /\ seq' # 0 /\ mode' = "await" /\ op' = "end" /\ replies' = replies /\ errors' = errors
    BY <1>0, RequestSent DEF Sending, Ops
  <2>2. CASE replies = << >>
    BY <2>1, <2>2 DEF Stream, InStep, Unserved
  <2>3. CASE errors = 1 /\ replies # << >> /\ ~replies[1].ok /\ Len(replies) = 1
    BY <2>1, <2>3 DEF Stream, Behind, ErrorWaiting
  <2>. QED
    BY <1>0, <2>2, <2>3
<1>1. CASE errors = 1 /\ OneLeft
  <2>0. op = "begin" /\ chunks' = 0
    BY <1>1 DEF OneLeft
  <2>1. CASE replies = << >> /\ ChunksThen(requests, 1, upload) /\ LastRequest
    <3>1. Len(requests) > 0 /\ Follows("end", requests[Len(requests)].op)
      BY <2>0, <2>1 DEF ChunksThen, TypeOK, LastRequest, Follows
    <3>2. /\ ChunksThen(requests', 2, upload') /\ LastRequest'
          /\ requests'[Len(requests') - 1] = requests[Len(requests)]
          /\ mode' = "await" /\ op' = "end" /\ replies' = << >> /\ errors' = 1
      BY <1>1, <2>1, <3>1, RequestSent DEF Ops
    <3>. QED
      BY <2>0, <3>1, <3>2 DEF Stream, Behind, TwoLeft
  <2>2. CASE requests = << >> /\ Len(replies) = 1 /\ replies[1].op = op
    <3>1. ChunksThen(requests, 0, upload) /\ Len(requests) = 0
      BY <2>2, NothingThen
    <3>2. Follows("end", replies[1].op)
      BY <2>0, <2>2 DEF Follows
    <3>3. /\ ChunksThen(requests', 1, upload') /\ LastRequest' /\ Len(requests') = 1
          /\ mode' = "await" /\ op' = "end" /\ replies' = replies /\ errors' = 1
      BY <1>1, <3>1, RequestSent DEF Ops
    <3>. QED
      BY <2>0, <2>2, <3>2, <3>3 DEF Stream, Behind, TwoLeft
  <2>. QED
    BY <1>1, <2>1, <2>2 DEF OneLeft
<1>. QED
  BY <1>0, <1>1 DEF Stream, InStep, Behind, ErrorWaiting, TwoLeft

\* Sending a chunk.
LEMMA SentChunk ==
    ASSUME TypeOK, Stream, errors <= 1, PutChunk
    PROVE  Stream'
<1>0. Sending /\ (replies = << >> \/ (errors = 1 /\ replies # << >> /\ ~replies[1].ok /\ Len(replies) = 1))
  BY DEF Stream, InStep, Behind, ErrorWaiting, OneLeft, TwoLeft, PutChunk
<1>. DEFINE e == [op |-> "chunk", seq |-> fileId]
<1>1. e \in Frame /\ e.op = "chunk" /\ e.seq = fileId
  BY DEF Frame, TypeOK
<1>2. ChunksThen(Append(requests, e), 0, upload)
  BY <1>0, <1>1, ChunkAppended DEF Sending, TypeOK
<1>3. /\ requests' = Append(requests, e) /\ upload' = upload /\ fileId' = fileId
      /\ mode' = mode /\ replies' = replies /\ errors' = errors
  BY DEF PutChunk, server
<1>4. Sending'
  BY <1>0, <1>2, <1>3 DEF Sending
<1>5. CASE replies = << >>
  BY <1>3, <1>4, <1>5 DEF Stream, InStep
<1>6. CASE errors = 1 /\ replies # << >> /\ ~replies[1].ok /\ Len(replies) = 1
  BY <1>3, <1>4, <1>6 DEF Stream, Behind, ErrorWaiting
<1>. QED
  BY <1>0, <1>5, <1>6

\* The put that has no file_id gives up.
LEMMA GivenUp ==
    ASSUME TypeOK, Stream, errors <= 1, PutChunkThrows
    PROVE  Stream'
<1>1. mode = "send" /\ fileId = 0 /\ mode' = "ready"
  BY DEF PutChunkThrows
<1>2. UNCHANGED <<op, seq, chunks, requests, replies, upload, errors>>
  BY DEF PutChunkThrows, server
<1>3. errors = 1 /\ OneLeft
  BY <1>1 DEF Stream, InStep, Behind, Sending, ErrorWaiting, TwoLeft
<1>4. LastRequest <=> LastRequest'
  BY <1>2 DEF LastRequest
<1>5. OneLeft'
  BY <1>1, <1>2, <1>3, <1>4 DEF OneLeft
<1>. QED
  BY <1>2, <1>3, <1>5 DEF Stream, Behind

\* Receiving a frame.
LEMMA Received ==
    ASSUME TypeOK, Stream, errors <= 1, Receive
    PROVE  Stream'
<1>0. /\ replies \in Seq(Reply) /\ replies # << >> /\ mode = "await"
      /\ replies' = Tail(replies) /\ Head(replies) = replies[1]
      /\ Len(replies') = Len(replies) - 1
      /\ Len(replies) = 1 => replies' = << >>
      /\ Len(replies) = 2 => replies'[1] = replies[2]
  BY Tailed DEF TypeOK, Receive
<1>1. mode' \in ModeAfter(replies[1])
  BY <1>0 DEF Receive
<1>2. fileId' \in FileIds(replies[1]) /\ chunks' = 0
  BY <1>0 DEF Receive
<1>3. op' = op /\ seq' = seq /\ requests' = requests /\ upload' = upload /\ errors' = errors
  BY DEF Receive, server
<1>4. CASE InStep
  <2>1. Served /\ seq # 0
    BY <1>0, <1>4 DEF InStep, Sending, Unserved
  <2>2. requests' = << >> /\ replies' = << >>
    BY <1>0, <1>3, <2>1 DEF Served
  <2>3. CASE mode' \in {"ready", "instant", "begin"}
    BY <2>2, <2>3 DEF Stream, InStep
  <2>4. CASE mode' = "send"
    <3>1. op = "begin" /\ replies[1].op = "begin" /\ replies[1].ok
      BY <1>1, <2>1, <2>4 DEF ModeAfter, Served
    <3>2. fileId' = seq /\ upload' = seq
      BY <1>2, <1>3, <2>1, <3>1 DEF Served, FileIds
    <3>3. Len(requests') = 0
      BY <2>2
    <3>4. ChunksThen(requests', 0, upload')
      BY <3>3, NothingThen
    <3>. QED
      BY <2>1, <2>2, <2>4, <3>2, <3>4 DEF Stream, InStep, Sending
  <2>. QED
    BY <1>1, <2>3, <2>4 DEF ModeAfter
<1>5. CASE Behind /\ ErrorWaiting
  <2>1. mode' = "ready"
    BY <1>1, <1>5 DEF ModeAfter, ErrorWaiting
  <2>2. CASE Len(replies) = 1 /\ ChunksThen(requests, 1, upload) /\ LastRequest
    <3>1. replies' = << >> /\ ChunksThen(requests', 1, upload') /\ LastRequest'
      BY <1>0, <1>3, <2>2 DEF LastRequest
    <3>. QED
      BY <1>2, <1>3, <1>5, <2>1, <3>1 DEF Stream, Behind, OneLeft
  <2>3. CASE Len(replies) = 2 /\ requests = << >> /\ replies[2].op = op
    <3>1. Len(replies') = 1 /\ requests' = << >> /\ replies'[1].op = op'
      BY <1>0, <1>3, <2>3
    <3>. QED
      BY <1>2, <1>3, <1>5, <2>1, <3>1 DEF Stream, Behind, OneLeft
  <2>. QED
    BY <1>0, <1>5, <2>2, <2>3 DEF ErrorWaiting, Sending
<1>6. CASE Behind /\ TwoLeft
  <2>0. Follows(op, replies[1].op) /\ op \in Ops
    BY <1>0, <1>6 DEF TwoLeft, TypeOK
  <2>1. /\ mode' \in {"ready", "instant", "begin", "send"}
        /\ mode' \in {"instant", "begin"} => op' = "query"
        /\ mode' = "send" => op' = "begin"
    BY <1>1, <1>3 DEF ModeAfter
  <2>a. mode' = "send" => fileId' = 0
    BY <1>2, <1>3, <2>0, <2>1 DEF Follows, FileIds
  <2>2. CASE Len(replies) = 1 /\ ChunksThen(requests, 1, upload) /\ LastRequest
    <3>1. replies' = << >> /\ ChunksThen(requests', 1, upload') /\ LastRequest'
      BY <1>0, <1>3, <2>2 DEF LastRequest
    <3>. QED
      BY <1>2, <1>3, <1>6, <2>1, <2>a, <3>1 DEF Stream, Behind, OneLeft
  <2>3. CASE Len(replies) = 2 /\ requests = << >> /\ replies[2].op = op
    <3>1. Len(replies') = 1 /\ requests' = << >> /\ replies'[1].op = op'
      BY <1>0, <1>3, <2>3
    <3>. QED
      BY <1>2, <1>3, <1>6, <2>1, <2>a, <3>1 DEF Stream, Behind, OneLeft
  <2>. QED
    BY <1>0, <1>6, <2>2, <2>3 DEF TwoLeft
<1>. QED
  BY <1>0, <1>4, <1>5, <1>6 DEF Stream, Behind, OneLeft

\* What the server has still to serve: chunks of the open upload, then requests.
LEMMA Waiting ==
    ASSUME Stream
    PROVE  requests = << >> \/ \E q \in 0 .. 2 : ChunksThen(requests, q, upload)
BY DEF Stream, InStep, Behind, Sending, Unserved, Served, ErrorWaiting, OneLeft, TwoLeft

\* The server answers a request.
LEMMA Answered ==
    ASSUME TypeOK, Stream, errors <= 1, requests # << >>, Head(requests).op # "chunk",
           NEW ok \in BOOLEAN, Answer(ok), errors' = errors,
           Head(requests).op = "begin" /\ ok => upload' = Head(requests).seq
    PROVE  Stream'
<1>. DEFINE r == [op |-> Head(requests).op, ok |-> ok, for |-> Head(requests).seq]
<1>1. /\ requests \in Seq(Frame) /\ Tail(requests) \in Seq(Frame)
      /\ Head(requests) = requests[1] /\ Head(requests) \in Frame
      /\ Len(requests) \in Nat \ {0} /\ Len(Tail(requests)) = Len(requests) - 1
      /\ \A i \in 1 .. Len(requests) - 1 : Tail(requests)[i] = requests[i + 1]
      /\ Len(requests) = 1 => Tail(requests) = << >>
  BY Tailed DEF TypeOK
<1>2. r \in Reply
  BY <1>1 DEF Frame, Reply
<1>3. /\ requests' = Tail(requests) /\ replies' = Append(replies, r)
      /\ mode' = mode /\ op' = op /\ seq' = seq /\ fileId' = fileId /\ chunks' = chunks
  BY DEF Answer, client
<1>4. /\ Len(replies') = Len(replies) + 1
      /\ replies'[Len(replies) + 1] = r
      /\ replies' # << >>
      /\ \A i \in 1 .. Len(replies) : replies'[i] = replies[i]
  BY <1>2, <1>3, Appended, SMTT(30) DEF TypeOK
<1>5. r.op = requests[1].op /\ r.for = requests[1].seq /\ r.ok = ok
  BY <1>1
<1>6. ASSUME NEW q \in Nat, ChunksThen(requests, q, upload)
      PROVE  Len(requests) = q /\ ChunksThen(requests', q - 1, upload')
  BY <1>1, <1>3, <1>6, RequestServed
<1>7. ~Sending
  BY <1>1, <1>6 DEF Sending
<1>8. Len(<< >>) = 0 /\ Len(replies) \in Nat
  BY DEF TypeOK
<1>. HIDE DEF r
<1>9. CASE InStep
  <2>1. mode = "await" /\ seq # 0 /\ Unserved
    BY <1>7, <1>9 DEF InStep, Served
  <2>2. Len(requests) = 1 /\ requests[1] = [op |-> op, seq |-> seq]
    BY <1>6, <2>1 DEF Unserved, LastRequest
  <2>3. Len(replies) = 0
    BY <1>8, <2>1 DEF Unserved
  <2>4. r.op = op /\ r.for = seq /\ (op = "begin" /\ r.ok => upload' = seq)
    BY <1>1, <1>5, <2>2
  <2>5. Len(replies') = 1 /\ replies'[1] = r /\ requests' = << >>
    BY <1>1, <1>3, <1>4, <2>2, <2>3
  <2>6. Served'
    BY <1>3, <2>4, <2>5 DEF Served
  <2>. QED
    BY <1>3, <2>1, <2>6 DEF Stream, InStep
<1>10. CASE Behind /\ ErrorWaiting
  <2>1. Len(replies) = 1 /\ ChunksThen(requests, 1, upload) /\ LastRequest
        /\ ~replies[1].ok /\ mode = "await" /\ op = "end"
    BY <1>7, <1>10 DEF ErrorWaiting
  <2>2. Len(requests) = 1 /\ requests[1] = [op |-> op, seq |-> seq]
    BY <1>6, <2>1 DEF LastRequest
  <2>3. Len(replies') = 2 /\ replies'[2].op = op /\ replies'[1] = replies[1] /\ requests' = << >>
    BY <1>1, <1>3, <1>4, <1>5, <2>1, <2>2
  <2>. QED
    BY <1>3, <1>4, <1>10, <2>1, <2>3 DEF Stream, Behind, ErrorWaiting
<1>11. CASE Behind /\ OneLeft
  <2>1. replies = << >> /\ ChunksThen(requests, 1, upload) /\ LastRequest
    BY <1>11 DEF OneLeft
  <2>2. Len(requests) = 1 /\ requests[1] = [op |-> op, seq |-> seq]
    BY <1>6, <2>1 DEF LastRequest
  <2>3. Len(replies') = 1 /\ replies'[1].op = op /\ requests' = << >>
    BY <1>1, <1>3, <1>4, <1>5, <1>8, <2>1, <2>2
  <2>. QED
    BY <1>3, <1>11, <2>3 DEF Stream, Behind, OneLeft
<1>12. CASE Behind /\ TwoLeft
  <2>1. CASE replies = << >> /\ ChunksThen(requests, 2, upload) /\ LastRequest
    <3>0. 2 - 1 = 1 /\ 1 + 1 = 2 /\ 1 \in 1 .. (2 - 1)
      OBVIOUS
    <3>a. Len(requests) = 2 /\ ChunksThen(requests', 2 - 1, upload')
      BY <1>6, <2>1
    <3>b. Len(requests') = 2 - 1 /\ requests'[1] = requests[1 + 1]
      BY <1>1, <1>3, <3>0, <3>a, Zenon
    <3>1. Len(requests) = 2 /\ ChunksThen(requests', 1, upload') /\ Len(requests') = 1
      BY <3>0, <3>a, <3>b, Zenon
    <3>2. requests'[1] = requests[2]
      BY <3>0, <3>b, Zenon
    <3>3. LastRequest'
      BY <1>3, <2>1, <3>1, <3>2 DEF LastRequest
    <3>4. Follows(op, requests[1].op)
      BY <1>8, <1>12, <2>1, <3>1 DEF TwoLeft
    <3>5. Len(replies') = 1 /\ replies'[1] = r
      BY <1>4, <1>8, <2>1
    <3>. QED
      BY <1>3, <1>5, <1>12, <3>1, <3>3, <3>4, <3>5 DEF Stream, Behind, TwoLeft
  <2>2. CASE Len(replies) = 1 /\ ChunksThen(requests, 1, upload) /\ LastRequest
    <3>1. Len(requests) = 1 /\ requests[1] = [op |-> op, seq |-> seq]
      BY <1>6, <2>2 DEF LastRequest
    <3>2. Len(replies') = 2 /\ replies'[2].op = op /\ replies'[1] = replies[1] /\ requests' = << >>
      BY <1>1, <1>3, <1>4, <1>5, <2>2, <3>1
    <3>a. replies # << >> /\ Len(replies) # 2
      BY <1>8, <2>2
    <3>3. Follows(op, replies[1].op)
      BY <1>12, <3>a, Zenon DEF TwoLeft
    <3>. QED
      BY <1>3, <1>12, <3>2, <3>3 DEF Stream, Behind, TwoLeft
  <2>. QED
    BY <1>12, <2>1, <2>2 DEF TwoLeft
<1>. QED
  BY <1>9, <1>10, <1>11, <1>12 DEF Stream, Behind

\* What is on its way to the server once it has taken a chunk.
LEMMA ChunkTaken ==
    ASSUME TypeOK, Serving("chunk"), requests' = Tail(requests), upload' = upload,
           op' = op, seq' = seq,
           NEW q \in Nat, ChunksThen(requests, q, upload)
    PROVE  /\ ChunksThen(requests', q, upload')
           /\ Head(requests).seq = upload /\ upload # 0
           /\ Len(requests) > q
           /\ Len(requests') = Len(requests) - 1
           /\ q > 0 => (LastRequest <=> LastRequest')
           /\ q > 1 => requests'[Len(requests') - 1] = requests[Len(requests) - 1]
<1>1. /\ requests \in Seq(Frame) /\ requests # << >> /\ Head(requests).op = "chunk"
      /\ Len(requests) \in Nat \ {0}
      /\ Len(requests') = Len(requests) - 1
      /\ \A i \in 1 .. Len(requests) - 1 : requests'[i] = requests[i + 1]
  BY Tailed DEF TypeOK, Serving
<1>2. /\ ChunksThen(requests', q, upload')
      /\ Head(requests).seq = upload /\ upload # 0
      /\ Len(requests) > q
  BY <1>1, ChunkServed
<1>. DEFINE n == Len(requests)
<1>3. n \in Nat /\ n > q /\ Len(requests') = n - 1
      /\ \A i \in 1 .. n - 1 : requests'[i] = requests[i + 1]
  BY <1>1, <1>2
<1>. HIDE DEF n
<1>4. ASSUME q > 0 PROVE requests'[Len(requests')] = requests[n]
  <2>1. n - 1 \in 1 .. n - 1 /\ (n - 1) + 1 = n
    BY <1>3, <1>4
  <2>2. requests'[n - 1] = requests[(n - 1) + 1]
    BY <1>3, <2>1, Zenon
  <2>. QED
    BY <1>3, <2>1, <2>2
<1>5. ASSUME q > 1 PROVE requests'[Len(requests') - 1] = requests[n - 1]
  <2>1. n - 2 \in 1 .. n - 1 /\ (n - 2) + 1 = n - 1 /\ (n - 1) - 1 = n - 2
    BY <1>3, <1>5
  <2>2. requests'[n - 2] = requests[(n - 2) + 1]
    BY <1>3, <2>1, Zenon
  <2>. QED
    BY <1>3, <2>1, <2>2
<1>6. q > 0 => (LastRequest <=> LastRequest')
  BY <1>4 DEF LastRequest, n
<1>. QED
  BY <1>1, <1>2, <1>5, <1>6 DEF n

\* More than one frame is not one frame.
LEMMA MoreThanOne == ASSUME TypeOK, Len(requests) > 1 PROVE Len(requests) # 1
<1>1. \A n \in Nat : n > 1 => n # 1
  OBVIOUS
<1>2. Len(requests) \in Nat
  BY DEF TypeOK
<1>. QED
  BY <1>1, <1>2, Zenon

\* The server takes a chunk and writes it.
LEMMA ChunkWritten ==
    ASSUME TypeOK, Stream, errors <= 1, ServeChunk
    PROVE  Stream'
<1>1. /\ Serving("chunk") /\ requests # << >> /\ requests' = Tail(requests)
      /\ upload' = upload /\ op' = op /\ seq' = seq /\ mode' = mode
      /\ fileId' = fileId /\ replies' = replies /\ errors' = errors /\ chunks' = chunks
  BY DEF ServeChunk, Serving, client, server
<1>2. ASSUME ChunksThen(requests, 0, upload) PROVE ChunksThen(requests', 0, upload')
  BY <1>1, <1>2, ChunkTaken
<1>3. ASSUME ChunksThen(requests, 1, upload), LastRequest
      PROVE  ChunksThen(requests', 1, upload') /\ LastRequest' /\ Len(requests) > 1
  BY <1>1, <1>3, ChunkTaken
<1>4. ASSUME ChunksThen(requests, 2, upload), LastRequest
      PROVE  /\ ChunksThen(requests', 2, upload') /\ LastRequest'
             /\ requests'[Len(requests') - 1] = requests[Len(requests) - 1]
  BY <1>1, <1>4, ChunkTaken
<1>5. CASE Sending
  <2>1. Sending'
    BY <1>1, <1>2, <1>5 DEF Sending
  <2>. QED
    BY <1>1, <1>5, <2>1 DEF Stream, InStep, Behind, ErrorWaiting, OneLeft, TwoLeft, Sending
<1>6. CASE InStep /\ ~Sending
  <2>1. mode = "await" /\ seq # 0 /\ Unserved
    BY <1>1, <1>6 DEF InStep, Served
  <2>a. ChunksThen(requests', 1, upload') /\ LastRequest' /\ Len(requests) > 1
    BY <1>3, <2>1 DEF Unserved
  <2>b. Len(requests) # 1
    BY <2>a, MoreThanOne, Zenon
  <2>2. ChunksThen(requests', 1, upload') /\ LastRequest' /\ op = "end"
    BY <2>1, <2>a, <2>b, Zenon DEF Unserved
  <2>. QED
    BY <1>1, <2>1, <2>2 DEF Stream, InStep, Unserved
<1>7. CASE Behind /\ ErrorWaiting /\ ~Sending
  BY <1>1, <1>3, <1>7 DEF Stream, Behind, ErrorWaiting
<1>8. CASE Behind /\ OneLeft
  BY <1>1, <1>3, <1>8 DEF Stream, Behind, OneLeft
<1>9. CASE Behind /\ TwoLeft
  <2>1. replies = << >> /\ ChunksThen(requests, 2, upload) /\ LastRequest
        /\ Follows(op, requests[Len(requests) - 1].op)
    BY <1>1, <1>3, <1>9 DEF TwoLeft
  <2>. QED
    BY <1>1, <1>4, <1>9, <2>1 DEF Stream, Behind, TwoLeft
<1>. QED
  BY <1>5, <1>6, <1>7, <1>8, <1>9 DEF Stream, Behind

\* No chunk comes unexpected.
LEMMA NoneUnexpected ==
    ASSUME TypeOK, Stream
    PROVE  ~ServeChunkUnexpected
<1>1. SUFFICES ASSUME ServeChunkUnexpected PROVE FALSE
  OBVIOUS
<1>2. requests \in Seq(Frame) /\ requests # << >> /\ Head(requests).op = "chunk"
  BY <1>1 DEF TypeOK, ServeChunkUnexpected, Serving
<1>3. PICK q \in 0 .. 2 : ChunksThen(requests, q, upload)
  BY <1>2, Waiting
<1>4. Head(requests).seq = upload /\ upload # 0
  BY <1>2, <1>3, ChunkServed
<1>. QED
  BY <1>1, <1>4 DEF ServeChunkUnexpected

\* The one chunk that cannot be written: its error is the first reply.
LEMMA ChunkFailed ==
    ASSUME TypeOK, Stream, errors = 0, ServeChunkError
    PROVE  Stream'
<1>. DEFINE r == [op |-> Head(requests).op, ok |-> FALSE,
                  for |-> IF Head(requests).op = "chunk" THEN 0 ELSE Head(requests).seq]
<1>1. /\ Serving("chunk") /\ requests # << >> /\ requests' = Tail(requests)
      /\ upload' = upload /\ op' = op /\ seq' = seq /\ mode' = mode
      /\ fileId' = fileId /\ errors' = 1 /\ replies' = Append(replies, r)
  BY DEF ServeChunkError, Serving, Answer, client
<1>2. Head(requests) \in Frame /\ Head(requests).op = "chunk"
  BY <1>1, Tailed DEF TypeOK, Serving
<1>3. r \in Reply /\ ~r.ok
  BY <1>2, StreamAssumption DEF Reply, Frame
<1>4. InStep
  BY DEF Stream, Behind
<1>5. replies = << >> /\ (Sending \/ (mode = "await" /\ op = "end" /\ ChunksThen(requests, 1, upload) /\ LastRequest))
  <2>1. CASE Sending
    BY <1>4, <2>1 DEF InStep, Sending
  <2>2. CASE ~Sending
    <3>1. Unserved /\ mode = "await"
      BY <1>1, <1>4, <2>2 DEF InStep, Served
    <3>2. Len(requests) > 1
      BY <1>1, <3>1, ChunkTaken DEF Unserved
    <3>3. Len(requests) # 1
      BY <3>2, MoreThanOne, Zenon
    <3>. QED
      BY <3>1, <3>3, Zenon DEF Unserved
  <2>. QED
    BY <2>1, <2>2
<1>. HIDE DEF r
<1>6. Len(replies') = 1 /\ replies' # << >> /\ replies'[1] = r
  BY <1>1, <1>3, <1>5, Appended DEF TypeOK
<1>7. CASE Sending
  <2>1. ChunksThen(requests', 0, upload')
    BY <1>1, <1>7, ChunkTaken DEF Sending
  <2>2. Sending'
    BY <1>1, <1>7, <2>1 DEF Sending
  <2>. QED
    BY <1>1, <1>3, <1>6, <2>2 DEF Stream, Behind, ErrorWaiting
<1>8. CASE mode = "await" /\ op = "end" /\ ChunksThen(requests, 1, upload) /\ LastRequest
  <2>1. ChunksThen(requests', 1, upload') /\ LastRequest'
    BY <1>1, <1>8, ChunkTaken
  <2>. QED
    BY <1>1, <1>3, <1>6, <1>8, <2>1 DEF Stream, Behind, ErrorWaiting
<1>. QED
  BY <1>5, <1>7, <1>8

\* Every step keeps the stream in step or one reply behind, up to the second
\* chunk that cannot be written.
LEMMA StreamStep == IInv /\ [Next]_vars => (errors <= 1 => Stream)'
<1>. SUFFICES ASSUME IInv, [Next]_vars, errors' <= 1 PROVE Stream'
  OBVIOUS
<1>0. TypeOK /\ errors \in Nat
  BY StreamAssumption DEF IInv, TypeOK
<1>a. errors' = errors \/ (ServeChunkError /\ errors' = errors + 1)
  BY DEF Next, vars, server, Command, Call, PutQuery, PutInstant, PutBegin, PutEnd, Request,
         PutChunk, PutChunkThrows, Receive, Reconnect, Serve, ServeCall, ServeBegin, ServeChunk, ServeChunkUnexpected,
         ServeChunkError, ServeEnd
<1>b. errors <= 1
  BY <1>0, <1>a
<1>c. Stream
  BY <1>b DEF IInv, Stream
<1>1. CASE Command
  <2>1. PICK o \in {"call", "query"} : Request(o) /\ mode = "ready" /\ chunks' = chunks
    BY <1>1 DEF Command, Call, PutQuery
  <2>. QED
    BY <1>0, <1>b, <1>c, <2>1, SentFromReady DEF Ops
<1>2. CASE PutBegin
  <2>1. Request("begin") /\ mode = "begin" /\ chunks' = chunks /\ "begin" \in Ops \ {"end"}
    BY <1>2 DEF PutBegin, Ops
  <2>. QED
    BY <1>0, <1>b, <1>c, <2>1, SentFromReady
<1>i. CASE PutInstant
  <2>1. Request("instant") /\ mode = "instant" /\ chunks' = chunks /\ "instant" \in Ops \ {"end"}
    BY <1>i DEF PutInstant, Ops
  <2>. QED
    BY <1>0, <1>b, <1>c, <2>1, SentFromReady
<1>t. CASE PutChunkThrows
  BY <1>0, <1>t, <1>b, <1>c, GivenUp
<1>3. CASE PutEnd
  BY <1>0, <1>3, <1>b, <1>c, SentEnd DEF PutEnd
<1>4. CASE PutChunk
  BY <1>0, <1>4, <1>b, <1>c, SentChunk
<1>5. CASE Receive
  BY <1>0, <1>5, <1>b, <1>c, Received
<1>6. CASE Reconnect
  BY <1>6 DEF Reconnect, Stream, InStep
<1>7. CASE ServeCall
  <2>1. PICK ok \in BOOLEAN : Answer(ok)
    BY <1>7 DEF ServeCall
  <2>2. requests # << >> /\ Head(requests).op \in {"call", "query", "instant"} /\ errors' = errors
    BY <1>7 DEF ServeCall, Serving, server
  <2>. QED
    BY <1>0, <1>b, <1>c, <2>1, <2>2, Answered
<1>8. CASE ServeBegin
  <2>1. PICK ok \in BOOLEAN : Answer(ok) /\ upload' = IF ok THEN Head(requests).seq ELSE 0
    BY <1>8 DEF ServeBegin
  <2>2. requests # << >> /\ Head(requests).op = "begin" /\ errors' = errors
    BY <1>8 DEF ServeBegin, Serving
  <2>3. ok => upload' = Head(requests).seq
    BY <2>1
  <2>. QED
    BY <1>0, <1>b, <1>c, <2>1, <2>2, <2>3, Answered
<1>9. CASE ServeChunk
  BY <1>0, <1>9, <1>b, <1>c, ChunkWritten
<1>10. CASE ServeChunkUnexpected
  BY <1>0, <1>10, <1>c, NoneUnexpected
<1>11. CASE ServeChunkError
  <2>1. errors = 0
    BY <1>0, <1>11 DEF ServeChunkError
  <2>. QED
    BY <1>0, <1>11, <1>c, <2>1, ChunkFailed
<1>12. CASE ServeEnd
  <2>0. (upload # 0 /\ ~damaged) \in BOOLEAN
    BY <1>0 DEF TypeOK
  <2>1. PICK ok \in {FALSE, upload # 0 /\ ~damaged} : Answer(ok)
    BY <1>12 DEF ServeEnd
  <2>2. requests # << >> /\ Head(requests).op = "end" /\ errors' = errors
    BY <1>12 DEF ServeEnd, Serving
  <2>3. ok \in BOOLEAN
    BY <2>0, <2>1
  <2>. QED
    BY <1>0, <1>b, <1>c, <2>1, <2>2, <2>3, Answered
<1>13. CASE UNCHANGED vars
  BY <1>c, <1>13 DEF vars, client, server, Stream, InStep, Behind, Sending, Unserved, Served,
         ErrorWaiting, OneLeft, TwoLeft, Follows, LastRequest, ChunksThen
<1>. QED
  BY <1>1, <1>2, <1>3, <1>i, <1>t, <1>4, <1>5, <1>6, <1>7, <1>8, <1>9, <1>10, <1>11, <1>12,
     <1>13 DEF Next, Serve

-----------------------------------------------------------------------------
(* Theorems *)

\* IInv holds in every reachable state.
LEMMA Invariant == Spec => []IInv
<1>1. Init => IInv
  <2>. SUFFICES ASSUME Init PROVE IInv
    OBVIOUS
  <2>1. damaged \in BOOLEAN
    BY Zenon DEF Init
  <2>2. requests \in Seq(Frame) /\ replies \in Seq(Reply)
    BY DEF Init
  <2>3. TypeOK
    BY <2>1, <2>2, StreamAssumption DEF Init, TypeOK, Ops
  <2>4. InStep
    BY DEF Init, InStep
  <2>. QED
    BY <2>3, <2>4 DEF IInv
<1>2. IInv /\ [Next]_vars => IInv'
  BY TypeStep, StreamStep DEF IInv, Stream
<1>. QED
  BY <1>1, <1>2, PTL DEF Spec

\* Without a write error, the frame CloudClient::request takes for its reply is
\* the reply to that request, although it compares no seq.
THEOREM RepliesAreOwn == Spec => []ReplyIsOwn
<1>1. IInv => ReplyIsOwn
  <2>1. SUFFICES ASSUME IInv, errors = 0, mode = "await", replies # << >>
                 PROVE  Head(replies).for = seq
    BY DEF ReplyIsOwn
  <2>2. InStep
    BY <2>1 DEF IInv, Behind
  <2>3. Served
    BY <2>1, <2>2 DEF InStep, Sending, Unserved
  <2>. QED
    BY <2>1, <2>3, Tailed DEF Served, IInv, TypeOK
<1>. QED
  BY <1>1, Invariant, PTL

\* A put that has sent chunks reports another request's success as its own only
\* after two chunks could not be written; after one, only a put that sends none.
THEOREM OneErrorSparesSenders == Spec => []FalseSuccessSendsNothing
<1>1. IInv => FalseSuccessSendsNothing
  <2>1. SUFFICES ASSUME IInv, Misled, ~(errors >= 2)
                 PROVE  errors = 1 /\ chunks = 0
    BY DEF FalseSuccessSendsNothing
  <2>2. /\ mode = "await" /\ op \in {"end", "instant"} /\ replies # << >>
        /\ Head(replies).ok /\ Head(replies).for # seq
    BY <2>1 DEF Misled
  <2>3. Head(replies) = replies[1] /\ errors \in Nat
    BY <2>1, <2>2, Tailed, StreamAssumption DEF IInv, TypeOK
  <2>4. InStep \/ Behind
    BY <2>1, <2>3 DEF IInv
  <2>5. ~InStep
    <3>1. SUFFICES ASSUME InStep PROVE FALSE
      OBVIOUS
    <3>2. Served
      BY <2>2, <3>1 DEF InStep, Sending, Unserved
    <3>. QED
      BY <2>2, <2>3, <3>2 DEF Served
  <2>6. errors = 1 /\ TwoLeft
    BY <2>2, <2>3, <2>4, <2>5 DEF Behind, ErrorWaiting, OneLeft
  <2>. QED
    BY <2>6 DEF TwoLeft
<1>. QED
  BY <1>1, Invariant, PTL
=============================================================================
