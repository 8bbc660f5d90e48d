------------------------------ MODULE MCInputs ------------------------------
(***************************************************************************)
(* The computations of PathGuard and ChunkArithmetic on every small input, *)
(* and the loop of CloudClient::get against onDownloadChunk.  A behaviour  *)
(* is one input; only a get has steps.                                     *)
(***************************************************************************)
EXTENDS PathGuard, ChunkArithmetic

CONSTANTS
    Components,   \* what may stand between two slashes
    MaxParts,     \* bound on the components of a path
    MaxSize       \* cfg_.maxUploadBytes: bound on sizes

ASSUME InputsAssumption == MaxSize < OffTLimit /\ MaxFrame < OffTLimit

VARIABLES
    input,   \* the input
    got,     \* CloudClient::get: the bytes written so far
    result   \* "none" yet, "returned" or "threw"

vars == <<input, got, result>>

-----------------------------------------------------------------------------
(* Inputs *)

UserRoot == <<"u", "al">>
LongerNames == {<<"al", "al2">>}
Fuel == 3

Dir == [kind |-> "dir", to |-> << >>]
File == [kind |-> "file", to |-> << >>]
Link(p) == [kind |-> "link", to |-> p]
Absent == [kind |-> "absent", to |-> << >>]

\* Links to the other user, into it, to the root, to each other.
Nodes == {Absent, Dir, File, Link(<<"u", "al2">>), Link(<<"u", "al2", "x">>),
          Link(<<"u">>), Link(UserRoot \o <<"x">>), Link(UserRoot \o <<"y">>)}

\* The two users' roots, with x, y and x/y below the first.
Tree(x, y, xy) ==
    LET all == [p \in {<<"u">>, UserRoot, <<"u", "al2">>, <<"u", "al2", "x">>,
                       UserRoot \o <<"x">>, UserRoot \o <<"y">>, UserRoot \o <<"x", "y">>} |->
                  CASE p = UserRoot \o <<"x">> -> x
                    [] p = UserRoot \o <<"y">> -> y
                    [] p = UserRoot \o <<"x", "y">> -> IF x = Dir THEN xy ELSE Absent
                    [] OTHER -> Dir]
    IN  [p \in {q \in DOMAIN all : all[q] # Absent} |-> all[p]]

Trees == {Tree(x, y, xy) : x \in Nodes, y \in Nodes, xy \in Nodes}

UpTo(S, n) == UNION {[1 .. k -> S] : k \in 0 .. n}

PathInputs == [kind : {"path"}, parts : UpTo(Components, MaxParts)]
ResolveInputs == [kind : {"resolve"}, fs : Trees, names : UpTo({"x", "y"}, 3),
                  mustExist : BOOLEAN]
WriteInputs == [kind : {"write"}, total : 0 .. MaxSize, offset : UInt64, len : 0 .. MaxPayload]
ChallengeInputs == [kind : {"challenge"}, size : 0 .. MaxSize, bytes : 0 .. MaxPayload,
                    seed : 0 .. MaxSize]
GetInputs == [kind : {"get"}, size : 0 .. MaxSize, chunk : 0 .. MaxFrame + 1]

-----------------------------------------------------------------------------
(* CloudClient::get *)

\* The server's chunk_size is what the client asks for each time.
Received == ReadChunk(input.size, got, Want(input.chunk, input.chunk))

GetReturns ==
    /\ input.kind = "get"
    /\ result = "none"
    /\ got >= input.size
    /\ result' = "returned"
    /\ UNCHANGED <<input, got>>

\* Eof is answered as success, and ends the loop whatever has been received.
GetEof ==
    /\ input.kind = "get"
    /\ result = "none"
    /\ got < input.size
    /\ Received = 0
    /\ result' = "returned"
    /\ UNCHANGED <<input, got>>

\* The server cannot encode the chunk and answers PayloadTooLarge.
GetThrows ==
    /\ input.kind = "get"
    /\ result = "none"
    /\ got < input.size
    /\ Received # 0 /\ ~Fits(Received)
    /\ result' = "threw"
    /\ UNCHANGED <<input, got>>

\* The offset moves by what was asked for, not by what came.
Mutant_AddsAsked ==
    /\ input.kind = "get"
    /\ result = "none"
    /\ got < input.size
    /\ Received # 0 /\ Fits(Received)
    /\ got' = got + Want(input.chunk, input.chunk)
    /\ UNCHANGED <<input, result>>

GetChunk ==
    /\ input.kind = "get"
    /\ result = "none"
    /\ got < input.size
    /\ Received # 0 /\ Fits(Received)
    /\ got' = got + Received
    /\ UNCHANGED <<input, result>>

-----------------------------------------------------------------------------
(* Specification *)

Init ==
    /\ \/ input \in PathInputs
       \/ input \in ResolveInputs
       \/ input \in WriteInputs
       \/ input \in ChallengeInputs
       \/ input \in GetInputs
    /\ got = 0
    /\ result = "none"

Next == GetReturns \/ GetEof \/ GetThrows \/ GetChunk

Spec == Init /\ [][Next]_vars /\ WF_vars(Next)

-----------------------------------------------------------------------------
(* Properties *)

\* normalizeLogical refuses exactly the paths with an illegal component or with
\* a prefix that climbs above the root, and otherwise keeps exactly the names
\* that no later ".." takes back; doing it again changes nothing.
NormalizeIsLexical ==
    input.kind = "path" =>
        LET norm == NormalizeLogical(input.parts) IN
        /\ norm.denied <=> Escapes(input.parts) \/ \E c \in Illegal : Contains(input.parts, c)
        /\ ~norm.denied => /\ norm.st = LexicalNames(input.parts)
                           /\ NormalizeLogical(norm.st) = norm

\* What resolve returns is where the kernel would end up, links followed, and
\* is inside the user's root, although resolve follows the path name by name
\* and asks for the real path of links only.  Where there are no links it finds
\* a path exactly when everything above it is there (with mustExist, the path
\* too), which is what TransferService takes for Resolves.
ResolvedInside ==
    input.kind = "resolve" =>
        LET r == Resolve(input.fs, UserRoot, input.names, input.mustExist, Fuel)
            real == Realpath(input.fs, UserRoot \o input.names, Fuel)
            Above(n) == UserRoot \o SubSeq(input.names, 1, n)
            last == Len(input.names) - (IF input.mustExist THEN 0 ELSE 1)
        IN  /\ r.res = "found" =>
                   /\ SubSeq(r.cur, 1, Len(UserRoot)) = UserRoot
                   /\ r.cur = real \/ (~input.mustExist /\ r.cur \notin DOMAIN input.fs)
            /\ (\A p \in DOMAIN input.fs : input.fs[p].kind # "link") =>
                   (r.res = "found" <=> \A n \in 0 .. last : Above(n) \in DOMAIN input.fs)

\* A chunk is written exactly when it lies in the file, also when the sum of
\* offset and length wraps around: the offset is then negative for pwrite.  The
\* range of a challenge lies in the object, and is not empty unless that is.
ChunksInRange ==
    /\ input.kind = "write" =>
          (WriteChunk(input.total, input.offset, input.len)
              <=> input.offset + input.len <= input.total)
    /\ input.kind = "challenge" =>
          LET c == Challenge(input.size, input.bytes, input.seed) IN
          /\ c.offset + c.len <= input.size
          /\ input.size > 0 => c.len > 0

\* Every get ends.  It throws exactly if its first chunk does not fit in a frame
\* with its header, that is for chunk_size > kMaxFrameSize - 40 and files longer
\* than that; otherwise it reports success with the whole file, unless chunk_size
\* is 0: then the first chunk is empty, reads as eof, and an empty file is
\* reported as a success.
GetIsWhole ==
    input.kind = "get" =>
        <>(/\ result # "none"
           /\ result = "threw" <=> Smaller(input.chunk, input.size) > MaxFrame - ChunkHeader
           /\ result = "returned" => (got = input.size <=> input.size = 0 \/ input.chunk > 0))
=============================================================================
