--------------------------- MODULE ChunkArithmetic ---------------------------
(***************************************************************************)
(* The offset arithmetic of chunks, in unsigned integers that wrap around  *)
(* at 2 * OffTLimit where the code has 2^64: writeChunk and readChunk, the *)
(* length that onDownloadChunk settles on, what fits in a frame, and the   *)
(* range of a possession challenge.                                        *)
(***************************************************************************)
EXTENDS Naturals

CONSTANTS
    OffTLimit,   \* 2^63: off_t is signed and as wide as uint64_t
    MaxFrame,    \* kMaxFrameSize
    FrameSlack,  \* 64: what onDownloadChunk leaves of it for other fields
    ChunkHeader  \* 40: the file_id and the offset before a chunk's data

ASSUME ChunkAssumption ==
    /\ OffTLimit \in Nat \ {0}
    /\ MaxFrame \in Nat /\ FrameSlack \in Nat /\ ChunkHeader \in Nat
    /\ ChunkHeader <= FrameSlack /\ FrameSlack < MaxFrame

MaxPayload == MaxFrame - FrameSlack

UInt64 == 0 .. 2 * OffTLimit - 1

Plus(a, b) == (a + b) % (2 * OffTLimit)

\* pread and pwrite fail with EINVAL on a negative off_t.
OffT(offset) == offset < OffTLimit

\* writeChunk accepts the chunk and pwrite writes it.
WriteChunk(total, offset, len) == Plus(offset, len) <= total /\ OffT(offset)

\* readChunk: the number of bytes read.
ReadChunk(total, offset, len) ==
    IF offset >= total THEN 0
    ELSE IF Plus(offset, len) > total THEN total - offset
    ELSE len

\* onDownloadChunk: the length it reads, whatever was asked for.
Want(length, chunkSize) == IF length = 0 \/ length > MaxPayload THEN chunkSize ELSE length

\* encode accepts the payload of a chunk with n bytes of data.
Fits(n) == ChunkHeader + n <= MaxFrame

Smaller(a, b) == IF a < b THEN a ELSE b

\* The challenge may begin anywhere in the file.
Mutant_AnyOffset(size, challengeBytes, seed) ==
    IF size = 0 THEN [offset |-> 0, len |-> 0]
    ELSE [offset |-> seed % size,
          len    |-> Smaller(IF challengeBytes = 0 THEN 4096 ELSE challengeBytes, size)]

\* queryInstant: the range whose digest proves possession.
Challenge(size, challengeBytes, seed) ==
    LET clen == Smaller(IF challengeBytes = 0 THEN 4096 ELSE challengeBytes, size) IN
    IF size = 0 THEN [offset |-> 0, len |-> 0]
    ELSE [offset |-> IF size > clen THEN seed % (size - clen) ELSE 0, len |-> clen]
=============================================================================
