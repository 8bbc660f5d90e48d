---------------------------- MODULE UploadProofs ----------------------------
(***************************************************************************)
(* Proofs about ChunkedUpload, for any number of connections, blocks,      *)
(* inodes and faults, and about ChunkArithmetic, for every width.          *)
(***************************************************************************)
EXTENDS ChunkedUpload, ChunkArithmetic, SequenceTheorems, TLAPS

-----------------------------------------------------------------------------
(* The inductive invariant *)

\* An object is the beginning of the file, whole or cut by a crash.
ObjectIsPrefix ==
    /\ Len(object) <= N
    /\ \A k \in 1 .. Len(object) : object[k] = "good"

\* The whole invariant.
IInv == TypeOK /\ ObjectIsPrefix

\* What one attempt is.
Attempt == [phase : Phase, size : Sizes, fd : Inodes \cup {NoInode}, sent : Nat]

\* A step that changes no part file's blocks and opens no descriptor.
Quiet ==
    /\ data' = data
    /\ part' \in Inodes \cup {NoInode}
    /\ row' \in {"none", "old", "this"}
    /\ shared' \in BOOLEAN
    /\ faults' \in 0 .. MaxFaults
    /\ conn' \in [Conns -> Attempt]
    /\ \A c \in Conns : conn'[c] = conn[c] \/ (conn'[c].phase # "send" /\ conn'[c].fd \notin Inodes)

-----------------------------------------------------------------------------
(* Lemmas *)

\* A write never makes a part file shorter, reaches as far as its block, and
\* leaves a hole only if it goes past the end.
LEMMA PWriteGrows ==
    ASSUME NEW blocks \in Seq(Block), NEW b \in {"good", "bad"}, NEW o \in Nat
    PROVE  /\ PWrite(blocks, o, b) \in Seq(Block)
           /\ Len(PWrite(blocks, o, b)) >= Len(blocks)
           /\ Len(PWrite(blocks, o, b)) >= o + 1
           /\ o <= Len(blocks) /\ ~HasHole(blocks) => ~HasHole(PWrite(blocks, o, b))
<1> DEFINE n == IF o < Len(blocks) THEN Len(blocks) ELSE o + 1
           w == PWrite(blocks, o, b)
<1>1. Len(blocks) \in Nat /\ n \in Nat /\ n >= Len(blocks) /\ n >= o + 1
  OBVIOUS
<1>2. o <= Len(blocks) => \A i \in 1 .. n : i = o + 1 \/ i \in 1 .. Len(blocks)
  BY <1>1
<1> HIDE DEF n
<1>3. w = [i \in 1 .. n |-> IF i = o + 1 THEN b ELSE IF i <= Len(blocks) THEN blocks[i] ELSE "hole"]
  BY DEF PWrite, n
<1>4. ASSUME NEW i \in 1 .. n PROVE w[i] \in Block
  <2>1. CASE i = o + 1
    BY <1>3, <2>1 DEF Block
  <2>2. CASE i # o + 1 /\ i <= Len(blocks)
    <3>1. i \in 1 .. Len(blocks) /\ w[i] = blocks[i]
      BY <1>1, <1>3, <2>2
    <3> QED BY <3>1
  <2>3. CASE i # o + 1 /\ ~(i <= Len(blocks))
    BY <1>3, <2>3 DEF Block
  <2> QED BY <2>1, <2>2, <2>3
<1>5. w \in Seq(Block) /\ Len(w) = n
  <2>1. w \in [1 .. n -> Block]
    BY <1>3, <1>4
  <2> QED BY <1>1, <2>1
<1>6. ASSUME o <= Len(blocks), ~HasHole(blocks), NEW i \in 1 .. n PROVE w[i] # "hole"
  <2>1. CASE i = o + 1
    BY <1>3, <2>1
  <2>2. CASE i # o + 1
    <3>1. i \in 1 .. Len(blocks) /\ i <= Len(blocks) /\ w[i] = blocks[i]
      BY <1>1, <1>2, <1>3, <1>6, <2>2
    <3> QED BY <1>6, <3>1 DEF HasHole
  <2> QED BY <2>1, <2>2
<1> HIDE DEF w
<1>7. o <= Len(blocks) /\ ~HasHole(blocks) => ~HasHole(w)
  BY <1>5, <1>6 DEF HasHole
<1> QED BY <1>1, <1>5, <1>7 DEF w

\* beginUpload finds an inode for a new part file.
LEMMA NewInodeFree ==
    ASSUME TypeOK, part = NoInode
    PROVE  NewInode \in Inodes /\ \A c \in Conns : conn[c].fd # NewInode
<1> DEFINE fds == [c \in Conns |-> conn[c].fd]
<1>1. fds \in [Conns -> Inodes \cup {NoInode}]
  BY DEF TypeOK
<1>2. \E i \in Inodes : \A c \in Conns : fds[c] # i
  BY <1>1, InodesAssumption
<1>3. \E i \in Inodes : i # part /\ \A c \in Conns : conn[c].fd # i
  BY <1>2, UploadAssumption
<1> QED BY <1>3 DEF NewInode

\* What a crash in the middle of copyToObjectStore leaves.
LEMMA CopiedPrefix ==
    ASSUME NEW k \in 0 .. N
    PROVE  LET o == SubSeq(Intact, 1, k)
           IN  o \in Seq(Block) /\ Len(o) = k /\ \A i \in 1 .. k : o[i] = "good"
<1> DEFINE o == SubSeq(Intact, 1, k)
<1>1. k \in Nat /\ N \in Nat /\ 1 \in Int /\ k \in Int /\ k - 1 + 1 = k
  BY UploadAssumption
<1>2. \A i \in 1 .. k : Intact[i] = "good" /\ Intact[i] \in Block
  BY <1>1 DEF Intact, Block
<1>3. /\ o \in Seq(Block)
      /\ Len(o) = IF 1 <= k THEN k - 1 + 1 ELSE 0
      /\ \A i \in 1 .. k - 1 + 1 : o[i] = Intact[1 + i - 1]
  BY <1>1, <1>2, SubSeqProperties
<1> HIDE DEF o
<1>4. \A i \in 1 .. k : 1 + i - 1 = i
  BY <1>1
<1>5. Len(o) = k
  <2>1. \A n \in Nat : (IF 1 <= n THEN n - 1 + 1 ELSE 0) = n
    OBVIOUS
  <2> QED BY <1>1, <1>3, <2>1
<1>6. \A i \in 1 .. k : o[i] = "good"
  BY <1>1, <1>2, <1>3, <1>4
<1> QED BY <1>3, <1>5, <1>6 DEF o

\* What the outcomes of an attempt make of it.
LEMMA Outcomes ==
    ASSUME TypeOK
    PROVE  /\ conn \in [Conns -> Attempt]
           /\ Fresh \in Attempt /\ Fresh.phase # "send" /\ Fresh.fd \notin Inodes
           /\ AllCut \in [Conns -> Attempt]
           /\ \A c \in Conns : AllCut[c].phase # "send" /\ AllCut[c].fd \notin Inodes
           /\ \A c \in Conns : LET d == [Fresh EXCEPT !.phase = "done", !.size = conn[c].size]
                               IN  d \in Attempt /\ d.phase # "send" /\ d.fd \notin Inodes
<1>1. conn \in [Conns -> Attempt] /\ N \in Sizes /\ 0 \in Nat
  BY UploadAssumption DEF TypeOK, Attempt, Sizes
<1>2. Fresh \in Attempt /\ Fresh.phase # "send" /\ Fresh.fd \notin Inodes
  BY <1>1, UploadAssumption DEF Fresh, Attempt, Phase
<1>3. /\ AllCut \in [Conns -> Attempt]
      /\ \A c \in Conns : AllCut[c].phase # "send" /\ AllCut[c].fd \notin Inodes
  BY <1>1, <1>2 DEF TypeOK, AllCut
<1>4. \A c \in Conns : LET d == [Fresh EXCEPT !.phase = "done", !.size = conn[c].size]
                       IN  d \in Attempt /\ d.phase # "send" /\ d.fd \notin Inodes
  BY <1>1, UploadAssumption DEF Fresh, Attempt, Phase
<1> QED BY <1>1, <1>2, <1>3, <1>4

\* An attempt that fails, or that is answered, has no descriptor.
LEMMA EndsQuiet ==
    ASSUME TypeOK, NEW c \in Conns, NEW heard \in BOOLEAN,
           (Fails(c) /\ faults' \in 0 .. MaxFaults) \/ Answered(c, heard)
    PROVE  /\ faults' \in 0 .. MaxFaults
           /\ conn' \in [Conns -> Attempt]
           /\ \A d \in Conns : conn'[d] = conn[d] \/ (conn'[d].phase # "send" /\ conn'[d].fd \notin Inodes)
<1>1. faults \in 0 .. MaxFaults /\ MaxFaults \in Nat
  BY UploadAssumption DEF TypeOK
<1>2. faults' \in 0 .. MaxFaults
  BY <1>1 DEF Answered, Fault
<1>3. PICK a \in Attempt : conn' = [conn EXCEPT ![c] = a] /\ a.phase # "send" /\ a.fd \notin Inodes
  BY Outcomes DEF Answered, Fails, Done
<1> QED BY <1>2, <1>3, Outcomes

\* A step is a chunk, an upload_begin, or quiet.
LEMMA StepKinds ==
    ASSUME TypeOK, [Next]_vars
    PROVE  \/ Quiet
           \/ \E c \in Conns : UploadBegin(c)
           \/ \E c \in Conns : \E b \in {"good", "bad"} : Chunk(c, b) /\ faults' \in 0 .. MaxFaults
<1>1. /\ conn \in [Conns -> Attempt] /\ part \in Inodes \cup {NoInode}
      /\ row \in {"none", "old", "this"} /\ shared \in BOOLEAN
      /\ faults \in 0 .. MaxFaults /\ MaxFaults \in Nat /\ NoInode \notin Inodes
      /\ \A c \in Conns : conn[c].phase # "send" => conn[c].fd \notin Inodes
  BY UploadAssumption DEF TypeOK, Attempt
<1>2. Fault => faults' \in 0 .. MaxFaults
  BY <1>1 DEF Fault
<1>3. CASE UNCHANGED vars
  BY <1>1, <1>3 DEF vars, Quiet
<1>4. CASE Crash
  BY <1>1, <1>2, <1>4, Outcomes DEF Crash, Quiet
<1>5. CASE OthersPut \/ OthersRelease
  BY <1>1, <1>2, <1>5 DEF OthersPut, OthersRelease, Quiet
<1>6. ASSUME NEW c \in Conns, NEW size \in Sizes, InstantQuery(c, size), faults' \in 0 .. MaxFaults
      PROVE  Quiet
  <2>1. PICK p \in {"instant", "begin"} : conn' = [conn EXCEPT ![c].phase = p, ![c].size = size]
    BY <1>6 DEF InstantQuery
  <2>2. conn[c].fd \notin Inodes /\ UNCHANGED <<part, data, row, shared>>
    BY <1>1, <1>6 DEF InstantQuery
  <2>3. /\ conn' \in [Conns -> Attempt]
        /\ conn'[c].phase = p /\ conn'[c].fd = conn[c].fd
        /\ \A d \in Conns \ {c} : conn'[d] = conn[d]
    BY <1>1, <1>6, <2>1 DEF Attempt, Phase
  <2> QED BY <1>1, <1>6, <2>2, <2>3 DEF Quiet
<1>7. ASSUME NEW c \in Conns, NEW overwrite \in BOOLEAN, NEW heard \in BOOLEAN,
             InstantUpload(c, overwrite, heard)
      PROVE  Quiet
  BY <1>1, <1>7, EndsQuiet DEF InstantUpload, Quiet
<1>8. ASSUME NEW c \in Conns, NEW overwrite \in BOOLEAN,
             InstantConflict(c, overwrite) \/ InstantRefused(c) \/ EndSizeMismatch(c)
             \/ EndMd5Mismatch(c) \/ Cut(c) \/ CopyFails(c)
      PROVE  Quiet
  <2>1. /\ Fails(c) /\ faults' \in 0 .. MaxFaults /\ UNCHANGED <<data, shared>>
        /\ part' \in {part, NoInode} /\ row' \in {row, "none"}
    BY <1>1, <1>2, <1>8 DEF InstantConflict, InstantRefused, EndSizeMismatch, EndMd5Mismatch, Cut,
                            CopyFails
  <2> QED BY <1>1, <2>1, EndsQuiet DEF Quiet
<1>9. ASSUME NEW c \in Conns, NEW heard \in BOOLEAN, EndPublished(c, heard) PROVE Quiet
  BY <1>1, <1>9, EndsQuiet DEF EndPublished, Quiet
<1>10. ASSUME NEW c \in Conns, CrashInCopy(c) \/ CrashBeforeIndex(c) PROVE Quiet
  BY <1>1, <1>2, <1>10, Outcomes DEF CrashInCopy, CrashBeforeIndex, Quiet
<1>11. ASSUME NEW c \in Conns, SendChunk(c) \/ SendCorrupted(c)
       PROVE  \E b \in {"good", "bad"} : Chunk(c, b) /\ faults' \in 0 .. MaxFaults
  BY <1>1, <1>2, <1>11 DEF SendChunk, SendCorrupted
<1>12. N \in Sizes /\ Overwrites \subseteq BOOLEAN /\ TRUE \in BOOLEAN /\ FALSE \in BOOLEAN
  BY UploadAssumption DEF Sizes
<1>13. ASSUME NEW c \in Conns, Progress(c)
       PROVE  Quiet \/ UploadBegin(c)
              \/ \E b \in {"good", "bad"} : Chunk(c, b) /\ faults' \in 0 .. MaxFaults
  BY <1>1, <1>6, <1>7, <1>8, <1>9, <1>11, <1>12, <1>13 DEF Progress
<1>14. ASSUME NEW c \in Conns, Mishap(c)
       PROVE  Quiet \/ \E b \in {"good", "bad"} : Chunk(c, b) /\ faults' \in 0 .. MaxFaults
  BY <1>1, <1>2, <1>6, <1>7, <1>8, <1>9, <1>10, <1>11, <1>12, <1>14 DEF Mishap
<1> QED BY <1>3, <1>4, <1>5, <1>13, <1>14 DEF Next

\* What a chunk, right or wrong, does to the part file its descriptor holds.
LEMMA ChunkWrites ==
    ASSUME TypeOK, NEW c \in Conns, NEW b \in {"good", "bad"}, Chunk(c, b)
    PROVE  /\ conn[c].fd \in Inodes /\ conn[c].sent \in Nat
           /\ conn' \in [Conns -> Attempt]
           /\ \A d \in Conns : conn'[d].phase = conn[d].phase /\ conn'[d].fd = conn[d].fd
           /\ \A d \in Conns : conn'[d].sent = IF d = c THEN conn[c].sent + 1 ELSE conn[d].sent
           /\ data' \in [Inodes -> Seq(Block)]
           /\ \A i \in Inodes : data'[i] = IF i = conn[c].fd THEN PWrite(data[i], conn[c].sent, b)
                                           ELSE data[i]
<1>1. /\ conn[c].phase = "send"
      /\ data' = [data EXCEPT ![conn[c].fd] = PWrite(@, conn[c].sent, b)]
      /\ conn' = [conn EXCEPT ![c].sent = @ + 1]
  BY DEF Chunk
<1>2. conn \in [Conns -> Attempt] /\ data \in [Inodes -> Seq(Block)] /\ conn[c] \in Attempt
  BY DEF TypeOK, Attempt
<1>3. conn[c].fd \in Inodes /\ conn[c].sent \in Nat
  BY <1>1, <1>2 DEF TypeOK, Attempt
<1>4. PWrite(data[conn[c].fd], conn[c].sent, b) \in Seq(Block)
  BY <1>2, <1>3, PWriteGrows
<1>5. /\ conn' \in [Conns -> Attempt]
      /\ \A d \in Conns : conn'[d].phase = conn[d].phase /\ conn'[d].fd = conn[d].fd
      /\ \A d \in Conns : conn'[d].sent = IF d = c THEN conn[c].sent + 1 ELSE conn[d].sent
  BY <1>1, <1>2, <1>3 DEF Attempt
<1>6. /\ data' \in [Inodes -> Seq(Block)]
      /\ \A i \in Inodes : data'[i] = IF i = conn[c].fd THEN PWrite(data[i], conn[c].sent, b)
                                      ELSE data[i]
  BY <1>1, <1>2, <1>3, <1>4
<1> QED BY <1>3, <1>5, <1>6

\* What upload_begin opens: a new part file, which no descriptor holds, or the
\* one at the path, truncated if it is longer than the size claimed.
LEMMA BeginOpens ==
    ASSUME TypeOK, NEW c \in Conns, UploadBegin(c)
    PROVE  /\ conn[c].phase = "begin" /\ part' \in Inodes
           /\ data' \in [Inodes -> Seq(Block)]
           /\ conn' \in [Conns -> Attempt]
           /\ \A d \in Conns \ {c} : conn'[d] = conn[d]
           /\ conn'[c].phase = "send" /\ conn'[c].fd = part' /\ conn'[c].sent = Len(data'[part'])
           /\ \A i \in Inodes :
                 \/ data'[i] = data[i]
                 \/ /\ i = part' /\ data'[i] = << >>
                    /\ (\A d \in Conns : conn[d].fd # i) \/ conn[c].size < PartSize
<1> DEFINE i == IF part = NoInode THEN NewInode ELSE part
<1>1. /\ conn[c].phase = "begin" /\ part' = i
      /\ data' = IF part = NoInode \/ PartSize > conn[c].size THEN [data EXCEPT ![i] = << >>] ELSE data
      /\ conn' = [conn EXCEPT ![c].phase = "send", ![c].fd = i, ![c].sent = Len(data'[i])]
  BY DEF UploadBegin
<1>2. conn \in [Conns -> Attempt] /\ data \in [Inodes -> Seq(Block)] /\ conn[c] \in Attempt
  BY DEF TypeOK, Attempt
<1>3. /\ i \in Inodes
      /\ part = NoInode => \A d \in Conns : conn[d].fd # i
  BY NewInodeFree DEF TypeOK
<1>4. conn[c].size \in Nat /\ PartSize \in Nat
  <2>1. conn[c].size \in Nat
    BY <1>2, UploadAssumption DEF Attempt, Sizes
  <2>2. PartSize \in Nat
    BY <1>2 DEF TypeOK, PartSize
  <2> QED BY <2>1, <2>2
<1> HIDE DEF i
<1>5. << >> \in Seq(Block)
  OBVIOUS
<1>6. /\ data' \in [Inodes -> Seq(Block)]
      /\ \A j \in Inodes : data'[j] = data[j]
                           \/ (j = i /\ data'[j] = << >> /\ (part = NoInode \/ PartSize > conn[c].size))
  BY <1>1, <1>2, <1>3, <1>5
<1>7. Len(data'[i]) \in Nat
  BY <1>3, <1>6
<1>8. /\ conn' \in [Conns -> Attempt]
      /\ \A d \in Conns \ {c} : conn'[d] = conn[d]
      /\ conn'[c].phase = "send" /\ conn'[c].fd = i /\ conn'[c].sent = Len(data'[i])
  BY <1>1, <1>2, <1>3, <1>7 DEF Attempt, Phase
<1> QED BY <1>1, <1>3, <1>4, <1>6, <1>8

-----------------------------------------------------------------------------
(* The invariant is inductive *)

\* The first attempt has not begun.
LEMMA InitIInv == Init => IInv
<1> SUFFICES ASSUME Init PROVE IInv
  OBVIOUS
<1> USE DEF Init
<1>1. << >> \in Seq(Block) /\ Len(<< >>) = 0 /\ N \in Nat
  BY UploadAssumption
<1>2. TypeOK
  <2>1. Fresh \in Attempt /\ Fresh.phase # "send" /\ Fresh.fd \notin Inodes
    BY <1>1, UploadAssumption DEF Fresh, Attempt, Phase, Sizes
  <2>2. conn \in [Conns -> Attempt] /\ \A c \in Conns : conn[c] = Fresh
    BY <2>1
  <2>3. shared \in BOOLEAN /\ row \in {"none", "old", "this"} /\ data \in [Inodes -> Seq(Block)]
    BY <1>1
  <2>4. faults \in 0 .. MaxFaults
    BY UploadAssumption
  <2> QED BY <1>1, <2>1, <2>2, <2>3, <2>4 DEF TypeOK, Attempt
<1>3. ObjectIsPrefix
  BY <1>1 DEF ObjectIsPrefix
<1> QED BY <1>2, <1>3 DEF IInv

\* What a step may make of the object: nothing, or the beginning of the file.
LEMMA ObjectMoves ==
    ASSUME TypeOK, [Next]_vars
    PROVE  object' = object \/ object' = << >> \/ object' = Intact
           \/ \E k \in 0 .. N : object' = SubSeq(Intact, 1, k)
<1>1. Released = object \/ Released = << >>
  BY DEF Released
<1>2. Published(Intact) = Released \/ Published(Intact) = Intact
  BY DEF Published
<1>3. Len(Intact) = N
  BY UploadAssumption DEF Intact
<1>4. Copying(Intact) \subseteq {Released} \cup {SubSeq(Intact, 1, k) : k \in 0 .. N}
  BY <1>3 DEF Copying
<1>5. CASE UNCHANGED vars
  BY <1>5 DEF vars
<1>6. CASE Crash \/ OthersPut \/ OthersRelease
  BY <1>6 DEF Crash, OthersPut, OthersRelease
<1>7. ASSUME NEW c \in Conns, Progress(c) PROVE object' = object \/ object' = << >> \/ object' = Intact
  BY <1>1, <1>2, <1>7
     DEF Progress, InstantQuery, InstantUpload, InstantConflict, InstantRefused, UploadBegin,
         SendChunk, Chunk, EndSizeMismatch, EndMd5Mismatch, EndPublished, Passes
<1>8. ASSUME NEW c \in Conns, Mishap(c)
      PROVE  object' = object \/ object' = << >> \/ object' = Intact
             \/ \E k \in 0 .. N : object' = SubSeq(Intact, 1, k)
  <2>1. CASE CrashInCopy(c)
    <3>1. object' \in Copying(Intact)
      BY <2>1 DEF CrashInCopy, Passes
    <3> QED BY <1>1, <1>4, <3>1
  <2>2. CASE ~CrashInCopy(c)
    BY <1>1, <1>2, <1>8, <2>2
       DEF Mishap, InstantQuery, InstantUpload, EndPublished, Passes, SendCorrupted, Chunk, Cut,
           CrashBeforeIndex, CopyFails
  <2> QED BY <2>1, <2>2
<1> QED BY <1>5, <1>6, <1>7, <1>8 DEF Next

\* Every step keeps the invariant.
LEMMA StepIInv == IInv /\ [Next]_vars => IInv'
<1> SUFFICES ASSUME IInv, [Next]_vars PROVE IInv'
  OBVIOUS
<1>1. TypeOK /\ N \in Nat
  BY UploadAssumption DEF IInv
<1>2. object' \in Seq(Block) /\ ObjectIsPrefix'
  <2>1. CASE object' = object
    BY <2>1 DEF IInv, TypeOK, ObjectIsPrefix
  <2>2. CASE object' = << >>
    BY <1>1, <2>2 DEF ObjectIsPrefix
  <2>3. CASE object' = Intact
    <3>1. Intact \in Seq(Block) /\ Len(Intact) = N /\ \A k \in 1 .. N : Intact[k] = "good"
      BY <1>1 DEF Intact, Block
    <3> QED BY <1>1, <2>3, <3>1 DEF ObjectIsPrefix
  <2>4. ASSUME NEW k \in 0 .. N, object' = SubSeq(Intact, 1, k)
        PROVE  object' \in Seq(Block) /\ ObjectIsPrefix'
    <3>1. object' \in Seq(Block) /\ Len(object') = k /\ \A j \in 1 .. k : object'[j] = "good"
      BY <2>4, CopiedPrefix
    <3> QED BY <1>1, <3>1 DEF ObjectIsPrefix
  <2> QED BY <1>1, <2>1, <2>2, <2>3, <2>4, ObjectMoves
<1>3. TypeOK'
  <2>1. CASE Quiet
    BY <1>1, <1>2, <2>1 DEF TypeOK, Quiet, Attempt
  <2>2. ASSUME NEW c \in Conns, UploadBegin(c) PROVE TypeOK'
    <3>1. UNCHANGED <<row, shared, faults>>
      BY <2>2 DEF UploadBegin
    <3>2. /\ part' \in Inodes /\ data' \in [Inodes -> Seq(Block)] /\ conn' \in [Conns -> Attempt]
          /\ \A d \in Conns \ {c} : conn'[d] = conn[d]
          /\ conn'[c].phase = "send" /\ conn'[c].fd = part'
      BY <1>1, <2>2, BeginOpens
    <3>3. \A d \in Conns : conn'[d].fd \in Inodes <=> conn'[d].phase = "send"
      BY <1>1, <3>2 DEF TypeOK
    <3> QED BY <1>1, <1>2, <3>1, <3>2, <3>3 DEF TypeOK, Attempt
  <2>3. ASSUME NEW c \in Conns, NEW b \in {"good", "bad"}, Chunk(c, b), faults' \in 0 .. MaxFaults
        PROVE  TypeOK'
    <3>1. UNCHANGED <<part, row, shared>>
      BY <2>3 DEF Chunk
    <3>2. /\ data' \in [Inodes -> Seq(Block)] /\ conn' \in [Conns -> Attempt]
          /\ \A d \in Conns : conn'[d].phase = conn[d].phase /\ conn'[d].fd = conn[d].fd
      BY <1>1, <2>3, ChunkWrites
    <3> QED BY <1>1, <1>2, <2>3, <3>1, <3>2 DEF TypeOK, Attempt
  <2> QED BY <1>1, <2>1, <2>2, <2>3, StepKinds
<1> QED BY <1>2, <1>3 DEF IInv

-----------------------------------------------------------------------------
(* Theorems *)

\* A descriptor is open exactly while its attempt is sending, whatever is cut,
\* crashes or fails.
THEOREM DescriptorsMatchPhases == Spec => []TypeOK
<1>1. IInv => TypeOK
  BY DEF IInv
<1> QED BY InitIInv, StepIInv, <1>1, PTL DEF Spec

\* An object with the length of the file is the file.
LEMMA PrefixIntact == IInv => ObjectIntact
<1> SUFFICES ASSUME IInv, Len(object) = N PROVE object = Intact
  BY DEF ObjectIntact
<1>1. object \in Seq(Block) /\ \A k \in 1 .. N : object[k] = "good"
  BY DEF IInv, TypeOK, ObjectIsPrefix
<1>2. object = [k \in 1 .. N |-> object[k]]
  BY <1>1
<1> QED BY <1>1, <1>2 DEF Intact

\* An object of the right size is the right object: instant_query may compare
\* sizes only.
THEOREM SizeProvesContent == Spec => []ObjectIntact
BY InitIInv, StepIInv, PrefixIntact, PTL DEF Spec

\* A chunk takes its attempt no further than the file it has just written, and
\* takes nobody else's file away.
LEMMA ChunkStaysBehind ==
    ASSUME TypeOK, NEW c \in Conns, NEW b \in {"good", "bad"}, Chunk(c, b)
    PROVE  HolesStep
<1> DEFINE f == conn[c].fd
           o == conn[c].sent
           w == PWrite(data[f], o, b)
<1>1. /\ f \in Inodes /\ o \in Nat
      /\ \A d \in Conns : conn'[d].phase = conn[d].phase /\ conn'[d].fd = conn[d].fd
      /\ \A d \in Conns : conn'[d].sent = IF d = c THEN o + 1 ELSE conn[d].sent
      /\ \A i \in Inodes : data'[i] = IF i = f THEN PWrite(data[i], o, b) ELSE data[i]
  BY ChunkWrites
<1>2. data \in [Inodes -> Seq(Block)] /\ data[f] \in Seq(Block) /\ conn[c].phase = "send"
  BY <1>1 DEF TypeOK, Chunk
<1>3. /\ w \in Seq(Block) /\ Len(w) >= Len(data[f]) /\ Len(w) >= o + 1
      /\ o <= Len(data[f]) /\ ~HasHole(data[f]) => ~HasHole(w)
  BY <1>1, <1>2, PWriteGrows
<1>4. Len(w) \in Nat /\ Len(data[f]) \in Nat
  BY <1>2, <1>3
<1>5. \A i \in Inodes : data'[i] = IF i = f THEN w ELSE data[i]
  BY <1>1
<1> HIDE DEF f, o, w
<1>6. ASSUME NEW d \in Conns, Ahead(d)' PROVE Ahead(d)
  <2>1. /\ conn[d].phase = "send" /\ conn[d].fd \in Inodes /\ conn'[d].fd = conn[d].fd
        /\ conn[d].sent \in Nat /\ conn'[d].sent > Len(data'[conn[d].fd])
    BY <1>1, <1>6 DEF Ahead, TypeOK
  <2>2. CASE d = c
    <3>1. conn'[d].sent = o + 1 /\ conn[d].fd = f /\ data'[conn[d].fd] = w
      BY <1>1, <1>5, <2>2 DEF f
    <3> QED BY <1>1, <1>3, <1>4, <2>1, <3>1
  <2>3. CASE d # c /\ conn[d].fd = f
    <3>1. conn'[d].sent = conn[d].sent /\ data'[conn[d].fd] = w
      BY <1>1, <1>5, <2>3
    <3>2. conn[d].sent > Len(data[f])
      BY <1>3, <1>4, <2>1, <3>1
    <3> QED BY <2>1, <2>3, <3>2 DEF Ahead
  <2>4. CASE d # c /\ conn[d].fd # f
    BY <1>1, <1>5, <2>1, <2>4 DEF Ahead
  <2> QED BY <2>2, <2>3, <2>4
<1>7. ASSUME NEW i \in Inodes, ~HasHole(data[i]), HasHole(data'[i])
      PROVE  Ahead(c) /\ conn[c].fd = i
  <2>1. i = f /\ data'[i] = w
    BY <1>5, <1>7
  <2>2. ~(o <= Len(data[f]))
    BY <1>3, <1>7, <2>1
  <2>3. o > Len(data[f])
    BY <1>1, <1>4, <2>2
  <2> QED BY <1>2, <2>1, <2>3 DEF Ahead, f, o
<1> QED BY <1>6, <1>7 DEF HolesStep

\* An upload_begin starts at the end of its file; it takes the file away from
\* the others only if it claims a smaller size.
LEMMA BeginStaysBehind ==
    ASSUME TypeOK, NEW c \in Conns, UploadBegin(c)
    PROVE  HolesStep
<1>1. /\ conn[c].phase = "begin" /\ part' \in Inodes
      /\ data' \in [Inodes -> Seq(Block)]
      /\ \A d \in Conns \ {c} : conn'[d] = conn[d]
      /\ conn'[c].phase = "send" /\ conn'[c].fd = part' /\ conn'[c].sent = Len(data'[part'])
      /\ \A i \in Inodes :
            \/ data'[i] = data[i]
            \/ /\ i = part' /\ data'[i] = << >>
               /\ (\A d \in Conns : conn[d].fd # i) \/ conn[c].size < PartSize
  BY BeginOpens
<1>2. ASSUME NEW d \in Conns, ~Ahead(d), Ahead(d)'
      PROVE  d # c /\ conn[c].size < PartSize
  <2>1. d # c
    <3>1. Len(data'[part']) \in Nat
      BY <1>1
    <3>2. conn'[c].fd = part' /\ ~(conn'[c].sent > Len(data'[part']))
      BY <1>1, <3>1
    <3> QED BY <1>2, <3>2 DEF Ahead
  <2>2. conn'[d] = conn[d] /\ conn[d].phase = "send" /\ conn[d].fd \in Inodes
    BY <1>1, <1>2, <2>1 DEF Ahead, TypeOK
  <2>3. data'[conn[d].fd] # data[conn[d].fd]
    BY <1>2, <2>2 DEF Ahead
  <2> QED BY <1>1, <2>1, <2>2, <2>3
<1>3. ~HasHole(<< >>)
  BY DEF HasHole
<1>4. \A i \in Inodes : HasHole(data'[i]) => HasHole(data[i])
  BY <1>1, <1>3
<1> QED BY <1>1, <1>2, <1>4 DEF HolesStep

\* Resuming skips no block of any part file but one that an upload_begin with a
\* smaller size has truncated under an open descriptor.
THEOREM ResumesWithoutHoles == Spec => HolesOnlyByTruncation
<1>1. TypeOK /\ [Next]_vars => [HolesStep]_vars
  <2> SUFFICES ASSUME TypeOK, [Next]_vars PROVE HolesStep
    OBVIOUS
  <2>1. CASE Quiet
    <3>1. data' = data /\ \A c \in Conns : conn'[c] = conn[c] \/ conn'[c].phase # "send"
      BY <2>1 DEF Quiet
    <3> QED BY <3>1 DEF HolesStep, Ahead
  <2> QED BY <2>1, StepKinds, ChunkStaysBehind, BeginStaysBehind
<1> QED BY DescriptorsMatchPhases, <1>1, PTL DEF Spec, HolesOnlyByTruncation

\* A complete object keeps its blocks as long as the path or another one keeps
\* referring to it, if no put overwrites: upload_end writes it again with what it
\* was.  (With --overwrite, instant_upload of the path's own content unlinks it.)
THEOREM ObjectsStayWhole == ASSUME TRUE \notin Overwrites PROVE Spec => ObjectStays
<1>1. IInv /\ [Next]_vars => [KeptIntact]_vars
  <2> SUFFICES ASSUME IInv, [Next]_vars, Len(object) = N,
                      \/ shared /\ shared'
                      \/ row = "this" /\ row' = "this"
               PROVE  object' = object
    BY Zenon DEF KeptIntact
  <2>1. object = Intact
    BY PrefixIntact DEF ObjectIntact
  <2>2. shared => Released = object
    BY DEF Released
  <2>3. Published(Intact) = object
    BY <2>1, <2>2 DEF Published, Released
  <2>4. Copying(Intact) = IF Len(Released) = N THEN {Released} ELSE Copying(Intact)
    BY DEF Copying
  <2>5. \A overwrite \in Overwrites : ~overwrite
    BY UploadAssumption
  <2>6. ASSUME NEW c \in Conns, NEW overwrite \in Overwrites, NEW heard \in BOOLEAN,
               InstantUpload(c, overwrite, heard)
        PROVE  object' = object
    BY <2>2, <2>5, <2>6 DEF InstantUpload
  <2>7. ASSUME NEW c \in Conns, NEW heard \in BOOLEAN, EndPublished(c, heard) PROVE object' = object
    BY <2>3, <2>7 DEF EndPublished, Passes
  <2>8. ASSUME NEW c \in Conns, CrashInCopy(c) \/ CrashBeforeIndex(c) \/ CopyFails(c)
        PROVE  object' = object
    <3>1. shared
      BY <2>8 DEF CrashInCopy, CrashBeforeIndex, CopyFails
    <3> QED BY <2>2, <2>3, <2>4, <2>8, <3>1 DEF CrashInCopy, CrashBeforeIndex, CopyFails, Passes
  <2>9. ASSUME NEW c \in Conns, Progress(c) PROVE object' = object
    BY <2>6, <2>7, <2>9
       DEF Progress, InstantQuery, InstantConflict, InstantRefused, UploadBegin, SendChunk, Chunk,
           EndSizeMismatch, EndMd5Mismatch
  <2>10. ASSUME NEW c \in Conns, Mishap(c) PROVE object' = object
    BY <2>6, <2>7, <2>8, <2>10 DEF Mishap, InstantQuery, SendCorrupted, Chunk, Cut
  <2>11. CASE Crash \/ OthersPut \/ OthersRelease
    BY <2>11 DEF Crash, OthersPut, OthersRelease
  <2> QED BY <2>9, <2>10, <2>11 DEF Next, vars
<1> QED BY InitIInv, StepIInv, <1>1, PTL DEF Spec, ObjectStays


-----------------------------------------------------------------------------
(* The offsets of chunks *)

\* A sum of two unsigned numbers wraps around at most once.
LEMMA Wraps ==
    ASSUME NEW full \in Nat \ {0}, NEW a \in Nat, a < 2 * full
    PROVE  a % full = IF a < full THEN a ELSE a - full
OBVIOUS

\* A remainder is less than the divisor.
LEMMA RemainderLess ==
    ASSUME NEW n \in Nat \ {0}, NEW a \in Nat
    PROVE  a % n \in 0 .. n - 1
OBVIOUS

\* What Plus is for an offset and a length that fits in off_t.
LEMMA SumOfOffset ==
    ASSUME NEW offset \in UInt64, NEW len \in Nat, len < OffTLimit
    PROVE  Plus(offset, len) = IF offset + len < 2 * OffTLimit THEN offset + len
                               ELSE offset + len - 2 * OffTLimit
<1>1. 2 * OffTLimit \in Nat \ {0} /\ offset + len \in Nat /\ offset + len < 2 * (2 * OffTLimit)
  BY ChunkAssumption DEF UInt64
<1>. DEFINE full == 2 * OffTLimit
            a == offset + len
<1>2. Plus(offset, len) = a % full
  BY DEF Plus
<1>. HIDE DEF full, a
<1>3. a % full = IF a < full THEN a ELSE a - full
  <2>1. full \in Nat \ {0} /\ a \in Nat /\ a < 2 * full
    BY <1>1 DEF full, a
  <2>. QED
    BY <2>1, Wraps
<1>4. Plus(offset, len) = IF a < full THEN a ELSE a - full
  BY <1>2, <1>3
<1>. QED
  BY <1>1, <1>4, ChunkAssumption DEF full, a, UInt64

\* writeChunk writes exactly the chunks that lie in the file, for every 64-bit
\* offset a client may send: the sum it compares wraps around for offsets that
\* pwrite then refuses as negative, and for no others.
THEOREM WritesStayInFile ==
    ASSUME NEW total \in Nat, total < OffTLimit, NEW offset \in UInt64,
           NEW len \in Nat, len < OffTLimit
    PROVE  WriteChunk(total, offset, len) <=> offset + len <= total
<1>1. Plus(offset, len) = IF offset + len < 2 * OffTLimit THEN offset + len
                          ELSE offset + len - 2 * OffTLimit
  BY SumOfOffset
<1>. QED
  BY <1>1, ChunkAssumption DEF WriteChunk, OffT, UInt64

\* The challenge of queryInstant lies in the object, whatever challenge_bytes is
\* configured and whatever seed is drawn, and it is empty for an empty object only.
THEOREM ChallengesStayInObject ==
    ASSUME NEW size \in Nat, NEW challengeBytes \in Nat, NEW seed \in Nat
    PROVE  LET c == Challenge(size, challengeBytes, seed) IN
           c.offset + c.len <= size /\ (size > 0 => c.len > 0)
<1>. DEFINE clen == Smaller(IF challengeBytes = 0 THEN 4096 ELSE challengeBytes, size)
            c == Challenge(size, challengeBytes, seed)
<1>1. clen \in Nat /\ clen <= size /\ (size > 0 => clen > 0)
  BY DEF Smaller
<1>2. size > clen => seed % (size - clen) \in 0 .. size - clen - 1
  <2>. SUFFICES ASSUME size > clen PROVE seed % (size - clen) \in 0 .. size - clen - 1
    OBVIOUS
  <2>. HIDE DEF clen
  <2>1. size - clen \in Nat \ {0}
    BY <1>1
  <2>. QED
    BY <2>1, RemainderLess
<1>3. c = IF size = 0 THEN [offset |-> 0, len |-> 0]
          ELSE [offset |-> IF size > clen THEN seed % (size - clen) ELSE 0, len |-> clen]
  BY DEF Challenge
<1>. HIDE DEF clen, c
<1>4. c.offset + c.len <= size /\ (size > 0 => c.len > 0)
  BY <1>1, <1>2, <1>3
<1>. QED
  BY <1>4 DEF c

\* Every chunk that CloudClient::get asks for inside the file brings at least one
\* byte and none beyond the end, and its frame can be encoded, if the server is
\* configured with chunk_size from 1 to kMaxFrameSize - 40: so each round of the
\* loop comes closer to the whole file.
THEOREM ReadsAdvance ==
    ASSUME NEW total \in Nat, total < OffTLimit, NEW offset \in 0 .. total - 1,
           NEW length \in Nat, NEW chunkSize \in 1 .. MaxFrame - ChunkHeader, MaxFrame < OffTLimit
    PROVE  LET n == ReadChunk(total, offset, Want(length, chunkSize))
           IN  n \in 1 .. total - offset /\ Fits(n)
<1>. DEFINE want == Want(length, chunkSize)
<1>1. want \in Nat /\ want > 0 /\ want <= MaxFrame - ChunkHeader /\ want < OffTLimit
  BY ChunkAssumption DEF Want, MaxPayload
<1>2. offset \in UInt64 /\ offset + want < 2 * OffTLimit
  BY <1>1, ChunkAssumption DEF UInt64
<1>. HIDE DEF want
<1>3. Plus(offset, want) = offset + want
  BY <1>1, <1>2, SumOfOffset
<1>4. ReadChunk(total, offset, want) \in 1 .. total - offset
  BY <1>1, <1>3 DEF ReadChunk
<1>5. ReadChunk(total, offset, want) <= want
  BY <1>1, <1>3 DEF ReadChunk
<1>6. Fits(ReadChunk(total, offset, want))
  BY <1>1, <1>4, <1>5, ChunkAssumption DEF Fits
<1>. QED
  BY <1>4, <1>6 DEF want
=============================================================================
