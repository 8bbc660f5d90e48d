---------------------------- MODULE FrameProofs ----------------------------
(***************************************************************************)
(* Theorems about FrameStream.  The bytes in the input buffer and on the   *)
(* wire are the frames that were sent and not yet handled, one after the   *)
(* other, however libevent has cut them.  That concatenation is stated by  *)
(* the offset at which each frame begins, counted from the first byte sent *)
(* (Laid), so that no recursion over the frames is needed.                 *)
(***************************************************************************)
EXTENDS FrameStream, SequenceTheorems, TLAPS

\* The frames fs from number h on make up the bytes b; frame i begins at off[i].
Laid(fs, h, b, off) ==
    /\ off \in [1 .. Len(fs) + 1 -> Nat]
    /\ \A i \in 1 .. Len(fs) : off[i + 1] = off[i] + Len(fs[i])
    /\ \A i, j \in 1 .. Len(fs) + 1 : i <= j => off[i] <= off[j]
    /\ Len(b) = off[Len(fs) + 1] - off[h]
    /\ \A i \in h .. Len(fs) : \A j \in 1 .. Len(fs[i]) : b[off[i] - off[h] + j] = fs[i][j]

\* Nothing was handled that was not sent, and what was not handled is there.
Whole ==
    /\ Len(handled) <= Len(sent)
    /\ \A i \in 1 .. Len(handled) : handled[i] = sent[i]
    /\ \E off : Laid(sent, Len(handled) + 1, input \o wire, off)

\* onRead closed the connection for a malformed frame, all before it handled.
ClosedForCause ==
    status = "bad" => Len(handled) < Len(sent) /\ sent[Len(handled) + 1] \in BadFrames

IInv ==
    /\ TypeOK
    /\ input \in Seq(Nat)
    /\ wire \in Seq(Nat)
    /\ Whole
    /\ ClosedForCause

-----------------------------------------------------------------------------
(* Frames *)

\* What Protocol::encode puts in front of a payload.
LEMMA FrameShape ==
    ASSUME NEW f \in Frames
    PROVE  /\ f \in Seq(Nat)
           /\ Len(f) >= kHeaderSize
           /\ f[1] = Magic
           /\ f[2] = Len(f) - kHeaderSize
           /\ f[2] <= kMaxFrameSize
<1>0. \E n \in 0 .. kMaxFrameSize : \E p \in [1 .. n -> PayloadBytes] : f = Encode(p)
  BY DEF Frames
<1>a. PICK n \in 0 .. kMaxFrameSize : \E p \in [1 .. n -> PayloadBytes] : f = Encode(p)
  BY <1>0
<1>1. PICK p \in [1 .. n -> PayloadBytes] : f = Encode(p)
  BY <1>a
<1>2. n \in Nat /\ n <= kMaxFrameSize
  BY FrameAssumption
<1>b. p \in [1 .. n -> Nat]
  BY FrameAssumption
<1>3. p \in Seq(Nat) /\ Len(p) = n
  BY <1>2, <1>b
<1>4. <<Magic, n>> \in Seq(Nat) /\ Len(<<Magic, n>>) = 2 /\ <<Magic, n>>[1] = Magic /\ <<Magic, n>>[2] = n
  BY <1>2, FrameAssumption
<1>. DEFINE hd == <<Magic, n>>
<1>5. f = hd \o p
  BY <1>1, <1>3 DEF Encode
<1>. HIDE DEF hd
<1>6. /\ f \in Seq(Nat) /\ Len(f) = 2 + n
      /\ \A i \in 1 .. 2 + n : f[i] = IF i <= 2 THEN hd[i] ELSE p[i - 2]
  BY <1>3, <1>4, <1>5, ConcatProperties DEF hd
<1>7. f[1] = Magic /\ f[2] = n
  BY <1>2, <1>4, <1>6 DEF hd
<1>. QED
  BY <1>2, <1>6, <1>7 DEF kHeaderSize

\* What a malformed frame begins with is no header.
LEMMA BadShape ==
    ASSUME NEW f \in BadFrames
    PROVE  /\ f \in Seq(Nat)
           /\ Len(f) = kHeaderSize
           /\ ~HeaderOk(f)
<1>1. CASE f = <<Magic + 1, 0>>
  BY <1>1, FrameAssumption DEF HeaderOk, kHeaderSize
<1>2. CASE f = <<Magic, kMaxFrameSize + 1>>
  BY <1>2, FrameAssumption DEF HeaderOk, kHeaderSize
<1>. QED
  BY <1>1, <1>2 DEF BadFrames

-----------------------------------------------------------------------------
(* Lemmas on Laid *)

\* One more frame is sent.
LEMMA LaidSent ==
    ASSUME NEW F, F \subseteq Seq(Nat), NEW fs \in Seq(F), NEW f \in F, NEW b \in Seq(Nat),
           NEW h \in 1 .. Len(fs) + 1, NEW off, Laid(fs, h, b, off)
    PROVE  \E o2 : Laid(Append(fs, f), h, b \o f, o2)
<1>. DEFINE n == Len(fs)
            fs2 == Append(fs, f)
            b2 == b \o f
            o2 == [i \in 1 .. n + 2 |-> IF i = n + 2 THEN off[n + 1] + Len(f) ELSE off[i]]
<1>1. n \in Nat /\ Len(fs2) = n + 1 /\ fs2[n + 1] = f /\ \A i \in 1 .. n : fs2[i] = fs[i]
  OBVIOUS
<1>2. f \in Seq(Nat) /\ Len(f) \in Nat /\ \A i \in 1 .. n : fs[i] \in Seq(Nat) /\ Len(fs[i]) \in Nat
  OBVIOUS
<1>3. /\ Len(b2) = Len(b) + Len(f) /\ Len(b) \in Nat
      /\ \A i \in 1 .. Len(b) + Len(f) : b2[i] = IF i <= Len(b) THEN b[i] ELSE f[i - Len(b)]
  BY <1>2, ConcatProperties
<1>4. /\ off \in [1 .. n + 1 -> Nat]
      /\ \A i \in 1 .. n : off[i + 1] = off[i] + Len(fs[i])
      /\ \A i, j \in 1 .. n + 1 : i <= j => off[i] <= off[j]
      /\ Len(b) = off[n + 1] - off[h]
      /\ \A i \in h .. n : \A j \in 1 .. Len(fs[i]) : b[off[i] - off[h] + j] = fs[i][j]
  BY DEF Laid
<1>5. \A i \in 1 .. n + 1 : off[i] \in Nat
  BY <1>4
<1>6. /\ o2[n + 2] = off[n + 1] + Len(f)
      /\ \A i \in 1 .. n + 1 : o2[i] = off[i]
      /\ o2 \in [1 .. n + 2 -> Nat]
  <2>1. n + 2 \in 1 .. n + 2 /\ \A i \in 1 .. n + 1 : i \in 1 .. n + 2 /\ i # n + 2
    BY <1>1
  <2>2. \A i \in 1 .. n + 2 : i = n + 2 \/ i \in 1 .. n + 1
    BY <1>1
  <2>a. \A x, y \in Nat : x + y \in Nat
    OBVIOUS
  <2>b. n + 1 \in 1 .. n + 1
    BY <1>1
  <2>3. off[n + 1] + Len(f) \in Nat
    BY <1>2, <1>5, <2>a, <2>b, Zenon
  <2>4. o2[n + 2] = off[n + 1] + Len(f) /\ \A i \in 1 .. n + 1 : o2[i] = off[i]
    BY <2>1, Zenon
  <2>5. \A i \in 1 .. n + 2 : (IF i = n + 2 THEN off[n + 1] + Len(f) ELSE off[i]) \in Nat
    BY <1>5, <2>2, <2>3
  <2>6. o2 \in [1 .. n + 2 -> Nat]
    BY <2>5, Zenon
  <2>. QED
    BY <2>4, <2>6
<1>. HIDE DEF n, fs2, b2, o2
<1>7. \A i \in 1 .. n + 1 : o2[i + 1] = o2[i] + Len(fs2[i])
  <2>. TAKE i \in 1 .. n + 1
  <2>1. CASE i = n + 1
    <3>1. i + 1 = n + 2 /\ n + 1 \in 1 .. n + 1
      BY <1>1, <2>1
    <3>2. o2[n + 1] = off[n + 1]
      BY <1>6, <3>1, Zenon
    <3>. QED
      BY <1>1, <1>6, <2>1, <3>1, <3>2, Zenon
  <2>2. CASE i \in 1 .. n
    <3>1. i + 1 \in 1 .. n + 1 /\ i \in 1 .. n + 1
      BY <1>1, <2>2
    <3>2. o2[i + 1] = off[i + 1] /\ o2[i] = off[i] /\ fs2[i] = fs[i]
      BY <1>1, <1>6, <2>2, <3>1, Zenon
    <3>. QED
      BY <1>4, <2>2, <3>2, Zenon
  <2>. QED
    BY <1>1, <2>1, <2>2
<1>8. \A i, j \in 1 .. n + 2 : i <= j => o2[i] <= o2[j]
  <2>. SUFFICES ASSUME NEW i \in 1 .. n + 2, NEW j \in 1 .. n + 2, i <= j PROVE o2[i] <= o2[j]
    OBVIOUS
  <2>1. CASE j \in 1 .. n + 1
    <3>1. i \in 1 .. n + 1
      BY <1>1, <2>1
    <3>2. o2[i] = off[i] /\ o2[j] = off[j]
      BY <1>6, <2>1, <3>1, Zenon
    <3>3. off[i] <= off[j]
      BY <1>4, <2>1, <3>1, Zenon
    <3>. QED
      BY <3>2, <3>3, Zenon
  <2>2. CASE j = n + 2 /\ i \in 1 .. n + 1
    <3>1. off[i] <= off[n + 1]
      BY <1>1, <1>4, <2>2
    <3>. QED
      BY <1>1, <1>2, <1>5, <1>6, <2>2, <3>1
  <2>3. CASE j = n + 2 /\ i = n + 2
    BY <1>1, <1>2, <1>5, <1>6, <2>3
  <2>. QED
    BY <1>1, <2>1, <2>2, <2>3
<1>9. h \in 1 .. n + 1 /\ o2[h] = off[h] /\ off[h] \in Nat /\ off[h] <= off[n + 1] /\ off[n + 1] \in Nat
  BY <1>1, <1>4, <1>5, <1>6 DEF n
<1>10. Len(b2) = o2[n + 2] - o2[h]
  BY <1>2, <1>3, <1>4, <1>6, <1>9
<1>11. \A i \in h .. n + 1 : \A j \in 1 .. Len(fs2[i]) : b2[o2[i] - o2[h] + j] = fs2[i][j]
  <2>. SUFFICES ASSUME NEW i \in h .. n + 1, NEW j \in 1 .. Len(fs2[i])
                PROVE  b2[o2[i] - o2[h] + j] = fs2[i][j]
    OBVIOUS
  <2>1. CASE i = n + 1
    <3>a. o2[i] = off[n + 1] /\ o2[h] = off[h]
      BY <1>1, <1>6, <1>9, <2>1
    <3>b. j \in 1 .. Len(f)
      BY <1>1, <2>1
    <3>1. o2[i] - o2[h] + j = Len(b) + j /\ j \in 1 .. Len(f)
      BY <1>4, <3>a, <3>b
    <3>c. Len(b) + j \in 1 .. Len(b) + Len(f) /\ ~(Len(b) + j <= Len(b)) /\ (Len(b) + j) - Len(b) = j
      BY <1>2, <1>3, <3>1
    <3>2. b2[Len(b) + j] = f[j]
      BY <1>3, <3>c
    <3>. QED
      BY <1>1, <2>1, <3>1, <3>2
  <2>2. CASE i \in h .. n
    <3>a. i \in 1 .. n /\ i \in 1 .. n + 1 /\ i + 1 \in 1 .. n + 1
      BY <1>1, <1>9, <2>2
    <3>b. fs2[i] = fs[i] /\ o2[i] = off[i] /\ Len(fs[i]) \in Nat
      BY <1>1, <1>2, <1>6, <3>a, Zenon
    <3>1. i \in 1 .. n /\ fs2[i] = fs[i] /\ j \in 1 .. Len(fs[i]) /\ o2[i] = off[i] /\ Len(fs[i]) \in Nat
      BY <3>a, <3>b
    <3>2. off[h] <= off[i] /\ off[i + 1] <= off[n + 1] /\ off[i + 1] = off[i] + Len(fs[i])
      BY <1>1, <1>4, <1>9, <2>2, <3>1, SMTT(30)
    <3>c. \A x, y, z, l \in Nat : y <= x /\ x + l <= z => \A k \in 1 .. l : x - y + k \in 1 .. z - y
      OBVIOUS
    <3>d. off[i] \in Nat /\ off[h] \in Nat /\ off[n + 1] \in Nat
      BY <1>5, <1>9, <3>a
    <3>e. off[h] <= off[i] /\ off[i] + Len(fs[i]) <= off[n + 1]
      BY <3>2
    <3>3. off[i] - off[h] + j \in 1 .. Len(b)
      BY <1>4, <3>1, <3>c, <3>d, <3>e, Zenon
    <3>4. b2[off[i] - off[h] + j] = b[off[i] - off[h] + j]
      BY <1>2, <1>3, <3>3
    <3>. QED
      BY <1>4, <1>9, <2>2, <3>1, <3>4
  <2>. QED
    BY <1>1, <1>9, <2>1, <2>2
<1>12. Laid(fs2, h, b2, o2)
  BY <1>1, <1>6, <1>7, <1>8, <1>10, <1>11, SMTT(30) DEF Laid
<1>. QED
  BY <1>12 DEF fs2, b2

\* A position counted from y is z less counted from y + z.
LEMMA Shifted == \A x, y, z, k \in Nat : z + (x - (y + z) + k) = x - y + k
OBVIOUS

\* The frame in front is the first bytes, and the bytes c behind it are the
\* frames that follow.
LEMMA LaidTaken ==
    ASSUME NEW F, F \subseteq Seq(Nat), NEW fs \in Seq(F), NEW b \in Seq(Nat),
           NEW h \in 1 .. Len(fs), NEW off, Laid(fs, h, b, off)
    PROVE  /\ Len(fs[h]) <= Len(b)
           /\ \A j \in 1 .. Len(fs[h]) : b[j] = fs[h][j]
           /\ \A c \in Seq(Nat) :
                 /\ Len(c) = Len(b) - Len(fs[h])
                 /\ \A i \in 1 .. Len(c) : c[i] = b[Len(fs[h]) + i]
                 => Laid(fs, h + 1, c, off)
<1>. DEFINE n == Len(fs)
            l == Len(fs[h])
<1>1. n \in Nat /\ h \in 1 .. n /\ h \in 1 .. n + 1 /\ h + 1 \in 1 .. n + 1 /\ n + 1 \in 1 .. n + 1
      /\ h <= h + 1 /\ h + 1 <= n + 1 /\ h \in h .. n
  OBVIOUS
<1>2. \A i \in 1 .. n : fs[i] \in Seq(Nat) /\ Len(fs[i]) \in Nat
  OBVIOUS
<1>3. /\ off \in [1 .. n + 1 -> Nat]
      /\ \A i \in 1 .. n : off[i + 1] = off[i] + Len(fs[i])
      /\ \A i, j \in 1 .. n + 1 : i <= j => off[i] <= off[j]
      /\ Len(b) = off[n + 1] - off[h]
      /\ \A i \in h .. n : \A j \in 1 .. Len(fs[i]) : b[off[i] - off[h] + j] = fs[i][j]
  BY DEF Laid
<1>. HIDE DEF n
<1>4. \A i \in 1 .. n + 1 : off[i] \in Nat
  BY <1>3
<1>5. l \in Nat /\ off[h + 1] = off[h] + l /\ off[h + 1] <= off[n + 1]
  BY <1>1, <1>2, <1>3, Zenon
<1>6. off[h] \in Nat /\ off[h + 1] \in Nat /\ off[n + 1] \in Nat
  BY <1>1, <1>4, Zenon
<1>. HIDE DEF l
<1>7. l <= Len(b)
  BY <1>3, <1>5, <1>6
<1>8. \A j \in 1 .. l : b[j] = fs[h][j]
  <2>1. \A j \in 1 .. l : off[h] - off[h] + j = j
    BY <1>5, <1>6
  <2>2. \A j \in 1 .. l : b[off[h] - off[h] + j] = fs[h][j]
    BY <1>1, <1>3, Zenon DEF l
  <2>. QED
    BY <2>1, <2>2, Zenon
<1>9. ASSUME NEW c \in Seq(Nat), Len(c) = Len(b) - l, \A i \in 1 .. Len(c) : c[i] = b[l + i]
      PROVE  Laid(fs, h + 1, c, off)
  <2>1. Len(c) = off[n + 1] - off[h + 1]
    BY <1>3, <1>5, <1>6, <1>9
  <2>2. ASSUME NEW i \in h + 1 .. n, NEW j \in 1 .. Len(fs[i])
        PROVE  c[off[i] - off[h + 1] + j] = fs[i][j]
    <3>1. i \in h .. n /\ i \in 1 .. n /\ i \in 1 .. n + 1 /\ i + 1 \in 1 .. n + 1 /\ h + 1 <= i /\ i + 1 <= n + 1
      BY <1>1
    <3>2. off[h + 1] <= off[i] /\ off[i + 1] <= off[n + 1] /\ off[i + 1] = off[i] + Len(fs[i])
      BY <1>1, <1>3, <3>1, Zenon
    <3>3. off[i] \in Nat /\ Len(fs[i]) \in Nat
      BY <1>2, <1>4, <3>1, Zenon
    <3>4. \A x, y, z, m \in Nat : y <= x /\ x + m <= z => \A k \in 1 .. m : x - y + k \in 1 .. z - y
      OBVIOUS
    <3>5. off[i] + Len(fs[i]) <= off[n + 1]
      BY <3>2
    <3>6. off[i] - off[h + 1] + j \in 1 .. Len(c)
      BY <1>6, <2>1, <3>2, <3>3, <3>4, <3>5, Zenon
    <3>7. l + (off[i] - off[h + 1] + j) = off[i] - off[h] + j
      <4>1. l + (off[i] - (off[h] + l) + j) = off[i] - off[h] + j
        <5>1. l \in Nat /\ off[h] \in Nat /\ off[i] \in Nat /\ Len(fs[i]) \in Nat
          BY <1>5, <1>6, <3>3
        <5>2. j \in Nat
          BY <5>1
        <5>3. \A z, k \in Nat : z + (off[i] - (off[h] + z) + k) = off[i] - off[h] + k
          BY <5>1, Shifted, Zenon
        <5>4. \A k \in Nat : l + (off[i] - (off[h] + l) + k) = off[i] - off[h] + k
          BY <5>1, <5>3, Zenon
        <5>. QED
          BY <5>2, <5>4, Zenon
      <4>2. off[h + 1] = off[h] + l
        BY <1>5
      <4>. QED
        BY <4>1, <4>2
    <3>8. c[off[i] - off[h + 1] + j] = b[l + (off[i] - off[h + 1] + j)]
      BY <1>9, <3>6, Zenon
    <3>9. b[off[i] - off[h] + j] = fs[i][j]
      BY <1>3, <3>1, Zenon
    <3>. QED
      BY <3>7, <3>8, <3>9, Zenon
  <2>. QED
    BY <1>3, <2>1, <2>2 DEF Laid, n
<1>. QED
  BY <1>7, <1>8, <1>9 DEF l

\* Where there are bytes there is a frame.
LEMMA LaidSome ==
    ASSUME NEW F, F \subseteq Seq(Nat), NEW fs \in Seq(F), NEW b \in Seq(Nat),
           NEW h \in 1 .. Len(fs) + 1, NEW off, Laid(fs, h, b, off), Len(b) > 0
    PROVE  h \in 1 .. Len(fs)
<1>1. Len(b) = off[Len(fs) + 1] - off[h] /\ off[h] \in Nat
  BY DEF Laid
<1>2. h # Len(fs) + 1
  BY <1>1
<1>. QED
  BY <1>2

-----------------------------------------------------------------------------
(* Lemmas on the buffer *)

\* Concatenation is associative.
LEMMA Associative == \A s, p, q \in Seq(Nat) : (s \o p) \o q = s \o (p \o q)
<1>. TAKE s \in Seq(Nat), p \in Seq(Nat), q \in Seq(Nat)
<1>. DEFINE a == s \o p
            d == p \o q
            x == a \o q
            y == s \o d
<1>1. a \in Seq(Nat) /\ Len(a) = Len(s) + Len(p)
      /\ \A i \in 1 .. Len(s) + Len(p) : a[i] = IF i <= Len(s) THEN s[i] ELSE p[i - Len(s)]
  BY ConcatProperties
<1>2. d \in Seq(Nat) /\ Len(d) = Len(p) + Len(q)
      /\ \A i \in 1 .. Len(p) + Len(q) : d[i] = IF i <= Len(p) THEN p[i] ELSE q[i - Len(p)]
  BY ConcatProperties
<1>a. a \in Seq(Nat)
  BY <1>1
<1>d. d \in Seq(Nat)
  BY <1>2
<1>. HIDE DEF a, d
<1>3. x \in Seq(Nat) /\ Len(x) = Len(a) + Len(q)
      /\ \A i \in 1 .. Len(a) + Len(q) : x[i] = IF i <= Len(a) THEN a[i] ELSE q[i - Len(a)]
  BY <1>a, ConcatProperties, Zenon
<1>4. y \in Seq(Nat) /\ Len(y) = Len(s) + Len(d)
      /\ \A i \in 1 .. Len(s) + Len(d) : y[i] = IF i <= Len(s) THEN s[i] ELSE d[i - Len(s)]
  BY <1>d, ConcatProperties, Zenon
<1>. HIDE DEF x, y
<1>5. Len(s) \in Nat /\ Len(p) \in Nat /\ Len(q) \in Nat
  OBVIOUS
<1>6. Len(x) = Len(y)
  BY <1>1, <1>2, <1>3, <1>4, <1>5
<1>7. ASSUME NEW i \in 1 .. Len(x) PROVE x[i] = y[i]
  <2>1. i \in 1 .. Len(a) + Len(q) /\ i \in 1 .. Len(s) + Len(d)
    BY <1>1, <1>2, <1>3, <1>5
  <2>2. CASE i <= Len(s)
    <3>1. i <= Len(a) /\ i \in 1 .. Len(s) + Len(p)
      BY <1>1, <1>5, <2>1, <2>2
    <3>. QED
      BY <1>1, <1>3, <1>4, <2>1, <2>2, <3>1, Zenon
  <2>3. CASE ~(i <= Len(s)) /\ i <= Len(a)
    <3>1. i \in 1 .. Len(s) + Len(p) /\ i - Len(s) <= Len(p) /\ i - Len(s) \in 1 .. Len(p) + Len(q)
      BY <1>1, <1>5, <2>1, <2>3
    <3>. QED
      BY <1>1, <1>2, <1>3, <1>4, <2>1, <2>3, <3>1, Zenon
  <2>4. CASE ~(i <= Len(s)) /\ ~(i <= Len(a))
    <3>1. ~(i - Len(s) <= Len(p)) /\ i - Len(s) \in 1 .. Len(p) + Len(q)
          /\ (i - Len(s)) - Len(p) = i - Len(a)
      BY <1>1, <1>2, <1>5, <2>1, <2>4
    <3>. QED
      BY <1>2, <1>3, <1>4, <2>1, <2>4, <3>1, Zenon
  <2>. QED
    BY <2>2, <2>3, <2>4
<1>8. x = y
  BY <1>3, <1>4, <1>6, <1>7, SeqEqual
<1>. QED
  BY <1>8 DEF x, y, a, d

\* Bytes read from the wire into the buffer stay where they are in the stream.
LEMMA FrontMoved ==
    ASSUME NEW s \in Seq(Nat), NEW w \in Seq(Nat), NEW k \in 0 .. Len(w)
    PROVE  /\ SubSeq(w, 1, k) \in Seq(Nat) /\ Len(SubSeq(w, 1, k)) = k
           /\ SubSeq(w, k + 1, Len(w)) \in Seq(Nat)
           /\ (s \o SubSeq(w, 1, k)) \o SubSeq(w, k + 1, Len(w)) = s \o w
<1>. DEFINE p == SubSeq(w, 1, k)
            q == SubSeq(w, k + 1, Len(w))
<1>1. p \in Seq(Nat) /\ Len(p) = k
  OBVIOUS
<1>2. q \in Seq(Nat)
  OBVIOUS
<1>3. 1 \in 1 .. Len(w) + 1 /\ k \in 1 - 1 .. Len(w) /\ Len(w) \in k .. Len(w)
  OBVIOUS
<1>4. p \o q = SubSeq(w, 1, Len(w))
  BY <1>3, ConcatAdjacentSubSeq
<1>5. p \o q = w
  BY <1>4, SubSeqFull
<1>. HIDE DEF p, q
<1>6. (s \o p) \o q = s \o (p \o q)
  BY <1>1, <1>2, Associative, Zenon
<1>. QED
  BY <1>1, <1>2, <1>5, <1>6 DEF p, q

\* What is left of the stream s \o w once m bytes of the buffer are drained.
LEMMA FrontDrained ==
    ASSUME NEW s \in Seq(Nat), NEW w \in Seq(Nat), NEW m \in 0 .. Len(s)
    PROVE  LET d == SubSeq(s, m + 1, Len(s)) IN
           /\ d \in Seq(Nat) /\ Len(d) = Len(s) - m
           /\ d \o w \in Seq(Nat)
           /\ Len(d \o w) = Len(s \o w) - m
           /\ \A i \in 1 .. Len(d \o w) : (d \o w)[i] = (s \o w)[m + i]
<1>. DEFINE d == SubSeq(s, m + 1, Len(s))
            c == d \o w
            b == s \o w
<1>1. d \in Seq(Nat) /\ Len(d) = Len(s) - m /\ Len(s) \in Nat /\ Len(w) \in Nat
      /\ \A i \in 1 .. Len(s) - m : d[i] = s[m + i]
  OBVIOUS
<1>. HIDE DEF d
<1>2. /\ c \in Seq(Nat) /\ Len(c) = (Len(s) - m) + Len(w)
      /\ \A i \in 1 .. (Len(s) - m) + Len(w) :
            c[i] = IF i <= Len(s) - m THEN d[i] ELSE w[i - (Len(s) - m)]
  <2>1. /\ c \in Seq(Nat) /\ Len(c) = Len(d) + Len(w)
        /\ \A i \in 1 .. Len(d) + Len(w) : c[i] = IF i <= Len(d) THEN d[i] ELSE w[i - Len(d)]
    BY <1>1, ConcatProperties, Zenon
  <2>. QED
    BY <1>1, <2>1, Zenon
<1>3. /\ Len(b) = Len(s) + Len(w)
      /\ \A i \in 1 .. Len(s) + Len(w) : b[i] = IF i <= Len(s) THEN s[i] ELSE w[i - Len(s)]
  BY <1>1, ConcatProperties
<1>. HIDE DEF c, b
<1>4. ASSUME NEW i \in 1 .. Len(c) PROVE c[i] = b[m + i]
  <2>1. i \in 1 .. (Len(s) - m) + Len(w) /\ m + i \in 1 .. Len(s) + Len(w)
        /\ (m + i) - Len(s) = i - (Len(s) - m)
    BY <1>1, <1>2
  <2>2. CASE i <= Len(s) - m
    <3>1. i \in 1 .. Len(s) - m /\ m + i <= Len(s)
      BY <1>1, <2>1, <2>2
    <3>. QED
      BY <1>1, <1>2, <1>3, <2>1, <2>2, <3>1
  <2>3. CASE ~(i <= Len(s) - m)
    <3>1. ~(m + i <= Len(s))
      BY <1>1, <2>1, <2>3
    <3>. QED
      BY <1>2, <1>3, <2>1, <2>3, <3>1
  <2>. QED
    BY <2>2, <2>3
<1>5. Len(c) = Len(b) - m
  BY <1>1, <1>2, <1>3
<1>. QED
  BY <1>1, <1>2, <1>4, <1>5 DEF c, b, d

-----------------------------------------------------------------------------
(* The frame at the front of the buffer *)

\* Whatever a peer may send.
Sendable == Frames \cup BadFrames

\* All of it is bytes.
LEMMA SendableBytes == Sendable \subseteq Seq(Nat)
BY FrameShape, BadShape DEF Sendable

\* What TypeOK and Whole say about the front of the stream.
LEMMA FrontHeader ==
    ASSUME IInv, HeaderThere
    PROVE  /\ Len(handled) < Len(sent)
           /\ sent[Len(handled) + 1] \in Frames =>
                 /\ HeaderOk(input)
                 /\ kHeaderSize + input[2] = Len(sent[Len(handled) + 1])
           /\ sent[Len(handled) + 1] \in BadFrames => ~HeaderOk(input)
<1>. DEFINE h == Len(handled) + 1
            b == input \o wire
            f == sent[h]
<1>1. /\ sent \in Seq(Sendable) /\ input \in Seq(Nat) /\ wire \in Seq(Nat)
      /\ Len(handled) \in Nat /\ Len(sent) \in Nat /\ Len(input) \in Nat /\ Len(wire) \in Nat
  BY DEF IInv, TypeOK, Sendable
<1>2. PICK off : Laid(sent, h, b, off)
  BY DEF IInv, Whole
<1>3. h \in 1 .. Len(sent) + 1
  BY <1>1 DEF IInv, Whole
<1>4. /\ b \in Seq(Nat) /\ Len(b) = Len(input) + Len(wire)
      /\ \A i \in 1 .. Len(input) + Len(wire) : b[i] = IF i <= Len(input) THEN input[i] ELSE wire[i - Len(input)]
  BY <1>1, ConcatProperties
<1>5. Len(input) >= 2 /\ Len(b) > 0
  BY <1>1, <1>4 DEF HeaderThere, kHeaderSize
<1>6. b[1] = input[1] /\ b[2] = input[2]
  <2>1. 1 \in 1 .. Len(input) + Len(wire) /\ 2 \in 1 .. Len(input) + Len(wire) /\ 1 <= Len(input) /\ 2 <= Len(input)
    BY <1>1, <1>5
  <2>. QED
    BY <1>4, <2>1, Zenon
<1>. HIDE DEF b
<1>7. h \in 1 .. Len(sent)
  BY <1>1, <1>2, <1>3, <1>4, <1>5, LaidSome, SendableBytes
<1>8. \A j \in 1 .. Len(f) : b[j] = f[j]
  <2>1. sent \in Seq(Sendable) /\ b \in Seq(Nat)
    BY <1>1, <1>4
  <2>. QED
    BY <1>2, <1>7, <2>1, LaidTaken, SendableBytes, Zenon
<1>9. f \in Sendable
  BY <1>1, <1>7
<1>. HIDE DEF f
<1>10. Len(f) \in Nat /\ Len(f) >= 2
  <2>1. CASE f \in Frames
    BY <2>1, FrameShape DEF kHeaderSize
  <2>2. CASE f \in BadFrames
    BY <2>2, BadShape DEF kHeaderSize
  <2>. QED
    BY <1>9, <2>1, <2>2 DEF Sendable
<1>11. input[1] = f[1] /\ input[2] = f[2]
  <2>1. 1 \in 1 .. Len(f) /\ 2 \in 1 .. Len(f)
    BY <1>10
  <2>. QED
    BY <1>6, <1>8, <2>1, Zenon
<1>12. ASSUME f \in Frames PROVE HeaderOk(input) /\ kHeaderSize + input[2] = Len(f)
  <2>1. f[1] = Magic /\ f[2] = Len(f) - kHeaderSize /\ f[2] <= kMaxFrameSize
    BY <1>12, FrameShape
  <2>. QED
    BY <1>10, <1>11, <2>1 DEF HeaderOk, kHeaderSize
<1>13. ASSUME f \in BadFrames PROVE ~HeaderOk(input)
  <2>1. ~HeaderOk(f)
    BY <1>13, BadShape
  <2>. QED
    BY <1>11, <2>1 DEF HeaderOk
<1>14. Len(handled) < Len(sent)
  BY <1>1, <1>7
<1>. QED
  BY <1>12, <1>13, <1>14 DEF f

\* The frame TakeFrame takes is the next one sent.
LEMMA FrontFrame ==
    ASSUME IInv, FrameThere, HeaderOk(input)
    PROVE  LET n == kHeaderSize + input[2] IN
           /\ Len(handled) < Len(sent)
           /\ sent[Len(handled) + 1] \in Frames
           /\ n \in 0 .. Len(input)
           /\ Len(sent[Len(handled) + 1]) = n
           /\ SubSeq(input, 1, n) = sent[Len(handled) + 1]
<1>. DEFINE h == Len(handled) + 1
            b == input \o wire
            f == sent[h]
            n == kHeaderSize + input[2]
<1>1. /\ sent \in Seq(Sendable) /\ input \in Seq(Nat) /\ wire \in Seq(Nat)
      /\ Len(handled) \in Nat /\ Len(sent) \in Nat /\ Len(input) \in Nat /\ Len(wire) \in Nat
  BY DEF IInv, TypeOK, Sendable
<1>2. HeaderThere /\ n <= Len(input)
  BY <1>1 DEF FrameThere, HeaderThere, kHeaderSize
<1>3. Len(handled) < Len(sent)
  BY <1>2, FrontHeader
<1>4. h \in 1 .. Len(sent) /\ f \in Sendable
  BY <1>1, <1>3
<1>5. f \in Frames
  BY <1>2, <1>4, FrontHeader DEF Sendable
<1>6. n = Len(f)
  BY <1>2, <1>5, FrontHeader
<1>7. f \in Seq(Nat) /\ Len(f) \in Nat
  BY <1>5, FrameShape
<1>. HIDE DEF n
<1>8. n \in 0 .. Len(input)
  BY <1>1, <1>2, <1>6, <1>7
<1>9. PICK off : Laid(sent, h, b, off)
  BY DEF IInv, Whole
<1>10. /\ b \in Seq(Nat)
       /\ \A i \in 1 .. Len(input) + Len(wire) : b[i] = IF i <= Len(input) THEN input[i] ELSE wire[i - Len(input)]
  BY <1>1, ConcatProperties
<1>. HIDE DEF b
<1>11. \A j \in 1 .. Len(f) : b[j] = f[j]
  <2>1. sent \in Seq(Sendable) /\ b \in Seq(Nat) /\ h \in 1 .. Len(sent)
    BY <1>1, <1>4, <1>10
  <2>. QED
    BY <1>9, <2>1, LaidTaken, SendableBytes, Zenon
<1>12. \A j \in 1 .. n : j \in 1 .. Len(input) + Len(wire) /\ j <= Len(input)
  BY <1>1, <1>8
<1>13. \A j \in 1 .. n : input[j] = f[j]
  BY <1>6, <1>10, <1>11, <1>12
<1>. DEFINE g == SubSeq(input, 1, n)
<1>14. g \in Seq(Nat) /\ Len(g) = n /\ \A j \in 1 .. n : g[j] = input[j]
  BY <1>1, <1>8
<1>. HIDE DEF g, f
<1>15. g = f
  BY <1>6, <1>7, <1>13, <1>14, SeqEqual
<1>. QED
  BY <1>3, <1>5, <1>6, <1>8, <1>15 DEF g, f, n

-----------------------------------------------------------------------------
(* Steps *)

\* The peer sends a frame.
LEMMA SendStep ==
    ASSUME IInv, NEW f \in Sendable, Send(f) PROVE IInv'
<1>1. /\ sent \in Seq(Sendable) /\ input \in Seq(Nat) /\ wire \in Seq(Nat) /\ f \in Seq(Nat)
      /\ Len(handled) \in Nat /\ Len(sent) \in Nat
  BY SendableBytes DEF IInv, TypeOK, Sendable
<1>2. /\ sent' = Append(sent, f) /\ wire' = wire \o f /\ input' = input
      /\ reading' = reading /\ handled' = handled /\ status' = status /\ status = "open"
  BY DEF Send
<1>3. /\ sent' \in Seq(Sendable) /\ Len(sent') = Len(sent) + 1
      /\ \A i \in 1 .. Len(sent) : sent'[i] = sent[i]
  BY <1>1, <1>2
<1>4. wire' \in Seq(Nat)
  BY <1>1, <1>2, ConcatProperties
<1>5. input' \o wire' = (input \o wire) \o f
  <2>1. (input \o wire) \o f = input \o (wire \o f)
    BY <1>1, Associative, Zenon
  <2>. QED
    BY <1>2, <2>1, Zenon
<1>6. input \o wire \in Seq(Nat)
  BY <1>1, ConcatProperties
<1>7. PICK off : Laid(sent, Len(handled) + 1, input \o wire, off)
  BY DEF IInv, Whole
<1>8. Len(handled) + 1 \in 1 .. Len(sent) + 1
  BY <1>1 DEF IInv, Whole
<1>9. \E o2 : Laid(Append(sent, f), Len(handled) + 1, (input \o wire) \o f, o2)
  BY <1>1, <1>6, <1>7, <1>8, LaidSent, SendableBytes, Zenon
<1>10. \E o2 : Laid(sent', Len(handled') + 1, input' \o wire', o2)
  BY <1>2, <1>5, <1>9, Zenon
<1>11. Len(handled') <= Len(sent') /\ \A i \in 1 .. Len(handled') : handled'[i] = sent'[i]
  BY <1>1, <1>2, <1>3, <1>8 DEF IInv, Whole
<1>12. TypeOK'
  BY <1>2, <1>3 DEF IInv, TypeOK, Sendable
<1>13. Whole'
  BY <1>10, <1>11, Zenon DEF Whole
<1>14. ClosedForCause'
  BY <1>2 DEF ClosedForCause
<1>. QED
  BY <1>1, <1>2, <1>4, <1>12, <1>13, <1>14 DEF IInv

\* libevent moves bytes from the wire to the buffer.
LEMMA FillStep ==
    ASSUME IInv, NEW k \in 1 .. Watermark, Fill(k) PROVE IInv'
<1>1. /\ input \in Seq(Nat) /\ wire \in Seq(Nat) /\ k \in 0 .. Len(wire)
      /\ Len(input) \in Nat
  BY FrameAssumption DEF IInv, Fill, Watermark, kHeaderSize
<1>2. /\ sent' = sent /\ handled' = handled /\ status' = status /\ status = "open"
      /\ reading' = TRUE
      /\ input' = input \o SubSeq(wire, 1, k) /\ wire' = SubSeq(wire, k + 1, Len(wire))
      /\ Len(input) + k <= Watermark
  BY DEF Fill
<1>3. /\ SubSeq(wire, 1, k) \in Seq(Nat) /\ Len(SubSeq(wire, 1, k)) = k
      /\ wire' \in Seq(Nat)
      /\ input' \o wire' = input \o wire
  BY <1>1, <1>2, FrontMoved
<1>4. input' \in Seq(Nat) /\ Len(input') = Len(input) + k
  BY <1>1, <1>2, <1>3, ConcatProperties
<1>5. Whole'
  BY <1>2, <1>3, Zenon DEF IInv, Whole
<1>6. reading' \in BOOLEAN
  BY <1>2, Zenon
<1>7. TypeOK'
  BY <1>2, <1>4, <1>6 DEF IInv, TypeOK
<1>8. ClosedForCause'
  BY <1>2 DEF ClosedForCause
<1>. QED
  BY <1>3, <1>4, <1>5, <1>7, <1>8 DEF IInv

\* onRead takes a frame: it is the next one sent, whole.
LEMMA TakeFrameStep ==
    ASSUME IInv, TakeFrame PROVE IInv'
<1>. DEFINE h == Len(handled) + 1
            n == kHeaderSize + input[2]
            f == sent[h]
<1>1. /\ sent \in Seq(Sendable) /\ input \in Seq(Nat) /\ wire \in Seq(Nat)
      /\ handled \in Seq(Frames) /\ Len(handled) \in Nat /\ Len(sent) \in Nat /\ Len(input) \in Nat
  BY DEF IInv, TypeOK, Sendable
<1>2. /\ sent' = sent /\ wire' = wire /\ reading' = reading /\ status' = status /\ status = "open"
      /\ handled' = Append(handled, SubSeq(input, 1, n))
      /\ input' = SubSeq(input, n + 1, Len(input))
      /\ FrameThere /\ HeaderOk(input)
  BY DEF TakeFrame, Looking
<1>3. /\ Len(handled) < Len(sent) /\ f \in Frames /\ n \in 0 .. Len(input)
      /\ Len(f) = n /\ SubSeq(input, 1, n) = f
  BY <1>2, FrontFrame
<1>. HIDE DEF n
<1>4. /\ input' \in Seq(Nat) /\ Len(input') = Len(input) - n
      /\ input' \o wire' \in Seq(Nat)
      /\ Len(input' \o wire') = Len(input \o wire) - n
      /\ \A i \in 1 .. Len(input' \o wire') : (input' \o wire')[i] = (input \o wire)[n + i]
  BY <1>1, <1>2, <1>3, FrontDrained
<1>5. PICK off : Laid(sent, h, input \o wire, off)
  BY DEF IInv, Whole
<1>6. h \in 1 .. Len(sent) /\ input \o wire \in Seq(Nat)
  BY <1>1, <1>3, ConcatProperties
<1>7. /\ Len(input' \o wire') = Len(input \o wire) - Len(sent[h])
      /\ \A i \in 1 .. Len(input' \o wire') : (input' \o wire')[i] = (input \o wire)[Len(sent[h]) + i]
  BY <1>3, <1>4, Zenon
<1>8. \A c \in Seq(Nat) :
         /\ Len(c) = Len(input \o wire) - Len(sent[h])
         /\ \A i \in 1 .. Len(c) : c[i] = (input \o wire)[Len(sent[h]) + i]
         => Laid(sent, h + 1, c, off)
  BY <1>1, <1>5, <1>6, LaidTaken, SendableBytes, Zenon
<1>9. Laid(sent, h + 1, input' \o wire', off)
  BY <1>4, <1>7, <1>8, Zenon
<1>. HIDE DEF f
<1>a. handled' = Append(handled, f) /\ f \in Frames
  BY <1>2, <1>3, Zenon
<1>10. /\ handled' \in Seq(Frames) /\ Len(handled') = h
       /\ handled'[h] = f /\ \A i \in 1 .. Len(handled) : handled'[i] = handled[i]
  BY <1>1, <1>a
<1>11. Len(handled') <= Len(sent') /\ \A i \in 1 .. Len(handled') : handled'[i] = sent'[i]
  <2>1. \A i \in 1 .. h : i = h \/ i \in 1 .. Len(handled)
    BY <1>1
  <2>2. \A i \in 1 .. Len(handled) : handled[i] = sent[i]
    BY DEF IInv, Whole
  <2>3. \A i \in 1 .. Len(handled') : handled'[i] = sent'[i]
    BY <1>2, <1>10, <2>1, <2>2 DEF f
  <2>. QED
    BY <1>2, <1>6, <1>10, <2>3
<1>12. Whole'
  BY <1>2, <1>9, <1>10, <1>11, Zenon DEF Whole
<1>13. Len(input') <= Watermark
  BY <1>1, <1>3, <1>4, FrameAssumption DEF IInv, TypeOK, Watermark, kHeaderSize
<1>14. TypeOK'
  BY <1>2, <1>10, <1>13 DEF IInv, TypeOK
<1>15. ClosedForCause'
  BY <1>2 DEF ClosedForCause
<1>. QED
  BY <1>1, <1>2, <1>4, <1>12, <1>14, <1>15 DEF IInv

\* onRead closes the connection: the next frame sent is malformed.
LEMMA BadHeaderStep ==
    ASSUME IInv, BadHeader PROVE IInv'
<1>1. /\ sent' = sent /\ wire' = wire /\ input' = input /\ handled' = handled
      /\ reading' = FALSE /\ status' = "bad" /\ HeaderThere /\ ~HeaderOk(input)
  BY DEF BadHeader
<1>2. Len(handled) < Len(sent) /\ sent[Len(handled) + 1] \notin Frames
  BY <1>1, FrontHeader
<1>3. sent[Len(handled) + 1] \in Frames \cup BadFrames
  BY <1>2 DEF IInv, TypeOK
<1>4. ClosedForCause'
  BY <1>1, <1>2, <1>3 DEF ClosedForCause
<1>5. reading' \in BOOLEAN
  BY <1>1, Zenon
<1>6. TypeOK'
  BY <1>1, <1>5 DEF IInv, TypeOK
<1>7. Whole'
  BY <1>1, Zenon DEF IInv, Whole
<1>. QED
  BY <1>1, <1>4, <1>6, <1>7 DEF IInv

\* A step that leaves the frames and the bytes alone.
LEMMA QuietStep ==
    ASSUME IInv, UNCHANGED <<sent, wire, input, handled>>, reading' \in BOOLEAN,
           status' \in {status, "gone"}
    PROVE  IInv'
<1>1. Whole'
  BY Zenon DEF IInv, Whole
<1>2. ClosedForCause'
  BY DEF IInv, ClosedForCause
<1>3. TypeOK'
  BY DEF IInv, TypeOK
<1>. QED
  BY <1>1, <1>2, <1>3 DEF IInv

-----------------------------------------------------------------------------
(* Theorems *)

\* IInv holds in every reachable state.
LEMMA Invariant == Spec => []IInv
<1>1. Init => IInv
  <2>. SUFFICES ASSUME Init PROVE IInv
    OBVIOUS
  <2>1. /\ sent = << >> /\ wire = << >> /\ input = << >> /\ handled = << >>
        /\ reading = FALSE /\ status = "open"
    BY DEF Init
  <2>2. reading \in BOOLEAN
    BY <2>1, Zenon
  <2>3. Len(sent) = 0 /\ Len(handled) = 0 /\ Len(input) = 0
    BY <2>1
  <2>4. sent \in Seq(Frames \cup BadFrames) /\ handled \in Seq(Frames)
        /\ input \in Seq(Nat) /\ wire \in Seq(Nat)
    BY <2>1
  <2>5. 0 <= Watermark
    BY FrameAssumption DEF Watermark, kHeaderSize
  <2>6. TypeOK
    BY <2>1, <2>2, <2>3, <2>4, <2>5 DEF TypeOK
  <2>7. Laid(sent, Len(handled) + 1, input \o wire, [i \in 1 .. 1 |-> 0])
    <3>. DEFINE off == [i \in 1 .. 1 |-> 0]
                b == input \o wire
    <3>1. Len(b) = 0
      BY <2>1, <2>3, <2>4, ConcatProperties
    <3>2. Len(sent) + 1 = 1 /\ Len(handled) + 1 = 1 /\ 1 \in 1 .. 1
      BY <2>3
    <3>3. off \in [1 .. 1 -> Nat] /\ off[1] = 0 /\ \A i \in 1 .. 1 : off[i] = 0
      OBVIOUS
    <3>. HIDE DEF off, b
    <3>4. \A i \in 1 .. Len(sent) : FALSE
      BY <2>3
    <3>5. \A i, j \in 1 .. 1 : off[i] <= off[j]
      BY <3>3
    <3>6. Len(b) = off[Len(sent) + 1] - off[Len(handled) + 1]
      BY <3>1, <3>2, <3>3
    <3>7. Laid(sent, Len(handled) + 1, b, off)
      BY <3>2, <3>3, <3>4, <3>5, <3>6 DEF Laid
    <3>. QED
      BY <3>7 DEF off, b
  <2>8. Whole
    BY <2>3, <2>7 DEF Whole
  <2>9. ClosedForCause
    BY <2>1 DEF ClosedForCause
  <2>. QED
    BY <2>4, <2>6, <2>8, <2>9 DEF IInv
<1>2. IInv /\ [Next]_vars => IInv'
  <2>. SUFFICES ASSUME IInv, [Next]_vars PROVE IInv'
    OBVIOUS
  <2>0. reading \in BOOLEAN
    BY DEF IInv, TypeOK
  <2>1. CASE \E f \in Frames \cup BadFrames : Send(f)
    BY <2>1, SendStep DEF Sendable
  <2>2. CASE \E k \in 1 .. Watermark : Fill(k)
    BY <2>2, FillStep
  <2>3. CASE Incomplete
    <3>1. reading' \in BOOLEAN
      BY <2>3, Zenon DEF Incomplete
    <3>. QED
      BY <2>3, <3>1, QuietStep DEF Incomplete
  <2>4. CASE BadHeader
    BY <2>4, BadHeaderStep
  <2>5. CASE TakeFrame
    BY <2>5, TakeFrameStep
  <2>6. CASE PeerGone
    BY <2>0, <2>6, QuietStep DEF PeerGone
  <2>7. CASE UNCHANGED vars
    BY <2>0, <2>7, QuietStep DEF vars
  <2>. QED
    BY <2>1, <2>2, <2>3, <2>4, <2>5, <2>6, <2>7 DEF Next, Read
<1>. QED
  BY <1>1, <1>2, PTL DEF Spec

\* The input buffer never exceeds the high watermark, and only whole, well-formed
\* frames reach handleFrame, whatever is sent.
THEOREM BufferBounded == Spec => []TypeOK
<1>1. IInv => TypeOK
  BY DEF IInv
<1>. QED
  BY <1>1, Invariant, PTL

\* onRead hands over the frames that were sent, in order, for every maximal
\* size, every payload and every way of cutting the bytes into pieces; it closes
\* the connection for a malformed frame only, everything before it handled.
THEOREM FramesArriveInOrder == Spec => []FramesInOrder
<1>1. IInv => FramesInOrder
  <2>. SUFFICES ASSUME IInv PROVE FramesInOrder
    OBVIOUS
  <2>1. /\ handled \in Seq(Frames) /\ sent \in Seq(Frames \cup BadFrames)
        /\ Len(handled) \in Nat /\ Len(sent) \in Nat /\ Len(handled) <= Len(sent)
        /\ \A i \in 1 .. Len(handled) : handled[i] = sent[i]
    BY DEF IInv, TypeOK, Whole
  <2>. DEFINE s == SubSeq(handled, 1, Len(handled))
              t == SubSeq(sent, 1, Len(handled))
  <2>2. s \in Seq(Frames \cup BadFrames) /\ Len(s) = Len(handled) /\ \A i \in 1 .. Len(handled) : s[i] = handled[i]
    BY <2>1
  <2>3. t \in Seq(Frames \cup BadFrames) /\ Len(t) = Len(handled) /\ \A i \in 1 .. Len(handled) : t[i] = sent[i]
    BY <2>1
  <2>. HIDE DEF s, t
  <2>4. s = t
    BY <2>1, <2>2, <2>3, SeqEqual
  <2>5. IsPrefix(handled, sent)
    BY <2>1, <2>4 DEF IsPrefix, s, t
  <2>. QED
    BY <2>5 DEF FramesInOrder, IInv, ClosedForCause
<1>. QED
  BY <1>1, Invariant, PTL
=============================================================================
