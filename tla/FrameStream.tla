---------------------------- MODULE FrameStream ----------------------------
(***************************************************************************)
(* How Connection::onRead cuts the byte stream of one peer into frames.    *)
(* The socket hands the bytes over in pieces of any size; libevent stops   *)
(* reading when the input buffer is at the high watermark and goes on when *)
(* it has been drained.                                                    *)
(*                                                                         *)
(* Bytes are small integers.  The header of 12 bytes is abstracted to two: *)
(* the magic and the payload length.  Payload bytes may look like either.  *)
(***************************************************************************)
EXTENDS Integers, Sequences, SequencesExt

CONSTANTS
    Magic,           \* kFrameMagic
    PayloadBytes,    \* the bytes payloads are made of
    kMaxFrameSize,   \* the longest payload
    MaxFrames        \* bound: frames the peer sends

ASSUME FrameAssumption ==
    /\ Magic \in Nat
    /\ PayloadBytes \subseteq Nat
    /\ kMaxFrameSize \in Nat
    /\ MaxFrames \in Nat

VARIABLES
    sent,      \* the frames the peer has sent, as the bytes of each
    wire,      \* bytes sent and not yet read by libevent
    input,     \* the input evbuffer
    reading,   \* onRead is running
    handled,   \* the frames handleFrame has been called with
    status     \* "open"; "bad": closed by onRead; "gone": EOF, error or timeout

vars == <<sent, wire, input, reading, handled, status>>

-----------------------------------------------------------------------------
(* Protocol *)

kHeaderSize == 2

\* Protocol::encode.
Encode(payload) == <<Magic, Len(payload)>> \o payload

Frames == {Encode(p) : p \in UNION {[1 .. n -> PayloadBytes] : n \in 0 .. kMaxFrameSize}}

\* What a peer that does not speak the protocol begins a frame with.
BadFrames == {<<Magic + 1, 0>>, <<Magic, kMaxFrameSize + 1>>}

\* The magic is not looked at.
Mutant_AnyMagic(b) == b[2] <= kMaxFrameSize

\* Protocol::parseHeader accepts the header at the front of b.
HeaderOk(b) == b[1] = Magic /\ b[2] <= kMaxFrameSize

\* The high watermark set for reading leaves no room for the header.
Mutant_NoHeaderRoom == kMaxFrameSize

\* The high watermark set for reading.
Watermark == kMaxFrameSize + kHeaderSize

-----------------------------------------------------------------------------
(* Actions *)

Send(f) ==
    /\ status = "open"
    /\ Len(sent) < MaxFrames
    /\ sent' = Append(sent, f)
    /\ wire' = wire \o f
    /\ UNCHANGED <<input, reading, handled, status>>

\* libevent reads k bytes, never past the watermark, and calls onRead.
Fill(k) ==
    /\ status = "open"
    /\ ~reading
    /\ k <= Len(wire)
    /\ Len(input) + k <= Watermark
    /\ input' = input \o SubSeq(wire, 1, k)
    /\ wire' = SubSeq(wire, k + 1, Len(wire))
    /\ reading' = TRUE
    /\ UNCHANGED <<sent, handled, status>>

\* The loop of onRead looks at the front of the buffer.
Looking == status = "open" /\ reading

HeaderThere == Len(input) >= kHeaderSize

\* The frame the header announces is in the buffer as a whole.
FrameThere == HeaderThere /\ Len(input) >= kHeaderSize + input[2]

\* Nothing to do until more bytes are there: onRead returns.
Incomplete ==
    /\ Looking
    /\ ~FrameThere
    /\ HeaderThere => HeaderOk(input)
    /\ reading' = FALSE
    /\ UNCHANGED <<sent, wire, input, handled, status>>

\* close(): the connection is removed.
BadHeader ==
    /\ Looking
    /\ HeaderThere
    /\ ~HeaderOk(input)
    /\ status' = "bad"
    /\ reading' = FALSE
    /\ UNCHANGED <<sent, wire, input, handled>>

\* Only the header is drained when the payload has been copied.
Mutant_PayloadLeft ==
    /\ Looking
    /\ FrameThere
    /\ HeaderOk(input)
    /\ handled' = Append(handled, SubSeq(input, 1, kHeaderSize + input[2]))
    /\ input' = SubSeq(input, kHeaderSize + 1, Len(input))
    /\ UNCHANGED <<sent, wire, reading, status>>

\* A frame is taken out of the buffer and handled; errors are answered and do
\* not end the loop.
TakeFrame ==
    /\ Looking
    /\ FrameThere
    /\ HeaderOk(input)
    /\ LET n == kHeaderSize + input[2] IN
          /\ handled' = Append(handled, SubSeq(input, 1, n))
          /\ input' = SubSeq(input, n + 1, Len(input))
    /\ UNCHANGED <<sent, wire, reading, status>>

\* onEvent: end of file, error or idle timeout.
PeerGone ==
    /\ status = "open"
    /\ ~reading
    /\ status' = "gone"
    /\ UNCHANGED <<sent, wire, input, reading, handled>>

-----------------------------------------------------------------------------
(* Specification *)

Init ==
    /\ sent = << >>
    /\ wire = << >>
    /\ input = << >>
    /\ reading = FALSE
    /\ handled = << >>
    /\ status = "open"

Read == (\E k \in 1 .. Watermark : Fill(k)) \/ Incomplete \/ BadHeader \/ TakeFrame

Next ==
    \/ \E f \in Frames \cup BadFrames : Send(f)
    \/ Read
    \/ PeerGone

\* The event loop reads what is readable and runs the callback to its end.
Spec == Init /\ [][Next]_vars /\ WF_vars(Read)

-----------------------------------------------------------------------------
(* Properties *)

\* Every variable has its type; the buffer never exceeds the watermark, so a
\* peer cannot make the server hold more than one maximal frame.
TypeOK ==
    /\ sent \in Seq(Frames \cup BadFrames)
    /\ handled \in Seq(Frames)
    /\ Len(input) <= Watermark
    /\ reading \in BOOLEAN
    /\ status \in {"open", "bad", "gone"}

\* However the bytes are cut into pieces, the frames handled are the frames
\* sent, in order, none twice, none skipped and none made of payload bytes; and
\* only a malformed frame makes onRead close the connection, once it has handled
\* every frame before it.
FramesInOrder ==
    /\ IsPrefix(handled, sent)
    /\ status = "bad" => Len(handled) < Len(sent) /\ sent[Len(handled) + 1] \in BadFrames

\* Every frame sent is handled while the connection lasts: the watermark leaves
\* room for the longest frame, so reading never stops with half of one.
EveryFrameHandled ==
    \A n \in 1 .. MaxFrames : Len(sent) >= n ~> (Len(handled) >= n \/ status # "open")
=============================================================================
