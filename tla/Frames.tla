-------------------------------- MODULE Frames --------------------------------
(***************************************************************************)
(* One direction of a TCP connection (join.rs, TcpConnection): the stream  *)
(* of bytes that write_frame makes of messages, and read_frame's cutting   *)
(* of it, in whatever pieces the network hands it over.                    *)
(*                                                                         *)
(* Bytes are digits below Base and a length prefix is PrefixLen of them.   *)
(* A payload is its version byte and what follows: the body, encoded, and  *)
(* its tag.  Whether the tag is right and the body makes sense is up to    *)
(* the payload and the reader's key.                                       *)
(***************************************************************************)
EXTENDS Naturals, Sequences

CONSTANTS
    Base, PrefixLen,    \* 256 and 4 in the code
    MAX_FRAME_LEN,
    PROTOCOL_VERSION,
    Payload,            \* what may be written: a nonempty sequence of bytes each
    Opened, Decoded,    \* the payloads that key.open accepts, and from_bytes
    MaxFrames           \* bound on the messages of one connection

ASSUME FrameAssumption ==
    /\ {Base, PrefixLen, MAX_FRAME_LEN, MaxFrames} \subseteq Nat \ {0}
    /\ Payload \subseteq Seq(0 .. Base - 1) \ {<<>>}

VARIABLES
    wire,     \* the bytes written and not yet read
    closed,   \* the writer has hung up, or died
    reset,    \* the connection is broken, and the reader's system knows
    buffer,   \* TcpConnection.buffer of the reader
    sent,     \* history: the payloads written that the stream still holds or held
    read,     \* the payloads that read_frame has returned
    end,      \* "open"; "end", read_frame's Ok(None); or "error", its Err
    cut       \* history: the writer died within a frame

vars == <<wire, closed, reset, buffer, sent, read, end, cut>>

\* What is left of n without its last j digits.
Without(n) ==
    LET left[j \in 0 .. PrefixLen] == IF j = 0 THEN n ELSE left[j - 1] \div Base
    IN  left

\* try_from: a prefix has room for n.
Fits(n) == Without(n)[PrefixLen] = 0

\* A mutant: a digit keeps those above it.
Prefix_Uncut(n) == [i \in 1 .. PrefixLen |-> Without(n)[PrefixLen - i]]

\* Big endian, and back.
Prefix(n) == [i \in 1 .. PrefixLen |-> Without(n)[PrefixLen - i] % Base]
Values(digits) ==
    LET upto[i \in 0 .. Len(digits)] == IF i = 0 THEN 0 ELSE Base * upto[i - 1] + digits[i]
    IN  upto
Number(digits) == Values(digits)[Len(digits)]

Frame(payload) == Prefix(Len(payload)) \o payload

\* The bytes of the first k payloads.
Stream(payloads) ==
    LET first[k \in 0 .. Len(payloads)] ==
            IF k = 0 THEN <<>> ELSE first[k - 1] \o Frame(payloads[k])
    IN  first

Init ==
    /\ wire = <<>> /\ buffer = <<>> /\ sent = <<>> /\ read = <<>>
    /\ closed = FALSE /\ reset = FALSE /\ cut = FALSE
    /\ end = "open"

-----------------------------------------------------------------------------
(* The writer.                                                              *)

\* What it writes still reaches the stream.
Connected == ~closed /\ ~reset

\* write_frame: a length that does not fit its prefix is an error.
WriteFrame(payload) ==
    /\ Connected /\ Len(sent) < MaxFrames
    /\ Fits(Len(payload))
    /\ wire' = wire \o Frame(payload)
    /\ sent' = Append(sent, payload)
    /\ UNCHANGED <<closed, reset, buffer, read, end, cut>>

Close ==
    /\ Connected
    /\ closed' = TRUE
    /\ UNCHANGED <<wire, reset, buffer, sent, read, end, cut>>

\* The writer dies, or its wait is over, with only some of what it wrote on its way.
Die(left) ==
    /\ Connected /\ left < Len(wire)
    /\ closed' = TRUE
    /\ wire' = SubSeq(wire, 1, left)
    /\ LET length(k) == Len(Stream(sent)[k])
           through == length(Len(sent)) - Len(wire) + left
           last == CHOOSE k \in 0 .. Len(sent) :
                      /\ length(k) <= through
                      /\ k < Len(sent) => length(k + 1) > through
       IN  /\ sent' = SubSeq(sent, 1, last)
           /\ cut' = (length(last) < through)
    /\ UNCHANGED <<reset, buffer, read, end>>

\* The connection is reset, whether the writer has hung up or not.  What it had written
\* may yet be read.
Reset ==
    /\ ~reset
    /\ reset' = TRUE
    /\ UNCHANGED <<wire, closed, buffer, sent, read, end, cut>>

-----------------------------------------------------------------------------
(* The reader.                                                              *)

Announced == Number(SubSeq(buffer, 1, PrefixLen))

\* What parse_frame finds, in the order in which it looks.
HasPrefix == Len(buffer) >= PrefixLen

TooLong == HasPrefix /\ Announced > MAX_FRAME_LEN

\* A mutant: a frame is waited for until there is more than it.
Whole_AndMore == HasPrefix /\ ~TooLong /\ Len(buffer) > PrefixLen + Announced

Whole == HasPrefix /\ ~TooLong /\ Len(buffer) >= PrefixLen + Announced

Parsed == SubSeq(buffer, PrefixLen + 1, PrefixLen + Announced)

\* A mutant: what was read beyond the frame is dropped.
Rest_Dropped == <<>>

Rest == SubSeq(buffer, PrefixLen + Announced + 1, Len(buffer))

\* A frame of this version, from somebody with the key, that is a body.
Good ==
    /\ Parsed # <<>> /\ Parsed[1] = PROTOCOL_VERSION
    /\ Parsed \in Opened
    /\ Parsed \in Decoded

ReturnFrame ==
    /\ end = "open" /\ Whole /\ Good
    /\ read' = Append(read, Parsed)
    /\ buffer' = Rest
    /\ UNCHANGED <<wire, closed, reset, sent, end, cut>>

Bail ==
    /\ end = "open" /\ (TooLong \/ (Whole /\ ~Good))
    /\ end' = "error"
    /\ UNCHANGED <<wire, closed, reset, buffer, sent, read, cut>>

\* More is to be read before there is a frame.
Waiting == end = "open" /\ ~Whole /\ ~TooLong

\* read_buf: any number of the bytes that are there.
ReadBuf ==
    /\ Waiting
    /\ \E n \in 1 .. Len(wire) :
          /\ buffer' = buffer \o SubSeq(wire, 1, n)
          /\ wire' = SubSeq(wire, n + 1, Len(wire))
    /\ UNCHANGED <<closed, reset, sent, read, end, cut>>

\* A mutant: nothing is looked at but that the stream has ended.
AtEof_Error == "error"

AtEof == IF buffer = <<>> THEN "end" ELSE "error"

Eof ==
    /\ Waiting /\ closed /\ wire = <<>>
    /\ end' = AtEof
    /\ UNCHANGED <<wire, closed, reset, buffer, sent, read, cut>>

\* read_buf fails, at the boundary of a frame as well as within one.
ReadError ==
    /\ Waiting /\ reset
    /\ end' = "error"
    /\ UNCHANGED <<wire, closed, reset, buffer, sent, read, cut>>

ReadFrame == ReturnFrame \/ Bail \/ ReadBuf \/ Eof \/ ReadError

Next ==
    \/ \E p \in Payload : WriteFrame(p)
    \/ Close
    \/ \E left \in 0 .. Len(wire) : Die(left)
    \/ Reset
    \/ ReadFrame

\* The reader's task runs, and what was written arrives.
Spec == Init /\ [][Next]_vars /\ WF_vars(ReadFrame)

-----------------------------------------------------------------------------
(* Properties.                                                              *)

Byte == 0 .. Base - 1
TypeOK ==
    /\ wire \in Seq(Byte) /\ buffer \in Seq(Byte)
    /\ sent \in Seq(Payload) /\ read \in Seq(Payload)
    /\ closed \in BOOLEAN /\ reset \in BOOLEAN /\ cut \in BOOLEAN
    /\ end \in {"open", "end", "error"}

\* The messages come out as they went in (join.rs, write_frame, read_frame), however
\* many reads a frame takes or frames a read brings: none is torn, joined to the
\* next, dropped with what was read ahead or read twice; and a connection that ends
\* within a frame is no end.
Delivers == INSTANCE Mailbox WITH Message <- Payload, received <- read, torn <- cut
IsMailbox == Delivers!Spec

\* A connection fails for a reason, and read_frame's error is never of its own making:
\* the connection was reset, the writer died within a frame, or what comes next in the
\* stream is not to be read, being longer than MAX_FRAME_LEN, which write_frame does not
\* look at, of another version, sealed with another key or no body.
Readable(payload) ==
    /\ Len(payload) <= MAX_FRAME_LEN
    /\ payload[1] = PROTOCOL_VERSION
    /\ payload \in Opened /\ payload \in Decoded
FailsForAReason ==
    end = "error" =>
        \/ reset
        \/ cut /\ read = sent
        \/ Len(read) < Len(sent) /\ ~Readable(sent[Len(read) + 1])

\* Every frame that can be read is read, unless one before it cannot; and a
\* connection that is closed or reset comes to its end.
EveryFrameRead ==
    /\ \A k \in 1 .. MaxFrames :
          k <= Len(sent) ~> k <= Len(read) \/ k > Len(sent) \/ end = "error"
    /\ closed \/ reset ~> end # "open"
=============================================================================
