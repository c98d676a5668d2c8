---------------------------- MODULE StreamFraming ----------------------------
(***************************************************************************)
(* The byte stream of transport/stream: frames of two start bytes, a       *)
(* big-endian length and the data, written by several goroutines and read  *)
(* byte by byte by one ReadBytes at a time.  Between frames the far end    *)
(* may print (a serial console does), and payloads may hold any byte, the  *)
(* start bytes included.                                                   *)
(***************************************************************************)
EXTENDS Naturals, Sequences, SequencesExt

CONSTANTS
    Writers,     \* goroutines calling WriteBytes on one Conn
    Payloads,    \* data given to WriteBytes, as sequences of bytes
    Noise,       \* what the far end prints between frames
    WakeLen,     \* 32 in the code: start bytes of writeWake
    PacketMTU,   \* 512 in the code
    MaxFrames,   \* bound on the frames of a behaviour
    MaxNoise     \* bound on the noise chunks of a behaviour

Start1 == 148
Start2 == 195
Byte == 0 .. 255

ASSUME FramingAssumption ==
    /\ Payloads \subseteq Seq(Byte) /\ Noise \subseteq Seq(Byte)
    /\ PacketMTU \in Nat /\ PacketMTU < 65536  \* a length has two bytes
    /\ WakeLen \in Nat /\ MaxFrames \in Nat /\ MaxNoise \in Nat
    /\ "free" \notin Writers

VARIABLES
    wire,        \* bytes written and not yet read
    closed,      \* the connection failed or was closed
    writer,      \* writer[w]: where WriteBytes is and the data it was given
    writeMu,     \* the writer holding writeMu, or "free"
    reader,      \* where ReadBytes is, and the bytes it has of header and data
    frames,      \* history: data of the frames whose header was written, in order
    complete,    \* history: how many of them were written to the end
    printed,     \* history: the noise, in order
    stray,       \* history: some noise left a false header open
    received,    \* what ReadBytes returned, in order
    debug        \* what DebugWriter was given

framingVars == <<wire, closed, writer, writeMu, reader, frames, complete, printed,
                 stray, received, debug>>

Idle == [pc |-> "idle", data |-> <<>>]
Scan == [pc |-> "start1", buf |-> <<>>]

\* NewRadioConn starts with nothing on the wire; NewClientConn wakes the radio first.
writeWake == [i \in 1 .. WakeLen |-> Start2]

FramingInit ==
    /\ \E wake \in {<<>>, writeWake} : wire = wake /\ printed = wake
    /\ closed = FALSE /\ stray = FALSE
    /\ writer = [w \in Writers |-> Idle] /\ writeMu = "free"
    /\ reader = Scan
    /\ frames = <<>> /\ complete = 0 /\ received = <<>> /\ debug = <<>>
-----------------------------------------------------------------------------
\* WriteBytes: data longer than the MTU is refused before anything is written.
Submit(w, d) ==
    /\ writer[w].pc = "idle" /\ Len(frames) < MaxFrames
    /\ writer' = [writer EXCEPT ![w] =
                     IF Len(d) > PacketMTU THEN [pc |-> "failed", data |-> d]
                                           ELSE [pc |-> "lock", data |-> d]]
    /\ UNCHANGED <<wire, closed, writeMu, reader, frames, complete, printed, stray, received, debug>>

Lock(w) ==
    /\ writer[w].pc = "lock" /\ writeMu = "free"
    /\ writeMu' = w
    /\ writer' = [writer EXCEPT ![w].pc = "header"]
    /\ UNCHANGED <<wire, closed, reader, frames, complete, printed, stray, received, debug>>

Header(n) == <<Start1, Start2, n \div 256, n % 256>>

\* writeStreamHeader: one Write of the whole header, which fails on a closed connection.
WriteHeader(w) ==
    /\ writer[w].pc = "header" /\ ~closed /\ Len(frames) < MaxFrames
    /\ wire' = wire \o Header(Len(writer[w].data))
    /\ frames' = Append(frames, writer[w].data)
    /\ writer' = [writer EXCEPT ![w].pc = "data"]
    /\ UNCHANGED <<closed, writeMu, reader, complete, printed, stray, received, debug>>

\* The data, then the deferred unlock.
WriteData(w) ==
    /\ writer[w].pc = "data" /\ ~closed
    /\ wire' = wire \o writer[w].data
    /\ complete' = complete + 1
    /\ writer' = [writer EXCEPT ![w] = Idle] /\ writeMu' = "free"
    /\ UNCHANGED <<closed, reader, frames, printed, stray, received, debug>>

\* A Write on a closed connection: WriteBytes returns the error and unlocks.
WriteFails(w) ==
    /\ writer[w].pc \in {"header", "data"} /\ closed
    /\ writer' = [writer EXCEPT ![w].pc = "failed"] /\ writeMu' = "free"
    /\ UNCHANGED <<wire, closed, reader, frames, complete, printed, stray, received, debug>>

\* Noise that ReadBytes is done with when it ends: it has no Start1, or one that the
\* next byte belies, or a whole header with an impossible length.
SelfContained(n) ==
    \/ ~Contains(n, Start1)
    \/ Len(n) = 2 /\ n[1] = Start1 /\ n[2] # Start2
    \/ /\ Len(n) = 4 /\ n[1] = Start1 /\ n[2] = Start2
       /\ 256 * n[3] + n[4] > PacketMTU

\* External: the far end prints between its frames.
PrintNoise(n) ==
    /\ ~closed /\ writeMu = "free" /\ Len(printed) < WakeLen + MaxNoise
    /\ wire' = wire \o n /\ printed' = printed \o n
    /\ stray' = (stray \/ ~SelfContained(n))
    /\ UNCHANGED <<closed, writer, writeMu, reader, frames, complete, received, debug>>

\* External: either end closes, or the line drops; what was written can still be read.
CloseStream ==
    /\ ~closed /\ closed' = TRUE
    /\ UNCHANGED <<wire, writer, writeMu, reader, frames, complete, printed, stray, received, debug>>
-----------------------------------------------------------------------------
Length(buf) == 256 * buf[3] + buf[4]

\* Mutant: a frame of exactly the MTU is taken for a corrupt one.
TooLongEarly(buf) == Length(buf) >= PacketMTU

TooLong(buf) == Length(buf) > PacketMTU

\* ReadBytes has read buf and no more: where it goes on.  A first byte that is not
\* Start1 goes to DebugWriter; a wrong second byte, or too large a length, starts over.
Advance(buf) ==
    CASE Len(buf) = 1 -> IF buf[1] = Start1 THEN "start2" ELSE "start1"
      [] Len(buf) = 2 -> IF buf[2] = Start2 THEN "length" ELSE "start1"
      [] Len(buf) = 3 -> "length"
      [] Len(buf) >= 4 -> IF TooLong(buf) THEN "start1"
                          ELSE IF Len(buf) = 4 + Length(buf) THEN "return" ELSE "data"

ReadByte ==
    /\ wire # <<>> /\ reader.pc \notin {"return", "failed"}
    /\ wire' = Tail(wire)
    /\ LET buf == Append(reader.buf, Head(wire)) IN
         /\ reader' = [pc |-> Advance(buf),
                       buf |-> IF Advance(buf) = "start1" THEN <<>> ELSE buf]
         /\ debug' = IF Len(buf) = 1 /\ buf[1] # Start1 THEN debug \o buf ELSE debug
    /\ UNCHANGED <<closed, writer, writeMu, frames, complete, printed, stray, received>>

\* ReadBytes returns its data; the caller calls it again.
ReadReturns ==
    /\ reader.pc = "return"
    /\ received' = Append(received, SubSeq(reader.buf, 5, Len(reader.buf)))
    /\ reader' = Scan
    /\ UNCHANGED <<wire, closed, writer, writeMu, frames, complete, printed, stray, debug>>

\* io.ReadFull on a closed, drained connection fails; the bytes read so far are lost.
ReadFails ==
    /\ wire = <<>> /\ closed /\ reader.pc \notin {"return", "failed"}
    /\ reader' = [pc |-> "failed", buf |-> <<>>]
    /\ UNCHANGED <<wire, closed, writer, writeMu, frames, complete, printed, stray, received, debug>>

FramingNext ==
    \/ \E w \in Writers :
         \/ \E d \in Payloads : Submit(w, d)
         \/ Lock(w) \/ WriteHeader(w) \/ WriteData(w) \/ WriteFails(w)
    \/ \E n \in Noise : PrintNoise(n)
    \/ CloseStream
    \/ ReadByte \/ ReadReturns \/ ReadFails

FramingSpec == FramingInit /\ [][FramingNext]_framingVars
-----------------------------------------------------------------------------
\* Whatever the payloads hold, whoever writes them and however reads and writes
\* interleave, ReadBytes returns the frames whole and in the order WriteBytes wrote
\* them; once the stream is drained every complete frame has come out, and DebugWriter
\* has had the other bytes.  Premise: no noise leaves a false header open.
FramesRecovered ==
    ~stray =>
        /\ IsPrefix(received, frames)
        /\ wire = <<>> /\ reader.pc \in {"start1", "failed"} =>
               /\ complete <= Len(received)
               /\ Contains(printed, Start1) \/ debug = printed

\* The same without the premise: one stray Start1 before a frame swallows its header.
FramesAlwaysRecovered ==
    /\ IsPrefix(received, frames)
    /\ wire = <<>> /\ reader.pc \in {"start1", "failed"} => complete <= Len(received)
=============================================================================
