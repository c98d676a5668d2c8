----------------------------- MODULE ClientApi ------------------------------
(***************************************************************************)
(* device/clientapi: the server that phones and in-process clients talk    *)
(* to.  handleConn runs a reader and a writer goroutine per connection in  *)
(* an errgroup and closes the connection when both have returned.  The     *)
(* reader answers requests itself, so both write; the stream's writeMu     *)
(* keeps their messages apart.  DispatchToClients is called by the receive *)
(* pipeline and never waits for a client.                                  *)
(***************************************************************************)
EXTENDS StreamPipe, FiniteSets, SequencesExt

CONSTANTS
    Peers,          \* nodes in the NodeDB, which a handshake reads once
    MaxChannels,    \* core.MaxChannels, the slots of the channel table
    BufferSize,     \* subscriberBufferSize
    MaxDispatch     \* bound on the packets dispatched

ASSUME ClientApiAssumption ==
    /\ IsFiniteSet(Peers)
    /\ MaxChannels \in Nat /\ BufferSize \in Nat \ {0} /\ MaxDispatch \in Nat

VARIABLES
    serving,      \* handleConn: "none", "run", "returned"
    rd,           \* rd[c]: the reader: pc, todo (the messages it has yet to write) and
                  \* id (the configuration ID it answers)
    wr,           \* wr[c]: the writer: pc, and msg, the message it has taken
    writeMu,      \* writeMu[c] of the stream: "free", "rd", "wr"
    subscribers,  \* connections whose channel is registered
    buffer,       \* buffer[c]: that channel
    failed,       \* connections whose errgroup was cancelled by an error
    ctxDone,      \* the context of the server has ended
    dispatched    \* packets dispatched so far, numbered from 1

server == <<serving, rd, wr, writeMu, subscribers, buffer, failed, ctxDone,
            dispatched>>

Msg(kind, arg) == [kind |-> kind, arg |-> arg]

ServerInit ==
    /\ serving = [c \in Conns |-> "none"]
    /\ rd = [c \in Conns |-> [pc |-> "off", todo |-> <<>>, id |-> 0]]
    /\ wr = [c \in Conns |-> [pc |-> "off", msg |-> Msg("none", 0)]]
    /\ writeMu = [c \in Conns |-> "free"]
    /\ subscribers = {} /\ buffer = [c \in Conns |-> <<>>] /\ failed = {}
    /\ ctxDone = FALSE /\ dispatched = 0

EgDone(c) == c \in failed \/ ctxDone
-----------------------------------------------------------------------------
\* DispatchToClients, under mu.  A full channel is skipped.
\* Mutant: the new message takes the place of the oldest one.
PushOver(b, m) == IF Len(b) < BufferSize THEN Append(b, m) ELSE <<m>> \o Tail(b)
Push(b, m) == IF Len(b) < BufferSize THEN Append(b, m) ELSE b

DispatchToClients ==
    /\ dispatched < MaxDispatch
    /\ dispatched' = dispatched + 1
    /\ buffer' = [c \in Conns |-> IF c \in subscribers
                                  THEN Push(buffer[c], Msg("packet", dispatched'))
                                  ELSE buffer[c]]
    /\ UNCHANGED <<pipe, serving, rd, wr, writeMu, subscribers, failed, ctxDone>>

\* The context given to Start and Conn ends.
Shutdown ==
    /\ ~ctxDone
    /\ ctxDone' = TRUE
    /\ UNCHANGED <<pipe, serving, rd, wr, writeMu, subscribers, buffer, failed,
                   dispatched>>
-----------------------------------------------------------------------------
(***************************************************************************)
(* handleConn.                                                             *)
(***************************************************************************)

\* Conn, or Accept in listenTCP (until the listener is closed): both goroutines start.
HandleConn(c) ==
    /\ serving[c] = "none"
    /\ c \notin InMemory => ~ctxDone
    /\ serving' = [serving EXCEPT ![c] = "run"]
    /\ rd' = [rd EXCEPT ![c].pc = "loop"]
    /\ wr' = [wr EXCEPT ![c].pc = "start"]
    /\ UNCHANGED <<pipe, writeMu, subscribers, buffer, failed, ctxDone,
                   dispatched>>

\* The first error of a goroutine cancels egCtx.
Fail(c) == failed' = failed \cup {c}

\* eg.Wait, then the deferred Close.
HandleConnReturns(c) ==
    /\ serving[c] = "run" /\ rd[c].pc \in {"left", "done"} /\ wr[c].pc = "done"
    /\ serving' = [serving EXCEPT ![c] = "returned"]
    /\ radioOpen' = [radioOpen EXCEPT ![c] = FALSE]
    /\ UNCHANGED <<down, up, clientOpen, rd, wr, writeMu, subscribers, buffer, failed,
                   ctxDone, dispatched>>
-----------------------------------------------------------------------------
(***************************************************************************)
(* The reader.                                                             *)
(***************************************************************************)

ReaderFrame(c) == UNCHANGED <<serving, wr, subscribers, buffer, ctxDone, dispatched>>

\* The select at the head of the loop.
ReaderLoop(c) ==
    /\ rd[c].pc = "loop"
    /\ rd' = [rd EXCEPT ![c].pc = IF EgDone(c) THEN "done" ELSE "read"]
    /\ UNCHANGED <<pipe, writeMu, failed>> /\ ReaderFrame(c)

\* handleHandshake up to the own NodeInfo, and from the snapshot of the NodeDB on.
HandshakeHead == <<Msg("myinfo", 0), Msg("metadata", 0), Msg("presets", 0), Msg("node", "self")>>
\* Mutant: the channel table comes after ConfigComplete.
HandshakeTailEarly(order, id) ==
    [i \in 1..Len(order) |-> Msg("node", order[i])]
        \o <<Msg("config", 0), Msg("complete", id)>>
        \o [i \in 1..MaxChannels |-> Msg("channel", i - 1)]
HandshakeTail(order, id) ==
    [i \in 1..Len(order) |-> Msg("node", order[i])]
        \o [i \in 1..MaxChannels |-> Msg("channel", i - 1)]
        \o <<Msg("config", 0), Msg("complete", id)>>

\* What the reader does next after a message of each kind ("left": it returns nil,
\* which does not cancel the writer, as an error does); arg is the configuration ID
\* of a WantConfigId.  "admin" asks for a channel, "adminbad" does not parse; a
\* "packet" is given to OnOutboundPacket (module Send), other admin requests are ignored.
AfterRead(m) ==
    CASE m.kind = "want" -> [pc |-> "hello", todo |-> HandshakeHead, id |-> m.arg]
      [] m.kind = "admin" -> [pc |-> "answer", todo |-> <<Msg("adminresp", 0)>>, id |-> 0]
      [] m.kind = "disconnect" -> [pc |-> "left", todo |-> <<>>, id |-> 0]
      [] m.kind = "adminbad" -> [pc |-> "done", todo |-> <<>>, id |-> 0]
      [] OTHER -> [pc |-> "loop", todo |-> <<>>, id |-> 0]

ReaderRead(c) ==
    /\ rd[c].pc = "read" /\ Readable(up, c)
    /\ up' = [up EXCEPT ![c] = Tail(@)]
    /\ rd' = [rd EXCEPT ![c] = AfterRead(Head(up[c]))]
    /\ IF Head(up[c]).kind = "adminbad" THEN Fail(c) ELSE UNCHANGED failed
    /\ UNCHANGED <<down, clientOpen, radioOpen, writeMu>> /\ ReaderFrame(c)

\* Read fails: the client has closed.
\* Mutant: EOF ends the reader without an error.
ReaderEofQuiet(c) ==
    /\ rd[c].pc = "read" /\ ~Readable(up, c) /\ ~clientOpen[c]
    /\ rd' = [rd EXCEPT ![c].pc = "done"]
    /\ UNCHANGED <<pipe, writeMu, failed>> /\ ReaderFrame(c)
ReaderEof(c) ==
    /\ rd[c].pc = "read" /\ ~Readable(up, c) /\ ~clientOpen[c]
    /\ rd' = [rd EXCEPT ![c].pc = "done"]
    /\ Fail(c)
    /\ UNCHANGED <<pipe, writeMu>> /\ ReaderFrame(c)

ReaderAnswers(c) == rd[c].pc \in {"hello", "table", "answer"}

\* conn.Write of the next answer: writeMu, the message, and its return.
ReaderWrite(c) ==
    /\ ReaderAnswers(c) /\ rd[c].todo # <<>> /\ Fits(Head(rd[c].todo))
    /\ writeMu[c] = "free" /\ Open(c) /\ Room(down, c)
    /\ writeMu' = [writeMu EXCEPT ![c] = "rd"]
    /\ down' = [down EXCEPT ![c] = Append(@, Head(rd[c].todo))]
    /\ UNCHANGED <<up, clientOpen, radioOpen, rd, failed>> /\ ReaderFrame(c)

\* The write returns; after the last answer the reader is back at its loop.
ReaderWritten(c) ==
    /\ writeMu[c] = "rd" /\ Taken(down, c)
    /\ writeMu' = [writeMu EXCEPT ![c] = "free"]
    /\ rd' = [rd EXCEPT ![c].todo = Tail(@),
                        ![c].pc = IF Len(rd[c].todo) > 1 \/ @ = "hello" THEN @ ELSE "loop"]
    /\ UNCHANGED <<pipe, failed>> /\ ReaderFrame(c)

\* An error on a closed connection, or for a message that is too long on any: the
\* handshake is broken off.
ReaderWriteFails(c) ==
    /\ ReaderAnswers(c) /\ rd[c].todo # <<>>
    /\ \/ ~Fits(Head(rd[c].todo))
       \/ ~Open(c) /\ (writeMu[c] = "free" \/ (writeMu[c] = "rd" /\ ~Taken(down, c)))
    /\ writeMu' = [writeMu EXCEPT ![c] = IF @ = "rd" THEN "free" ELSE @]
    /\ rd' = [rd EXCEPT ![c] = [pc |-> "done", todo |-> <<>>, id |-> 0]]
    /\ Fail(c)
    /\ UNCHANGED pipe /\ ReaderFrame(c)

\* Nodes.All is read, in the order of a Go map, and the rest of the handshake follows.
ReaderSnapshot(c) ==
    /\ rd[c].pc = "hello" /\ rd[c].todo = <<>>
    /\ \E order \in SetToSeqs(Peers) :
          rd' = [rd EXCEPT ![c].pc = "table", ![c].todo = HandshakeTail(order, rd[c].id)]
    /\ UNCHANGED <<pipe, writeMu, failed>> /\ ReaderFrame(c)
-----------------------------------------------------------------------------
(***************************************************************************)
(* The writer.                                                             *)
(***************************************************************************)

WriterFrame(c) == UNCHANGED <<serving, rd, ctxDone, dispatched>>

AddSubscriber(c) ==
    /\ wr[c].pc = "start"
    /\ subscribers' = subscribers \cup {c}
    /\ wr' = [wr EXCEPT ![c].pc = "select"]
    /\ UNCHANGED <<pipe, writeMu, buffer, failed>> /\ WriterFrame(c)

WriterTake(c) ==
    /\ wr[c].pc = "select" /\ buffer[c] # <<>>
    /\ wr' = [wr EXCEPT ![c] = [pc |-> "write", msg |-> Head(buffer[c])]]
    /\ buffer' = [buffer EXCEPT ![c] = Tail(@)]
    /\ UNCHANGED <<pipe, writeMu, subscribers, failed>> /\ WriterFrame(c)

\* The writer returns, its deferred removeSubscriber included.
Leave(c) ==
    /\ wr' = [wr EXCEPT ![c] = [pc |-> "done", msg |-> Msg("none", 0)]]
    /\ subscribers' = subscribers \ {c}
    /\ buffer' = [buffer EXCEPT ![c] = <<>>]

WriterCancelled(c) ==
    /\ wr[c].pc = "select" /\ EgDone(c)
    /\ Leave(c)
    /\ UNCHANGED <<pipe, writeMu, failed>> /\ WriterFrame(c)

WriterWrite(c) ==
    /\ wr[c].pc = "write" /\ Fits(wr[c].msg)
    /\ writeMu[c] = "free" /\ Open(c) /\ Room(down, c)
    /\ writeMu' = [writeMu EXCEPT ![c] = "wr"]
    /\ down' = [down EXCEPT ![c] = Append(@, wr[c].msg)]
    /\ UNCHANGED <<up, clientOpen, radioOpen, wr, subscribers, buffer, failed>>
    /\ WriterFrame(c)

WriterWritten(c) ==
    /\ writeMu[c] = "wr" /\ Taken(down, c)
    /\ writeMu' = [writeMu EXCEPT ![c] = "free"]
    /\ wr' = [wr EXCEPT ![c] = [pc |-> "select", msg |-> Msg("none", 0)]]
    /\ UNCHANGED <<pipe, subscribers, buffer, failed>> /\ WriterFrame(c)

WriterWriteFails(c) ==
    /\ wr[c].pc = "write"
    /\ \/ ~Fits(wr[c].msg)
       \/ ~Open(c) /\ (writeMu[c] = "free" \/ (writeMu[c] = "wr" /\ ~Taken(down, c)))
    /\ writeMu' = [writeMu EXCEPT ![c] = IF @ = "wr" THEN "free" ELSE @]
    /\ Leave(c) /\ Fail(c)
    /\ UNCHANGED pipe /\ WriterFrame(c)
-----------------------------------------------------------------------------
ReaderStep(c) ==
    \/ ReaderLoop(c) \/ ReaderRead(c) \/ ReaderEof(c) \/ ReaderWrite(c) \/ ReaderWritten(c)
    \/ ReaderWriteFails(c) \/ ReaderSnapshot(c)
WriterStep(c) ==
    \/ AddSubscriber(c) \/ WriterTake(c) \/ WriterCancelled(c) \/ WriterWrite(c)
    \/ WriterWritten(c) \/ WriterWriteFails(c)
ServerEnvironment == DispatchToClients \/ Shutdown
ServerStep(c) == HandleConn(c) \/ HandleConnReturns(c) \/ ReaderStep(c) \/ WriterStep(c)
=============================================================================
