--------------------------- MODULE SessionProofs ----------------------------
(***************************************************************************)
(* Proofs about a client and the client API server over one connection     *)
(* (transport/client and device/clientapi).                                *)
(*                                                                         *)
(*  - Types and the bound of the subscriber buffers: Shape.                *)
(*  - No call of a handler after Unsubscribe has returned: Dispatching.    *)
(*  - Packets reach the handler in the order they were dispatched: InLine, *)
(*    which orders everything between the subscriber buffer and the        *)
(*    handler, since a number that may still arrive has to be larger than  *)
(*    all that has arrived.                                                *)
(*  - A Connect that returned nil saw a whole configuration: Once, which   *)
(*    follows the one WantConfigId from the client to the server and its   *)
(*    answer back.                                                         *)
(***************************************************************************)
EXTENDS ClientSession, TLAPS, SequenceTheorems, FiniteSetTheorems

\* The messages of either direction. Kinds are those of FromRadio.
Kinds == {"none", "packet", "myinfo", "metadata", "presets", "node", "channel", "config",
          "complete", "adminresp"}
Arg == Nat \cup {"self"} \cup Peers
Down == {m \in [kind : Kinds, arg : Arg] : /\ m.kind = "packet" => m.arg \in Nat
                                           /\ m.kind = "channel" => m.arg \in Slots}
Packets == {m \in Down : m.kind = "packet"}
Answers == {m \in Down : m.kind # "packet"}
None == Msg("none", 0)
Up == [kind : Requests \cup {"want", "none"}, arg : Nat]

\* The locals of the goroutines: reader and writer of a connection, a call of
\* the client and its read loop.
Answering == {"hello", "table", "answer"}
Reader == [pc : Answering \cup {"off", "loop", "read", "left", "done"},
           todo : Seq(Answers), id : Nat]
Writer == [pc : {"off", "start", "select", "write", "done"}, msg : Packets \cup {None}]
Caller == [pc : {"idle", "want", "wanted", "wait", "send", "sent", "lock"}, k : Nat, req : Up]
Looper == [pc : {"off", "read", "got", "closing", "handler", "dispatch", "ended"},
           msg : Down, todo : Seq(Subs)]

\* The types of the pipe, the server and the client.
PipeTyped ==
    /\ down \in [Conns -> Seq(Down)] /\ up \in [Conns -> Seq(Up)]
    /\ clientOpen \in [Conns -> BOOLEAN] /\ radioOpen \in [Conns -> BOOLEAN]
ServerTyped ==
    /\ serving \in [Conns -> {"none", "run", "returned"}]
    /\ rd \in [Conns -> Reader] /\ wr \in [Conns -> Writer]
    /\ writeMu \in [Conns -> {"free", "rd", "wr"}]
    /\ subscribers \in SUBSET Conns /\ failed \in SUBSET Conns
    /\ buffer \in [Conns -> Seq(Packets)]
    /\ ctxDone \in BOOLEAN /\ dispatched \in Nat
ClientTyped ==
    /\ call \in [Callers \cup Loops -> Caller]
    /\ cMu \in {0} \cup Callers \cup Loops
    /\ connects \in 0..MaxConnects /\ sends \in Nat
    /\ loop \in [Loops -> Looper]
    /\ cfgComplete \in [Loops -> BOOLEAN]
    /\ complete \in BOOLEAN /\ connected \in BOOLEAN
    /\ device \in Seq(Answers) /\ handled \in Seq(Down)
    /\ result \in [Loops -> {"none", "ok", "timeout", "err"}]
    /\ registry \in Seq(Subs) /\ stale \in BOOLEAN

\* What the goroutines of the server are at: writeMu is held by a goroutine that
\* has something to write, and a buffer never exceeds its size.
Working ==
    \A c \in Conns :
        /\ serving[c] = "none" => rd[c].pc = "off" /\ wr[c].pc = "off"
        /\ writeMu[c] = "rd" => rd[c].todo # <<>>
        /\ rd[c].todo # <<>> => rd[c].pc \in Answering
        /\ writeMu[c] = "wr" => wr[c].pc = "write"
        /\ wr[c].pc = "write" => wr[c].msg \in Packets
        /\ Len(buffer[c]) <= BufferSize

\* A call works on a connection that was made, only the owner is in Connect, and
\* only read loops of connections that were made run.
Calling ==
    /\ \A g \in Callers \cup Loops :
          /\ call[g].k \in 0..connects
          /\ call[g].pc \in {"want", "wanted", "wait"} => g = Owner /\ call[g].k # 0
          /\ call[g].pc = "send" => call[g].req.kind \in Requests
    /\ \A k \in Loops : loop[k].pc # "off" => k <= connects

\* Connect sends WantConfigId before it starts the read loop.
Starting == call[Owner].pc \in {"want", "wanted"} => loop[call[Owner].k].pc = "off"

\* m may arrive before n: packets by number and, if only Connect asks for the
\* configuration, channels by slot and nothing to store after ConfigComplete.
Follows(m, n) ==
    /\ m.kind = "packet" /\ n.kind = "packet" => m.arg < n.arg
    /\ "want" \notin Requests =>
          /\ m.kind = "channel" /\ n.kind = "channel" => m.arg < n.arg
          /\ m.kind = "complete" => n.kind \notin Stored
Ahead(S, T) == \A m \in S, n \in T : Follows(m, n)
Sorted(s) == \A i, j \in DOMAIN s : i < j => Follows(s[i], s[j])

\* The places of a message on its way, from the handler back to the buffer: taken
\* by the client, read by its loop, on the wire, still to be written by the
\* reader, held by a writer that waits for writeMu, in the subscriber buffer.
Past == ToSet(handled) \cup ToSet(device)
Got == {loop[k].msg : k \in {l \in Loops : loop[l].pc = "got"}}
Wire == ToSet(down[Conn])
Rest == ToSet(IF writeMu[Conn] = "rd" THEN Tail(rd[Conn].todo) ELSE rd[Conn].todo)
Taking == IF wr[Conn].pc = "write" /\ writeMu[Conn] # "wr" THEN {wr[Conn].msg} ELSE {}
Waiting == ToSet(buffer[Conn])

\* Each place is ahead of the places behind it; reader and writer, R and E,
\* compete for writeMu and stand side by side.
Chain(P, G, W, R, E, B) ==
    /\ Ahead(P, G \cup W \cup R \cup E \cup B)
    /\ Ahead(G, W \cup R \cup E \cup B)
    /\ Ahead(W, R \cup E \cup B)
    /\ Ahead(E, B)
\* The packets of S were dispatched no later than d.
Dated(S, d) == \A m \in S : m.kind = "packet" => m.arg <= d

Ordered(hd, dv, G, wire, todo, R, E, buf, n) ==
    /\ Sorted(hd) /\ Sorted(dv) /\ Sorted(wire) /\ Sorted(todo) /\ Sorted(buf)
    /\ Chain(ToSet(hd) \cup ToSet(dv), G, ToSet(wire), R, E, ToSet(buf))
    /\ Dated(ToSet(hd) \cup ToSet(dv) \cup G \cup ToSet(wire) \cup E \cup ToSet(buf), n)

\* The order of the whole line, as long as one connection was made.
Line == Ordered(handled, device, Got, down[Conn], rd[Conn].todo, Rest, Taking, buffer[Conn],
                dispatched)
InLine == connects <= 1 => Line

\* The answer to a WantConfigId: what the first part holds, and all of it.
Infos == {Msg("myinfo", 0), Msg("metadata", 0), Msg("node", "self")}
Whole == Infos \cup {Msg("config", 0)} \cup {Msg("node", n) : n \in Peers}
               \cup {Msg("channel", i) : i \in Slots}

\* The answer's messages that were produced. No configuration has been asked for
\* while nothing of it but other answers is anywhere.
Seen == Past \cup Got \cup Wire \cup Rest
NoneOf(S, K) == \A m \in S : m.kind \notin K
Configuring == complete \/ \E k \in Loops : loop[k].pc = "closing"
Unasked ==
    /\ ~Configuring
    /\ rd[Conn].pc \notin {"hello", "table"}
    /\ NoneOf(Seen, {"channel", "complete"})
Asks(q) == \E i \in DOMAIN q : q[i].kind = "want"
AsksOnce(q) == \A i, j \in DOMAIN q : q[i].kind = "want" /\ q[j].kind = "want" => i = j

\* The client asks once, and nothing is answered before the question is read.
Asking ==
    /\ connects = 0 \/ call[Owner].pc = "want" => Unasked /\ ~Asks(up[Conn])
    /\ Asks(up[Conn]) => Unasked
    /\ AsksOnce(up[Conn])
\* What the position of the server's reader, and a ConfigComplete anywhere, say
\* about the part of the configuration that was produced.
Answered ==
    /\ rd[Conn].pc = "hello" => Infos \subseteq Seen /\ NoneOf(Seen, {"channel", "complete"})
    /\ rd[Conn].pc = "table" => Whole \subseteq Seen
    /\ ~NoneOf(Seen, {"complete"}) => Whole \subseteq Seen
    /\ Configuring => Whole \subseteq ToSet(device)
    /\ NoneOf(ToSet(handled), Stored)

Once == "want" \notin Requests /\ connects <= 1 => Asking /\ Answered

\* A nil of Connect rests on the channel that the read loop closes at
\* ConfigComplete.
Closed ==
    \A k \in Loops : (result[k] = "ok" => cfgComplete[k]) /\ (cfgComplete[k] => complete)

\* What a read loop has yet to call is registered: Unsubscribe waits for the
\* dispatch to end.
Dispatching ==
    /\ ~stale
    /\ \A k \in Loops : loop[k].pc = "dispatch" =>
          loop[k].todo # <<>> /\ ToSet(loop[k].todo) \subseteq ToSet(registry)
-----------------------------------------------------------------------------
(***************************************************************************)
(* Sequences of messages.                                                  *)
(***************************************************************************)

\* The empty sequence.
LEMMA EmptyFacts == ToSet(<<>>) = {} /\ Sorted(<<>>) /\ \A S : <<>> \in Seq(S)
BY DEF ToSet, Sorted

\* Taking the head of a queue.
LEMMA TailFacts ==
    ASSUME NEW S, NEW s \in Seq(S), s # <<>>
    PROVE  /\ Head(s) \in S /\ Tail(s) \in Seq(S) /\ Len(Tail(s)) = Len(s) - 1
           /\ ToSet(s) = {Head(s)} \cup ToSet(Tail(s))
<1>1. Head(s) \in S /\ Tail(s) \in Seq(S) /\ Len(s) \in Nat \ {0} /\ Len(Tail(s)) = Len(s) - 1
      /\ Head(s) = s[1] /\ \A i \in 1..Len(Tail(s)) : Tail(s)[i] = s[i + 1]
  OBVIOUS
<1>2. DOMAIN s = 1..Len(s) /\ DOMAIN Tail(s) = 1..(Len(s) - 1)
  BY <1>1
<1>3. ASSUME NEW i \in 1..Len(s) PROVE i = 1 \/ (i - 1 \in 1..(Len(s) - 1) /\ Tail(s)[i - 1] = s[i])
  BY <1>1
<1>4. ASSUME NEW i \in 1..(Len(s) - 1) PROVE i + 1 \in 1..Len(s) /\ Tail(s)[i] = s[i + 1]
  BY <1>1
<1>5. 1 \in DOMAIN s
  BY <1>1, <1>2
<1>6. ASSUME NEW m \in ToSet(s) PROVE m \in {Head(s)} \cup ToSet(Tail(s))
  <2>1. PICK i \in 1..Len(s) : m = s[i]
    BY <1>2 DEF ToSet
  <2>2. CASE i = 1
    BY <1>1, <2>1, <2>2
  <2>3. CASE i # 1
    BY <1>2, <1>3, <2>1, <2>3 DEF ToSet
  <2> QED BY <2>2, <2>3
<1>7. Head(s) \in ToSet(s)
  BY <1>1, <1>5 DEF ToSet
<1>8. ToSet(Tail(s)) \subseteq ToSet(s)
  BY <1>2, <1>4 DEF ToSet
<1> QED BY <1>1, <1>6, <1>7, <1>8

\* A queue of two leaves one.
LEMMA LongTail == ASSUME NEW S, NEW s \in Seq(S), Len(s) > 1 PROVE Tail(s) # <<>>
<1>1. Len(s) \in Nat /\ s # <<>>
  OBVIOUS
<1>2. Len(Tail(s)) = Len(s) - 1
  BY <1>1, TailFacts
<1>3. Len(s) - 1 # 0
  <2>1. \A n \in Nat : n > 1 => n - 1 # 0
    OBVIOUS
  <2> QED BY <1>1, <2>1, Zenon
<1>4. Len(<<>>) = 0
  OBVIOUS
<1> QED BY <1>2, <1>3, <1>4, Zenon

\* Adding to a queue.
LEMMA AppendFacts ==
    ASSUME NEW S, NEW s \in Seq(S), NEW e \in S
    PROVE  Append(s, e) \in Seq(S) /\ ToSet(Append(s, e)) = ToSet(s) \cup {e}
<1>1. /\ Append(s, e) \in Seq(S) /\ Len(s) \in Nat /\ DOMAIN s = 1..Len(s)
      /\ DOMAIN Append(s, e) = 1..(Len(s) + 1)
      /\ \A i \in 1..Len(s) : Append(s, e)[i] = s[i]
      /\ Append(s, e)[Len(s) + 1] = e
  OBVIOUS
<1>2. \A i \in 1..(Len(s) + 1) : i \in 1..Len(s) \/ i = Len(s) + 1
  BY <1>1
<1>3. Len(s) + 1 \in 1..(Len(s) + 1) /\ 1..Len(s) \subseteq 1..(Len(s) + 1)
  BY <1>1
<1> QED BY <1>1, <1>2, <1>3 DEF ToSet

\* A suffix of an ordered sequence is ordered, and its head is ahead of the rest.
LEMMA SortedTail ==
    ASSUME NEW S, NEW s \in Seq(S), s # <<>>, Sorted(s)
    PROVE  Sorted(Tail(s)) /\ Ahead({Head(s)}, ToSet(Tail(s)))
<1>1. Len(s) \in Nat \ {0} /\ Len(Tail(s)) = Len(s) - 1
      /\ Head(s) = s[1] /\ \A i \in 1..(Len(s) - 1) : Tail(s)[i] = s[i + 1]
  OBVIOUS
<1>2. DOMAIN s = 1..Len(s) /\ DOMAIN Tail(s) = 1..(Len(s) - 1)
  BY <1>1
<1>3. \A i \in 1..(Len(s) - 1) : i + 1 \in 1..Len(s) /\ 1 < i + 1 /\ 1 \in 1..Len(s)
  BY <1>1
<1>4. \A i, j \in 1..(Len(s) - 1) : i < j => i + 1 < j + 1
  BY <1>1
<1>5. Sorted(Tail(s))
  BY <1>1, <1>2, <1>3, <1>4 DEF Sorted
<1>6. Ahead({Head(s)}, ToSet(Tail(s)))
  BY <1>1, <1>2, <1>3 DEF Sorted, Ahead, ToSet
<1> QED BY <1>5, <1>6

\* A queue stays sorted when what is added follows all of it.
LEMMA SortedAppend ==
    ASSUME NEW S, NEW s \in Seq(S), NEW e \in S, Sorted(s), Ahead(ToSet(s), {e})
    PROVE  Sorted(Append(s, e))
<1>1. /\ Len(s) \in Nat /\ DOMAIN s = 1..Len(s)
      /\ DOMAIN Append(s, e) = 1..(Len(s) + 1)
      /\ \A i \in 1..Len(s) : Append(s, e)[i] = s[i]
      /\ Append(s, e)[Len(s) + 1] = e
  OBVIOUS
<1>2. \A i, j \in 1..(Len(s) + 1) : i < j => i \in 1..Len(s) /\ (j \in 1..Len(s) \/ j = Len(s) + 1)
  BY <1>1
<1>3. \A i \in 1..Len(s) : Follows(s[i], e)
  BY <1>1 DEF Ahead, ToSet
<1> QED BY <1>1, <1>2, <1>3 DEF Sorted

\* A snapshot of the NodeDB is a sequence of its nodes.
LEMMA Snap == \A o \in SetToSeqs(Peers) : o \in Seq(Peers)
<1>1. Cardinality(Peers) \in Nat
  BY ClientApiAssumption, FS_CardinalityType DEF ClientApiAssumption
<1> QED BY <1>1 DEF SetToSeqs

-----------------------------------------------------------------------------
(***************************************************************************)
(* Types of messages.                                                      *)
(***************************************************************************)

\* What the assumptions say of the constants.
LEMMA Sizes ==
    /\ MaxChannels \in Nat /\ BufferSize \in Nat \ {0} /\ MaxDispatch \in Nat
    /\ MaxConnects \in Nat /\ MaxSends \in Nat
    /\ Conn \in Conns /\ Callers \cap Loops = {} /\ Owner \in Callers
BY ClientApiAssumption, ClientTransportAssumption
   DEF ClientApiAssumption, ClientTransportAssumption

\* The messages built by server and client have their types.
LEMMA MessageTypes ==
    /\ Answers \subseteq Down /\ Packets \subseteq Down
    /\ None \in Answers
    /\ \A d \in Nat : Msg("packet", d) \in Packets
    /\ \A kind \in Kinds \ {"packet", "channel"}, a \in Arg : Msg(kind, a) \in Answers
    /\ \A slot \in Slots : Msg("channel", slot) \in Answers
BY DEF Answers, Packets, Down, None, Msg, Kinds, Arg, Slots

\* What a handshake begins with are answers.
LEMMA HeadType == HandshakeHead \in Seq(Answers) /\ <<Msg("adminresp", 0)>> \in Seq(Answers)
<1>1. /\ Msg("myinfo", 0) \in Answers /\ Msg("metadata", 0) \in Answers
      /\ Msg("presets", 0) \in Answers /\ Msg("node", "self") \in Answers
      /\ Msg("adminresp", 0) \in Answers
  BY MessageTypes DEF Kinds, Arg
<1> QED BY <1>1 DEF HandshakeHead

\* So is what it ends with, for every snapshot of the NodeDB.
LEMMA TailType ==
    ASSUME NEW order \in SetToSeqs(Peers), NEW id \in Nat
    PROVE  HandshakeTail(order, id) \in Seq(Answers)
<1>1. order \in Seq(Peers)
  BY Snap
<1>2. \A i \in 1..Len(order) : Msg("node", order[i]) \in Answers
  <2>1. \A i \in 1..Len(order) : order[i] \in Arg
    BY <1>1 DEF Arg
  <2>2. "node" \in Kinds \ {"packet", "channel"}
    BY DEF Kinds
  <2> QED BY <2>1, <2>2, MessageTypes
<1>3. [i \in 1..Len(order) |-> Msg("node", order[i])] \in Seq(Answers)
  BY <1>1, <1>2
<1>4. \A i \in 1..MaxChannels : Msg("channel", i - 1) \in Answers
  <2>1. \A i \in 1..MaxChannels : i - 1 \in Slots
    BY Sizes DEF Slots
  <2> QED BY <2>1, MessageTypes
<1>5. [i \in 1..MaxChannels |-> Msg("channel", i - 1)] \in Seq(Answers)
  BY <1>4, Sizes
<1>6. Msg("config", 0) \in Answers /\ Msg("complete", id) \in Answers
  BY MessageTypes DEF Kinds, Arg
<1>7. <<Msg("config", 0), Msg("complete", id)>> \in Seq(Answers)
  BY <1>6
<1> QED BY <1>3, <1>5, <1>7 DEF HandshakeTail

\* Whatever a client asks, the reader is in a defined state after it.
LEMMA AfterReadType == \A m \in Up : AfterRead(m) \in Reader
<1> SUFFICES ASSUME NEW m \in Up PROVE AfterRead(m) \in Reader
  OBVIOUS
<1>1. m.arg \in Nat
  BY DEF Up
<1> QED BY <1>1, HeadType, EmptyFacts DEF AfterRead, Reader, Answering

-----------------------------------------------------------------------------
(***************************************************************************)
(* The shape of the state: its types, and what goes with each pc.          *)
(***************************************************************************)

Shape == PipeTyped /\ ServerTyped /\ Working /\ ClientTyped /\ Calling

\* The session starts with its types.
LEMMA InitShape == Init => Shape
<1> SUFFICES ASSUME Init PROVE Shape
  OBVIOUS
<1>1. PipeTyped
  BY EmptyFacts DEF Init, PipeInit, PipeTyped
<1>2. ServerTyped
  <2>1. [pc |-> "off", todo |-> <<>>, id |-> 0] \in Reader
    BY EmptyFacts DEF Reader
  <2>2. [pc |-> "off", msg |-> Msg("none", 0)] \in Writer
    BY DEF Writer, None
  <2> QED BY <2>1, <2>2, EmptyFacts DEF Init, ServerInit, ServerTyped
<1>3. Working
  <2>1. Len(<<>>) <= BufferSize
    BY Sizes
  <2> QED BY <2>1 DEF Init, ServerInit, Working
<1>4. ClientTyped
  <2>1. Idle \in Caller
    BY DEF Idle, Caller, Request, Up
  <2>2. NotReading \in Looper
    BY MessageTypes, EmptyFacts DEF NotReading, Looper, Request, None, Msg
  <2>3. connects \in 0..MaxConnects /\ sends \in Nat
    BY Sizes DEF Init, ClientInit
  <2>4. /\ cfgComplete \in [Loops -> BOOLEAN] /\ complete \in BOOLEAN /\ connected \in BOOLEAN
        /\ stale \in BOOLEAN /\ result \in [Loops -> {"none", "ok", "timeout", "err"}]
    BY DEF Init, ClientInit
  <2> QED BY <2>1, <2>2, <2>3, <2>4, EmptyFacts DEF Init, ClientInit, ClientTyped
<1>5. Calling
  BY Sizes DEF Init, ClientInit, Calling, Idle, NotReading
<1> QED BY <1>1, <1>2, <1>3, <1>4, <1>5 DEF Shape

\* Dispatch, accepting and shutdown keep the types; a full buffer drops.
LEMMA EnvironmentShape ==
    ASSUME PipeTyped, ServerTyped, Working, ServerEnvironment
    PROVE  PipeTyped' /\ ServerTyped' /\ Working'
<1>1. CASE DispatchToClients
  <2>1. PipeTyped'
    BY <1>1 DEF DispatchToClients, pipe, PipeTyped
  <2>2. dispatched' \in Nat /\ Msg("packet", dispatched') \in Packets
    BY <1>1, MessageTypes DEF DispatchToClients, ServerTyped
  <2>3. ASSUME NEW b \in Seq(Packets), NEW m \in Packets, Len(b) <= BufferSize
        PROVE  Push(b, m) \in Seq(Packets) /\ Len(Push(b, m)) <= BufferSize
    BY <2>3, Sizes DEF Push
  <2>4. \A c \in Conns : buffer'[c] \in Seq(Packets) /\ Len(buffer'[c]) <= BufferSize
    BY <1>1, <2>2, <2>3 DEF DispatchToClients, ServerTyped, Working
  <2>5. buffer' \in [Conns -> Seq(Packets)]
    BY <1>1, <2>4 DEF DispatchToClients
  <2>6. ServerTyped'
    BY <1>1, <2>2, <2>5 DEF DispatchToClients, ServerTyped
  <2>7. Working'
    BY <1>1, <2>4 DEF DispatchToClients, Working
  <2> QED BY <2>1, <2>6, <2>7
<1>2. CASE Shutdown
  BY <1>2 DEF Shutdown, pipe, PipeTyped, ServerTyped, Working
<1> QED BY <1>1, <1>2 DEF ServerEnvironment

\* The steps of a reader keep the types.
LEMMA ReaderShape ==
    ASSUME NEW c \in Conns, PipeTyped, ServerTyped, Working, ReaderStep(c)
    PROVE  PipeTyped' /\ ServerTyped' /\ Working'
<1>1. CASE ReaderLoop(c)
  <2>1. rd' \in [Conns -> Reader]
    BY <1>1, ZenonT(40) DEF ReaderLoop, ServerTyped, Reader
  <2>2. Working'
    BY <1>1 DEF ReaderLoop, ReaderFrame, Working, ServerTyped, Reader, Answering
  <2> QED BY <1>1, <2>1, <2>2 DEF ReaderLoop, ReaderFrame, pipe, PipeTyped, ServerTyped
<1>2. CASE ReaderRead(c)
  <2>1. Head(up[c]) \in Up /\ Tail(up[c]) \in Seq(Up)
    BY <1>2, TailFacts DEF ReaderRead, Readable, PipeTyped
  <2>2. rd' \in [Conns -> Reader]
    BY <1>2, <2>1, AfterReadType DEF ReaderRead, ServerTyped
  <2>3. failed' \in SUBSET Conns
    BY <1>2 DEF ReaderRead, Fail, ServerTyped
  <2>4. PipeTyped'
    BY <1>2, <2>1 DEF ReaderRead, PipeTyped
  <2>5. AfterRead(Head(up[c])).todo # <<>> => AfterRead(Head(up[c])).pc \in Answering
    BY DEF AfterRead, Answering
  <2>6. Working'
    BY <1>2, <2>5 DEF ReaderRead, ReaderFrame, Working, ServerTyped, Answering
  <2> QED BY <1>2, <2>2, <2>3, <2>4, <2>6 DEF ReaderRead, ReaderFrame, ServerTyped
<1>3. CASE ReaderEof(c)
  <2>1. rd' \in [Conns -> Reader] /\ failed' \in SUBSET Conns
    BY <1>3 DEF ReaderEof, Fail, ServerTyped, Reader
  <2>2. Working'
    BY <1>3 DEF ReaderEof, ReaderFrame, Working, ServerTyped, Reader, Answering
  <2> QED BY <1>3, <2>1, <2>2 DEF ReaderEof, ReaderFrame, pipe, PipeTyped, ServerTyped
<1>4. CASE ReaderWrite(c)
  <2>1. Head(rd[c].todo) \in Answers
    <3>1. rd[c].todo \in Seq(Answers)
      BY DEF ServerTyped, Reader
    <3> QED BY <1>4, <3>1, TailFacts DEF ReaderWrite
  <2>2. PipeTyped'
    <3>1. Append(down[c], Head(rd[c].todo)) \in Seq(Down)
      BY <2>1, AppendFacts, MessageTypes DEF PipeTyped
    <3> QED BY <1>4, <3>1 DEF ReaderWrite, PipeTyped
  <2>3. writeMu' \in [Conns -> {"free", "rd", "wr"}]
    BY <1>4 DEF ReaderWrite, ServerTyped
  <2>4. Working'
    BY <1>4 DEF ReaderWrite, ReaderFrame, Working, ServerTyped
  <2> QED BY <1>4, <2>2, <2>3, <2>4 DEF ReaderWrite, ReaderFrame, ServerTyped
<1>5. CASE ReaderWritten(c)
  <2>1. /\ rd[c] \in Reader /\ rd[c].todo \in Seq(Answers) /\ rd[c].todo # <<>>
        /\ rd[c].pc \in Answering
    BY <1>5 DEF ReaderWritten, Working, ServerTyped, Reader
  <2>2. Tail(rd[c].todo) \in Seq(Answers) /\ Len(Tail(rd[c].todo)) = Len(rd[c].todo) - 1
    BY <2>1, TailFacts
  <2>3. rd' \in [Conns -> Reader]
    BY <1>5, <2>1, <2>2 DEF ReaderWritten, ServerTyped, Reader, Answering
  <2>4. /\ rd'[c].todo = Tail(rd[c].todo)
        /\ rd'[c].pc = IF Len(rd[c].todo) > 1 \/ rd[c].pc = "hello" THEN rd[c].pc ELSE "loop"
        /\ \A d \in Conns \ {c} : rd'[d] = rd[d]
    BY <1>5 DEF ReaderWritten, ServerTyped, Reader
  <2>5. rd'[c].todo # <<>> => rd'[c].pc \in Answering
    BY <2>1, <2>2, <2>4
  <2>6. writeMu' = [writeMu EXCEPT ![c] = "free"] /\ writeMu' \in [Conns -> {"free", "rd", "wr"}]
    BY <1>5 DEF ReaderWritten, ServerTyped
  <2>7. rd'[c].pc # "off" /\ rd[c].pc # "off"
    BY <2>1, <2>4 DEF Answering
  <2>8. Working'
    BY <1>5, <2>4, <2>5, <2>6, <2>7 DEF ReaderWritten, ReaderFrame, Working, ServerTyped
  <2> QED BY <1>5, <2>3, <2>6, <2>8 DEF ReaderWritten, ReaderFrame, pipe, PipeTyped, ServerTyped
<1>6. CASE ReaderWriteFails(c)
  <2>1. [pc |-> "done", todo |-> <<>>, id |-> 0] \in Reader
    BY EmptyFacts DEF Reader
  <2>2. rd' \in [Conns -> Reader] /\ writeMu' \in [Conns -> {"free", "rd", "wr"}]
    BY <1>6, <2>1 DEF ReaderWriteFails, ServerTyped
  <2>3. failed' \in SUBSET Conns
    BY <1>6 DEF ReaderWriteFails, Fail, ServerTyped
  <2>4. Working'
    BY <1>6 DEF ReaderWriteFails, ReaderAnswers, ReaderFrame, Working, ServerTyped, Answering
  <2> QED BY <1>6, <2>2, <2>3, <2>4
          DEF ReaderWriteFails, ReaderFrame, pipe, PipeTyped, ServerTyped
<1>7. CASE ReaderSnapshot(c)
  <2>1. PICK order \in SetToSeqs(Peers) :
           rd' = [rd EXCEPT ![c].pc = "table", ![c].todo = HandshakeTail(order, rd[c].id)]
    BY <1>7 DEF ReaderSnapshot
  <2>2. rd[c] \in Reader /\ rd[c].id \in Nat
    BY DEF ServerTyped, Reader
  <2>3. HandshakeTail(order, rd[c].id) \in Seq(Answers)
    BY <2>2, TailType
  <2>4. /\ rd'[c] = [rd[c] EXCEPT !.pc = "table", !.todo = HandshakeTail(order, rd[c].id)]
        /\ \A d \in Conns \ {c} : rd'[d] = rd[d]
    BY <2>1 DEF ServerTyped
  <2>5. rd'[c] \in Reader /\ rd'[c].pc = "table"
    BY <2>2, <2>3, <2>4 DEF Reader, Answering
  <2>6. rd' \in [Conns -> Reader]
    BY <2>1, <2>4, <2>5 DEF ServerTyped
  <2>7. writeMu[c] # "rd"
    BY <1>7 DEF ReaderSnapshot, Working
  <2>8. serving[c] # "none"
    BY <1>7 DEF ReaderSnapshot, Working
  <2>9. UNCHANGED <<serving, wr, writeMu, buffer>> /\ rd'[c].pc \in Answering
    BY <1>7, <2>5 DEF ReaderSnapshot, ReaderFrame, Answering
  <2>10. Working'
    <3> SUFFICES ASSUME NEW d \in Conns
                 PROVE  /\ serving[d] = "none" => rd'[d].pc = "off" /\ wr[d].pc = "off"
                        /\ writeMu[d] = "rd" => rd'[d].todo # <<>>
                        /\ rd'[d].todo # <<>> => rd'[d].pc \in Answering
                        /\ writeMu[d] = "wr" => wr[d].pc = "write"
                        /\ wr[d].pc = "write" => wr[d].msg \in Packets
                        /\ Len(buffer[d]) <= BufferSize
      BY <2>9 DEF Working
    <3> QED BY <2>4, <2>7, <2>8, <2>9 DEF Working
  <2> QED BY <1>7, <2>6, <2>10 DEF ReaderSnapshot, ReaderFrame, pipe, PipeTyped, ServerTyped
<1> QED BY <1>1, <1>2, <1>3, <1>4, <1>5, <1>6, <1>7 DEF ReaderStep

\* Removing a subscriber empties its buffer and touches no other connection.
LEMMA LeaveShape ==
    ASSUME NEW c \in Conns, ServerTyped, Leave(c)
    PROVE  /\ wr' \in [Conns -> Writer] /\ buffer' \in [Conns -> Seq(Packets)]
           /\ subscribers' \in SUBSET Conns
           /\ wr'[c].pc = "done" /\ Len(buffer'[c]) = 0
           /\ \A d \in Conns \ {c} : wr'[d] = wr[d] /\ buffer'[d] = buffer[d]
<1>1. [pc |-> "done", msg |-> Msg("none", 0)] \in Writer
  BY DEF Writer, None
<1> QED BY <1>1, EmptyFacts DEF Leave, ServerTyped

\* The steps of a writer keep the types.
LEMMA WriterShape ==
    ASSUME NEW c \in Conns, PipeTyped, ServerTyped, Working, WriterStep(c)
    PROVE  PipeTyped' /\ ServerTyped' /\ Working'
<1>1. CASE AddSubscriber(c)
  <2>1. wr' \in [Conns -> Writer] /\ subscribers' \in SUBSET Conns
    BY <1>1 DEF AddSubscriber, ServerTyped, Writer
  <2>2. Working'
    BY <1>1 DEF AddSubscriber, WriterFrame, Working, ServerTyped, Writer
  <2> QED BY <1>1, <2>1, <2>2 DEF AddSubscriber, WriterFrame, pipe, PipeTyped, ServerTyped
<1>2. CASE WriterTake(c)
  <2>1. /\ Head(buffer[c]) \in Packets /\ Tail(buffer[c]) \in Seq(Packets)
        /\ Len(Tail(buffer[c])) = Len(buffer[c]) - 1 /\ Len(buffer[c]) \in Nat
    BY <1>2, TailFacts DEF WriterTake, ServerTyped
  <2>2. [pc |-> "write", msg |-> Head(buffer[c])] \in Writer
    BY <2>1 DEF Writer
  <2>3. wr' \in [Conns -> Writer] /\ buffer' \in [Conns -> Seq(Packets)]
    BY <1>2, <2>1, <2>2 DEF WriterTake, ServerTyped
  <2>4. Len(buffer'[c]) <= BufferSize
    BY <1>2, <2>1, Sizes DEF WriterTake, ServerTyped, Working
  <2>5. Working'
    BY <1>2, <2>1, <2>4 DEF WriterTake, WriterFrame, Working, ServerTyped
  <2> QED BY <1>2, <2>3, <2>5 DEF WriterTake, WriterFrame, pipe, PipeTyped, ServerTyped
<1>3. CASE WriterCancelled(c)
  <2>1. Leave(c) /\ wr[c].pc = "select" /\ UNCHANGED <<pipe, writeMu, failed>> /\ WriterFrame(c)
    BY <1>3 DEF WriterCancelled
  <2>2. Working'
    <3>1. 0 <= BufferSize /\ serving[c] # "none" /\ writeMu'[c] # "wr"
      BY <2>1, Sizes DEF Working
    <3> QED BY <2>1, <3>1, LeaveShape DEF WriterFrame, Working
  <2> QED BY <2>1, <2>2, LeaveShape DEF WriterFrame, pipe, PipeTyped, ServerTyped
<1>4. CASE WriterWrite(c)
  <2>1. wr[c].msg \in Packets
    BY <1>4 DEF WriterWrite, Working
  <2>2. PipeTyped'
    <3>1. Append(down[c], wr[c].msg) \in Seq(Down)
      BY <2>1, AppendFacts, MessageTypes DEF PipeTyped
    <3> QED BY <1>4, <3>1 DEF WriterWrite, PipeTyped
  <2>3. writeMu' \in [Conns -> {"free", "rd", "wr"}]
    BY <1>4 DEF WriterWrite, ServerTyped
  <2>4. Working'
    BY <1>4 DEF WriterWrite, WriterFrame, Working, ServerTyped
  <2> QED BY <1>4, <2>2, <2>3, <2>4 DEF WriterWrite, WriterFrame, ServerTyped
<1>5. CASE WriterWritten(c)
  <2>1. [pc |-> "select", msg |-> Msg("none", 0)] \in Writer
    BY DEF Writer, None
  <2>2. wr' \in [Conns -> Writer] /\ writeMu' \in [Conns -> {"free", "rd", "wr"}]
    BY <1>5, <2>1 DEF WriterWritten, ServerTyped
  <2>3. Working'
    BY <1>5 DEF WriterWritten, WriterFrame, Working, ServerTyped
  <2> QED BY <1>5, <2>2, <2>3 DEF WriterWritten, WriterFrame, pipe, PipeTyped, ServerTyped
<1>6. CASE WriterWriteFails(c)
  <2>1. /\ Leave(c) /\ wr[c].pc = "write" /\ UNCHANGED pipe /\ WriterFrame(c)
        /\ writeMu' = [writeMu EXCEPT ![c] = IF @ = "wr" THEN "free" ELSE @]
    BY <1>6 DEF WriterWriteFails
  <2>2. failed' \in SUBSET Conns /\ writeMu' \in [Conns -> {"free", "rd", "wr"}]
    BY <1>6 DEF WriterWriteFails, Fail, ServerTyped
  <2>3. Working'
    <3>1. 0 <= BufferSize /\ serving[c] # "none" /\ writeMu'[c] \in {"free", writeMu[c]} \ {"wr"}
      BY <2>1, Sizes DEF Working, ServerTyped
    <3>2. \A d \in Conns \ {c} : writeMu'[d] = writeMu[d]
      BY <2>1 DEF ServerTyped
    <3> QED BY <2>1, <3>1, <3>2, LeaveShape DEF WriterFrame, Working
  <2> QED BY <2>1, <2>2, <2>3, LeaveShape DEF WriterFrame, pipe, PipeTyped, ServerTyped
<1> QED BY <1>1, <1>2, <1>3, <1>4, <1>5, <1>6 DEF WriterStep

\* All steps of a connection's goroutines do.
LEMMA ServerShape ==
    ASSUME NEW c \in Conns, PipeTyped, ServerTyped, Working, ServerStep(c)
    PROVE  PipeTyped' /\ ServerTyped' /\ Working'
<1>1. CASE HandleConn(c)
  <2>1. /\ serving' \in [Conns -> {"none", "run", "returned"}] /\ rd' \in [Conns -> Reader]
        /\ wr' \in [Conns -> Writer]
    BY <1>1, ZenonT(40) DEF HandleConn, ServerTyped, Reader, Writer
  <2>2. rd[c].pc = "off" /\ wr[c].pc = "off"
    BY <1>1 DEF HandleConn, Working
  <2>3. Working'
    BY <1>1, <2>2 DEF HandleConn, Working, ServerTyped, Reader, Writer, Answering
  <2> QED BY <1>1, <2>1, <2>3 DEF HandleConn, pipe, PipeTyped, ServerTyped
<1>2. CASE HandleConnReturns(c)
  <2>1. /\ serving' \in [Conns -> {"none", "run", "returned"}]
        /\ radioOpen' \in [Conns -> BOOLEAN]
    BY <1>2 DEF HandleConnReturns, ServerTyped, PipeTyped
  <2>2. Working'
    BY <1>2 DEF HandleConnReturns, Working, ServerTyped
  <2> QED BY <1>2, <2>1, <2>2 DEF HandleConnReturns, PipeTyped, ServerTyped
<1> QED BY <1>1, <1>2, ReaderShape, WriterShape DEF ServerStep

\* The states of a client's call have their type.
LEMMA CallTypes ==
    /\ Idle \in Caller /\ Idle.pc = "idle" /\ Idle.k = 0
    /\ \A r \in Caller : /\ [r EXCEPT !.pc = "lock"] \in Caller /\ [r EXCEPT !.pc = "wait"] \in Caller
                         /\ [r EXCEPT !.pc = "wanted"] \in Caller
                         /\ [r EXCEPT !.pc = "sent"] \in Caller
    /\ \A n \in Nat : [pc |-> "want", k |-> n, req |-> Request("want", n)] \in Caller
    /\ \A kind \in Requests : [pc |-> "send", k |-> 0, req |-> Request(kind, 0)] \in Caller
BY DEF Idle, Caller, Request, Up

\* The methods a caller is in: what changes is its own call, and its number.
LEMMA OneCall ==
    ASSUME NEW g \in Callers \cup Loops, NEW r \in Caller,
           ClientTyped, Calling,
           call' = [call EXCEPT ![g] = r],
           connects' \in connects..MaxConnects,
           r.k \in 0..connects',
           r.pc \in {"want", "wanted", "wait"} => g = Owner /\ r.k # 0,
           r.pc = "send" => r.req.kind \in Requests,
           \A k \in Loops : loop'[k].pc # "off" => k <= connects'
    PROVE  call' \in [Callers \cup Loops -> Caller] /\ Calling'
<1>1. call' \in [Callers \cup Loops -> Caller]
  BY DEF ClientTyped
<1>2. connects \in Nat /\ connects' \in Nat /\ connects <= connects'
  BY Sizes DEF ClientTyped
<1>3. ASSUME NEW h \in Callers \cup Loops
      PROVE  /\ call'[h].k \in 0..connects'
             /\ call'[h].pc \in {"want", "wanted", "wait"} => h = Owner /\ call'[h].k # 0
             /\ call'[h].pc = "send" => call'[h].req.kind \in Requests
  <2>1. CASE h = g
    BY <2>1 DEF ClientTyped
  <2>2. CASE h # g
    <3>1. call'[h] = call[h]
      BY <2>2 DEF ClientTyped
    <3>2. call[h].k \in 0..connects'
      BY <1>2 DEF Calling
    <3> QED BY <3>1, <3>2 DEF Calling
  <2> QED BY <2>1, <2>2
<1> QED BY <1>1, <1>3 DEF Calling

\* The write of a call keeps the types.
LEMMA CallShape ==
    ASSUME NEW g \in Callers \cup Loops, PipeTyped, ClientTyped, Calling, CallStep(g)
    PROVE  PipeTyped' /\ ClientTyped' /\ Calling'
<1>0. /\ call[g] \in Caller /\ call[g].req \in Up /\ call[g].k \in 0..connects
      /\ connects \in Nat /\ connects \in connects..MaxConnects /\ 0 \in 0..connects
  BY Sizes DEF ClientTyped, Calling, Caller
<1>1. CASE ClientWrite(g)
  <2> DEFINE r == [call[g] EXCEPT !.pc = IF call[g].pc = "want" THEN "wanted" ELSE "sent"]
  <2>1. r \in Caller /\ r.k = call[g].k /\ r.pc \in {"wanted", "sent"}
        /\ (r.pc = "wanted" => call[g].pc = "want")
    BY <1>0, CallTypes DEF Caller
  <2>2. call' = [call EXCEPT ![g] = r]
    BY <1>1 DEF ClientWrite
  <2>3. PipeTyped'
    <3>1. Append(up[Conn], call[g].req) \in Seq(Up)
      BY <1>0, AppendFacts, Sizes DEF PipeTyped
    <3> QED BY <1>1, <3>1, Sizes DEF ClientWrite, PipeTyped
  <2> HIDE DEF r
  <2>4. connects' = connects /\ loop' = loop
    BY <1>1 DEF ClientWrite, CallFrame
  <2>5. r.pc = "wanted" => g = Owner /\ r.k # 0
    BY <2>1 DEF Calling
  <2>6. call' \in [Callers \cup Loops -> Caller] /\ Calling'
    BY <1>0, <2>1, <2>2, <2>4, <2>5, OneCall DEF Calling
  <2> QED BY <1>1, <2>3, <2>6 DEF ClientWrite, CallFrame, ClientTyped
<1>2. CASE ClientWritten(g)
  <2>1. CASE call[g].pc = "wanted"
    <3> DEFINE r == [call[g] EXCEPT !.pc = "wait"]
    <3>1. r \in Caller /\ r.k = call[g].k /\ r.pc = "wait" /\ call' = [call EXCEPT ![g] = r]
      BY <1>0, <1>2, <2>1, CallTypes DEF ClientWritten, Caller
    <3>2. g = Owner /\ call[g].k \in Loops
      <4>1. g = Owner /\ call[g].k \in 0..connects /\ call[g].k # 0
        BY <2>1 DEF Calling
      <4> QED BY <4>1, Sizes DEF ClientTyped, Loops
    <3>3. /\ loop' = [loop EXCEPT ![call[g].k].pc = "read"] /\ connects' = connects
          /\ UNCHANGED pipe
      BY <1>2, <2>1 DEF ClientWritten
    <3>4. loop' \in [Loops -> Looper]
      BY <3>2, <3>3, ZenonT(40) DEF ClientTyped, Looper
    <3>5. \A k \in Loops : loop'[k].pc # "off" => k <= connects'
      <4>1. \A k \in Loops \ {call[g].k} : loop'[k] = loop[k]
        BY <3>3 DEF ClientTyped
      <4>2. call[g].k <= connects
        BY <1>0
      <4> QED BY <3>3, <4>1, <4>2 DEF Calling
    <3> HIDE DEF r
    <3>6. call' \in [Callers \cup Loops -> Caller] /\ Calling'
      <4>1. r.k # 0 /\ r.k \in 0..connects' /\ connects' \in connects..MaxConnects
        BY <1>0, <3>1, <3>2, <3>3 DEF Loops
      <4> QED BY <3>1, <3>2, <3>5, <4>1, OneCall
    <3> QED BY <1>2, <3>3, <3>4, <3>6 DEF ClientWritten, ClientTyped, pipe, PipeTyped
  <2>2. CASE call[g].pc # "wanted"
    <3>1. call' = [call EXCEPT ![g] = Idle] /\ connects' = connects /\ loop' = loop /\ UNCHANGED pipe
      BY <1>2, <2>2 DEF ClientWritten
    <3>2. call' \in [Callers \cup Loops -> Caller] /\ Calling'
      BY <1>0, <3>1, CallTypes, OneCall DEF Calling
    <3> QED BY <1>2, <2>2, <3>1, <3>2 DEF ClientWritten, ClientTyped, pipe, PipeTyped
  <2> QED BY <2>1, <2>2
<1>3. CASE ClientWriteFails(g)
  <2>1. call' = [call EXCEPT ![g] = Idle] /\ connects' = connects /\ loop' = loop /\ UNCHANGED pipe
    BY <1>3 DEF ClientWriteFails, CallFrame
  <2>2. call' \in [Callers \cup Loops -> Caller] /\ Calling'
    BY <1>0, <2>1, CallTypes, OneCall DEF Calling
  <2>3. result' \in [Loops -> {"none", "ok", "timeout", "err"}]
    BY <1>3 DEF ClientWriteFails, ClientTyped
  <2> QED BY <1>3, <2>1, <2>2, <2>3 DEF ClientWriteFails, CallFrame, ClientTyped, pipe, PipeTyped
<1> QED BY <1>1, <1>2, <1>3 DEF CallStep

\* SendToRadio keeps the types.
LEMMA SendShape ==
    ASSUME NEW g \in Callers \cup Loops, NEW kind \in Requests, PipeTyped, ClientTyped, Calling,
           SendToRadio(g, kind)
    PROVE  PipeTyped' /\ ClientTyped' /\ Calling'
<1> DEFINE r == [pc |-> "send", k |-> 0, req |-> Request(kind, 0)]
<1>1. r \in Caller /\ r.k = 0 /\ r.pc = "send" /\ r.req.kind = kind
  BY CallTypes DEF Request
<1>2. /\ call' = [call EXCEPT ![g] = r] /\ connects' = connects /\ loop' = loop
      /\ sends' = sends + 1 /\ UNCHANGED pipe
  BY DEF SendToRadio, CallFrame
<1>3. connects \in Nat /\ connects \in connects..MaxConnects /\ 0 \in 0..connects
  BY Sizes DEF ClientTyped
<1> HIDE DEF r
<1>4. call' \in [Callers \cup Loops -> Caller] /\ Calling'
  BY <1>1, <1>2, <1>3, OneCall DEF Calling
<1> QED BY <1>2, <1>4 DEF SendToRadio, CallFrame, ClientTyped, pipe, PipeTyped

\* Connect, its outcomes and Stop keep the types.
LEMMA OwnerShape ==
    ASSUME PipeTyped, ClientTyped, Calling,
           \/ Connect(Owner) \/ ConnectDone(Owner) \/ ConnectTimesOut(Owner)
           \/ Stop(Owner) \/ Close(Owner)
    PROVE  PipeTyped' /\ ClientTyped' /\ Calling'
<1>0. /\ Owner \in Callers \cup Loops /\ call[Owner] \in Caller /\ call[Owner].k \in 0..connects
      /\ connects \in Nat /\ connects \in connects..MaxConnects /\ 0 \in 0..connects
      /\ \A k \in Loops : loop[k].pc # "off" => k <= connects
  BY Sizes DEF ClientTyped, Calling
<1>1. CASE Connect(Owner)
  <2> DEFINE r == [pc |-> "want", k |-> connects', req |-> Request("want", connects')]
  <2>1. /\ connects' = connects + 1 /\ connects' \in Nat /\ connects' <= MaxConnects
        /\ call' = [call EXCEPT ![Owner] = r] /\ loop' = loop /\ UNCHANGED pipe
    BY <1>0, <1>1, Sizes DEF Connect, CallFrame
  <2>2. r \in Caller /\ r.k = connects' /\ r.pc = "want"
    BY <2>1, CallTypes
  <2>3. connects' \in connects..MaxConnects /\ connects' \in 0..connects' /\ connects' # 0
    BY <1>0, <2>1, Sizes
  <2>4. \A k \in Loops : loop'[k].pc # "off" => k <= connects'
    BY <1>0, <2>1 DEF Loops
  <2> HIDE DEF r
  <2>5. call' \in [Callers \cup Loops -> Caller] /\ Calling'
    BY <1>0, <2>1, <2>2, <2>3, <2>4, OneCall
  <2>6. connects' \in 0..MaxConnects
    BY <2>1
  <2> QED BY <1>1, <2>1, <2>5, <2>6 DEF Connect, CallFrame, ClientTyped, pipe, PipeTyped
<1>2. CASE ConnectDone(Owner) \/ ConnectTimesOut(Owner)
  <2>1. call' = [call EXCEPT ![Owner] = Idle] /\ connects' = connects /\ loop' = loop /\ UNCHANGED pipe
    BY <1>2 DEF ConnectDone, ConnectTimesOut, CallFrame
  <2>2. call' \in [Callers \cup Loops -> Caller] /\ Calling'
    BY <1>0, <2>1, CallTypes, OneCall
  <2>3. result' \in [Loops -> {"none", "ok", "timeout", "err"}] /\ connected' \in BOOLEAN
    BY <1>2 DEF ConnectDone, ConnectTimesOut, ClientTyped
  <2> QED BY <1>2, <2>1, <2>2, <2>3
          DEF ConnectDone, ConnectTimesOut, CallFrame, ClientTyped, pipe, PipeTyped
<1>3. CASE Stop(Owner)
  <2> DEFINE r == [call[Owner] EXCEPT !.pc = "lock"]
  <2>1. /\ r \in Caller /\ r.pc = "lock" /\ r.k = call[Owner].k
        /\ call' = [call EXCEPT ![Owner] = r] /\ connects' = connects /\ loop' = loop /\ UNCHANGED pipe
    BY <1>0, <1>3, CallTypes DEF Stop, CallFrame, Caller
  <2> HIDE DEF r
  <2>2. call' \in [Callers \cup Loops -> Caller] /\ Calling'
    BY <1>0, <2>1, OneCall
  <2> QED BY <1>3, <2>1, <2>2 DEF Stop, CallFrame, ClientTyped, pipe, PipeTyped
<1>4. CASE Close(Owner)
  <2>1. call' = [call EXCEPT ![Owner] = Idle] /\ connects' = connects /\ loop' = loop
    BY <1>4 DEF Close, CallFrame
  <2>2. call' \in [Callers \cup Loops -> Caller] /\ Calling'
    BY <1>0, <2>1, CallTypes, OneCall
  <2>3. clientOpen' \in [Conns -> BOOLEAN] /\ connected' \in BOOLEAN
    BY <1>4 DEF Close, PipeTyped
  <2> QED BY <1>4, <2>1, <2>2, <2>3 DEF Close, CallFrame, ClientTyped, PipeTyped
<1> QED BY <1>1, <1>2, <1>3, <1>4

\* A read loop at its read.
AtRead == [NotReading EXCEPT !.pc = "read"]

\* The states of a read loop have their type.
LEMMA LoopTypes ==
    /\ AtRead \in Looper /\ AtRead.pc = "read"
    /\ [NotReading EXCEPT !.pc = "closing"] \in Looper
    /\ [NotReading EXCEPT !.pc = "closing"].pc = "closing"
BY MessageTypes, EmptyFacts DEF AtRead, NotReading, Looper, Request, None, Msg

\* A step of a running read loop keeps Calling.
LEMMA OneLoop ==
    ASSUME NEW k \in Loops, NEW r \in Looper, ClientTyped, Calling,
           loop[k].pc # "off", loop' = [loop EXCEPT ![k] = r], UNCHANGED <<call, connects>>
    PROVE  loop' \in [Loops -> Looper] /\ Calling'
<1>1. loop' \in [Loops -> Looper]
  BY DEF ClientTyped
<1>2. \A l \in Loops \ {k} : loop'[l] = loop[l]
  BY DEF ClientTyped
<1>3. \A l \in Loops : loop'[l].pc # "off" => l <= connects
  BY <1>2 DEF Calling
<1> QED BY <1>1, <1>3 DEF Calling

\* The steps of a read loop keep the types.
LEMMA LoopShape ==
    ASSUME NEW k \in Loops, PipeTyped, ClientTyped, Calling, LoopStep(k)
    PROVE  PipeTyped' /\ ClientTyped' /\ Calling'
<1>0. loop[k] \in Looper /\ loop[k].msg \in Down /\ loop[k].todo \in Seq(Subs)
  BY DEF ClientTyped, Looper
<1>1. CASE LoopRead(k)
  <2>1. down[Conn] # <<>> /\ down[Conn] \in Seq(Down)
    BY <1>1, Sizes DEF LoopRead, Readable, PipeTyped
  <2>2. Head(down[Conn]) \in Down /\ Tail(down[Conn]) \in Seq(Down)
    BY <2>1, TailFacts
  <2> DEFINE r == [loop[k] EXCEPT !.pc = "got", !.msg = Head(down[Conn])]
  <2>3. r \in Looper
    BY <1>0, <2>2 DEF Looper
  <2>4. loop' = [loop EXCEPT ![k] = r] /\ loop[k].pc # "off" /\ UNCHANGED <<call, connects>>
    BY <1>1 DEF LoopRead, LoopFrame
  <2> HIDE DEF r
  <2>5. loop' \in [Loops -> Looper] /\ Calling'
    BY <2>3, <2>4, OneLoop
  <2>6. PipeTyped'
    BY <1>1, <2>2, Sizes DEF LoopRead, PipeTyped
  <2> QED BY <1>1, <2>5, <2>6 DEF LoopRead, LoopFrame, ClientTyped
<1>2. CASE LoopStore(k)
  <2>1. PICK r \in Looper : loop' = [loop EXCEPT ![k] = r]
    BY <1>2, LoopTypes DEF LoopStore, AtRead
  <2>2. loop[k].pc # "off" /\ UNCHANGED <<call, connects>>
    BY <1>2 DEF LoopStore, LoopFrame
  <2>3. loop' \in [Loops -> Looper] /\ Calling'
    BY <2>1, <2>2, OneLoop
  <2>4. device' \in Seq(Answers)
    <3>1. loop[k].msg \in Answers
      BY <1>0, <1>2 DEF LoopStore, Packet, Answers
    <3> QED BY <1>2, <3>1, AppendFacts DEF LoopStore, ClientTyped
  <2> QED BY <1>2, <2>3, <2>4 DEF LoopStore, LoopFrame, ClientTyped, pipe, PipeTyped
<1>3. CASE LoopCloses(k)
  <2>1. [loop[k] EXCEPT !.pc = "read"] \in Looper
    BY <1>0 DEF Looper
  <2>2. /\ loop' = [loop EXCEPT ![k] = [loop[k] EXCEPT !.pc = "read"]] /\ loop[k].pc # "off"
        /\ UNCHANGED <<call, connects>>
    BY <1>3 DEF LoopCloses, LoopFrame
  <2>3. loop' \in [Loops -> Looper] /\ Calling'
    BY <2>1, <2>2, OneLoop
  <2>4. complete' \in BOOLEAN /\ cfgComplete' \in [Loops -> BOOLEAN]
    BY <1>3 DEF LoopCloses, ClientTyped
  <2> QED BY <1>3, <2>3, <2>4 DEF LoopCloses, LoopFrame, ClientTyped, pipe, PipeTyped
<1>4. CASE LoopPacket(k)
  <2>1. [loop[k] EXCEPT !.pc = "handler"] \in Looper
    BY <1>0 DEF Looper
  <2>2. /\ loop' = [loop EXCEPT ![k] = [loop[k] EXCEPT !.pc = "handler"]] /\ loop[k].pc # "off"
        /\ UNCHANGED <<call, connects>>
    BY <1>4 DEF LoopPacket, LoopFrame
  <2>3. loop' \in [Loops -> Looper] /\ Calling'
    BY <2>1, <2>2, OneLoop
  <2>4. handled' \in Seq(Down)
    BY <1>0, <1>4, AppendFacts DEF LoopPacket, ClientTyped
  <2> QED BY <1>4, <2>3, <2>4 DEF LoopPacket, LoopFrame, ClientTyped, pipe, PipeTyped
<1>5. CASE HandlerReturns(k)
  <2>1. [loop[k] EXCEPT !.pc = "dispatch", !.todo = registry] \in Looper
    BY <1>0 DEF ClientTyped, Looper
  <2>2. \E r \in Looper : loop' = [loop EXCEPT ![k] = r]
    <3>1. CASE complete /\ registry # <<>>
      BY <1>5, <2>1, <3>1 DEF HandlerReturns, Dispatched
    <3>2. CASE ~(complete /\ registry # <<>>)
      BY <1>5, <3>2, LoopTypes DEF HandlerReturns, Dispatched, AtRead
    <3> QED BY <3>1, <3>2
  <2>3. loop[k].pc # "off" /\ UNCHANGED <<call, connects>>
    BY <1>5 DEF HandlerReturns, LoopFrame
  <2>4. loop' \in [Loops -> Looper] /\ Calling'
    BY <2>2, <2>3, OneLoop
  <2> QED BY <1>5, <2>4 DEF HandlerReturns, LoopFrame, ClientTyped, pipe, PipeTyped
<1>6. CASE LoopEnds(k)
  <2>1. [loop[k] EXCEPT !.pc = "ended"] \in Looper
    BY <1>0 DEF Looper
  <2>2. /\ loop' = [loop EXCEPT ![k] = [loop[k] EXCEPT !.pc = "ended"]] /\ loop[k].pc # "off"
        /\ UNCHANGED <<call, connects>>
    BY <1>6 DEF LoopEnds, LoopFrame
  <2>3. loop' \in [Loops -> Looper] /\ Calling'
    BY <2>1, <2>2, OneLoop
  <2> QED BY <1>6, <2>3 DEF LoopEnds, LoopFrame, ClientTyped, pipe, PipeTyped
<1>7. ASSUME NEW ok \in BOOLEAN, LoopCall(k, ok) PROVE PipeTyped' /\ ClientTyped' /\ Calling'
  <2>1. \E r \in Looper : loop' = [loop EXCEPT ![k] = r]
    <3>1. CASE ok /\ Len(loop[k].todo) > 1
      <4>1. loop[k].todo # <<>>
        BY <3>1
      <4>2. Tail(loop[k].todo) \in Seq(Subs)
        BY <1>0, <4>1, TailFacts
      <4>3. [loop[k] EXCEPT !.todo = Tail(loop[k].todo)] \in Looper
        BY <1>0, <4>2 DEF Looper
      <4> QED BY <1>7, <3>1, <4>3 DEF LoopCall
    <3>2. CASE ~(ok /\ Len(loop[k].todo) > 1)
      BY <1>7, <3>2, LoopTypes DEF LoopCall, AtRead
    <3> QED BY <3>1, <3>2
  <2>2. loop[k].pc # "off" /\ UNCHANGED <<call, connects>>
    BY <1>7 DEF LoopCall, LoopFrame
  <2>3. loop' \in [Loops -> Looper] /\ Calling'
    BY <2>1, <2>2, OneLoop
  <2>4. stale' \in BOOLEAN
    BY <1>7, Zenon DEF LoopCall, ClientTyped
  <2> QED BY <1>7, <2>3, <2>4 DEF LoopCall, LoopFrame, ClientTyped, pipe, PipeTyped
<1> QED BY <1>1, <1>2, <1>3, <1>4, <1>5, <1>6, <1>7 DEF LoopStep

\* Subscribing and unsubscribing keep the types.
LEMMA RegistryShape ==
    ASSUME NEW h \in Subs, PipeTyped, ClientTyped, Calling, Handle(h) \/ Unsubscribe(h)
    PROVE  PipeTyped' /\ ClientTyped' /\ Calling'
<1>1. registry \in Seq(Subs)
  BY DEF ClientTyped
<1>2. registry' \in Seq(Subs)
  <2>1. CASE Handle(h)
    BY <1>1, <2>1, AppendFacts DEF Handle
  <2>2. CASE Unsubscribe(h)
    <3>1. PICK i \in DOMAIN registry : registry' = Without(i)
      BY <2>2 DEF Unsubscribe
    <3>2. i \in 1..Len(registry) /\ Len(registry) \in Nat
      BY <1>1
    <3>3. SubSeq(registry, 1, i - 1) \in Seq(Subs) /\ SubSeq(registry, i + 1, Len(registry)) \in Seq(Subs)
      BY <1>1, <3>2
    <3> QED BY <3>1, <3>3 DEF Without
  <2> QED BY <2>1, <2>2
<1>3. RegistryFrame
  BY DEF Handle, Unsubscribe
<1> QED BY <1>2, <1>3 DEF RegistryFrame, pipe, PipeTyped, ClientTyped, Calling

\* All steps of the client do.
LEMMA ClientShape ==
    ASSUME PipeTyped, ClientTyped, Calling, ClientStep
    PROVE  PipeTyped' /\ ClientTyped' /\ Calling'
<1>1. ASSUME NEW k \in Loops, HandlerSends(k) PROVE PipeTyped' /\ ClientTyped' /\ Calling'
  BY <1>1, SendShape DEF HandlerSends
<1>2. ASSUME NEW g \in Callers, NEW kind \in Requests, SendToRadio(g, kind)
      PROVE  PipeTyped' /\ ClientTyped' /\ Calling'
  BY <1>2, SendShape
<1> QED BY <1>1, <1>2, OwnerShape, CallShape, LoopShape, RegistryShape DEF ClientStep

\* Every step of the session keeps the types.
LEMMA NextShape == Shape /\ [Next]_vars => Shape'
<1> SUFFICES ASSUME Shape, [Next]_vars PROVE Shape'
  OBVIOUS
<1> USE DEF Shape
<1>1. CASE (ServerEnvironment \/ \E c \in Conns : ServerStep(c)) /\ UNCHANGED clientVars
  <2>1. PipeTyped' /\ ServerTyped' /\ Working'
    BY <1>1, EnvironmentShape, ServerShape
  <2>2. ClientTyped' /\ Calling'
    BY <1>1 DEF clientVars, ClientTyped, Calling
  <2> QED BY <2>1, <2>2
<1>2. CASE ClientStep /\ UNCHANGED server
  <2>1. PipeTyped' /\ ClientTyped' /\ Calling'
    BY <1>2, ClientShape
  <2>2. ServerTyped' /\ Working'
    BY <1>2 DEF server, ServerTyped, Working
  <2> QED BY <2>1, <2>2
<1>3. CASE UNCHANGED vars
  BY <1>3 DEF vars, pipe, server, clientVars, PipeTyped, ServerTyped, Working, ClientTyped, Calling
<1> QED BY <1>1, <1>2, <1>3 DEF Next

\* The types hold for ever.
LEMMA ShapeAlways == Spec => []Shape
BY InitShape, NextShape, PTL DEF Spec

-----------------------------------------------------------------------------
(***************************************************************************)
(* The handler registry.                                                   *)
(***************************************************************************)

\* What does not touch loops and registry does not disturb a dispatch.
LEMMA DispatchingFrame ==
    ASSUME Dispatching, UNCHANGED <<loop, registry, stale>> PROVE Dispatching'
BY DEF Dispatching

\* A read loop that goes elsewhere than to its handlers.
LEMMA DispatchingLoop ==
    ASSUME NEW k \in Loops, ClientTyped, Dispatching, UNCHANGED <<registry, stale>>,
           \A l \in Loops \ {k} : loop'[l] = loop[l],
           loop'[k].pc # "dispatch"
    PROVE  Dispatching'
BY DEF Dispatching

\* Every step keeps the dispatch under the registry's lock.
LEMMA NextDispatching == Shape /\ Dispatching /\ [Next]_vars => Dispatching'
<1> SUFFICES ASSUME Shape, Dispatching, [Next]_vars PROVE Dispatching'
  OBVIOUS
<1>0. ClientTyped /\ Calling /\ loop \in [Loops -> Looper]
  BY DEF Shape, ClientTyped
<1>1. CASE UNCHANGED clientVars \/ UNCHANGED vars
  BY <1>1, DispatchingFrame DEF clientVars, vars
<1>2. CASE \/ Connect(Owner) \/ ConnectDone(Owner) \/ ConnectTimesOut(Owner)
           \/ Stop(Owner) \/ Close(Owner)
  BY <1>2, DispatchingFrame
     DEF Connect, ConnectDone, ConnectTimesOut, Stop, Close, CallFrame
<1>3. CASE \E g \in Callers \cup Loops, kind \in Requests : SendToRadio(g, kind)
  BY <1>3, DispatchingFrame DEF SendToRadio, CallFrame
<1>4. ASSUME NEW g \in Callers \cup Loops, CallStep(g) PROVE Dispatching'
  <2>1. CASE ClientWritten(g) /\ call[g].pc = "wanted"
    <3>1. /\ loop' = [loop EXCEPT ![call[g].k].pc = "read"] /\ UNCHANGED <<registry, stale>>
      BY <2>1 DEF ClientWritten
    <3>2. call[g].k \in Loops
      <4>1. call[g].k \in 0..connects /\ call[g].k # 0
        BY <1>0, <2>1 DEF Calling
      <4> QED BY <1>0, <4>1, Sizes DEF ClientTyped, Loops
    <3>3. /\ \A l \in Loops \ {call[g].k} : loop'[l] = loop[l]
          /\ loop'[call[g].k].pc = "read"
      BY <1>0, <3>1, <3>2 DEF Looper
    <3> QED BY <1>0, <3>1, <3>2, <3>3, DispatchingLoop
  <2>2. CASE ~(ClientWritten(g) /\ call[g].pc = "wanted")
    BY <1>4, <2>2, DispatchingFrame
       DEF CallStep, ClientWrite, ClientWritten, ClientWriteFails, CallFrame
  <2> QED BY <2>1, <2>2
<1>5. ASSUME NEW k \in Loops, LoopStep(k) PROVE Dispatching'
  <2>0. loop[k] \in Looper /\ loop[k].todo \in Seq(Subs)
    BY <1>0 DEF Looper
  <2>1. CASE LoopRead(k) \/ LoopCloses(k) \/ LoopPacket(k) \/ LoopEnds(k)
    <3>1. /\ UNCHANGED <<registry, stale>> /\ \A l \in Loops \ {k} : loop'[l] = loop[l]
          /\ loop'[k].pc # "dispatch"
      BY <1>0, <2>0, <2>1 DEF LoopRead, LoopCloses, LoopPacket, LoopEnds, Looper
    <3> QED BY <1>0, <3>1, DispatchingLoop
  <2>2. CASE LoopStore(k)
    <3>1. /\ UNCHANGED <<registry, stale>> /\ \A l \in Loops \ {k} : loop'[l] = loop[l]
      BY <1>0, <2>2 DEF LoopStore
    <3>2. loop'[k].pc # "dispatch"
      BY <1>0, <2>2, LoopTypes DEF LoopStore, AtRead
    <3> QED BY <1>0, <3>1, <3>2, DispatchingLoop
  <2>3. CASE HandlerReturns(k)
    <3>1. UNCHANGED <<registry, stale>> /\ \A l \in Loops \ {k} : loop'[l] = loop[l]
      BY <1>0, <2>3 DEF HandlerReturns, Dispatched
    <3>2. CASE complete /\ registry # <<>>
      <4>1. loop'[k].todo = registry
        BY <1>0, <2>0, <2>3, <3>2 DEF HandlerReturns, Dispatched, Looper
      <4> QED BY <3>1, <3>2, <4>1 DEF Dispatching
    <3>3. CASE ~(complete /\ registry # <<>>)
      <4>1. loop'[k] = AtRead
        BY <1>0, <2>3, <3>3 DEF HandlerReturns, Dispatched, AtRead
      <4> QED BY <1>0, <3>1, <4>1, LoopTypes, DispatchingLoop
    <3> QED BY <3>2, <3>3
  <2>4. ASSUME NEW ok \in BOOLEAN, LoopCall(k, ok) PROVE Dispatching'
    <3>1. /\ loop[k].todo # <<>> /\ ToSet(loop[k].todo) \subseteq ToSet(registry)
          /\ ~stale /\ registry' = registry
      BY <2>4 DEF LoopCall, Dispatching
    <3>2. /\ Head(loop[k].todo) \in ToSet(registry)
          /\ ToSet(Tail(loop[k].todo)) \subseteq ToSet(registry)
          /\ Len(Tail(loop[k].todo)) = Len(loop[k].todo) - 1 /\ Len(loop[k].todo) \in Nat
      BY <2>0, <3>1, TailFacts
    <3>3. PICK i \in DOMAIN registry : registry[i] = Head(loop[k].todo)
      BY <3>2 DEF ToSet
    <3>4. ~stale'
      BY <2>4, <3>1, <3>3 DEF LoopCall
    <3>5. \A l \in Loops \ {k} : loop'[l] = loop[l]
      BY <1>0, <2>4 DEF LoopCall
    <3>6. CASE ok /\ Len(loop[k].todo) > 1
      <4>1. loop'[k].todo = Tail(loop[k].todo)
        BY <1>0, <2>0, <2>4, <3>6 DEF LoopCall, Looper
      <4>2. Tail(loop[k].todo) # <<>>
        <5>1. Len(loop[k].todo) > 1
          BY <3>6, Zenon
        <5> QED BY <2>0, <5>1, LongTail
      <4> QED BY <3>1, <3>2, <3>4, <3>5, <4>1, <4>2 DEF Dispatching
    <3>7. CASE ~(ok /\ Len(loop[k].todo) > 1)
      <4>1. loop'[k].pc = "read"
        BY <1>0, <2>4, <3>7, LoopTypes DEF LoopCall, AtRead
      <4> QED BY <3>1, <3>4, <3>5, <4>1 DEF Dispatching
    <3> QED BY <3>6, <3>7
  <2> QED BY <1>5, <2>1, <2>2, <2>3, <2>4 DEF LoopStep
<1>6. CASE \E h \in Subs : Handle(h) \/ Unsubscribe(h)
  <2>1. RegistryFree /\ UNCHANGED <<loop, stale>>
    BY <1>6 DEF Handle, Unsubscribe, RegistryFrame
  <2> QED BY <2>1 DEF RegistryFree, Dispatching
<1> QED BY <1>1, <1>2, <1>3, <1>4, <1>5, <1>6 DEF Next, ClientStep, HandlerSends

\* The types of the session, the bound of every subscriber's buffer included, hold in
\* every reachable state, whatever the connections, callers and requests are.
THEOREM TypeCorrect == Spec => []TypeOK
<1>1. Shape => TypeOK
  BY DEF Shape, ServerTyped, Working, ClientTyped, TypeOK
<1> QED BY <1>1, ShapeAlways, PTL

\* Once Unsubscribe has returned the handler is not called any more: HandleMessage
\* holds the registry's lock over all its calls, so what a read loop has yet to call is
\* registered.
THEOREM NoCallAfterUnsubscribeAlways == Spec => []NoCallAfterUnsubscribe
<1>1. Init => Dispatching
  BY DEF Init, ClientInit, NotReading, Dispatching
<1>2. Dispatching => NoCallAfterUnsubscribe
  BY DEF Dispatching, NoCallAfterUnsubscribe
<1> QED BY <1>1, <1>2, ShapeAlways, NextDispatching, PTL DEF Spec

-----------------------------------------------------------------------------
(***************************************************************************)
(* The line of messages: what each step of a message keeps in order.       *)
(***************************************************************************)

\* Answers and packets do not constrain each other.
LEMMA Apart ==
    \A m \in Answers, n \in Packets : Follows(m, n) /\ Follows(n, m)
BY DEF Follows, Answers, Packets, Stored

\* Dropping messages keeps the line in order.
LEMMA LineShrinks ==
    ASSUME NEW hd, NEW dv, NEW G, NEW wire, NEW todo, NEW R, NEW E, NEW buf, NEW n,
           Ordered(hd, dv, G, wire, todo, R, E, buf, n),
           NEW t2, NEW R2, NEW E2, NEW b2,
           Sorted(t2), Sorted(b2), R2 \subseteq R, E2 \subseteq E, ToSet(b2) \subseteq ToSet(buf)
    PROVE  Ordered(hd, dv, G, wire, t2, R2, E2, b2, n)
BY DEF Ordered, Chain, Ahead, Dated

\* DispatchToClients.
LEMMA LineDispatch ==
    ASSUME NEW hd, NEW dv, NEW G, NEW wire \in Seq(Down), NEW todo, NEW R \in SUBSET Answers, NEW E,
           NEW buf \in Seq(Packets), NEW n \in Nat,
           hd \in Seq(Down), dv \in Seq(Answers), G \subseteq Down, E \subseteq Packets,
           Ordered(hd, dv, G, wire, todo, R, E, buf, n),
           NEW b2, b2 = buf \/ b2 = Append(buf, Msg("packet", n + 1))
    PROVE  Ordered(hd, dv, G, wire, todo, R, E, b2, n + 1)
<1> DEFINE m == Msg("packet", n + 1)
<1> DEFINE All == ToSet(hd) \cup ToSet(dv) \cup G \cup ToSet(wire) \cup E \cup ToSet(buf)
<1>1. m \in Packets /\ m.kind = "packet" /\ m.arg = n + 1
  BY MessageTypes DEF Msg
<1>2. ToSet(hd) \subseteq Down /\ ToSet(wire) \subseteq Down /\ ToSet(buf) \subseteq Down
      /\ ToSet(dv) \subseteq Down
  BY MessageTypes DEF ToSet
<1>3. All \subseteq Down
  BY <1>2, MessageTypes
<1>4. ASSUME NEW x \in All, x.kind = "packet" PROVE x.arg \in Nat /\ x.arg <= n
  BY <1>3, <1>4 DEF Ordered, Dated, Down
<1> HIDE DEF m, All
<1>5. ASSUME NEW x \in All PROVE Follows(x, m)
  <2>1. CASE x.kind = "packet"
    BY <1>1, <1>4, <2>1 DEF Follows
  <2>2. CASE x.kind # "packet"
    BY <1>1, <2>2 DEF Follows, Stored
  <2> QED BY <2>1, <2>2
<1>6. \A x \in R : Follows(x, m)
  BY <1>1, Apart
<1>7. Dated(All \cup {m}, n + 1)
  BY <1>1, <1>4 DEF Dated
<1>8. CASE b2 = buf
  BY <1>7, <1>8 DEF Ordered, Dated, All
<1>9. CASE b2 = Append(buf, m)
  <2>1. Ahead(ToSet(buf), {m})
    BY <1>5 DEF Ahead, All
  <2>2. Sorted(b2) /\ ToSet(b2) = ToSet(buf) \cup {m}
    BY <1>1, <1>9, <2>1, SortedAppend, AppendFacts DEF Ordered
  <2>3. Chain(ToSet(hd) \cup ToSet(dv), G, ToSet(wire), R, E, ToSet(b2))
    BY <1>5, <1>6, <2>2 DEF Ordered, Chain, Ahead, All
  <2>4. Dated(ToSet(hd) \cup ToSet(dv) \cup G \cup ToSet(wire) \cup E \cup ToSet(b2), n + 1)
    BY <1>7, <2>2 DEF Dated, All
  <2> QED BY <2>2, <2>3, <2>4 DEF Ordered
<1> QED BY <1>8, <1>9 DEF m

\* The reader has new answers to write.
LEMMA LineAnswers ==
    ASSUME NEW hd, NEW dv, NEW G, NEW wire, NEW todo, NEW E \in SUBSET Packets,
           NEW buf \in Seq(Packets), NEW n,
           NEW R, Ordered(hd, dv, G, wire, todo, R, E, buf, n),
           NEW t2 \in Seq(Answers), Sorted(t2),
           Ahead(ToSet(hd) \cup ToSet(dv) \cup G \cup ToSet(wire), ToSet(t2))
    PROVE  Ordered(hd, dv, G, wire, t2, ToSet(t2), E, buf, n)
BY DEF Ordered, Chain, Ahead

\* An answer goes on the wire.
LEMMA LineAnswer ==
    ASSUME NEW hd, NEW dv, NEW G, NEW wire \in Seq(Down), NEW todo \in Seq(Answers), todo # <<>>,
           NEW E \in SUBSET Packets, NEW buf \in Seq(Packets), NEW n,
           Ordered(hd, dv, G, wire, todo, ToSet(todo), E, buf, n)
    PROVE  Ordered(hd, dv, G, Append(wire, Head(todo)), todo, ToSet(Tail(todo)), E, buf, n)
<1> DEFINE m == Head(todo)
<1>1. m \in Answers /\ m \in Down /\ m.kind # "packet" /\ ToSet(todo) = {m} \cup ToSet(Tail(todo))
  BY TailFacts, MessageTypes DEF Answers
<1>2. Ahead({m}, ToSet(Tail(todo)))
  BY SortedTail DEF Ordered
<1>3. ToSet(buf) \subseteq Packets
  BY DEF ToSet
<1> HIDE DEF m
<1>4. Ahead({m}, E \cup ToSet(buf))
  BY <1>1, <1>3, Apart DEF Ahead
<1>5. Ahead(ToSet(wire), {m})
  BY <1>1 DEF Ordered, Chain, Ahead
<1>6. Sorted(Append(wire, m)) /\ ToSet(Append(wire, m)) = ToSet(wire) \cup {m}
  BY <1>1, <1>5, SortedAppend, AppendFacts DEF Ordered
<1>7. Chain(ToSet(hd) \cup ToSet(dv), G, ToSet(Append(wire, m)), ToSet(Tail(todo)), E, ToSet(buf))
  BY <1>1, <1>2, <1>4, <1>6 DEF Ordered, Chain, Ahead
<1>8. Dated(ToSet(hd) \cup ToSet(dv) \cup G \cup ToSet(Append(wire, m)) \cup E \cup ToSet(buf), n)
  BY <1>1, <1>6 DEF Ordered, Dated
<1> QED BY <1>6, <1>7, <1>8 DEF Ordered, m

\* The writer takes a packet from its channel.
LEMMA LineTake ==
    ASSUME NEW hd, NEW dv, NEW G, NEW wire, NEW todo, NEW R, NEW buf \in Seq(Packets), buf # <<>>,
           NEW n, Ordered(hd, dv, G, wire, todo, R, {}, buf, n)
    PROVE  Ordered(hd, dv, G, wire, todo, R, {Head(buf)}, Tail(buf), n)
<1>1. ToSet(buf) = {Head(buf)} \cup ToSet(Tail(buf))
  BY TailFacts
<1>2. Sorted(Tail(buf)) /\ Ahead({Head(buf)}, ToSet(Tail(buf)))
  BY SortedTail DEF Ordered
<1> QED BY <1>1, <1>2 DEF Ordered, Chain, Ahead, Dated

\* That packet goes on the wire.
LEMMA LineWrite ==
    ASSUME NEW hd, NEW dv, NEW G, NEW wire \in Seq(Down), NEW todo, NEW R \in SUBSET Answers,
           NEW m \in Packets, NEW buf, NEW n,
           Ordered(hd, dv, G, wire, todo, R, {m}, buf, n)
    PROVE  Ordered(hd, dv, G, Append(wire, m), todo, R, {}, buf, n)
<1>1. Ahead({m}, R)
  BY Apart DEF Ahead
<1>2. Ahead(ToSet(wire), {m}) /\ m \in Down
  BY MessageTypes DEF Ordered, Chain, Ahead
<1>3. Sorted(Append(wire, m)) /\ ToSet(Append(wire, m)) = ToSet(wire) \cup {m}
  BY <1>2, SortedAppend, AppendFacts DEF Ordered
<1>4. Chain(ToSet(hd) \cup ToSet(dv), G, ToSet(Append(wire, m)), R, {}, ToSet(buf))
  BY <1>1, <1>3 DEF Ordered, Chain, Ahead
<1>5. Dated(ToSet(hd) \cup ToSet(dv) \cup G \cup ToSet(Append(wire, m)) \cup {} \cup ToSet(buf), n)
  BY <1>3 DEF Ordered, Dated
<1> QED BY <1>3, <1>4, <1>5 DEF Ordered

\* The read loop reads a message.
LEMMA LineRead ==
    ASSUME NEW hd, NEW dv, NEW wire \in Seq(Down), wire # <<>>, NEW todo, NEW R, NEW E, NEW buf,
           NEW n, Ordered(hd, dv, {}, wire, todo, R, E, buf, n)
    PROVE  Ordered(hd, dv, {Head(wire)}, Tail(wire), todo, R, E, buf, n)
<1>1. ToSet(wire) = {Head(wire)} \cup ToSet(Tail(wire))
  BY TailFacts
<1>2. Sorted(Tail(wire)) /\ Ahead({Head(wire)}, ToSet(Tail(wire)))
  BY SortedTail DEF Ordered
<1> QED BY <1>1, <1>2 DEF Ordered, Chain, Ahead, Dated

\* It stores the message, or drops it.
LEMMA LineStore ==
    ASSUME NEW hd, NEW dv \in Seq(Answers), NEW m \in Answers, NEW wire, NEW todo, NEW R, NEW E,
           NEW buf, NEW n, Ordered(hd, dv, {m}, wire, todo, R, E, buf, n),
           NEW d2, d2 = dv \/ d2 = Append(dv, m)
    PROVE  Ordered(hd, d2, {}, wire, todo, R, E, buf, n)
<1>1. Ahead(ToSet(dv), {m})
  BY DEF Ordered, Chain, Ahead
<1>2. Sorted(d2) /\ ToSet(d2) \subseteq ToSet(dv) \cup {m}
  <2>1. Sorted(dv)
    BY DEF Ordered
  <2>2. Sorted(Append(dv, m)) /\ ToSet(Append(dv, m)) = ToSet(dv) \cup {m}
    BY <1>1, <2>1, SortedAppend, AppendFacts
  <2> QED BY <2>1, <2>2
<1> QED BY <1>2 DEF Ordered, Chain, Ahead, Dated

\* It hands a packet to the packet handler.
LEMMA LineHandle ==
    ASSUME NEW hd \in Seq(Down), NEW dv, NEW m \in Down, NEW wire, NEW todo, NEW R, NEW E,
           NEW buf, NEW n, Ordered(hd, dv, {m}, wire, todo, R, E, buf, n)
    PROVE  Ordered(Append(hd, m), dv, {}, wire, todo, R, E, buf, n)
<1>1. Ahead(ToSet(hd), {m})
  BY DEF Ordered, Chain, Ahead
<1>2. Sorted(Append(hd, m)) /\ ToSet(Append(hd, m)) \subseteq ToSet(hd) \cup {m}
  BY <1>1, SortedAppend, AppendFacts DEF Ordered
<1> QED BY <1>2 DEF Ordered, Chain, Ahead, Dated

-----------------------------------------------------------------------------
(***************************************************************************)
(* The steps of the server keep the line in order.                         *)
(***************************************************************************)

\* The places of the line hold messages.
LEMMA LineTypes ==
    ASSUME Shape
    PROVE  /\ handled \in Seq(Down) /\ device \in Seq(Answers) /\ Got \subseteq Down
           /\ down[Conn] \in Seq(Down) /\ rd[Conn].todo \in Seq(Answers)
           /\ Rest \subseteq Answers /\ Taking \subseteq Packets
           /\ buffer[Conn] \in Seq(Packets) /\ dispatched \in Nat
<1>1. /\ handled \in Seq(Down) /\ device \in Seq(Answers) /\ loop \in [Loops -> Looper]
      /\ down[Conn] \in Seq(Down) /\ rd[Conn] \in Reader
      /\ buffer[Conn] \in Seq(Packets) /\ dispatched \in Nat
  BY Sizes DEF Shape, PipeTyped, ServerTyped, ClientTyped
<1>2. rd[Conn].todo \in Seq(Answers)
  BY <1>1 DEF Reader
<1>3. Got \subseteq Down
  BY <1>1 DEF Got, Looper
<1>4. Rest \subseteq Answers
  <2>1. \A t \in Seq(Answers) : ToSet(t) \subseteq Answers
    BY DEF ToSet
  <2>2. CASE writeMu[Conn] = "rd"
    <3>1. rd[Conn].todo # <<>>
      BY <2>2, Sizes DEF Shape, Working
    <3>2. Tail(rd[Conn].todo) \in Seq(Answers)
      BY <1>2, <3>1, TailFacts
    <3> QED BY <2>1, <2>2, <3>2 DEF Rest
  <2>3. CASE writeMu[Conn] # "rd"
    BY <1>2, <2>1, <2>3 DEF Rest
  <2> QED BY <2>2, <2>3
<1>5. Taking \subseteq Packets
  BY Sizes DEF Taking, Shape, Working
<1> QED BY <1>1, <1>2, <1>3, <1>4, <1>5

\* A step that moves nothing.
LEMMA LineSame ==
    ASSUME Line, UNCHANGED <<handled, device, Got, Rest, Taking, dispatched>>,
           down'[Conn] = down[Conn], rd'[Conn].todo = rd[Conn].todo, buffer'[Conn] = buffer[Conn]
    PROVE  Line'
BY DEF Line

\* Rest and Taking follow from the state of the reader, the writer and writeMu.
LEMMA RestSame ==
    ASSUME rd'[Conn].todo = rd[Conn].todo, (writeMu'[Conn] = "rd") <=> (writeMu[Conn] = "rd")
    PROVE  Rest' = Rest
BY DEF Rest
\* What the writer holds is the same unless it or its lock moves.
LEMMA TakingSame ==
    ASSUME wr'[Conn] = wr[Conn], (writeMu'[Conn] = "wr") <=> (writeMu[Conn] = "wr")
    PROVE  Taking' = Taking
BY DEF Taking
\* What the loops have read is the same unless they move.
LEMMA GotSame == ASSUME UNCHANGED loop PROVE Got' = Got
BY DEF Got

\* The answers a reader begins to write fit behind what was sent.
HeadFits == Ahead(Past \cup Got \cup Wire, ToSet(HandshakeHead))
TailFits(t) == Sorted(t) /\ Ahead(Past \cup Got \cup Wire, ToSet(t))

\* A handshake begins in order.
LEMMA HeadSorted == Sorted(HandshakeHead) /\ Sorted(<<Msg("adminresp", 0)>>)
<1>1. /\ DOMAIN HandshakeHead = 1..4 /\ DOMAIN <<Msg("adminresp", 0)>> = 1..1
      /\ \A i \in 1..4 : HandshakeHead[i].kind \in {"myinfo", "metadata", "presets", "node"}
  BY DEF HandshakeHead, Msg
<1>2. \A i, j \in 1..4 : Follows(HandshakeHead[i], HandshakeHead[j])
  BY <1>1 DEF Follows
<1> QED BY <1>1, <1>2 DEF Sorted

\* The reader keeps the order, if what it begins to answer fits behind what was sent.
LEMMA ReaderLine ==
    ASSUME Shape, Line, ReaderStep(Conn), UNCHANGED clientVars,
           rd[Conn].pc = "read" /\ up[Conn] # <<>> /\ Head(up[Conn]).kind = "want" => HeadFits,
           rd[Conn].pc = "hello" =>
              \A order \in SetToSeqs(Peers) : TailFits(HandshakeTail(order, rd[Conn].id))
    PROVE  Line'
<1>0. /\ Conn \in Conns /\ rd \in [Conns -> Reader] /\ wr \in [Conns -> Writer]
      /\ down \in [Conns -> Seq(Down)] /\ writeMu \in [Conns -> {"free", "rd", "wr"}]
      /\ UNCHANGED <<handled, device, loop>> /\ Got' = Got
  BY Sizes, GotSame DEF Shape, PipeTyped, ServerTyped, clientVars
<1>1. ASSUME ReaderLoop(Conn) \/ ReaderEof(Conn) PROVE Line'
  <2>1. /\ UNCHANGED <<down, writeMu, wr, buffer, dispatched>>
        /\ rd'[Conn].todo = rd[Conn].todo
    BY <1>0, <1>1 DEF ReaderLoop, ReaderEof, ReaderFrame, pipe, Reader
  <2> QED BY <1>0, <2>1, RestSame, TakingSame, LineSame
<1>2. CASE ReaderRead(Conn)
  <2>1. /\ UNCHANGED <<down, writeMu, wr, buffer, dispatched>>
        /\ rd'[Conn] = AfterRead(Head(up[Conn]))
    BY <1>0, <1>2 DEF ReaderRead, ReaderFrame
  <2>2. rd[Conn].todo = <<>> /\ writeMu[Conn] # "rd"
    BY <1>0, <1>2 DEF ReaderRead, Shape, Working, Answering
  <2>3. Taking' = Taking
    BY <2>1, TakingSame
  <2>4. Rest' = ToSet(rd'[Conn].todo)
    BY <2>1, <2>2 DEF Rest
  <2>5. ASSUME NEW t \in Seq(Answers), rd'[Conn].todo = t, TailFits(t) PROVE Line'
    BY <1>0, <2>1, <2>3, <2>4, <2>5, LineAnswers, LineTypes DEF Line, TailFits, Past, Wire
  <2>6. CASE Head(up[Conn]).kind = "want"
    <3>1. rd'[Conn].todo = HandshakeHead
      BY <2>1, <2>6 DEF AfterRead
    <3>2. TailFits(HandshakeHead)
      BY <1>2, <2>6, HeadSorted DEF ReaderRead, Readable, HeadFits, TailFits
    <3> QED BY <2>5, <3>1, <3>2, HeadType
  <2>7. CASE Head(up[Conn]).kind = "admin"
    <3>1. rd'[Conn].todo = <<Msg("adminresp", 0)>>
      BY <2>1, <2>7 DEF AfterRead
    <3>2. ToSet(<<Msg("adminresp", 0)>>) = {Msg("adminresp", 0)} /\ Msg("adminresp", 0).kind = "adminresp"
      BY DEF ToSet, Msg
    <3>3. TailFits(<<Msg("adminresp", 0)>>)
      BY <3>2, HeadSorted DEF TailFits, Ahead, Follows, Stored
    <3> QED BY <2>5, <3>1, <3>3, HeadType
  <2>8. CASE Head(up[Conn]).kind \notin {"want", "admin"}
    <3>1. rd'[Conn].todo = <<>>
      BY <2>1, <2>8 DEF AfterRead
    <3>2. TailFits(<<>>)
      BY EmptyFacts DEF TailFits, Ahead
    <3> QED BY <2>5, <3>1, <3>2, EmptyFacts
  <2> QED BY <2>6, <2>7, <2>8
<1>3. CASE ReaderWrite(Conn)
  <2>1. /\ UNCHANGED <<rd, wr, buffer, dispatched>> /\ writeMu[Conn] = "free"
        /\ writeMu'[Conn] = "rd" /\ rd[Conn].todo # <<>>
        /\ down'[Conn] = Append(down[Conn], Head(rd[Conn].todo))
    BY <1>0, <1>3 DEF ReaderWrite, ReaderFrame
  <2>2. Rest = ToSet(rd[Conn].todo) /\ Rest' = ToSet(Tail(rd[Conn].todo)) /\ Taking' = Taking
    BY <2>1, TakingSame DEF Rest
  <2> QED BY <1>0, <2>1, <2>2, LineAnswer, LineTypes DEF Line
<1>4. CASE ReaderWritten(Conn)
  <2>1. /\ UNCHANGED <<down, wr, buffer, dispatched>> /\ writeMu[Conn] = "rd"
        /\ writeMu'[Conn] = "free" /\ rd[Conn].todo # <<>>
        /\ rd'[Conn].todo = Tail(rd[Conn].todo)
    BY <1>0, <1>4 DEF ReaderWritten, ReaderFrame, pipe, Shape, Working, Reader
  <2>2. Rest = ToSet(Tail(rd[Conn].todo)) /\ Rest' = ToSet(Tail(rd[Conn].todo)) /\ Taking' = Taking
    BY <2>1, TakingSame DEF Rest
  <2>3. Sorted(Tail(rd[Conn].todo))
    BY <2>1, LineTypes, SortedTail DEF Line, Ordered
  <2> QED BY <1>0, <2>1, <2>2, <2>3, LineShrinks DEF Line, Ordered
<1>5. CASE ReaderWriteFails(Conn)
  <2>1. /\ UNCHANGED <<down, wr, buffer, dispatched>> /\ rd'[Conn].todo = <<>>
        /\ writeMu'[Conn] # "rd" /\ ((writeMu'[Conn] = "wr") <=> (writeMu[Conn] = "wr"))
    BY <1>0, <1>5 DEF ReaderWriteFails, ReaderFrame, pipe
  <2>2. Rest' = {} /\ Taking' = Taking
    BY <2>1, TakingSame, EmptyFacts DEF Rest
  <2>3. Ordered(handled, device, Got, down[Conn], rd[Conn].todo, Rest, Taking, buffer[Conn], dispatched)
        /\ Sorted(buffer[Conn]) /\ {} \subseteq Rest
    BY DEF Line, Ordered
  <2>4. Ordered(handled, device, Got, down[Conn], <<>>, {}, Taking, buffer[Conn], dispatched)
    BY <2>3, LineShrinks, EmptyFacts
  <2> QED BY <1>0, <2>1, <2>2, <2>4 DEF Line
<1>6. CASE ReaderSnapshot(Conn)
  <2>1. PICK order \in SetToSeqs(Peers) :
           rd' = [rd EXCEPT ![Conn].pc = "table", ![Conn].todo = HandshakeTail(order, rd[Conn].id)]
    BY <1>6 DEF ReaderSnapshot
  <2> DEFINE t == HandshakeTail(order, rd[Conn].id)
  <2>2. /\ UNCHANGED <<down, writeMu, wr, buffer, dispatched>> /\ rd[Conn].pc = "hello"
        /\ rd[Conn].todo = <<>> /\ rd'[Conn].todo = t
    BY <1>0, <1>6, <2>1 DEF ReaderSnapshot, ReaderFrame, pipe, Reader
  <2>3. t \in Seq(Answers)
    BY <1>0, TailType DEF Reader
  <2>4. TailFits(t)
    BY <2>2
  <2>5. writeMu[Conn] # "rd"
    BY <1>0, <2>2 DEF Shape, Working
  <2> HIDE DEF t
  <2>6. Rest' = ToSet(t) /\ Taking' = Taking
    BY <2>2, <2>5, TakingSame DEF Rest
  <2>7. Ordered(handled, device, Got, down[Conn], t, ToSet(t), Taking, buffer[Conn], dispatched)
    BY <2>3, <2>4, LineAnswers, LineTypes DEF Line, TailFits, Past, Wire
  <2> QED BY <1>0, <2>2, <2>6, <2>7 DEF Line
<1> QED BY <1>1, <1>2, <1>3, <1>4, <1>5, <1>6 DEF ReaderStep

\* The writer keeps the order: it takes the oldest packet of the buffer.
LEMMA WriterLine ==
    ASSUME Shape, Line, WriterStep(Conn), UNCHANGED clientVars
    PROVE  Line'
<1>0. /\ Conn \in Conns /\ rd \in [Conns -> Reader] /\ wr \in [Conns -> Writer]
      /\ down \in [Conns -> Seq(Down)] /\ writeMu \in [Conns -> {"free", "rd", "wr"}]
      /\ buffer \in [Conns -> Seq(Packets)]
      /\ UNCHANGED <<handled, device, loop>> /\ Got' = Got
  BY Sizes, GotSame DEF Shape, PipeTyped, ServerTyped, clientVars
<1>1. CASE AddSubscriber(Conn)
  <2>1. /\ UNCHANGED <<down, rd, writeMu, buffer, dispatched>>
        /\ wr[Conn].pc = "start" /\ wr'[Conn].pc = "select"
    BY <1>0, <1>1 DEF AddSubscriber, WriterFrame, pipe, Writer
  <2>2. Taking = {} /\ Taking' = {} /\ Rest' = Rest
    BY <2>1, RestSame DEF Taking
  <2> QED BY <1>0, <2>1, <2>2, LineSame
<1>2. CASE WriterTake(Conn)
  <2>1. /\ UNCHANGED <<down, rd, writeMu, dispatched>> /\ buffer[Conn] # <<>>
        /\ wr[Conn].pc = "select" /\ wr'[Conn] = [pc |-> "write", msg |-> Head(buffer[Conn])]
        /\ buffer'[Conn] = Tail(buffer[Conn])
    BY <1>0, <1>2 DEF WriterTake, WriterFrame, pipe
  <2>2. writeMu[Conn] # "wr"
    BY <1>0, <2>1 DEF Shape, Working
  <2>3. Taking = {} /\ Taking' = {Head(buffer[Conn])} /\ Rest' = Rest
    BY <2>1, <2>2, RestSame DEF Taking
  <2> QED BY <1>0, <2>1, <2>3, LineTake, LineTypes DEF Line
<1>3. CASE WriterCancelled(Conn) \/ WriterWriteFails(Conn)
  <2>1. /\ UNCHANGED <<down, rd, dispatched>> /\ wr'[Conn].pc = "done" /\ buffer'[Conn] = <<>>
        /\ (writeMu'[Conn] = "rd") <=> (writeMu[Conn] = "rd")
    BY <1>0, <1>3 DEF WriterCancelled, WriterWriteFails, Leave, WriterFrame, pipe
  <2>2. Taking' = {} /\ Rest' = Rest
    BY <2>1, RestSame DEF Taking
  <2>3. Ordered(handled, device, Got, down[Conn], rd[Conn].todo, Rest, Taking, buffer[Conn], dispatched)
        /\ Sorted(rd[Conn].todo) /\ {} \subseteq Taking /\ ToSet(<<>>) \subseteq ToSet(buffer[Conn])
    BY EmptyFacts DEF Line, Ordered
  <2>4. Ordered(handled, device, Got, down[Conn], rd[Conn].todo, Rest, {}, <<>>, dispatched)
    BY <2>3, LineShrinks, EmptyFacts
  <2> QED BY <1>0, <2>1, <2>2, <2>4 DEF Line
<1>4. CASE WriterWrite(Conn)
  <2>1. /\ UNCHANGED <<rd, wr, buffer, dispatched>> /\ writeMu[Conn] = "free"
        /\ writeMu'[Conn] = "wr" /\ wr[Conn].pc = "write"
        /\ down'[Conn] = Append(down[Conn], wr[Conn].msg)
    BY <1>0, <1>4 DEF WriterWrite, WriterFrame
  <2>2. Taking = {wr[Conn].msg} /\ Taking' = {} /\ Rest' = Rest
    BY <2>1, RestSame DEF Taking
  <2>3. wr[Conn].msg \in Packets
    BY <1>0, <2>1 DEF Shape, Working
  <2>4. Ordered(handled, device, Got, Append(down[Conn], wr[Conn].msg), rd[Conn].todo, Rest, {},
                buffer[Conn], dispatched)
    BY <2>2, <2>3, LineWrite, LineTypes DEF Line
  <2> QED BY <1>0, <2>1, <2>2, <2>4 DEF Line
<1>5. CASE WriterWritten(Conn)
  <2>1. /\ UNCHANGED <<down, rd, buffer, dispatched>> /\ writeMu[Conn] = "wr"
        /\ writeMu'[Conn] = "free" /\ wr'[Conn].pc = "select"
    BY <1>0, <1>5 DEF WriterWritten, WriterFrame, pipe
  <2>2. Taking = {} /\ Taking' = {} /\ Rest' = Rest
    BY <2>1, RestSame DEF Taking
  <2> QED BY <1>0, <2>1, <2>2, LineSame
<1> QED BY <1>1, <1>2, <1>3, <1>4, <1>5 DEF WriterStep

\* A step of another connection leaves this one alone.
LEMMA Elsewhere ==
    ASSUME Shape, NEW c \in Conns, c # Conn, ServerStep(c)
    PROVE  /\ down'[Conn] = down[Conn] /\ up'[Conn] = up[Conn] /\ rd'[Conn] = rd[Conn]
           /\ wr'[Conn] = wr[Conn] /\ writeMu'[Conn] = writeMu[Conn]
           /\ buffer'[Conn] = buffer[Conn] /\ dispatched' = dispatched
<1>0. /\ Conn \in Conns /\ rd \in [Conns -> Reader] /\ wr \in [Conns -> Writer]
      /\ down \in [Conns -> Seq(Down)] /\ up \in [Conns -> Seq(Up)]
      /\ writeMu \in [Conns -> {"free", "rd", "wr"}] /\ buffer \in [Conns -> Seq(Packets)]
  BY Sizes DEF Shape, PipeTyped, ServerTyped
<1>1. CASE HandleConn(c) \/ HandleConnReturns(c)
  BY <1>0, <1>1 DEF HandleConn, HandleConnReturns, pipe
<1>2. CASE ReaderStep(c)
  <2>1. CASE ReaderLoop(c) \/ ReaderEof(c)
    BY <1>0, <2>1 DEF ReaderLoop, ReaderEof, ReaderFrame, pipe
  <2>2. CASE ReaderRead(c)
    BY <1>0, <2>2 DEF ReaderRead, ReaderFrame
  <2>3. CASE ReaderWrite(c)
    BY <1>0, <2>3 DEF ReaderWrite, ReaderFrame
  <2>4. CASE ReaderWritten(c)
    BY <1>0, <2>4 DEF ReaderWritten, ReaderFrame, pipe
  <2>5. CASE ReaderWriteFails(c)
    BY <1>0, <2>5 DEF ReaderWriteFails, ReaderFrame, pipe
  <2>6. CASE ReaderSnapshot(c)
    BY <1>0, <2>6 DEF ReaderSnapshot, ReaderFrame, pipe
  <2> QED BY <1>2, <2>1, <2>2, <2>3, <2>4, <2>5, <2>6 DEF ReaderStep
<1>3. CASE WriterStep(c)
  <2>1. CASE AddSubscriber(c) \/ WriterTake(c)
    BY <1>0, <2>1 DEF AddSubscriber, WriterTake, WriterFrame, pipe
  <2>2. CASE WriterCancelled(c)
    BY <1>0, <2>2 DEF WriterCancelled, Leave, WriterFrame, pipe
  <2>3. CASE WriterWrite(c)
    BY <1>0, <2>3 DEF WriterWrite, WriterFrame
  <2>4. CASE WriterWritten(c)
    BY <1>0, <2>4 DEF WriterWritten, WriterFrame, pipe
  <2>5. CASE WriterWriteFails(c)
    BY <1>0, <2>5 DEF WriterWriteFails, Leave, WriterFrame, pipe
  <2> QED BY <1>3, <2>1, <2>2, <2>3, <2>4, <2>5 DEF WriterStep
<1> QED BY <1>1, <1>2, <1>3 DEF ServerStep

\* So does the whole server; a dispatched packet has the highest number.
LEMMA ServerLine ==
    ASSUME Shape, Line, ServerEnvironment \/ \E c \in Conns : ServerStep(c), UNCHANGED clientVars,
           rd[Conn].pc = "read" /\ up[Conn] # <<>> /\ Head(up[Conn]).kind = "want" => HeadFits,
           rd[Conn].pc = "hello" =>
              \A order \in SetToSeqs(Peers) : TailFits(HandshakeTail(order, rd[Conn].id))
    PROVE  Line'
<1>0. /\ Conn \in Conns /\ rd \in [Conns -> Reader] /\ wr \in [Conns -> Writer]
      /\ UNCHANGED <<handled, device, loop>> /\ Got' = Got
  BY Sizes, GotSame DEF Shape, ServerTyped, clientVars
<1>1. CASE DispatchToClients
  <2>1. /\ dispatched' = dispatched + 1 /\ UNCHANGED <<down, rd, wr, writeMu>>
        /\ \/ buffer'[Conn] = buffer[Conn]
           \/ buffer'[Conn] = Append(buffer[Conn], Msg("packet", dispatched + 1))
    BY <1>0, <1>1 DEF DispatchToClients, Push, pipe
  <2>2. Rest' = Rest /\ Taking' = Taking
    BY <2>1, RestSame, TakingSame
  <2>3. Ordered(handled, device, Got, down[Conn], rd[Conn].todo, Rest, Taking, buffer'[Conn],
                dispatched + 1)
    BY <2>1, LineDispatch, LineTypes DEF Line
  <2> QED BY <1>0, <2>1, <2>2, <2>3 DEF Line
<1>2. CASE Shutdown
  <2>1. UNCHANGED <<down, rd, wr, writeMu, buffer, dispatched>>
    BY <1>2 DEF Shutdown, pipe
  <2> QED BY <1>0, <2>1, RestSame, TakingSame, LineSame
<1>3. ASSUME NEW c \in Conns, c # Conn, ServerStep(c) PROVE Line'
  BY <1>0, <1>3, Elsewhere, RestSame, TakingSame, LineSame
<1>4. CASE HandleConn(Conn)
  <2>1. wr[Conn].pc = "off"
    BY <1>0, <1>4 DEF HandleConn, Shape, Working
  <2>2. /\ UNCHANGED <<down, writeMu, buffer, dispatched>> /\ rd'[Conn].todo = rd[Conn].todo
        /\ wr'[Conn].pc = "start"
    BY <1>0, <1>4 DEF HandleConn, pipe, Reader, Writer
  <2>3. Taking = {} /\ Taking' = {} /\ Rest' = Rest
    BY <2>1, <2>2, RestSame DEF Taking
  <2> QED BY <1>0, <2>2, <2>3, LineSame
<1>5. CASE HandleConnReturns(Conn)
  <2>1. UNCHANGED <<down, rd, wr, writeMu, buffer, dispatched>>
    BY <1>5 DEF HandleConnReturns
  <2> QED BY <1>0, <2>1, RestSame, TakingSame, LineSame
<1> QED BY <1>1, <1>2, <1>3, <1>4, <1>5, ReaderLine, WriterLine DEF ServerEnvironment, ServerStep
-----------------------------------------------------------------------------
(***************************************************************************)
(* The steps of the client keep the line in order.                         *)
(***************************************************************************)

\* There is one read loop at most, as there was one Connect at most.
LEMMA OneReader ==
    ASSUME Shape, connects <= 1, NEW k \in Loops, loop[k].pc # "off"
    PROVE  /\ \A l \in Loops : loop[l].pc # "off" => l = k
           /\ Got = IF loop[k].pc = "got" THEN {loop[k].msg} ELSE {}
<1>1. \A l \in Loops : loop[l].pc # "off" => l = 1
  BY Sizes DEF Shape, ClientTyped, Calling, Loops
<1>2. \A l \in Loops : loop[l].pc # "off" => l = k
  BY <1>1
<1> QED BY <1>2 DEF Got

\* With one connection only one loop reads.
LEMMA GotAfter ==
    ASSUME Shape, connects <= 1, NEW k \in Loops, loop[k].pc # "off", NEW r \in Looper,
           loop' = [loop EXCEPT ![k] = r]
    PROVE  Got' = IF r.pc = "got" THEN {r.msg} ELSE {}
<1>1. loop'[k] = r /\ \A l \in Loops \ {k} : loop'[l] = loop[l]
  BY DEF Shape, ClientTyped
<1>2. \A l \in Loops \ {k} : loop'[l].pc # "got"
  BY <1>1, OneReader
<1> QED BY <1>1, <1>2 DEF Got

\* The call of a Connect that has a number has not started its read loop yet.
LEMMA GotStarted ==
    ASSUME Shape, NEW k \in Loops, loop' = [loop EXCEPT ![k].pc = "read"], loop[k].pc # "got"
    PROVE  Got' = Got
<1>1. /\ loop'[k].pc = "read" /\ \A l \in Loops \ {k} : loop'[l] = loop[l]
  BY DEF Shape, ClientTyped, Looper
<1> QED BY <1>1 DEF Got

\* A step of a read loop is one of a running loop, and changes that loop only.
LEMMA LoopOnly ==
    ASSUME Shape, NEW k \in Loops, LoopStep(k)
    PROVE  /\ loop[k].pc # "off" /\ UNCHANGED <<call, connects, result>>
           /\ \A l \in Loops \ {k} : loop'[l] = loop[l]
<1>0. loop \in [Loops -> Looper]
  BY DEF Shape, ClientTyped
<1>1. CASE LoopRead(k) \/ LoopCloses(k) \/ LoopPacket(k) \/ LoopEnds(k)
  BY <1>0, <1>1 DEF LoopRead, LoopCloses, LoopPacket, LoopEnds, LoopFrame
<1>2. CASE LoopStore(k)
  BY <1>0, <1>2 DEF LoopStore, LoopFrame
<1>3. CASE HandlerReturns(k)
  BY <1>0, <1>3 DEF HandlerReturns, Dispatched, LoopFrame
<1>4. ASSUME NEW ok \in BOOLEAN, LoopCall(k, ok)
      PROVE  /\ loop[k].pc # "off" /\ UNCHANGED <<call, connects, result>>
             /\ \A l \in Loops \ {k} : loop'[l] = loop[l]
  BY <1>0, <1>4 DEF LoopCall, LoopFrame
<1> QED BY <1>1, <1>2, <1>3, <1>4 DEF LoopStep

\* Only the owner's Connect waits for the configuration.
LEMMA WantedLoop ==
    ASSUME Shape, NEW g \in Callers \cup Loops, call[g].pc \in {"want", "wanted", "wait"}
    PROVE  g = Owner /\ call[g].k \in Loops
<1>1. g = Owner /\ call[g].k \in 0..connects /\ call[g].k # 0
  BY DEF Shape, Calling
<1> QED BY <1>1, Sizes DEF Shape, ClientTyped, Loops

\* Every step keeps a read loop from starting before its WantConfigId.
LEMMA NextStarting == Shape /\ Starting /\ [Next]_vars => Starting'
<1> SUFFICES ASSUME Shape, Starting, [Next]_vars PROVE Starting'
  OBVIOUS
<1>0. /\ call \in [Callers \cup Loops -> Caller] /\ loop \in [Loops -> Looper]
      /\ Owner \in Callers \cup Loops /\ connects \in Nat /\ connects <= MaxConnects
      /\ \A k \in Loops : loop[k].pc # "off" => k <= connects
  BY Sizes DEF Shape, ClientTyped, Calling
<1>1. CASE UNCHANGED <<call, loop>>
  BY <1>1 DEF Starting
<1>2. CASE Connect(Owner)
  <2>1. /\ call'[Owner].k = connects + 1 /\ loop' = loop /\ connects < MaxConnects
    BY <1>0, <1>2 DEF Connect, CallFrame
  <2>2. connects + 1 \in Loops /\ ~(connects + 1 <= connects)
    BY <1>0, <2>1, Sizes DEF Loops
  <2> QED BY <1>0, <2>1, <2>2 DEF Starting
<1>3. CASE ConnectDone(Owner) \/ ConnectTimesOut(Owner) \/ Close(Owner)
  <2>1. call'[Owner].pc = "idle"
    BY <1>0, <1>3 DEF ConnectDone, ConnectTimesOut, Close, Idle
  <2> QED BY <2>1 DEF Starting
<1>4. CASE Stop(Owner)
  <2>1. call'[Owner].pc = "lock"
    BY <1>0, <1>4 DEF Stop, Caller
  <2> QED BY <2>1 DEF Starting
<1>5. ASSUME NEW g \in Callers \cup Loops, NEW kind \in Requests, SendToRadio(g, kind) PROVE Starting'
  <2>1. loop' = loop /\ call' = [call EXCEPT ![g] = [pc |-> "send", k |-> 0, req |-> Request(kind, 0)]]
    BY <1>5 DEF SendToRadio, CallFrame
  <2>2. CASE g = Owner
    BY <1>0, <2>1, <2>2 DEF Starting
  <2>3. CASE g # Owner
    BY <1>0, <2>1, <2>3 DEF Starting
  <2> QED BY <2>2, <2>3
<1>6. ASSUME NEW g \in Callers \cup Loops, CallStep(g) PROVE Starting'
  <2>1. CASE g = Owner
    <3>1. CASE ClientWrite(g)
      <4>1. /\ loop' = loop /\ call'[Owner].k = call[Owner].k
            /\ call'[Owner].pc = IF call[Owner].pc = "want" THEN "wanted" ELSE "sent"
        BY <1>0, <2>1, <3>1 DEF ClientWrite, CallFrame, Caller
      <4> QED BY <4>1 DEF Starting
    <3>2. CASE ClientWritten(g) \/ ClientWriteFails(g)
      <4>1. call'[Owner].pc \in {"wait", "idle"}
        BY <1>0, <2>1, <3>2 DEF ClientWritten, ClientWriteFails, Idle, Caller
      <4> QED BY <4>1 DEF Starting
    <3> QED BY <1>6, <3>1, <3>2 DEF CallStep
  <2>2. CASE g # Owner
    <3>1. call[g].pc # "wanted"
      BY <2>2, WantedLoop
    <3>2. loop' = loop /\ call'[Owner] = call[Owner]
      BY <1>0, <1>6, <2>2, <3>1
         DEF CallStep, ClientWrite, ClientWritten, ClientWriteFails, CallFrame
    <3> QED BY <3>2 DEF Starting
  <2> QED BY <2>1, <2>2
<1>7. ASSUME NEW k \in Loops, LoopStep(k) PROVE Starting'
  <2>1. call' = call /\ loop[k].pc # "off" /\ \A l \in Loops \ {k} : loop'[l] = loop[l]
    BY <1>7, LoopOnly
  <2>2. CASE call[Owner].pc \in {"want", "wanted"}
    <3>1. call[Owner].k \in Loops /\ loop[call[Owner].k].pc = "off"
      BY <1>0, <2>2, WantedLoop DEF Starting
    <3> QED BY <2>1, <3>1 DEF Starting
  <2>3. CASE call[Owner].pc \notin {"want", "wanted"}
    BY <2>1, <2>3 DEF Starting
  <2> QED BY <2>2, <2>3
<1>8. CASE \E h \in Subs : Handle(h) \/ Unsubscribe(h)
  BY <1>1, <1>8 DEF Handle, Unsubscribe, RegistryFrame
<1>9. CASE UNCHANGED clientVars \/ UNCHANGED vars
  BY <1>1, <1>9 DEF clientVars, vars
<1> QED BY <1>2, <1>3, <1>4, <1>5, <1>6, <1>7, <1>8, <1>9 DEF Next, ClientStep, HandlerSends

\* The client takes messages from the front of the line.
LEMMA ClientLine ==
    ASSUME Shape, Starting, Line, connects <= 1, ClientStep, UNCHANGED server
    PROVE  Line'
<1>0. /\ UNCHANGED <<rd, wr, writeMu, buffer, dispatched>> /\ Rest' = Rest /\ Taking' = Taking
      /\ Conn \in Conns /\ loop \in [Loops -> Looper]
  BY RestSame, TakingSame, Sizes DEF server, Shape, ClientTyped
<1>1. ASSUME UNCHANGED <<handled, device, down>>, Got' = Got PROVE Line'
  BY <1>0, <1>1, LineSame
<1>2. CASE \/ Connect(Owner) \/ ConnectDone(Owner) \/ ConnectTimesOut(Owner)
           \/ Stop(Owner) \/ Close(Owner)
  <2>1. UNCHANGED <<handled, device, down, loop>>
    BY <1>2 DEF Connect, ConnectDone, ConnectTimesOut, Stop, Close, CallFrame, pipe
  <2> QED BY <1>1, <2>1, GotSame
<1>3. CASE \E g \in Callers \cup Loops, kind \in Requests : SendToRadio(g, kind)
  <2>1. UNCHANGED <<handled, device, down, loop>>
    BY <1>3 DEF SendToRadio, CallFrame, pipe
  <2> QED BY <1>1, <2>1, GotSame
<1>4. ASSUME NEW g \in Callers \cup Loops, CallStep(g) PROVE Line'
  <2>1. UNCHANGED <<handled, device, down>>
    BY <1>4 DEF CallStep, ClientWrite, ClientWritten, ClientWriteFails, CallFrame, pipe
  <2>2. CASE ClientWritten(g) /\ call[g].pc = "wanted"
    <3>1. loop' = [loop EXCEPT ![call[g].k].pc = "read"]
      BY <2>2 DEF ClientWritten
    <3>2. call[g].k \in Loops /\ loop[call[g].k].pc = "off"
      BY <2>2, WantedLoop DEF Starting
    <3>3. Got' = Got
      BY <3>1, <3>2, GotStarted
    <3> QED BY <1>1, <2>1, <3>3
  <2>3. CASE ~(ClientWritten(g) /\ call[g].pc = "wanted")
    <3>1. UNCHANGED loop
      BY <1>4, <2>3 DEF CallStep, ClientWrite, ClientWritten, ClientWriteFails, CallFrame
    <3> QED BY <1>1, <2>1, <3>1, GotSame
  <2> QED BY <2>2, <2>3
<1>5. ASSUME NEW k \in Loops, LoopStep(k) PROVE Line'
  <2>0. /\ loop[k] \in Looper /\ loop[k].msg \in Down /\ loop[k].todo \in Seq(Subs)
        /\ loop[k].pc # "off"
    BY <1>0, <1>5, LoopOnly DEF Looper
  <2>1. CASE LoopRead(k)
    <3>1. /\ UNCHANGED <<handled, device>> /\ down[Conn] # <<>> /\ down'[Conn] = Tail(down[Conn])
          /\ loop[k].pc = "read"
          /\ loop' = [loop EXCEPT ![k] = [loop[k] EXCEPT !.pc = "got", !.msg = Head(down[Conn])]]
      BY <1>0, <2>1 DEF LoopRead, Readable, Shape, PipeTyped
    <3>2. Head(down[Conn]) \in Down
      BY <3>1, LineTypes, TailFacts
    <3>3. [loop[k] EXCEPT !.pc = "got", !.msg = Head(down[Conn])] \in Looper
      BY <2>0, <3>2 DEF Looper
    <3>4. Got = {} /\ Got' = {Head(down[Conn])}
      BY <2>0, <3>1, <3>3, OneReader, GotAfter DEF Looper
    <3>5. Ordered(handled, device, {Head(down[Conn])}, Tail(down[Conn]), rd[Conn].todo, Rest, Taking,
                  buffer[Conn], dispatched)
      BY <3>1, <3>4, LineRead, LineTypes DEF Line
    <3> QED BY <1>0, <3>1, <3>4, <3>5 DEF Line
  <2>2. CASE LoopStore(k)
    <3>1. /\ UNCHANGED <<handled, down>> /\ loop[k].pc = "got" /\ loop[k].msg \in Answers
          /\ device' = device \/ device' = Append(device, loop[k].msg)
      BY <2>0, <2>2 DEF LoopStore, pipe, Packet, Answers
    <3>2. PICK r \in Looper : loop' = [loop EXCEPT ![k] = r] /\ r.pc # "got"
      BY <2>2, LoopTypes DEF LoopStore, AtRead
    <3>3. Got = {loop[k].msg} /\ Got' = {}
      BY <2>0, <3>1, <3>2, OneReader, GotAfter
    <3>4. Ordered(handled, device', {}, down[Conn], rd[Conn].todo, Rest, Taking,
                  buffer[Conn], dispatched)
      BY <3>1, <3>3, LineStore, LineTypes DEF Line
    <3> QED BY <1>0, <3>1, <3>3, <3>4 DEF Line
  <2>3. CASE LoopPacket(k)
    <3>1. /\ UNCHANGED <<device, down>> /\ loop[k].pc = "got"
          /\ handled' = Append(handled, loop[k].msg)
          /\ loop' = [loop EXCEPT ![k] = [loop[k] EXCEPT !.pc = "handler"]]
      BY <2>0, <2>3 DEF LoopPacket, pipe
    <3>2. [loop[k] EXCEPT !.pc = "handler"] \in Looper /\ [loop[k] EXCEPT !.pc = "handler"].pc = "handler"
      BY <2>0 DEF Looper
    <3>3. Got = {loop[k].msg} /\ Got' = {}
      BY <2>0, <3>1, <3>2, OneReader, GotAfter
    <3>4. Ordered(Append(handled, loop[k].msg), device, {}, down[Conn], rd[Conn].todo, Rest, Taking,
                  buffer[Conn], dispatched)
      BY <2>0, <3>1, <3>3, LineHandle, LineTypes DEF Line
    <3> QED BY <1>0, <3>1, <3>3, <3>4 DEF Line
  <2>4. CASE LoopCloses(k) \/ LoopEnds(k)
    <3>1. /\ UNCHANGED <<handled, device, down>> /\ loop[k].pc # "got" /\ loop'[k].pc # "got"
          /\ \A l \in Loops \ {k} : loop'[l] = loop[l]
      BY <1>0, <2>0, <2>4 DEF LoopCloses, LoopEnds, pipe, Looper
    <3>2. Got' = Got
      BY <3>1 DEF Got
    <3> QED BY <1>1, <3>1, <3>2
  <2>5. CASE HandlerReturns(k) \/ \E ok \in BOOLEAN : LoopCall(k, ok)
    <3>1. /\ UNCHANGED <<handled, device, down>> /\ loop[k].pc # "got"
          /\ \A l \in Loops \ {k} : loop'[l] = loop[l]
      BY <1>0, <1>5, <2>5, LoopOnly DEF HandlerReturns, LoopCall, pipe
    <3>2. loop'[k].pc # "got"
      <4>1. CASE HandlerReturns(k)
        BY <1>0, <2>0, <4>1, LoopTypes DEF HandlerReturns, Dispatched, AtRead, Looper
      <4>2. ASSUME NEW ok \in BOOLEAN, LoopCall(k, ok) PROVE loop'[k].pc # "got"
        BY <1>0, <2>0, <3>1, <4>2, LoopTypes DEF LoopCall, AtRead, Looper
      <4> QED BY <2>5, <4>1, <4>2
    <3>3. Got' = Got
      BY <3>1, <3>2 DEF Got
    <3> QED BY <1>1, <3>1, <3>3
  <2> QED BY <1>5, <2>1, <2>2, <2>3, <2>4, <2>5 DEF LoopStep
<1>6. CASE \E h \in Subs : Handle(h) \/ Unsubscribe(h)
  <2>1. UNCHANGED <<handled, device, down, loop>>
    BY <1>6 DEF Handle, Unsubscribe, RegistryFrame, pipe
  <2> QED BY <1>1, <2>1, GotSame
<1> QED BY <1>2, <1>3, <1>4, <1>5, <1>6 DEF ClientStep, HandlerSends

-----------------------------------------------------------------------------
(***************************************************************************)
(* The answer to a WantConfigId.                                           *)
(***************************************************************************)

\* Two sorted sequences, one ahead of the other, make a sorted one.
LEMMA ConcatFacts ==
    ASSUME NEW S, NEW s \in Seq(S), NEW t \in Seq(S)
    PROVE  /\ s \o t \in Seq(S) /\ ToSet(s \o t) = ToSet(s) \cup ToSet(t)
           /\ Sorted(s) /\ Sorted(t) /\ Ahead(ToSet(s), ToSet(t)) => Sorted(s \o t)
<1>1. /\ s \o t \in Seq(S) /\ DOMAIN s = 1..Len(s) /\ DOMAIN t = 1..Len(t)
      /\ DOMAIN (s \o t) = 1..(Len(s) + Len(t)) /\ Len(s) \in Nat /\ Len(t) \in Nat
      /\ \A i \in 1..Len(s) : (s \o t)[i] = s[i]
      /\ \A i \in 1..Len(t) : (s \o t)[Len(s) + i] = t[i]
  OBVIOUS
<1>2. ASSUME NEW i \in 1..(Len(s) + Len(t))
      PROVE  \/ i \in 1..Len(s) /\ (s \o t)[i] = s[i]
             \/ i - Len(s) \in 1..Len(t) /\ (s \o t)[i] = t[i - Len(s)]
  <2>1. CASE i <= Len(s)
    BY <1>1, <2>1
  <2>2. CASE ~(i <= Len(s))
    <3>1. i - Len(s) \in 1..Len(t) /\ Len(s) + (i - Len(s)) = i
      BY <1>1, <2>2
    <3>2. (s \o t)[Len(s) + (i - Len(s))] = t[i - Len(s)]
      BY <1>1, <3>1
    <3> QED BY <3>1, <3>2
  <2> QED BY <2>1, <2>2
<1>3. ToSet(s \o t) \subseteq ToSet(s) \cup ToSet(t)
  <2> SUFFICES ASSUME NEW i \in 1..(Len(s) + Len(t)) PROVE (s \o t)[i] \in ToSet(s) \cup ToSet(t)
    BY <1>1 DEF ToSet
  <2> QED BY <1>1, <1>2 DEF ToSet
<1>4. ToSet(s) \subseteq ToSet(s \o t)
  <2>1. \A i \in 1..Len(s) : i \in 1..(Len(s) + Len(t))
    BY <1>1
  <2> QED BY <1>1, <2>1 DEF ToSet
<1>5. ToSet(t) \subseteq ToSet(s \o t)
  <2>1. \A i \in 1..Len(t) : Len(s) + i \in 1..(Len(s) + Len(t))
    BY <1>1
  <2> QED BY <1>1, <2>1 DEF ToSet
<1>6. ASSUME Sorted(s), Sorted(t), Ahead(ToSet(s), ToSet(t)),
             NEW i \in 1..(Len(s) + Len(t)), NEW j \in 1..(Len(s) + Len(t)), i < j
      PROVE  Follows((s \o t)[i], (s \o t)[j])
  <2>1. CASE j \in 1..Len(s) /\ (s \o t)[j] = s[j]
    <3>1. i \in 1..Len(s)
      BY <1>1, <1>6, <2>1
    <3> QED BY <1>1, <1>6, <2>1, <3>1 DEF Sorted
  <2>2. CASE j - Len(s) \in 1..Len(t) /\ (s \o t)[j] = t[j - Len(s)]
    <3>1. CASE i \in 1..Len(s) /\ (s \o t)[i] = s[i]
      <4>1. s[i] \in ToSet(s) /\ t[j - Len(s)] \in ToSet(t)
        BY <1>1, <2>2, <3>1 DEF ToSet
      <4> QED BY <1>6, <2>2, <3>1, <4>1 DEF Ahead
    <3>2. CASE i - Len(s) \in 1..Len(t) /\ (s \o t)[i] = t[i - Len(s)]
      <4>1. i - Len(s) < j - Len(s)
        BY <1>1, <1>6
      <4> QED BY <1>1, <1>6, <2>2, <3>2, <4>1 DEF Sorted
    <3> QED BY <1>2, <3>1, <3>2
  <2> QED BY <1>2, <2>1, <2>2
<1>7. Sorted(s) /\ Sorted(t) /\ Ahead(ToSet(s), ToSet(t)) => Sorted(s \o t)
  BY <1>1, <1>6 DEF Sorted
<1> QED BY <1>1, <1>3, <1>4, <1>5, <1>7

\* Nodes.All is every node: an order of the nodes leaves none out.
LEMMA Everyone ==
    ASSUME NEW order \in SetToSeqs(Peers)
    PROVE  \A n \in Peers : \E i \in 1..Len(order) : order[i] = n
<1>1. IsFiniteSet(Peers) /\ Cardinality(Peers) \in Nat
  BY ClientApiAssumption, FS_CardinalityType DEF ClientApiAssumption
<1> DEFINE D == 1..Cardinality(Peers)
<1>2. order \in [D -> Peers] /\ \A i, j \in D : i # j => order[i] # order[j]
  BY DEF SetToSeqs
<1>3. order \in Injection(D, Peers)
  BY <1>2 DEF Injection, IsInjective
<1>4. IsFiniteSet(D) /\ Cardinality(D) = Cardinality(Peers)
  BY <1>1, FS_Interval
<1>5. order \in Surjection(D, Peers)
  BY <1>1, <1>3, <1>4, FS_Injection
<1>6. Len(order) = Cardinality(Peers)
  BY <1>1, <1>2
<1> QED BY <1>5, <1>6 DEF Surjection

\* What a handshake ends with is in order and holds nodes, slots and configuration.
LEMMA TailContents ==
    ASSUME NEW order \in SetToSeqs(Peers), NEW id \in Nat
    PROVE  /\ Sorted(HandshakeTail(order, id))
           /\ \A m \in ToSet(HandshakeTail(order, id)) : m.kind # "packet"
           /\ {Msg("config", 0)} \cup {Msg("node", n) : n \in Peers}
                 \cup {Msg("channel", i) : i \in Slots} \subseteq ToSet(HandshakeTail(order, id))
<1> DEFINE N == [i \in 1..Len(order) |-> Msg("node", order[i])]
<1> DEFINE C == [i \in 1..MaxChannels |-> Msg("channel", i - 1)]
<1> DEFINE F == <<Msg("config", 0), Msg("complete", id)>>
<1>0. order \in Seq(Peers) /\ Len(order) \in Nat /\ MaxChannels \in Nat
  BY Snap, Sizes
<1>1. N \in Seq(Answers) /\ C \in Seq(Answers) /\ F \in Seq(Answers)
  <2>1. \A i \in 1..Len(order) : Msg("node", order[i]) \in Answers
    <3>1. \A i \in 1..Len(order) : order[i] \in Arg
      BY <1>0 DEF Arg
    <3>2. "node" \in Kinds \ {"packet", "channel"}
      BY DEF Kinds
    <3> QED BY <3>1, <3>2, MessageTypes
  <2>2. \A i \in 1..MaxChannels : Msg("channel", i - 1) \in Answers
    <3>1. \A i \in 1..MaxChannels : i - 1 \in Slots
      BY Sizes DEF Slots
    <3> QED BY <3>1, MessageTypes
  <2>3. Msg("config", 0) \in Answers /\ Msg("complete", id) \in Answers
    BY MessageTypes DEF Kinds, Arg
  <2> QED BY <1>0, <2>1, <2>2, <2>3
<1>2. \A m \in ToSet(N) : m.kind = "node"
  BY DEF ToSet, Msg
<1>3. \A m \in ToSet(C) : m.kind = "channel"
  BY DEF ToSet, Msg
<1>4. ToSet(F) = {Msg("config", 0), Msg("complete", id)}
  BY DEF ToSet
<1>5. Sorted(N)
  BY DEF Sorted, Follows, Msg
<1>6. Sorted(C)
  <2>1. \A i, j \in 1..MaxChannels : i < j => i - 1 < j - 1
    BY <1>0
  <2> QED BY <2>1 DEF Sorted, Follows, Msg
<1>7. Sorted(F)
  <2>1. DOMAIN F = 1..2 /\ F[1].kind = "config" /\ F[2].kind = "complete"
    BY DEF Msg
  <2>2. \A i, j \in 1..2 : i < j => i = 1 /\ j = 2
    OBVIOUS
  <2> HIDE DEF F
  <2> QED BY <2>1, <2>2 DEF Sorted, Follows
<1>8. Msg("config", 0).kind = "config" /\ Msg("complete", id).kind = "complete"
  BY DEF Msg
<1> HIDE DEF N, C, F
<1>9. N \o C \in Seq(Answers) /\ ToSet(N \o C) = ToSet(N) \cup ToSet(C) /\ Sorted(N \o C)
  <2>1. Ahead(ToSet(N), ToSet(C))
    BY <1>2, <1>3 DEF Ahead, Follows
  <2> QED BY <1>1, <1>5, <1>6, <2>1, ConcatFacts
<1>10. ToSet((N \o C) \o F) = ToSet(N) \cup ToSet(C) \cup ToSet(F) /\ Sorted((N \o C) \o F)
  <2>1. Ahead(ToSet(N \o C), ToSet(F))
    BY <1>2, <1>3, <1>4, <1>8, <1>9 DEF Ahead, Follows
  <2> DEFINE NC == N \o C
  <2>2. NC \in Seq(Answers) /\ Sorted(NC) /\ Ahead(ToSet(NC), ToSet(F))
    BY <1>9, <2>1
  <2> HIDE DEF NC
  <2>3. ToSet(NC \o F) = ToSet(NC) \cup ToSet(F) /\ Sorted(NC \o F)
    BY <1>1, <1>7, <2>2, ConcatFacts
  <2> QED BY <1>9, <2>3, Zenon DEF NC
<1>11. HandshakeTail(order, id) = (N \o C) \o F
  BY DEF HandshakeTail, N, C, F
<1>12. {Msg("node", n) : n \in Peers} \subseteq ToSet(N)
  BY Everyone DEF ToSet, N
<1>13. {Msg("channel", i) : i \in Slots} \subseteq ToSet(C)
  <2> SUFFICES ASSUME NEW i \in Slots PROVE Msg("channel", i) \in ToSet(C)
    OBVIOUS
  <2>1. i + 1 \in 1..MaxChannels /\ (i + 1) - 1 = i
    BY <1>0 DEF Slots
  <2>2. C[i + 1] = Msg("channel", i)
    BY <2>1 DEF C
  <2>3. DOMAIN C = 1..MaxChannels
    BY DEF C
  <2> QED BY <2>1, <2>2, <2>3 DEF ToSet
<1> QED BY <1>2, <1>3, <1>4, <1>8, <1>10, <1>11, <1>12, <1>13

\* It fits behind what was sent, if no configuration was sent before.
LEMMA TailFitting ==
    ASSUME Shape, "want" \notin Requests => NoneOf(Past \cup Got \cup Wire, {"channel", "complete"}),
           NEW order \in SetToSeqs(Peers)
    PROVE  TailFits(HandshakeTail(order, rd[Conn].id))
<1>1. rd[Conn].id \in Nat
  BY Sizes DEF Shape, ServerTyped, Reader
<1>2. /\ Sorted(HandshakeTail(order, rd[Conn].id))
      /\ \A m \in ToSet(HandshakeTail(order, rd[Conn].id)) : m.kind # "packet"
  BY <1>1, TailContents
<1> QED BY <1>2 DEF TailFits, Ahead, Follows, NoneOf

\* What a handshake begins with holds the infos.
LEMMA HeadContents ==
    /\ \A m \in ToSet(HandshakeHead) : m.kind \in {"myinfo", "metadata", "presets", "node"}
    /\ Infos \subseteq ToSet(HandshakeHead)
<1>1. /\ DOMAIN HandshakeHead = 1..4 /\ HandshakeHead[1] = Msg("myinfo", 0)
      /\ HandshakeHead[2] = Msg("metadata", 0) /\ HandshakeHead[3] = Msg("presets", 0)
      /\ HandshakeHead[4] = Msg("node", "self")
  BY DEF HandshakeHead
<1>2. ToSet(HandshakeHead) = {Msg("myinfo", 0), Msg("metadata", 0), Msg("presets", 0), Msg("node", "self")}
  <2>1. 1..4 = {1, 2, 3, 4}
    OBVIOUS
  <2> QED BY <1>1, <2>1 DEF ToSet
<1> QED BY <1>2 DEF Infos, Msg

\* It fits behind what was sent, if no configuration was sent before.
LEMMA HeadFitting ==
    ASSUME "want" \notin Requests => NoneOf(Past \cup Got \cup Wire, {"channel", "complete"})
    PROVE  HeadFits
BY HeadContents DEF HeadFits, Ahead, Follows, NoneOf

-----------------------------------------------------------------------------
(***************************************************************************)
(* One handshake answers the one Connect.                                  *)
(***************************************************************************)

\* Reading a request leaves at most one WantConfigId, and none if it was the one.
LEMMA AsksTail ==
    ASSUME NEW S, NEW q \in Seq(S), q # <<>>, AsksOnce(q)
    PROVE  /\ AsksOnce(Tail(q)) /\ (Asks(Tail(q)) => Asks(q))
           /\ Head(q).kind = "want" => Asks(q) /\ ~Asks(Tail(q))
<1>1. Len(q) \in Nat \ {0} /\ DOMAIN q = 1..Len(q) /\ DOMAIN Tail(q) = 1..(Len(q) - 1)
      /\ Head(q) = q[1] /\ \A i \in 1..(Len(q) - 1) : Tail(q)[i] = q[i + 1]
  OBVIOUS
<1>2. \A i \in 1..(Len(q) - 1) : i + 1 \in 1..Len(q) /\ i + 1 # 1
  BY <1>1
<1>3. \A i, j \in 1..(Len(q) - 1) : i + 1 = j + 1 => i = j
  OBVIOUS
<1>4. 1 \in 1..Len(q)
  BY <1>1
<1>5. AsksOnce(Tail(q))
  BY <1>1, <1>2, <1>3 DEF AsksOnce
<1>6. Asks(Tail(q)) => Asks(q)
  BY <1>1, <1>2 DEF Asks
<1>7. Head(q).kind = "want" => Asks(q)
  BY <1>1, <1>4 DEF Asks
<1>8. Head(q).kind = "want" => ~Asks(Tail(q))
  BY <1>1, <1>2, <1>4 DEF Asks, AsksOnce
<1> QED BY <1>5, <1>6, <1>7, <1>8

\* Sending a request adds a WantConfigId only if it is one.
LEMMA AsksAppend ==
    ASSUME NEW S, NEW q \in Seq(S), NEW e \in S, AsksOnce(q), e.kind = "want" => ~Asks(q)
    PROVE  AsksOnce(Append(q, e)) /\ (Asks(Append(q, e)) => Asks(q) \/ e.kind = "want")
<1>1. /\ Len(q) \in Nat /\ DOMAIN q = 1..Len(q)
      /\ DOMAIN Append(q, e) = 1..(Len(q) + 1)
      /\ \A i \in 1..Len(q) : Append(q, e)[i] = q[i]
      /\ Append(q, e)[Len(q) + 1] = e
  OBVIOUS
<1>2. \A i \in 1..(Len(q) + 1) : i \in 1..Len(q) \/ i = Len(q) + 1
  BY <1>1
<1>3. AsksOnce(Append(q, e))
  BY <1>1, <1>2 DEF AsksOnce, Asks
<1>4. Asks(Append(q, e)) => Asks(q) \/ e.kind = "want"
  BY <1>1, <1>2 DEF Asks
<1> QED BY <1>3, <1>4

\* A step that neither asks for the configuration nor moves its answer.
LEMMA Quiet ==
    ASSUME Asking, Answered, connects' = connects,
           call'[Owner].pc = "want" => call[Owner].pc = "want",
           Asks(up'[Conn]) => Asks(up[Conn]), AsksOnce(up'[Conn]),
           Configuring' <=> Configuring, device' = device, NoneOf(ToSet(handled'), Stored),
           Seen \subseteq Seen', \A m \in Seen' : m \in Seen \/ m.kind \notin {"channel", "complete"},
           rd'[Conn].pc \in {"hello", "table"} => rd'[Conn].pc = rd[Conn].pc
    PROVE  Asking' /\ Answered'
<1>1. \A K \in SUBSET {"channel", "complete"} : NoneOf(Seen, K) => NoneOf(Seen', K)
  BY DEF NoneOf
<1>2. NoneOf(Seen, {"complete"}) => NoneOf(Seen', {"complete"})
  BY <1>1
<1>3. Unasked => Unasked'
  BY <1>1 DEF Unasked
<1>4. Asking'
  BY <1>3 DEF Asking
<1>5. Answered'
  BY <1>1, <1>2 DEF Answered
<1> QED BY <1>4, <1>5

\* The steps of the server among them.
LEMMA ServerQuiet ==
    ASSUME Asking, Answered, UNCHANGED clientVars,
           Asks(up'[Conn]) => Asks(up[Conn]), AsksOnce(up'[Conn]),
           Wire \cup Rest \subseteq Wire' \cup Rest',
           \A m \in Wire' \cup Rest' : m \in Wire \cup Rest \/ m.kind \notin {"channel", "complete"},
           rd'[Conn].pc \in {"hello", "table"} => rd'[Conn].pc = rd[Conn].pc
    PROVE  Asking' /\ Answered'
<1>1. /\ Past' = Past /\ Got' = Got /\ device' = device /\ connects' = connects /\ call' = call
      /\ Configuring' <=> Configuring
  BY GotSame DEF clientVars, Past, Configuring
<1>2. NoneOf(ToSet(handled'), Stored)
  BY DEF clientVars, Answered
<1>3. /\ Seen \subseteq Seen'
      /\ \A m \in Seen' : m \in Seen \/ m.kind \notin {"channel", "complete"}
  BY <1>1 DEF Seen
<1> QED BY <1>1, <1>2, <1>3, Quiet

\* The reader answers the one WantConfigId, wholly and once.
LEMMA ReaderOnce ==
    ASSUME Shape, Line, Asking, Answered, "want" \notin Requests, ReaderStep(Conn),
           UNCHANGED clientVars
    PROVE  Asking' /\ Answered'
<1>0. /\ Conn \in Conns /\ rd \in [Conns -> Reader] /\ wr \in [Conns -> Writer]
      /\ down \in [Conns -> Seq(Down)] /\ up \in [Conns -> Seq(Up)]
      /\ writeMu \in [Conns -> {"free", "rd", "wr"}]
      /\ UNCHANGED <<handled, device, loop, call, connects, complete>> /\ Got' = Got /\ Past' = Past
      /\ Configuring' <=> Configuring
      /\ AsksOnce(up[Conn])
  BY Sizes, GotSame DEF Shape, PipeTyped, ServerTyped, clientVars, Past, Configuring, Asking
<1>1. CASE ReaderLoop(Conn) \/ ReaderEof(Conn)
  <2>1. /\ UNCHANGED <<down, up, writeMu>> /\ rd'[Conn].todo = rd[Conn].todo
        /\ rd'[Conn].pc \notin {"hello", "table"}
    BY <1>0, <1>1 DEF ReaderLoop, ReaderEof, ReaderFrame, pipe, Reader
  <2>2. Wire' = Wire /\ Rest' = Rest
    BY <2>1, RestSame DEF Wire
  <2> QED BY <1>0, <2>1, <2>2, ServerQuiet
<1>2. CASE ReaderRead(Conn)
  <2>1. /\ UNCHANGED <<down, writeMu>> /\ rd'[Conn] = AfterRead(Head(up[Conn]))
        /\ up[Conn] # <<>> /\ up'[Conn] = Tail(up[Conn]) /\ rd[Conn].pc = "read"
    BY <1>0, <1>2 DEF ReaderRead, Readable
  <2>2. rd[Conn].todo = <<>> /\ writeMu[Conn] # "rd"
    BY <1>0, <2>1 DEF Shape, Working, Answering
  <2>3. Wire' = Wire /\ Rest = {} /\ Rest' = ToSet(rd'[Conn].todo)
    BY <2>1, <2>2, EmptyFacts DEF Wire, Rest
  <2>4. /\ AsksOnce(up'[Conn]) /\ (Asks(up'[Conn]) => Asks(up[Conn]))
        /\ Head(up[Conn]).kind = "want" => Asks(up[Conn]) /\ ~Asks(up'[Conn])
    BY <1>0, <2>1, AsksTail
  <2>5. CASE Head(up[Conn]).kind = "want"
    <3>1. rd'[Conn].todo = HandshakeHead /\ rd'[Conn].pc = "hello"
      BY <2>1, <2>5 DEF AfterRead
    <3>2. Unasked /\ connects # 0 /\ call[Owner].pc # "want"
      BY <2>4, <2>5 DEF Asking
    <3>3. Seen' = Seen \cup ToSet(HandshakeHead)
      BY <1>0, <2>3, <3>1 DEF Seen
    <3>4. NoneOf(Seen', {"channel", "complete"}) /\ NoneOf(Seen', {"complete"})
      BY <3>2, <3>3, HeadContents DEF Unasked, NoneOf
    <3>5. Infos \subseteq Seen'
      BY <3>3, HeadContents
    <3>6. ~Configuring'
      BY <1>0, <3>2 DEF Unasked
    <3>7. Asking'
      BY <1>0, <2>4, <2>5, <3>2 DEF Asking
    <3>8. NoneOf(ToSet(handled'), Stored)
      BY <1>0 DEF Answered
    <3>9. Answered'
      BY <3>1, <3>4, <3>5, <3>6, <3>8 DEF Answered
    <3> QED BY <3>7, <3>9
  <2>6. CASE Head(up[Conn]).kind = "admin"
    <3>1. rd'[Conn].todo = <<Msg("adminresp", 0)>> /\ rd'[Conn].pc = "answer"
      BY <2>1, <2>6 DEF AfterRead
    <3>2. ToSet(<<Msg("adminresp", 0)>>) = {Msg("adminresp", 0)} /\ Msg("adminresp", 0).kind = "adminresp"
      BY DEF ToSet, Msg
    <3> QED BY <2>3, <2>4, <3>1, <3>2, ServerQuiet
  <2>7. CASE Head(up[Conn]).kind \notin {"want", "admin"}
    <3>1. rd'[Conn].todo = <<>> /\ rd'[Conn].pc \notin {"hello", "table"}
      BY <2>1, <2>7 DEF AfterRead
    <3> QED BY <2>3, <2>4, <3>1, EmptyFacts, ServerQuiet
  <2> QED BY <2>5, <2>6, <2>7
<1>3. CASE ReaderWrite(Conn)
  <2>1. /\ UNCHANGED <<up, rd>> /\ writeMu[Conn] = "free"
        /\ writeMu'[Conn] = "rd" /\ rd[Conn].todo # <<>>
        /\ down'[Conn] = Append(down[Conn], Head(rd[Conn].todo))
    BY <1>0, <1>3 DEF ReaderWrite, ReaderFrame
  <2>2. /\ Rest = ToSet(rd[Conn].todo) /\ Rest' = ToSet(Tail(rd[Conn].todo))
        /\ rd[Conn].todo \in Seq(Answers) /\ down[Conn] \in Seq(Down)
    BY <2>1, LineTypes DEF Rest
  <2>3. Head(rd[Conn].todo) \in Down /\ Rest = {Head(rd[Conn].todo)} \cup Rest'
    BY <2>1, <2>2, TailFacts, MessageTypes
  <2>4. Wire' = Wire \cup {Head(rd[Conn].todo)}
    BY <2>1, <2>2, <2>3, AppendFacts DEF Wire
  <2>5. Wire' \cup Rest' = Wire \cup Rest
    BY <2>3, <2>4
  <2> QED BY <1>0, <2>1, <2>5, ServerQuiet
<1>4. CASE ReaderWritten(Conn)
  <2>1. /\ UNCHANGED <<down, up>> /\ writeMu[Conn] = "rd"
        /\ writeMu'[Conn] = "free" /\ rd'[Conn].todo = Tail(rd[Conn].todo)
        /\ rd'[Conn].pc = rd[Conn].pc \/ rd'[Conn].pc = "loop"
    BY <1>0, <1>4 DEF ReaderWritten, ReaderFrame, pipe, Reader
  <2>2. Rest' = Rest /\ Wire' = Wire
    BY <2>1 DEF Rest, Wire
  <2> QED BY <1>0, <2>1, <2>2, ServerQuiet
<1>5. CASE ReaderWriteFails(Conn)
  <2>1. /\ UNCHANGED <<down, up>> /\ writeMu'[Conn] # "rd" /\ rd'[Conn].todo = <<>>
        /\ rd'[Conn].pc = "done"
    BY <1>0, <1>5 DEF ReaderWriteFails, ReaderFrame, pipe
  <2>2. Rest' = {} /\ Wire' = Wire
    BY <2>1, EmptyFacts DEF Rest, Wire
  <2>3. Seen' = Past \cup Got \cup Wire /\ Seen = Seen' \cup Rest
    BY <1>0, <2>2 DEF Seen
  <2>4. NoneOf(Seen, {"channel", "complete"}) => NoneOf(Seen', {"channel", "complete"})
    BY <2>3 DEF NoneOf
  <2>5. Unasked => Unasked'
    BY <1>0, <2>1, <2>4 DEF Unasked
  <2>6. Asking'
    BY <1>0, <2>1, <2>5 DEF Asking
  <2>7. ASSUME NEW m \in Seen', m.kind = "complete" PROVE Whole \subseteq Seen'
    <3>1. \A n \in Rest : Follows(m, n)
      BY <2>3, <2>7 DEF Line, Ordered, Chain, Ahead, Past, Wire
    <3>2. \A n \in Rest : n.kind \notin Stored
      BY <2>7, <3>1 DEF Follows
    <3>3. \A n \in Whole : n.kind \in Stored
      BY DEF Whole, Infos, Msg, Stored
    <3>4. Whole \subseteq Seen
      BY <2>3, <2>7 DEF Answered, NoneOf
    <3> QED BY <2>3, <3>2, <3>3, <3>4
  <2>8. Answered'
    BY <1>0, <2>1, <2>7 DEF Answered, NoneOf
  <2> QED BY <2>6, <2>8
<1>6. CASE ReaderSnapshot(Conn)
  <2>1. PICK order \in SetToSeqs(Peers) :
           rd' = [rd EXCEPT ![Conn].pc = "table", ![Conn].todo = HandshakeTail(order, rd[Conn].id)]
    BY <1>6 DEF ReaderSnapshot
  <2> DEFINE t == HandshakeTail(order, rd[Conn].id)
  <2>2. /\ UNCHANGED <<down, up, writeMu>> /\ rd[Conn].pc = "hello" /\ rd[Conn].todo = <<>>
        /\ rd'[Conn].todo = t /\ rd'[Conn].pc = "table"
    BY <1>0, <1>6, <2>1 DEF ReaderSnapshot, ReaderFrame, pipe, Reader
  <2>3. writeMu[Conn] # "rd"
    BY <1>0, <2>2 DEF Shape, Working
  <2>4. Whole \subseteq Infos \cup ToSet(t)
    BY <1>0, TailContents DEF Reader, Whole
  <2> HIDE DEF t
  <2>5. Wire' = Wire /\ Rest = {} /\ Rest' = ToSet(t)
    BY <2>2, <2>3, EmptyFacts DEF Wire, Rest
  <2>6. Seen' = Seen \cup ToSet(t)
    BY <1>0, <2>5 DEF Seen
  <2>7. Whole \subseteq Seen'
    BY <2>2, <2>4, <2>6 DEF Answered
  <2>8. ~Unasked
    BY <2>2 DEF Unasked
  <2>9. Asking'
    BY <1>0, <2>2, <2>8 DEF Asking
  <2>10. Answered'
    BY <1>0, <2>2, <2>7 DEF Answered
  <2> QED BY <2>9, <2>10
<1> QED BY <1>1, <1>2, <1>3, <1>4, <1>5, <1>6 DEF ReaderStep

\* The writer sends packets only, which are no part of the answer.
LEMMA WriterOnce ==
    ASSUME Shape, Asking, Answered, WriterStep(Conn), UNCHANGED clientVars
    PROVE  Asking' /\ Answered'
<1>0. /\ Conn \in Conns /\ writeMu \in [Conns -> {"free", "rd", "wr"}]
      /\ down \in [Conns -> Seq(Down)] /\ AsksOnce(up[Conn])
  BY Sizes DEF Shape, PipeTyped, ServerTyped, Asking
<1>1. CASE WriterWrite(Conn)
  <2>1. /\ UNCHANGED <<up, rd>> /\ writeMu[Conn] = "free" /\ writeMu'[Conn] = "wr"
        /\ down'[Conn] = Append(down[Conn], wr[Conn].msg) /\ wr[Conn].pc = "write"
    BY <1>0, <1>1 DEF WriterWrite, WriterFrame
  <2>2. wr[Conn].msg \in Packets
    BY <1>0, <2>1 DEF Shape, Working
  <2>3. wr[Conn].msg \in Down /\ wr[Conn].msg.kind = "packet"
    BY <2>2 DEF Packets
  <2>4. Wire' = Wire \cup {wr[Conn].msg} /\ Rest' = Rest
    BY <1>0, <2>1, <2>3, AppendFacts, RestSame DEF Wire
  <2> QED BY <1>0, <2>1, <2>3, <2>4, ServerQuiet
<1>2. CASE AddSubscriber(Conn) \/ WriterTake(Conn) \/ WriterCancelled(Conn) \/ WriterWritten(Conn)
           \/ WriterWriteFails(Conn)
  <2>1. UNCHANGED <<up, down, rd>> /\ ((writeMu'[Conn] = "rd") <=> (writeMu[Conn] = "rd"))
    BY <1>0, <1>2 DEF AddSubscriber, WriterTake, WriterCancelled, WriterWritten, WriterWriteFails,
                      WriterFrame, pipe
  <2>2. Wire' = Wire /\ Rest' = Rest
    BY <2>1, RestSame DEF Wire
  <2> QED BY <1>0, <2>1, <2>2, ServerQuiet
<1> QED BY <1>1, <1>2 DEF WriterStep

\* So does the whole server.
LEMMA ServerOnce ==
    ASSUME Shape, Line, Asking, Answered, "want" \notin Requests,
           ServerEnvironment \/ \E c \in Conns : ServerStep(c), UNCHANGED clientVars
    PROVE  Asking' /\ Answered'
<1>0. Conn \in Conns /\ rd \in [Conns -> Reader] /\ AsksOnce(up[Conn])
  BY Sizes DEF Shape, ServerTyped, Asking
<1>1. CASE DispatchToClients \/ Shutdown \/ HandleConnReturns(Conn)
  <2>1. UNCHANGED <<up, down, rd, writeMu>>
    BY <1>1 DEF DispatchToClients, Shutdown, HandleConnReturns, pipe
  <2>2. Wire' = Wire /\ Rest' = Rest
    BY <2>1, RestSame DEF Wire
  <2> QED BY <1>0, <2>1, <2>2, ServerQuiet
<1>2. CASE HandleConn(Conn)
  <2>1. /\ UNCHANGED <<up, down, writeMu>> /\ rd'[Conn].todo = rd[Conn].todo
        /\ rd'[Conn].pc = "loop"
    BY <1>0, <1>2 DEF HandleConn, pipe, Reader
  <2>2. Wire' = Wire /\ Rest' = Rest
    BY <2>1, RestSame DEF Wire
  <2> QED BY <1>0, <2>1, <2>2, ServerQuiet
<1>3. ASSUME NEW c \in Conns, c # Conn, ServerStep(c) PROVE Asking' /\ Answered'
  <2>1. /\ down'[Conn] = down[Conn] /\ up'[Conn] = up[Conn] /\ rd'[Conn] = rd[Conn]
        /\ writeMu'[Conn] = writeMu[Conn]
    BY <1>3, Elsewhere
  <2>2. Wire' = Wire /\ Rest' = Rest
    BY <2>1, RestSame DEF Wire
  <2> QED BY <1>0, <2>1, <2>2, ServerQuiet
<1> QED BY <1>1, <1>2, <1>3, ReaderOnce, WriterOnce DEF ServerEnvironment, ServerStep

\* The client asks once and stores what it reads before it is complete.
LEMMA ClientOnce ==
    ASSUME Shape, Starting, Line, Asking, Answered, "want" \notin Requests, connects' <= 1,
           ClientStep, UNCHANGED server
    PROVE  Asking' /\ Answered'
<1>0. /\ UNCHANGED <<rd, writeMu>> /\ Rest' = Rest /\ Conn \in Conns /\ Owner \in Callers \cup Loops
      /\ loop \in [Loops -> Looper] /\ call \in [Callers \cup Loops -> Caller]
      /\ up \in [Conns -> Seq(Up)] /\ down \in [Conns -> Seq(Down)] /\ connects \in Nat
      /\ AsksOnce(up[Conn]) /\ NoneOf(ToSet(handled), Stored)
  BY RestSame, Sizes DEF server, Shape, ClientTyped, PipeTyped, Asking, Answered
\* A step of the client that leaves the answer where it is.
<1>1. ASSUME UNCHANGED <<handled, device, down, complete, connects>>, Got' = Got,
             call'[Owner].pc = "want" => call[Owner].pc = "want",
             Asks(up'[Conn]) => Asks(up[Conn]), AsksOnce(up'[Conn]),
             \A k \in Loops : (loop'[k].pc = "closing") <=> (loop[k].pc = "closing")
      PROVE  Asking' /\ Answered'
  <2>1. Seen' = Seen
    BY <1>0, <1>1 DEF Seen, Past, Wire
  <2>2. Configuring' <=> Configuring
    BY <1>1 DEF Configuring
  <2> QED BY <1>0, <1>1, <2>1, <2>2, Quiet
<1>2. CASE Connect(Owner)
  <2>1. /\ UNCHANGED <<up, down, handled, device, loop, complete>> /\ connects' = connects + 1
    BY <1>2 DEF Connect, CallFrame, pipe
  <2>2. connects = 0 /\ Got' = Got
    BY <1>0, <2>1, GotSame
  <2>3. Seen' = Seen /\ (Configuring' <=> Configuring)
    BY <1>0, <2>1, <2>2 DEF Seen, Past, Wire, Configuring
  <2>4. Unasked' /\ ~Asks(up'[Conn])
    BY <1>0, <2>1, <2>2, <2>3 DEF Asking, Unasked
  <2>5. Asking'
    BY <1>0, <2>1, <2>4 DEF Asking
  <2>6. Answered'
    BY <1>0, <2>1, <2>3 DEF Answered
  <2> QED BY <2>5, <2>6
<1>3. CASE ConnectDone(Owner) \/ ConnectTimesOut(Owner) \/ Stop(Owner) \/ Close(Owner)
  <2>1. /\ UNCHANGED <<up, down, handled, device, loop, complete, connects>>
        /\ call'[Owner].pc \in {"idle", "lock"}
    BY <1>0, <1>3 DEF ConnectDone, ConnectTimesOut, Stop, Close, CallFrame, pipe, Idle, Caller
  <2> QED BY <1>0, <1>1, <2>1, GotSame
<1>4. ASSUME NEW g \in Callers \cup Loops, NEW kind \in Requests, SendToRadio(g, kind)
      PROVE  Asking' /\ Answered'
  <2>1. UNCHANGED <<up, down, handled, device, loop, complete, connects>>
    BY <1>4 DEF SendToRadio, CallFrame, pipe
  <2>2. call'[Owner].pc = "want" => call[Owner].pc = "want"
    BY <1>0, <1>4 DEF SendToRadio
  <2> QED BY <1>0, <1>1, <2>1, <2>2, GotSame
<1>5. ASSUME NEW g \in Callers \cup Loops, CallStep(g) PROVE Asking' /\ Answered'
  <2>0. /\ UNCHANGED <<down, handled, device, complete, connects>> /\ call[g] \in Caller
        /\ call[g].req \in Up
    BY <1>0, <1>5 DEF CallStep, ClientWrite, ClientWritten, ClientWriteFails, CallFrame, pipe, Caller
  <2>1. CASE ClientWrite(g) /\ call[g].pc = "want"
    <3>1. /\ g = Owner /\ loop' = loop /\ call'[Owner].pc = "wanted"
          /\ up'[Conn] = Append(up[Conn], call[g].req)
      BY <1>0, <2>0, <2>1, WantedLoop DEF ClientWrite, CallFrame, Caller
    <3>2. connects # 0
      <4>1. call[g].k \in 0..connects /\ call[g].k # 0
        BY <2>1 DEF Shape, Calling
      <4> QED BY <1>0, <4>1
    <3>3. Unasked /\ ~Asks(up[Conn])
      BY <2>1, <3>1 DEF Asking
    <3>4. AsksOnce(up'[Conn])
      BY <1>0, <2>0, <3>1, <3>3, AsksAppend
    <3>5. Seen' = Seen /\ (Configuring' <=> Configuring)
      BY <1>0, <2>0, <3>1, GotSame DEF Seen, Past, Wire, Configuring
    <3>6. Unasked'
      BY <1>0, <3>3, <3>5 DEF Unasked
    <3>7. Asking'
      BY <2>0, <3>1, <3>2, <3>4, <3>6 DEF Asking
    <3>8. Answered'
      BY <1>0, <2>0, <3>5 DEF Answered
    <3> QED BY <3>7, <3>8
  <2>2. CASE ClientWrite(g) /\ call[g].pc # "want"
    <3>1. /\ loop' = loop /\ call[g].pc = "send"
          /\ call'[Owner].pc = "want" => call[Owner].pc = "want"
          /\ up'[Conn] = Append(up[Conn], call[g].req)
      BY <1>0, <2>0, <2>2 DEF ClientWrite, CallFrame, Caller
    <3>2. call[g].req.kind # "want"
      BY <3>1 DEF Shape, Calling
    <3>3. AsksOnce(up'[Conn]) /\ (Asks(up'[Conn]) => Asks(up[Conn]))
      BY <1>0, <2>0, <3>1, <3>2, AsksAppend
    <3> QED BY <1>0, <1>1, <2>0, <3>1, <3>3, GotSame
  <2>3. CASE ClientWritten(g) /\ call[g].pc = "wanted"
    <3>1. /\ loop' = [loop EXCEPT ![call[g].k].pc = "read"] /\ UNCHANGED up
          /\ call' = [call EXCEPT ![g].pc = "wait"]
      BY <2>3 DEF ClientWritten, pipe
    <3>2. call[g].k \in Loops /\ loop[call[g].k].pc = "off"
      BY <2>3, WantedLoop DEF Starting
    <3>3. Got' = Got
      BY <3>1, <3>2, GotStarted
    <3>4. \A k \in Loops : (loop'[k].pc = "closing") <=> (loop[k].pc = "closing")
      BY <1>0, <3>1, <3>2 DEF Looper
    <3>5. call'[Owner].pc = "want" => call[Owner].pc = "want"
      BY <1>0, <3>1 DEF Caller
    <3> QED BY <1>0, <1>1, <2>0, <3>1, <3>3, <3>4, <3>5
  <2>4. CASE ClientWriteFails(g) \/ (ClientWritten(g) /\ call[g].pc # "wanted")
    <3>1. UNCHANGED <<up, loop>> /\ call' = [call EXCEPT ![g] = Idle]
      BY <2>4 DEF ClientWritten, ClientWriteFails, CallFrame, pipe
    <3>2. call'[Owner].pc = "want" => call[Owner].pc = "want"
      BY <1>0, <3>1 DEF Idle
    <3> QED BY <1>0, <1>1, <2>0, <3>1, <3>2, GotSame
  <2> QED BY <1>5, <2>1, <2>2, <2>3, <2>4 DEF CallStep
<1>6. ASSUME NEW k \in Loops, LoopStep(k) PROVE Asking' /\ Answered'
  <2>0. /\ loop[k] \in Looper /\ loop[k].msg \in Down /\ loop[k].todo \in Seq(Subs)
        /\ loop[k].pc # "off" /\ UNCHANGED <<call, connects>>
        /\ \A l \in Loops \ {k} : loop'[l] = loop[l]
        /\ connects <= 1
    BY <1>0, <1>6, LoopOnly DEF Looper
  <2>1. CASE LoopRead(k)
    <3>1. /\ UNCHANGED <<up, handled, device, complete>> /\ down[Conn] # <<>>
          /\ down'[Conn] = Tail(down[Conn]) /\ loop[k].pc = "read"
          /\ loop' = [loop EXCEPT ![k] = [loop[k] EXCEPT !.pc = "got", !.msg = Head(down[Conn])]]
      BY <1>0, <2>1 DEF LoopRead, Readable
    <3>2. Head(down[Conn]) \in Down /\ Wire = {Head(down[Conn])} \cup Wire'
      BY <1>0, <3>1, TailFacts DEF Wire
    <3>3. [loop[k] EXCEPT !.pc = "got", !.msg = Head(down[Conn])] \in Looper
      BY <2>0, <3>2 DEF Looper
    <3>4. Got = {} /\ Got' = {Head(down[Conn])}
      BY <2>0, <3>1, <3>3, OneReader, GotAfter DEF Looper
    <3>5. Past' = Past
      BY <3>1 DEF Past
    <3>6. Seen' = Seen
      BY <1>0, <3>2, <3>4, <3>5 DEF Seen
    <3>7. Configuring' <=> Configuring
      BY <1>0, <2>0, <3>1 DEF Configuring, Looper
    <3> QED BY <1>0, <2>0, <3>1, <3>6, <3>7, Quiet
  <2>2. CASE LoopStore(k)
    <3> DEFINE m == loop[k].msg
    <3>1. /\ UNCHANGED <<up, down, handled, complete>> /\ loop[k].pc = "got" /\ m \in Answers
          /\ device' = IF m.kind \in Stored THEN Append(device, m) ELSE device
      BY <2>0, <2>2 DEF LoopStore, pipe, Packet, Answers
    <3>2. PICK r \in Looper : /\ loop' = [loop EXCEPT ![k] = r] /\ r.pc # "got"
                              /\ r.pc = "closing" => m.kind = "complete" /\ ~complete
      BY <2>2, LoopTypes DEF LoopStore, AtRead
    <3>3. Got = {m} /\ Got' = {}
      BY <2>0, <3>1, <3>2, OneReader, GotAfter
    <3> HIDE DEF m
    <3>4. ToSet(device') = IF m.kind \in Stored THEN ToSet(device) \cup {m} ELSE ToSet(device)
      <4>1. ToSet(Append(device, m)) = ToSet(device) \cup {m}
        BY <3>1, AppendFacts, LineTypes
      <4> QED BY <3>1, <4>1
    <3>5. Wire' = Wire /\ ToSet(handled') = ToSet(handled)
      BY <3>1 DEF Wire
    <3>6. Seen' \subseteq Seen /\ \A x \in Seen : x.kind \in Stored => x \in Seen'
      BY <1>0, <3>3, <3>4, <3>5 DEF Seen, Past
    <3>7. ASSUME Configuring', ~Configuring PROVE m.kind = "complete"
      <4>1. PICK l \in Loops : loop'[l].pc = "closing"
        BY <3>1, <3>7 DEF Configuring
      <4>2. l = k
        BY <2>0, <3>7, <4>1 DEF Configuring
      <4> QED BY <1>0, <3>2, <4>1, <4>2
    <3>8. m \in Seen
      BY <3>3 DEF Seen
    <3>9. \A x \in Whole : x.kind \in Stored
      BY DEF Whole, Infos, Msg, Stored
    <3>10. Infos \subseteq Whole
      BY DEF Whole
    <3>11. NoneOf(Seen, {"channel", "complete"}) => NoneOf(Seen', {"channel", "complete"})
      BY <3>6 DEF NoneOf
    <3>12. Unasked => Unasked'
      <4>1. Unasked => m.kind # "complete"
        BY <3>8 DEF Unasked, NoneOf
      <4> QED BY <1>0, <3>7, <3>11, <4>1 DEF Unasked
    <3>13. Asking'
      BY <2>0, <3>1, <3>12 DEF Asking
    <3>14. Configuring' => Whole \subseteq ToSet(device')
      <4>1. CASE Configuring
        BY <3>4, <4>1 DEF Answered
      <4>2. CASE ~Configuring /\ Configuring'
        <5>1. m.kind = "complete" /\ m.kind \notin Stored
          BY <3>7, <4>2 DEF Stored
        <5>2. Whole \subseteq Seen
          BY <3>8, <5>1 DEF Answered, NoneOf
        <5>3. \A n \in Wire \cup Rest : Follows(m, n)
          BY <3>3 DEF Line, Ordered, Chain, Ahead, Wire
        <5>4. \A n \in Wire \cup Rest : n.kind \notin Stored
          BY <5>1, <5>3 DEF Follows
        <5>5. \A n \in ToSet(handled) : n.kind \notin Stored
          BY <1>0 DEF NoneOf
        <5>6. Whole \subseteq ToSet(device)
          BY <3>3, <3>9, <5>1, <5>2, <5>4, <5>5 DEF Seen, Past
        <5> QED BY <3>4, <5>6
      <4> QED BY <4>1, <4>2
    <3>15. Whole \subseteq Seen => Whole \subseteq Seen'
      BY <3>6, <3>9
    <3>16. Infos \subseteq Seen => Infos \subseteq Seen'
      BY <3>6, <3>9, <3>10
    <3>17. NoneOf(Seen, {"complete"}) => NoneOf(Seen', {"complete"})
      BY <3>6 DEF NoneOf
    <3>18. Answered'
      BY <1>0, <3>5, <3>11, <3>14, <3>15, <3>16, <3>17 DEF Answered
    <3> QED BY <3>13, <3>18
  <2>3. CASE LoopPacket(k)
    <3>1. /\ UNCHANGED <<up, device, down, complete>> /\ loop[k].pc = "got"
          /\ loop[k].msg.kind \in Packet /\ handled' = Append(handled, loop[k].msg)
          /\ loop' = [loop EXCEPT ![k] = [loop[k] EXCEPT !.pc = "handler"]]
      BY <2>0, <2>3 DEF LoopPacket, pipe
    <3>2. [loop[k] EXCEPT !.pc = "handler"] \in Looper /\ [loop[k] EXCEPT !.pc = "handler"].pc = "handler"
      BY <2>0 DEF Looper
    <3>3. Got = {loop[k].msg} /\ Got' = {}
      BY <2>0, <3>1, <3>2, OneReader, GotAfter
    <3>4. ToSet(handled') = ToSet(handled) \cup {loop[k].msg}
      BY <2>0, <3>1, AppendFacts, LineTypes
    <3>5. NoneOf(ToSet(handled'), Stored)
      BY <1>0, <3>1, <3>4 DEF NoneOf, Packet, Stored
    <3>6. Seen' = Seen
      BY <1>0, <3>1, <3>3, <3>4 DEF Seen, Past, Wire
    <3>7. Configuring' <=> Configuring
      BY <1>0, <2>0, <3>1, <3>2 DEF Configuring
    <3> QED BY <1>0, <2>0, <3>1, <3>5, <3>6, <3>7, Quiet
  <2>4. CASE LoopCloses(k)
    <3>1. /\ UNCHANGED <<up, handled, device, down>> /\ complete' = TRUE /\ loop[k].pc = "closing"
          /\ loop'[k].pc = "read"
      BY <1>0, <2>0, <2>4 DEF LoopCloses, pipe, Looper
    <3>2. Got' = Got
      BY <2>0, <3>1 DEF Got
    <3>3. Configuring /\ Configuring'
      BY <3>1 DEF Configuring
    <3>4. Seen' = Seen
      BY <1>0, <3>1, <3>2 DEF Seen, Past, Wire
    <3> QED BY <1>0, <2>0, <3>1, <3>3, <3>4, Quiet
  <2>5. ASSUME UNCHANGED <<handled, device, down, up, complete>>, loop[k].pc \notin {"got", "closing"},
               loop'[k].pc \notin {"got", "closing"}
        PROVE  Asking' /\ Answered'
    <3>1. Got' = Got
      BY <2>0, <2>5 DEF Got
    <3>2. \A l \in Loops : (loop'[l].pc = "closing") <=> (loop[l].pc = "closing")
      BY <2>0, <2>5
    <3> QED BY <1>0, <1>1, <2>0, <2>5, <3>1, <3>2
  <2>6. CASE LoopEnds(k)
    <3>1. /\ UNCHANGED <<handled, device, down, up, complete>> /\ loop[k].pc = "read"
          /\ loop'[k].pc = "ended"
      BY <1>0, <2>0, <2>6 DEF LoopEnds, pipe, Looper
    <3> QED BY <2>5, <3>1
  <2>7. CASE HandlerReturns(k)
    <3>1. UNCHANGED <<handled, device, down, up, complete>> /\ loop[k].pc = "handler"
      BY <2>7 DEF HandlerReturns, pipe
    <3>2. loop'[k].pc \in {"dispatch", "read"}
      BY <1>0, <2>0, <2>7, LoopTypes DEF HandlerReturns, Dispatched, AtRead, Looper
    <3> QED BY <2>5, <3>1, <3>2
  <2>8. ASSUME NEW ok \in BOOLEAN, LoopCall(k, ok) PROVE Asking' /\ Answered'
    <3>1. UNCHANGED <<handled, device, down, up, complete>> /\ loop[k].pc = "dispatch"
      BY <2>8 DEF LoopCall, pipe
    <3>2. loop'[k].pc \in {"dispatch", "read"}
      BY <1>0, <2>0, <2>8, LoopTypes DEF LoopCall, AtRead, Looper
    <3> QED BY <2>5, <3>1, <3>2
  <2> QED BY <1>6, <2>1, <2>2, <2>3, <2>4, <2>6, <2>7, <2>8 DEF LoopStep
<1>7. CASE \E h \in Subs : Handle(h) \/ Unsubscribe(h)
  <2>1. UNCHANGED <<up, down, handled, device, loop, complete, connects, call>>
    BY <1>7 DEF Handle, Unsubscribe, RegistryFrame, pipe
  <2> QED BY <1>0, <1>1, <2>1, GotSame
<1> QED BY <1>2, <1>3, <1>4, <1>5, <1>6, <1>7 DEF ClientStep, HandlerSends

-----------------------------------------------------------------------------
(***************************************************************************)
(* The theorems.                                                           *)
(***************************************************************************)

\* Connections are only added.
LEMMA ConnectsGrow ==
    ASSUME Shape, [Next]_vars
    PROVE  connects \in Nat /\ connects' \in Nat /\ connects <= connects'
<1>1. connects \in Nat /\ connects' \in Nat
  BY NextShape, Sizes DEF Shape, ClientTyped
<1>2. CASE UNCHANGED connects
  BY <1>1, <1>2
<1>3. CASE Connect(Owner)
  BY <1>1, <1>3 DEF Connect
<1>4. CASE ConnectDone(Owner) \/ ConnectTimesOut(Owner) \/ Stop(Owner) \/ Close(Owner)
  BY <1>2, <1>4 DEF ConnectDone, ConnectTimesOut, Stop, Close
<1>5. CASE \E g \in Callers \cup Loops, kind \in Requests : SendToRadio(g, kind)
  BY <1>2, <1>5 DEF SendToRadio
<1>6. CASE \E g \in Callers \cup Loops : CallStep(g)
  BY <1>2, <1>6 DEF CallStep, ClientWrite, ClientWritten, ClientWriteFails
<1>7. CASE \E k \in Loops : LoopStep(k)
  BY <1>2, <1>7, LoopOnly
<1>8. CASE \E h \in Subs : Handle(h) \/ Unsubscribe(h)
  BY <1>2, <1>8 DEF Handle, Unsubscribe, RegistryFrame
<1>9. CASE UNCHANGED clientVars \/ UNCHANGED vars
  BY <1>2, <1>9 DEF clientVars, vars
<1> QED BY <1>3, <1>4, <1>5, <1>6, <1>7, <1>8, <1>9 DEF Next, ClientStep, HandlerSends

\* Order and answer hold at the start.
LEMMA InitLine == Init => Starting /\ InLine /\ Once
<1> SUFFICES ASSUME Init PROVE Starting /\ InLine /\ Once
  OBVIOUS
<1>0. /\ Conn \in Conns /\ Owner \in Callers \cup Loops
      /\ handled = <<>> /\ device = <<>> /\ down[Conn] = <<>> /\ up[Conn] = <<>>
      /\ rd[Conn].todo = <<>> /\ rd[Conn].pc = "off" /\ buffer[Conn] = <<>>
      /\ writeMu[Conn] = "free" /\ wr[Conn].pc = "off" /\ call[Owner].pc = "idle"
      /\ complete = FALSE /\ \A k \in Loops : loop[k].pc = "off"
  BY Sizes DEF Init, PipeInit, ServerInit, ClientInit, Idle, NotReading
<1>1. Starting
  BY <1>0 DEF Starting
<1>2. Got = {} /\ Rest = {} /\ Taking = {} /\ Wire = {} /\ Past = {} /\ Seen = {}
  BY <1>0, EmptyFacts DEF Got, Rest, Taking, Wire, Past, Seen
<1>3. Ordered(<<>>, <<>>, {}, <<>>, <<>>, {}, {}, <<>>, dispatched)
  BY EmptyFacts DEF Ordered, Chain, Ahead, Dated
<1>4. InLine
  BY <1>0, <1>2, <1>3 DEF InLine, Line
<1>5. ~Asks(up[Conn]) /\ AsksOnce(up[Conn])
  BY <1>0 DEF Asks, AsksOnce
<1>6. Unasked /\ NoneOf(Seen, {"complete"}) /\ NoneOf(ToSet(handled), Stored) /\ ~Configuring
  BY <1>0, <1>2, EmptyFacts DEF Unasked, NoneOf, Configuring
<1>7. Asking /\ Answered
  BY <1>0, <1>5, <1>6 DEF Asking, Answered
<1> QED BY <1>1, <1>4, <1>7 DEF Once

\* Every step keeps order and answer, which need each other.
LEMMA NextLine == Shape /\ Starting /\ InLine /\ Once /\ [Next]_vars => InLine' /\ Once'
<1> SUFFICES ASSUME Shape, Starting, InLine, Once, [Next]_vars, connects' <= 1
             PROVE  Line' /\ ("want" \notin Requests => Asking' /\ Answered')
  BY DEF InLine, Once
<1>0. connects <= 1
  BY ConnectsGrow
<1>1. Line /\ ("want" \notin Requests => Asking /\ Answered)
  BY <1>0 DEF InLine, Once
<1>2. CASE (ServerEnvironment \/ \E c \in Conns : ServerStep(c)) /\ UNCHANGED clientVars
  <2>1. ASSUME rd[Conn].pc = "read", up[Conn] # <<>>, Head(up[Conn]).kind = "want" PROVE HeadFits
    <3>1. ASSUME "want" \notin Requests PROVE NoneOf(Past \cup Got \cup Wire, {"channel", "complete"})
      <4>1. up[Conn] \in Seq(Up) /\ AsksOnce(up[Conn])
        BY <1>1, <3>1, Sizes DEF Shape, PipeTyped, Asking
      <4>2. Asks(up[Conn])
        BY <2>1, <4>1, AsksTail
      <4> QED BY <1>1, <3>1, <4>2 DEF Asking, Unasked, Seen, NoneOf
    <3> QED BY <3>1, HeadFitting
  <2>2. ASSUME rd[Conn].pc = "hello"
        PROVE  \A order \in SetToSeqs(Peers) : TailFits(HandshakeTail(order, rd[Conn].id))
    <3>1. ASSUME "want" \notin Requests PROVE NoneOf(Past \cup Got \cup Wire, {"channel", "complete"})
      BY <1>1, <2>2, <3>1 DEF Answered, Seen, NoneOf
    <3> QED BY <3>1, TailFitting
  <2>3. Line'
    BY <1>1, <1>2, <2>1, <2>2, ServerLine
  <2>4. "want" \notin Requests => Asking' /\ Answered'
    BY <1>1, <1>2, ServerOnce
  <2> QED BY <2>3, <2>4
<1>3. CASE ClientStep /\ UNCHANGED server
  BY <1>0, <1>1, <1>3, ClientLine, ClientOnce
<1>4. CASE UNCHANGED vars
  <2>1. /\ UNCHANGED <<Past, Got, Wire, Rest, Taking, Seen>> /\ (Configuring' <=> Configuring)
        /\ UNCHANGED <<handled, device, down, up, rd, buffer, dispatched, connects, call>>
    BY <1>4 DEF vars, pipe, server, clientVars, Past, Got, Wire, Rest, Taking, Seen, Configuring
  <2>2. Line'
    BY <1>1, <2>1 DEF Line
  <2>3. ASSUME "want" \notin Requests PROVE Asking' /\ Answered'
    <3>1. Unasked => Unasked'
      BY <2>1 DEF Unasked
    <3> QED BY <1>1, <2>1, <2>3, <3>1 DEF Asking, Answered
  <2> QED BY <2>2, <2>3
<1> QED BY <1>2, <1>3, <1>4 DEF Next

\* Order and answer hold for ever.
LEMMA LineAlways == Spec => [](Shape /\ InLine /\ Once)
<1> DEFINE Inv == Shape /\ Starting /\ InLine /\ Once
<1>1. Init => Inv
  BY InitShape, InitLine
<1>2. Inv /\ [Next]_vars => Inv'
  BY NextShape, NextStarting, NextLine
<1>3. Inv => Shape /\ InLine /\ Once
  OBVIOUS
<1> HIDE DEF Inv
<1> QED BY <1>1, <1>2, <1>3, PTL DEF Spec

\* Every step keeps the channel of a Connect closed only after ConfigCompleteId.
LEMMA NextClosed == Shape /\ Closed /\ [Next]_vars => Closed'
<1> SUFFICES ASSUME Shape, Closed, [Next]_vars PROVE Closed'
  OBVIOUS
<1>0. /\ result \in [Loops -> {"none", "ok", "timeout", "err"}]
      /\ cfgComplete \in [Loops -> BOOLEAN]
  BY DEF Shape, ClientTyped
<1>1. CASE UNCHANGED <<result, cfgComplete, complete>>
  BY <1>1 DEF Closed
<1>2. CASE Connect(Owner) \/ Stop(Owner) \/ Close(Owner)
  BY <1>1, <1>2 DEF Connect, Stop, Close, CallFrame
<1>3. CASE ConnectDone(Owner)
  <2>1. /\ UNCHANGED <<cfgComplete, complete>> /\ cfgComplete[call[Owner].k]
        /\ result' = [result EXCEPT ![call[Owner].k] = "ok"]
    BY <1>3 DEF ConnectDone, CallFrame
  <2> QED BY <1>0, <2>1 DEF Closed
<1>4. CASE ConnectTimesOut(Owner)
  <2>1. /\ UNCHANGED <<cfgComplete, complete>>
        /\ result' = [result EXCEPT ![call[Owner].k] = "timeout"]
    BY <1>4 DEF ConnectTimesOut, CallFrame
  <2> QED BY <1>0, <2>1 DEF Closed
<1>5. CASE \E g \in Callers \cup Loops, kind \in Requests : SendToRadio(g, kind)
  BY <1>1, <1>5 DEF SendToRadio, CallFrame
<1>6. ASSUME NEW g \in Callers \cup Loops, CallStep(g) PROVE Closed'
  <2>1. CASE ClientWrite(g) \/ ClientWritten(g)
    BY <1>1, <2>1 DEF ClientWrite, ClientWritten, CallFrame
  <2>2. CASE ClientWriteFails(g)
    <3>1. /\ UNCHANGED <<cfgComplete, complete>>
          /\ \A k \in Loops : result'[k] = "ok" => result[k] = "ok"
      BY <1>0, <2>2 DEF ClientWriteFails, CallFrame
    <3> QED BY <3>1 DEF Closed
  <2> QED BY <1>6, <2>1, <2>2 DEF CallStep
<1>7. ASSUME NEW k \in Loops, LoopStep(k) PROVE Closed'
  <2>1. CASE LoopCloses(k)
    <3>1. /\ result' = result /\ complete' = TRUE
          /\ \A l \in Loops : cfgComplete[l] => cfgComplete'[l]
      BY <1>0, <2>1 DEF LoopCloses, LoopFrame
    <3> QED BY <3>1 DEF Closed
  <2>2. CASE ~LoopCloses(k)
    <3>1. UNCHANGED <<result, cfgComplete, complete>>
      BY <1>7, <2>2 DEF LoopStep, LoopRead, LoopStore, LoopPacket, HandlerReturns, LoopEnds,
                        LoopCall, LoopFrame
    <3> QED BY <1>1, <3>1
  <2> QED BY <2>1, <2>2
<1>8. CASE \E h \in Subs : Handle(h) \/ Unsubscribe(h)
  BY <1>1, <1>8 DEF Handle, Unsubscribe, RegistryFrame
<1>9. CASE UNCHANGED clientVars \/ UNCHANGED vars
  BY <1>1, <1>9 DEF clientVars, vars
<1> QED BY <1>2, <1>3, <1>4, <1>5, <1>6, <1>7, <1>8, <1>9 DEF Next, ClientStep, HandlerSends

\* Packets reach the packet handler of a client's one connection in the order in which
\* the receive pipeline dispatched them, and once, whatever the size of the subscriber's
\* buffer, the answers written in between and the other clients.
THEOREM PacketsInOrderAlways == Spec => []PacketsInOrder
<1>1. Shape /\ InLine => PacketsInOrder
  <2> SUFFICES ASSUME Shape, InLine, connects <= 1, NEW i \in DOMAIN handled, NEW j \in DOMAIN handled,
                      i < j, handled[i].kind = "packet", handled[j].kind = "packet"
               PROVE  handled[i].arg < handled[j].arg
    BY DEF PacketsInOrder
  <2>1. Sorted(handled)
    BY DEF InLine, Line, Ordered
  <2> QED BY <2>1 DEF Sorted, Follows
<1> QED BY <1>1, LineAlways, PTL

\* When a client's only Connect has returned nil, the device state holds the whole
\* answer of handleHandshake, the channel table once and in order, for every NodeDB,
\* every size of the table and whatever was dispatched meanwhile, provided that callers
\* leave WantConfigId to Connect.
THEOREM ConfiguredAlways ==
    ASSUME "want" \notin Requests
    PROVE  Spec => []ConnectedMeansConfigured
<1>1. Shape /\ InLine /\ Once /\ Closed => ConnectedMeansConfigured
  <2> SUFFICES ASSUME Shape, InLine, Once, Closed, connects = 1, result[1] = "ok"
               PROVE  /\ Has("myinfo", 0) /\ Has("metadata", 0) /\ Has("node", "self")
                      /\ Has("config", 0)
                      /\ \A n \in Peers : Has("node", n)
                      /\ \A slot \in Slots : Has("channel", slot)
                      /\ \A i \in DOMAIN device : device[i].kind = "channel" => device[i].arg \in Slots
                      /\ \A i, j \in DOMAIN device :
                            i < j /\ device[i].kind = "channel" /\ device[j].kind = "channel"
                                => device[i].arg < device[j].arg
    BY DEF ConnectedMeansConfigured
  <2>1. 1 \in Loops
    BY Sizes DEF Shape, ClientTyped, Loops
  <2>2. Configuring
    BY <2>1 DEF Closed, Configuring
  <2>3. Whole \subseteq ToSet(device)
    BY <2>2 DEF Once, Answered
  <2>4. \A kind, a : Msg(kind, a) \in ToSet(device) => Has(kind, a)
    BY DEF Has, Request, Msg, ToSet
  <2>5. Sorted(device) /\ device \in Seq(Answers)
    BY DEF InLine, Line, Ordered, Shape, ClientTyped
  <2>6. \A i \in DOMAIN device : device[i].kind = "channel" => device[i].arg \in Slots
    BY <2>5 DEF Answers, Down
  <2>7. \A i, j \in DOMAIN device :
           i < j /\ device[i].kind = "channel" /\ device[j].kind = "channel"
               => device[i].arg < device[j].arg
    BY <2>5 DEF Sorted, Follows
  <2>8. /\ Has("myinfo", 0) /\ Has("metadata", 0) /\ Has("node", "self") /\ Has("config", 0)
    BY <2>3, <2>4 DEF Whole, Infos
  <2>9. (\A n \in Peers : Has("node", n)) /\ (\A slot \in Slots : Has("channel", slot))
    BY <2>3, <2>4 DEF Whole
  <2> QED BY <2>6, <2>7, <2>8, <2>9
<1>2. Init => Closed
  BY DEF Init, ClientInit, Closed
<1> QED BY <1>1, <1>2, LineAlways, NextClosed, PTL DEF Spec
=============================================================================
