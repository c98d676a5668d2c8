-------------------------- MODULE ClientTransport ---------------------------
(***************************************************************************)
(* transport/client: the transport of a program that talks to a device (or *)
(* to the client API of a virtual one) over one connection, Conn.          *)
(*                                                                         *)
(* Goroutines are the callers of its methods and the read loops, one per   *)
(* Connect; nothing ends a read loop but an error of the connection.  A    *)
(* read loop calls the packet handler and the registered message handlers  *)
(* itself; a packet handler may call SendToRadio.                          *)
(***************************************************************************)
EXTENDS StreamPipe, FiniteSets

CONSTANTS
    Conn,           \* the connection
    Callers,        \* goroutines calling SendToRadio
    Owner,          \* the one among them that calls Connect and Stop
    MaxConnects,    \* bound on calls of Connect
    MaxSends,       \* bound on calls of SendToRadio
    Requests,       \* kinds of ToRadio messages callers send
    Subs            \* subscriptions callers may make

Loops == 1..MaxConnects

ASSUME ClientTransportAssumption ==
    /\ Conn \in Conns /\ Callers \cap Loops = {} /\ Owner \in Callers
    /\ MaxConnects \in Nat /\ MaxSends \in Nat

VARIABLES
    call,        \* call[g]: the method that goroutine g is in
    cMu,         \* writeMu of the client's stream: the goroutine holding it or 0
    connects,    \* number of Connects so far
    sends,       \* number of SendToRadios so far
    loop,        \* loop[k]: the read loop of the k-th Connect: pc, msg, and todo, the
                 \* handlers HandleMessage has yet to call
    cfgComplete, \* cfgComplete[k]: that channel is closed
    complete,    \* DeviceState.complete
    device,      \* the rest of DeviceState, as the sequence of messages stored
    connected,   \* Transport.connected
    result,      \* result[k]: outcome of the k-th Connect
    registry,    \* HandlerRegistry: subscriptions to mesh packets, in order
    handled,     \* history: packets given to the packet handler
    stale        \* history: a handler was called after its Unsubscribe returned

clientVars == <<call, cMu, connects, sends, loop, cfgComplete, complete, device, connected,
                result, registry, handled, stale>>

Request(kind, arg) == [kind |-> kind, arg |-> arg]
Idle == [pc |-> "idle", k |-> 0, req |-> Request("none", 0)]
NotReading == [pc |-> "off", msg |-> Request("none", 0), todo |-> <<>>]

ClientInit ==
    /\ call = [g \in Callers \cup Loops |-> Idle]
    /\ cMu = 0 /\ connects = 0 /\ sends = 0
    /\ loop = [k \in Loops |-> NotReading]
    /\ cfgComplete = [k \in Loops |-> FALSE]
    /\ complete = FALSE /\ device = <<>> /\ connected = FALSE
    /\ result = [k \in Loops |-> "none"]
    /\ registry = <<>> /\ handled = <<>> /\ stale = FALSE

\* SendToRadio holds mu for reading while it writes; Stop waits for it, and
\* while it waits nobody else gets mu (sync.RWMutex).
Reading(g) == call[g].pc \in {"send", "sent"}
Stopping == \E g \in Callers : call[g].pc = "lock"
NoReaders == \A g \in Callers \cup Loops : ~Reading(g)
-----------------------------------------------------------------------------
(***************************************************************************)
(* Writing: the first step of Connect, and SendToRadio.                    *)
(***************************************************************************)

CallFrame == UNCHANGED <<loop, complete, device, registry, handled, stale>>

\* sendGetConfig; the ID is random in the code.
Connect(g) ==
    /\ call[g].pc = "idle" /\ connects < MaxConnects
    /\ connects' = connects + 1
    /\ call' = [call EXCEPT ![g] = [pc |-> "want", k |-> connects',
                                    req |-> Request("want", connects')]]
    /\ UNCHANGED <<pipe, cMu, sends, cfgComplete, connected, result>> /\ CallFrame

\* SendToRadio past the test of connected; otherwise it returns ErrNotConnected.
SendToRadio(g, kind) ==
    /\ call[g].pc = "idle" /\ sends < MaxSends /\ ~Stopping /\ connected
    /\ sends' = sends + 1
    /\ call' = [call EXCEPT ![g] = [pc |-> "send", k |-> 0, req |-> Request(kind, 0)]]
    /\ UNCHANGED <<pipe, cMu, connects, cfgComplete, connected, result>> /\ CallFrame

ClientWrite(g) ==
    /\ call[g].pc \in {"want", "send"} /\ Fits(call[g].req)
    /\ cMu = 0 /\ Open(Conn) /\ Room(up, Conn)
    /\ cMu' = g
    /\ up' = [up EXCEPT ![Conn] = Append(@, call[g].req)]
    /\ call' = [call EXCEPT ![g].pc = IF @ = "want" THEN "wanted" ELSE "sent"]
    /\ UNCHANGED <<down, clientOpen, radioOpen, connects, sends, cfgComplete, connected,
                   result>>
    /\ CallFrame

\* The write returns; Connect goes on to start its read loop, SendToRadio returns.
ClientWritten(g) ==
    /\ call[g].pc \in {"wanted", "sent"} /\ Taken(up, Conn)
    /\ cMu' = 0
    /\ IF call[g].pc = "wanted"
       THEN /\ call' = [call EXCEPT ![g].pc = "wait"]
            /\ loop' = [loop EXCEPT ![call[g].k].pc = "read"]
       ELSE call' = [call EXCEPT ![g] = Idle] /\ UNCHANGED loop
    /\ UNCHANGED <<pipe, connects, sends, cfgComplete, complete, device, connected, result,
                   registry, handled, stale>>

\* Mutant: an error keeps mu.
ClientWriteFailsLocked(g) ==
    /\ ~Open(Conn)
    /\ call[g].pc \in {"wanted", "sent"} /\ ~Taken(up, Conn)
    /\ cMu' = 0
    /\ UNCHANGED <<pipe, call, connects, sends, cfgComplete, connected, result>> /\ CallFrame
ClientWriteFails(g) ==
    /\ \/ call[g].pc \in {"want", "send"} /\ (~Fits(call[g].req) \/ (~Open(Conn) /\ cMu = 0))
       \/ call[g].pc \in {"wanted", "sent"} /\ ~Open(Conn) /\ ~Taken(up, Conn)
    /\ cMu' = IF cMu = g THEN 0 ELSE cMu
    /\ call' = [call EXCEPT ![g] = Idle]
    /\ result' = IF call[g].k = 0 THEN result ELSE [result EXCEPT ![call[g].k] = "err"]
    /\ UNCHANGED <<pipe, connects, sends, cfgComplete, connected>> /\ CallFrame
-----------------------------------------------------------------------------
(***************************************************************************)
(* The rest of Connect, and Stop.                                          *)
(***************************************************************************)

\* cfgComplete is closed.  The state handler is called and returns.
ConnectDone(g) ==
    /\ call[g].pc = "wait" /\ cfgComplete[call[g].k]
    /\ ~Stopping /\ NoReaders
    /\ connected' = TRUE
    /\ result' = [result EXCEPT ![call[g].k] = "ok"]
    /\ call' = [call EXCEPT ![g] = Idle]
    /\ UNCHANGED <<pipe, cMu, connects, sends, cfgComplete>> /\ CallFrame

\* ctx ends first; the read loop stays.
ConnectTimesOut(g) ==
    /\ call[g].pc = "wait"
    /\ result' = [result EXCEPT ![call[g].k] = "timeout"]
    /\ call' = [call EXCEPT ![g] = Idle]
    /\ UNCHANGED <<pipe, cMu, connects, sends, cfgComplete, connected>> /\ CallFrame

Stop(g) ==
    /\ call[g].pc = "idle" /\ ~Stopping /\ clientOpen[Conn]
    /\ call' = [call EXCEPT ![g].pc = "lock"]
    /\ UNCHANGED <<pipe, cMu, connects, sends, cfgComplete, connected, result>> /\ CallFrame

\* With mu: the flag, and Close.  What is on its way over a net.Pipe is gone.
Close(g) ==
    /\ call[g].pc = "lock" /\ NoReaders
    /\ connected' = FALSE
    /\ clientOpen' = [clientOpen EXCEPT ![Conn] = FALSE]
    /\ call' = [call EXCEPT ![g] = Idle]
    /\ UNCHANGED <<down, up, radioOpen, cMu, connects, sends, cfgComplete, result>>
    /\ CallFrame
-----------------------------------------------------------------------------
(***************************************************************************)
(* readLoop.                                                               *)
(***************************************************************************)

LoopFrame == UNCHANGED <<cMu, connects, sends, connected, result>>

\* The kinds readLoop stores in DeviceState.
Stored == {"myinfo", "metadata", "node", "channel", "config"}
Packet == {"packet", "adminresp"}

LoopRead(k) ==
    /\ loop[k].pc = "read" /\ clientOpen[Conn] /\ Readable(down, Conn)
    /\ loop' = [loop EXCEPT ![k].pc = "got", ![k].msg = Head(down[Conn])]
    /\ down' = [down EXCEPT ![Conn] = Tail(@)]
    /\ UNCHANGED <<up, clientOpen, radioOpen, call, cfgComplete, complete, device, registry,
                   handled, stale>>
    /\ LoopFrame

\* HandleMessage begins, once the configuration is complete: the registry stays
\* locked for reading until every handler has returned.
Dispatched(k) ==
    IF complete /\ registry # <<>>
    THEN [loop EXCEPT ![k].pc = "dispatch", ![k].todo = registry]
    ELSE [loop EXCEPT ![k] = [NotReading EXCEPT !.pc = "read"]]

\* The switch, for the kinds of the handshake ("presets" is not known to it, and
\* no handler is registered for the others) and for ConfigCompleteId, whose ID is
\* not compared.
LoopStore(k) ==
    /\ loop[k].pc = "got" /\ loop[k].msg.kind \notin Packet
    /\ device' = IF loop[k].msg.kind \in Stored THEN Append(device, loop[k].msg) ELSE device
    /\ loop' = [loop EXCEPT ![k] = [NotReading EXCEPT !.pc =
                   IF loop[k].msg.kind = "complete" /\ ~complete THEN "closing" ELSE "read"]]
    /\ UNCHANGED <<pipe, call, cfgComplete, complete, registry, handled, stale>>
    /\ LoopFrame

\* SetComplete, and close(cfgComplete).
\* Mutant: the channel stays open.
LoopCompletes(k) ==
    /\ loop[k].pc = "closing"
    /\ complete' = TRUE
    /\ loop' = [loop EXCEPT ![k].pc = "read"]
    /\ UNCHANGED <<pipe, call, cfgComplete, device, registry, handled, stale>> /\ LoopFrame
LoopCloses(k) ==
    /\ loop[k].pc = "closing"
    /\ complete' = TRUE
    /\ cfgComplete' = [cfgComplete EXCEPT ![k] = TRUE]
    /\ loop' = [loop EXCEPT ![k].pc = "read"]
    /\ UNCHANGED <<pipe, call, device, registry, handled, stale>> /\ LoopFrame

\* A mesh packet: the packet handler is called, which may send before it returns.
LoopPacket(k) ==
    /\ loop[k].pc = "got" /\ loop[k].msg.kind \in Packet
    /\ handled' = Append(handled, loop[k].msg)
    /\ loop' = [loop EXCEPT ![k].pc = "handler"]
    /\ UNCHANGED <<pipe, call, cfgComplete, complete, device, registry, stale>> /\ LoopFrame

HandlerReturns(k) ==
    /\ loop[k].pc = "handler" /\ call[k].pc = "idle"
    /\ loop' = Dispatched(k)
    /\ UNCHANGED <<pipe, call, cfgComplete, complete, device, registry, handled, stale>>
    /\ LoopFrame

\* A handler of HandleMessage runs; an error or the last one ends it.
LoopCall(k, ok) ==
    /\ loop[k].pc = "dispatch"
    /\ stale' = (stale \/ \A i \in DOMAIN registry : registry[i] # Head(loop[k].todo))
    /\ loop' = IF ok /\ Len(loop[k].todo) > 1
               THEN [loop EXCEPT ![k].todo = Tail(@)]
               ELSE [loop EXCEPT ![k] = [NotReading EXCEPT !.pc = "read"]]
    /\ UNCHANGED <<pipe, call, cfgComplete, complete, device, registry, handled>>
    /\ LoopFrame

\* A read fails: Disconnected is reported, connected stays as it is.
LoopEnds(k) ==
    /\ loop[k].pc = "read"
    /\ ~Open(Conn) /\ ~(clientOpen[Conn] /\ Readable(down, Conn))
    /\ loop' = [loop EXCEPT ![k].pc = "ended"]
    /\ UNCHANGED <<pipe, call, cfgComplete, complete, device, registry, handled, stale>>
    /\ LoopFrame
-----------------------------------------------------------------------------
(***************************************************************************)
(* The handler registry.                                                   *)
(***************************************************************************)

\* No HandleMessage holds the registry's lock.
RegistryFree == \A k \in Loops : loop[k].pc # "dispatch"

RegistryFrame ==
    UNCHANGED <<pipe, call, cMu, connects, sends, loop, cfgComplete, complete, device,
                connected, result, handled, stale>>

Handle(h) ==
    /\ RegistryFree /\ \A i \in DOMAIN registry : registry[i] # h
    /\ registry' = Append(registry, h)
    /\ RegistryFrame

\* append(entries[:i], entries[i+1:]...)
Without(i) == SubSeq(registry, 1, i - 1) \o SubSeq(registry, i + 1, Len(registry))

\* Mutant: the entries are copied, and handlers run without the lock.
UnsubscribeUnlocked(h) ==
    /\ \E i \in DOMAIN registry : registry[i] = h /\ registry' = Without(i)
    /\ RegistryFrame
Unsubscribe(h) ==
    /\ RegistryFree
    /\ \E i \in DOMAIN registry : registry[i] = h /\ registry' = Without(i)
    /\ RegistryFrame
-----------------------------------------------------------------------------
LoopStep(k) ==
    \/ LoopRead(k) \/ LoopStore(k) \/ LoopCloses(k) \/ LoopPacket(k) \/ HandlerReturns(k)
    \/ LoopEnds(k) \/ \E ok \in BOOLEAN : LoopCall(k, ok)
CallStep(g) == ClientWrite(g) \/ ClientWritten(g) \/ ClientWriteFails(g)
HandlerSends(k) ==
    /\ loop[k].pc = "handler"
    /\ \E kind \in Requests : SendToRadio(k, kind)

ClientStep ==
    \/ Connect(Owner) \/ ConnectDone(Owner) \/ ConnectTimesOut(Owner)
    \/ Stop(Owner) \/ Close(Owner)
    \/ \E g \in Callers, kind \in Requests : SendToRadio(g, kind)
    \/ \E g \in Callers \cup Loops : CallStep(g)
    \/ \E k \in Loops : LoopStep(k) \/ HandlerSends(k)
    \/ \E h \in Subs : Handle(h) \/ Unsubscribe(h)
=============================================================================
