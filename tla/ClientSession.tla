--------------------------- MODULE ClientSession ----------------------------
(***************************************************************************)
(* A client transport connected to the client API of a node: the           *)
(* composition of ClientTransport and ClientApi over a StreamPipe.         *)
(***************************************************************************)
EXTENDS ClientApi, ClientTransport

vars == <<pipe, server, clientVars>>

Init == PipeInit /\ ServerInit /\ ClientInit

Next ==
    \/ (ServerEnvironment \/ \E c \in Conns : ServerStep(c)) /\ UNCHANGED clientVars
    \/ ClientStep /\ UNCHANGED server

Spec == Init /\ [][Next]_vars

\* Goroutines are scheduled.  Weak fairness is enough where they contend for a
\* mutex: calls and packets are bounded, so the others let go of it in the end.
\* Nobody need call anything, and the context of a Connect need not end.
FairSpec ==
    /\ Spec
    /\ \A c \in Conns :
          /\ WF_vars((HandleConn(c) \/ HandleConnReturns(c)) /\ UNCHANGED clientVars)
          /\ WF_vars(ReaderStep(c) /\ UNCHANGED clientVars)
          /\ WF_vars(WriterStep(c) /\ UNCHANGED clientVars)
    /\ \A g \in Callers :
          WF_vars((CallStep(g) \/ ConnectDone(g) \/ Close(g)) /\ UNCHANGED server)
    /\ \A k \in Loops : WF_vars((LoopStep(k) \/ CallStep(k)) /\ UNCHANGED server)
-----------------------------------------------------------------------------
(***************************************************************************)
(* Properties.                                                             *)
(***************************************************************************)

\* The types of both ends and of what is between them.
TypeOK ==
    /\ serving \in [Conns -> {"none", "run", "returned"}]
    /\ writeMu \in [Conns -> {"free", "rd", "wr"}]
    /\ subscribers \subseteq Conns /\ failed \subseteq Conns
    /\ \A c \in Conns : Len(buffer[c]) <= BufferSize
    /\ cMu \in {0} \cup Callers \cup Loops
    /\ connected \in BOOLEAN /\ complete \in BOOLEAN
    /\ result \in [Loops -> {"none", "ok", "timeout", "err"}]

\* The slots of the channel table, as a client sees them.
Slots == 0..(MaxChannels - 1)
Has(kind, arg) == \E i \in DOMAIN device : device[i] = Request(kind, arg)

\* handleHandshake and Connect agree: when a client's only Connect returns nil the
\* device state holds the whole answer, whatever was dispatched in between: the
\* infos, the own node, the nodes of the NodeDB, the configuration and every channel
\* slot, once and in order.
ConnectedMeansConfigured ==
    connects = 1 /\ result[1] = "ok" =>
        /\ Has("myinfo", 0) /\ Has("metadata", 0) /\ Has("node", "self") /\ Has("config", 0)
        /\ \A n \in Peers : Has("node", n)
        /\ \A slot \in Slots : Has("channel", slot)
        /\ \A i \in DOMAIN device : device[i].kind = "channel" => device[i].arg \in Slots
        /\ \A i, j \in DOMAIN device :
              i < j /\ device[i].kind = "channel" /\ device[j].kind = "channel"
                  => device[i].arg < device[j].arg

\* Every message of the handshake is short enough for the stream.  The NodeInfos are
\* as others sent them, so that this is up to the nodes of the mesh.
HandshakeFits ==
    /\ \A kind \in {"myinfo", "metadata", "presets", "config"} : Fits(Msg(kind, 0))
    /\ \A n \in Peers \cup {"self"} : Fits(Msg("node", n))
    /\ \A slot \in Slots : Fits(Msg("channel", slot))
    /\ \A k \in Loops : Fits(Msg("complete", k))

\* The first Connect to a server that runs, and whose answer fits, returns, also while
\* packets of any length are dispatched to the client, unless the client is stopped or
\* connects once more.  The exceptions: with a NodeInfo that does not fit handleHandshake
\* gives up, and over TCP a packet that does not fit may end the connection before the
\* request, already written, is read; Connect then waits for its context.
Connects ==
    HandshakeFits =>
    (connects = 1 /\ result[1] = "none") ~>
        \/ result[1] # "none" \/ connects > 1 \/ ctxDone \/ ~clientOpen[Conn]
        \/ Conn \notin InMemory /\ Conn \in failed

\* Every Connect returns.  Refuted: after a late or an earlier ConfigCompleteId
\* a further Connect waits for a channel that is never closed.
ConnectsAgain ==
    \A k \in Loops : (connects >= k /\ result[k] = "none") ~>
        (result[k] # "none" \/ ctxDone \/ ~clientOpen[Conn])

\* Packets reach the packet handler in the order of their dispatch and once, though
\* some are skipped when the subscriber's buffer is full.
PacketsInOrder ==
    connects <= 1 =>
        \A i, j \in DOMAIN handled :
            i < j /\ handled[i].kind = "packet" /\ handled[j].kind = "packet"
                => handled[i].arg < handled[j].arg

\* Once Unsubscribe has returned the handler is not called any more.
NoCallAfterUnsubscribe == ~stale

\* The reader has returned nil on Disconnect: it neither reads nor cancels the writer.
Abandoned(c) == rd[c].pc = "left" /\ c \notin failed /\ ~ctxDone

\* A connection that its client closes is removed from the subscribers and
\* handleConn returns, unless the client has said Disconnect before; then it stays
\* until the server is shut down.
Removed ==
    \A c \in Conns :
        ~clientOpen[c] ~> \/ serving[c] # "run" /\ c \notin subscribers
                          \/ []Abandoned(c)

\* "Disconnect" of a client ends its connection.  Refuted: handleConn stays, with
\* a subscription, as long as nothing is dispatched.
DisconnectRemoves == \A c \in Conns : Abandoned(c) ~> c \notin subscribers

\* A packet handler sends while a write of the server waits for that handler's
\* read loop.  Over a net.Pipe neither can return when the server does not read
\* either: its reader writes the answer, or it has left at shutdown and the writer
\* is in the way of Close.
Embrace == writeMu[Conn] # "free" /\ \E k \in Loops : loop[k].pc = "handler" /\ Reading(k)

\* Stop of the client returns, unless a SendToRadio, which holds mu, writes to a
\* server whose reader has left, or the two are in an embrace.
StopReturns == Stopping ~> (~Stopping \/ Abandoned(Conn) \/ Embrace)

\* Stop returns.  Refuted by a SendToRadio after a Disconnect, or by a packet handler
\* that sends during a handshake.
StopAlwaysReturns == Stopping ~> ~Stopping
=============================================================================
