-------------------------------- MODULE Mqtt --------------------------------
(***************************************************************************)
(* transport/mqtt: the raw transport over an MQTT broker.                  *)
(*                                                                         *)
(* The paho client is external and modelled from how it is configured: it  *)
(* reconnects by itself (AutoReconnect), keeps subscriptions that it could *)
(* not send (ResumeSubs), counts as connected while it reconnects, runs    *)
(* OnConnect, OnConnectionLost and each message handler on a goroutine of  *)
(* its own (SetOrderMatters(false)) and OnReconnecting inside its          *)
(* reconnect loop.  Sections of code under mu are single steps that need   *)
(* mu to be free; only Stop keeps it while it waits, in Disconnect, which  *)
(* returns after at most a second.                                         *)
(***************************************************************************)
EXTENDS Naturals, FiniteSets

CONSTANTS
    Names,             \* channel names
    Threads,           \* goroutines for OnConnect and OnConnectionLost
    Senders,           \* goroutines calling SendPacket
    Handlers,          \* goroutines running handleMessage
    Envelopes,         \* service envelopes other gateways publish, see Envelope
    Self,              \* the gateway ID of this node
    MaxHops,           \* core.MaxHops
    MaxLosses          \* bound on the connections that are lost

\* hops is the larger one of hop_limit and hop_start; trusted stands for the
\* fields only a local radio may fill (pki_encrypted, rx_rssi, rx_time, ...).
Envelope == [name : Names, gateway : {Self, "other", ""}, reserved : BOOLEAN,
             hops : Nat, payload : {"none", "admin", "data"}, trusted : BOOLEAN]

ASSUME MqttAssumption ==
    /\ Envelopes \subseteq Envelope
    /\ MaxHops \in Nat /\ MaxLosses \in Nat
    /\ Self \notin {"other", ""}

VARIABLES
    link,       \* state of the paho client
    losses,     \* connections lost so far
    rec,        \* paho's reconnect loop: "off", "call" (OnReconnecting), "dial"
    subs,       \* subscriptions the broker holds for this client
    stored,     \* subscriptions paho keeps until it is connected again
    mu,         \* held by Stop
    stop,       \* the call of Stop: "no", "disconnect", "done"
    connected,  \* Transport.connected
    channels,   \* Transport.channels
    cb,         \* cb[t]: the callback goroutine t runs
    crossed,    \* history: the last callback began while another waited for mu
    snd,        \* snd[s]: the SendPacket call of s
    inb,        \* inb[h]: the message that h handles
    delivered   \* history: what the packet handler was given

client == <<link, losses, rec, subs, stored>>
calls == <<cb, crossed>>
vars == <<client, mu, stop, connected, channels, calls, snd, inb, delivered>>

NoCallback == [kind |-> "none", pc |-> "idle", todo |-> {}]
\* fate is what became of the message; steady (history) says that the connection has
\* been up since the call.
NotSending == [pc |-> "idle", fate |-> "none", result |-> "none", steady |-> FALSE]
NoMessage == [pc |-> "idle"]
Own(n) == [name |-> n, gateway |-> Self, reserved |-> FALSE, hops |-> 0,
           payload |-> "data", trusted |-> FALSE]

CallbackRun == [kind : {"none", "connected", "lost"},
                pc : {"idle", "lock", "subscribe", "emit"}, todo : SUBSET Names]
SendCall == [pc : {"idle", "publish", "wait"}, fate : {"none", "queued", "out", "dropped"},
             result : {"none", "ok", "err"}, steady : BOOLEAN]
Message == [pc : {"lock", "consume", "reply"}, msg : Envelope]

\* The types of the client's state, the callbacks and the calls in progress.
TypeOK ==
    /\ link \in {"new", "dialing", "up", "reconnecting", "closing", "closed", "failed"}
    /\ losses \in 0..MaxLosses
    /\ rec \in {"off", "call", "dial"}
    /\ subs \subseteq Names /\ stored \subseteq Names /\ channels \subseteq Names
    /\ mu \in BOOLEAN
    /\ stop \in {"no", "disconnect", "done"}
    /\ connected \in BOOLEAN
    /\ cb \in [Threads -> CallbackRun]
    /\ crossed \in BOOLEAN
    /\ snd \in [Senders -> SendCall]
    /\ inb \in [Handlers -> {NoMessage} \cup Message]
    /\ delivered \subseteq Envelope

Init ==
    /\ link = "new" /\ losses = 0 /\ rec = "off" /\ subs = {} /\ stored = {}
    /\ mu = FALSE /\ stop = "no" /\ connected = FALSE /\ channels = {}
    /\ cb = [t \in Threads |-> NoCallback] /\ crossed = FALSE
    /\ snd = [s \in Senders |-> NotSending]
    /\ inb = [h \in Handlers |-> NoMessage]
    /\ delivered = {}
-----------------------------------------------------------------------------
(***************************************************************************)
(* The paho client.                                                        *)
(***************************************************************************)

\* client.IsConnected: also while the client reconnects by itself.
ClientConnected == link \in {"up", "reconnecting"}

\* client.Subscribe.  Sent at once, or kept for the next connection; an error is
\* ignored by the callers.
SubscribeAll(names) ==
    /\ subs' = IF link = "up" THEN subs \cup names ELSE subs
    /\ stored' = IF link = "reconnecting" THEN stored \cup names ELSE stored

\* A callback is started on a free goroutine; it does not wait for the ones before.
Spawn(t, kind) ==
    /\ cb[t].pc = "idle"
    /\ cb' = [cb EXCEPT ![t] = [kind |-> kind, pc |-> "lock", todo |-> {}]]
    /\ crossed' = \E v \in Threads : cb[v].pc = "lock"

Unsteady == [s \in Senders |-> [snd[s] EXCEPT !.steady = FALSE]]

\* The connection is there: what was stored is sent, OnConnect starts.
Connected(t) ==
    /\ link' = "up" /\ rec' = "off"
    /\ subs' = subs \cup stored /\ stored' = {}
    /\ Spawn(t, "connected")
    /\ snd' = Unsteady
    /\ UNCHANGED <<losses, mu, stop, connected, channels, inb, delivered>>

\* The connection breaks.  The broker may have lost the session with it.
LoseLink(t, kept) ==
    /\ link = "up" /\ losses < MaxLosses
    /\ link' = "reconnecting" /\ losses' = losses + 1 /\ rec' = "call"
    /\ subs' = IF kept THEN subs ELSE {}
    /\ Spawn(t, "lost")
    /\ snd' = Unsteady
    /\ UNCHANGED <<stored, mu, stop, connected, channels, inb, delivered>>

Reconnected(t) == link = "reconnecting" /\ rec = "dial" /\ Connected(t)

DialFails ==
    /\ rec = "dial"
    /\ rec' = IF link = "reconnecting" THEN "call" ELSE "off"
    /\ UNCHANGED <<link, losses, subs, stored, mu, stop, connected, channels, calls, snd,
                   inb, delivered>>

\* A queued QoS 0 message is written when there is a connection, however late, or lost.
Transmit(s) ==
    /\ snd[s].fate = "queued" /\ link = "up"
    /\ snd' = [snd EXCEPT ![s].fate = "out"]
    /\ UNCHANGED <<client, mu, stop, connected, channels, calls, inb, delivered>>

Discard(s) ==
    /\ snd[s].fate = "queued" /\ ~snd[s].steady
    /\ snd' = [snd EXCEPT ![s].fate = "dropped"]
    /\ UNCHANGED <<client, mu, stop, connected, channels, calls, inb, delivered>>

\* The broker passes on a message of another gateway, or one of ours, to a
\* subscription of its channel.
Receive(h, e) ==
    /\ inb[h].pc = "idle" /\ link = "up" /\ e.name \in subs
    /\ inb' = [inb EXCEPT ![h] = [pc |-> "lock", msg |-> e]]
    /\ UNCHANGED <<client, mu, stop, connected, channels, calls, snd, delivered>>
-----------------------------------------------------------------------------
(***************************************************************************)
(* The transport.                                                          *)
(***************************************************************************)

\* Start: NewClient, then Connect and its token.
Start ==
    /\ link = "new"
    /\ link' = "dialing"
    /\ UNCHANGED <<losses, rec, subs, stored, mu, stop, connected, channels, calls, snd,
                   inb, delivered>>

StartSucceeds(t) == link = "dialing" /\ Connected(t)

StartFails ==
    /\ link = "dialing"
    /\ link' = "failed"
    /\ UNCHANGED <<losses, rec, subs, stored, mu, stop, connected, channels, calls, snd,
                   inb, delivered>>

\* Stop takes mu and calls Disconnect.
Stop ==
    /\ stop = "no" /\ ~mu /\ link \in {"up", "reconnecting", "failed"}
    /\ mu' = TRUE /\ stop' = "disconnect" /\ link' = "closing"
    /\ snd' = Unsteady
    /\ UNCHANGED <<losses, rec, subs, stored, connected, channels, calls, inb, delivered>>

\* Mutant: mu is not unlocked.
DisconnectedLocked ==
    /\ stop = "disconnect"
    /\ link' = "closed" /\ connected' = FALSE
    /\ stop' = "done"
    /\ UNCHANGED <<losses, rec, subs, stored, mu, channels, calls, snd, inb, delivered>>

\* Disconnect(1000) returns when the client has closed down, or after a second
\* if message handlers or the reconnect loop keep it from that; they may be
\* waiting for mu themselves.
Disconnected ==
    /\ stop = "disconnect"
    /\ link' = "closed" /\ connected' = FALSE
    /\ mu' = FALSE /\ stop' = "done"
    /\ UNCHANGED <<losses, rec, subs, stored, channels, calls, snd, inb, delivered>>

\* Mutant: the channel is only remembered.
AddChannelRemembers(n) ==
    /\ ~mu
    /\ channels' = channels \cup {n}
    /\ UNCHANGED <<client, mu, stop, connected, calls, snd, inb, delivered>>
AddChannel(n) ==
    /\ ~mu
    /\ channels' = channels \cup {n}
    /\ IF ClientConnected THEN SubscribeAll({n}) ELSE UNCHANGED <<subs, stored>>
    /\ UNCHANGED <<link, losses, rec, mu, stop, connected, calls, snd, inb, delivered>>

\* onConnected: the flag and the list of channels under mu, then one Subscribe
\* after the other, then the state handler.
OnConnected(t) ==
    /\ cb[t].kind = "connected" /\ cb[t].pc = "lock" /\ ~mu
    /\ connected' = TRUE
    /\ cb' = [cb EXCEPT ![t].pc = "subscribe", ![t].todo = channels]
    /\ UNCHANGED <<client, mu, stop, channels, crossed, snd, inb, delivered>>

Resubscribe(t, n) ==
    /\ cb[t].pc = "subscribe" /\ n \in cb[t].todo
    /\ SubscribeAll({n})
    /\ cb' = [cb EXCEPT ![t].todo = @ \ {n}]
    /\ UNCHANGED <<link, losses, rec, mu, stop, connected, channels, crossed, snd, inb,
                   delivered>>

Resubscribed(t) ==
    /\ cb[t].pc = "subscribe" /\ cb[t].todo = {}
    /\ cb' = [cb EXCEPT ![t].pc = "emit"]
    /\ UNCHANGED <<client, mu, stop, connected, channels, crossed, snd, inb, delivered>>

\* Mutant: only the event is passed on.
OnConnectionLostTells(t) ==
    /\ cb[t].kind = "lost" /\ cb[t].pc = "lock" /\ ~mu
    /\ cb' = [cb EXCEPT ![t].pc = "emit"]
    /\ UNCHANGED <<client, mu, stop, connected, channels, crossed, snd, inb, delivered>>
OnConnectionLost(t) ==
    /\ cb[t].kind = "lost" /\ cb[t].pc = "lock" /\ ~mu
    /\ connected' = FALSE
    /\ cb' = [cb EXCEPT ![t].pc = "emit"]
    /\ UNCHANGED <<client, mu, stop, channels, crossed, snd, inb, delivered>>

\* The state handler returns, and the callback with it.
Emit(t) ==
    /\ cb[t].pc = "emit"
    /\ cb' = [cb EXCEPT ![t] = NoCallback]
    /\ UNCHANGED <<client, mu, stop, connected, channels, crossed, snd, inb, delivered>>

\* onReconnecting reads the handler under mu; then paho dials.
OnReconnecting ==
    /\ rec = "call" /\ ~mu
    /\ rec' = "dial"
    /\ UNCHANGED <<link, losses, subs, stored, mu, stop, connected, channels, calls, snd,
                   inb, delivered>>
-----------------------------------------------------------------------------
(***************************************************************************)
(* SendPacket.                                                             *)
(***************************************************************************)

SendFrame == UNCHANGED <<client, mu, stop, connected, channels, calls, inb, delivered>>

\* Mutant: the client is not asked.
IsConnectedFlag == connected
IsConnected == connected /\ ClientConnected

\* The first test; nothing may have become of an earlier message of s.
SendPacket(s) ==
    /\ snd[s].pc = "idle" /\ snd[s].fate # "queued" /\ ~mu
    /\ snd' = [snd EXCEPT ![s] = [pc |-> IF IsConnected THEN "publish" ELSE "idle",
                                  fate |-> "none", steady |-> link = "up",
                                  result |-> IF IsConnected THEN "none" ELSE "err"]]
    /\ SendFrame

\* client.Publish with QoS 0: queued; dropped without an error while the client
\* reconnects; refused when it is closed.
Publish(s) ==
    /\ snd[s].pc = "publish"
    /\ snd' = [snd EXCEPT ![s].pc = IF link = "up" THEN "wait" ELSE "idle",
                          ![s].fate = IF link = "up" THEN "queued" ELSE "dropped",
                          ![s].result = CASE link = "up" -> "none"
                                          [] link = "reconnecting" -> "ok"
                                          [] OTHER -> "err"]
    /\ SendFrame

Published(s) ==
    /\ snd[s].pc = "wait" /\ snd[s].fate = "out"
    /\ snd' = [snd EXCEPT ![s].pc = "idle", ![s].result = "ok"]
    /\ SendFrame

\* WaitTimeout gives up; the message stays with paho.
\* Mutant: the outcome of WaitTimeout is ignored and the token has no error yet.
PublishTimesOutUnseen(s) ==
    /\ snd[s].pc = "wait"
    /\ snd' = [snd EXCEPT ![s].pc = "idle", ![s].result = "ok"]
    /\ SendFrame
PublishTimesOut(s) ==
    /\ snd[s].pc = "wait"
    /\ snd' = [snd EXCEPT ![s].pc = "idle", ![s].result = "err"]
    /\ SendFrame
-----------------------------------------------------------------------------
(***************************************************************************)
(* handleMessage.                                                          *)
(***************************************************************************)

\* sanitizeInbound: what is refused, and what is left of the rest.
Accepts(e) ==
    /\ e.gateway # "" /\ e.gateway # Self
    /\ ~e.reserved
    /\ e.hops <= MaxHops
    /\ e.payload \notin {"none", "admin"}
Sanitized(e) == [e EXCEPT !.trusted = FALSE]

HandleMessage(h, replies) ==
    /\ inb[h].pc = "lock" /\ ~mu
    /\ IF Accepts(inb[h].msg)
       THEN /\ delivered' = delivered \cup {Sanitized(inb[h].msg)}
            /\ inb' = [inb EXCEPT ![h].pc = IF replies THEN "reply" ELSE "consume"]
       ELSE /\ inb' = [inb EXCEPT ![h] = NoMessage]
            /\ UNCHANGED delivered
    /\ UNCHANGED <<client, mu, stop, connected, channels, calls, snd>>

\* The packet handler returns.  One that replies calls SendPacket, whose first
\* step needs mu.
Consume(h) ==
    /\ inb[h].pc \in {"consume", "reply"}
    /\ inb[h].pc = "reply" => ~mu
    /\ inb' = [inb EXCEPT ![h] = NoMessage]
    /\ UNCHANGED <<client, mu, stop, connected, channels, calls, snd, delivered>>
-----------------------------------------------------------------------------
Callback(t) ==
    \/ OnConnected(t) \/ OnConnectionLost(t) \/ Resubscribed(t) \/ Emit(t)
    \/ \E n \in Names : Resubscribe(t, n)
Sending(s) == Publish(s) \/ Published(s) \/ PublishTimesOut(s)
Handling(h) == Consume(h) \/ \E replies \in BOOLEAN : HandleMessage(h, replies)
\* Whatever channel a message went to, the broker returns it to subscribers of it.
Echoes == {Own(n) : n \in {m \in Names : \E s \in Senders : snd[s].fate = "out"}}

Next ==
    \/ Start \/ StartFails \/ Stop \/ Disconnected \/ OnReconnecting \/ DialFails
    \/ \E t \in Threads :
          \/ StartSucceeds(t) \/ Reconnected(t) \/ Callback(t)
          \/ \E kept \in BOOLEAN : LoseLink(t, kept)
    \/ \E n \in Names : AddChannel(n)
    \/ \E s \in Senders : SendPacket(s) \/ Sending(s) \/ Transmit(s) \/ Discard(s)
    \/ \E h \in Handlers :
          \/ Handling(h)
          \/ \E e \in Envelopes \cup Echoes : Receive(h, e)

Spec == Init /\ [][Next]_vars

\* Goroutines that have started are scheduled and wait for nothing but mu; Disconnect,
\* a dial and the wait for a publish are bounded by their timeouts.  The broker owes
\* nothing.
FairSpec ==
    /\ Spec
    /\ WF_vars(Disconnected) /\ WF_vars(OnReconnecting) /\ WF_vars(DialFails)
    /\ \A t \in Threads : WF_vars(Callback(t))
    /\ \A s \in Senders : WF_vars(Sending(s))
    /\ \A h \in Handlers : WF_vars(Handling(h))
-----------------------------------------------------------------------------
(***************************************************************************)
(* Properties.                                                             *)
(***************************************************************************)

\* A callback that is yet to subscribe to n.
Covers(t, n) ==
    /\ cb[t].kind = "connected"
    /\ cb[t].pc = "lock" \/ (cb[t].pc = "subscribe" /\ n \in cb[t].todo)

\* AddChannel against a reconnect that lost the session: while the client is
\* connected the broker has a subscription for each channel that was added, or
\* an OnConnect callback is about to ask for it.
ChannelsSubscribed ==
    link = "up" => \A n \in channels : n \in subs \/ \E t \in Threads : Covers(t, n)

\* connected is the state of the connection when no callback waits for mu,
\* unless the last callbacks began while another one waited: those may take mu in
\* the wrong order.  The next change that does not overlap sets the flag right.
FlagExact ==
    link \in {"up", "reconnecting"} /\ ~crossed /\ (\A t \in Threads : cb[t].pc # "lock")
        => (connected <=> link = "up")

\* "IsConnected returns true if the transport is currently connected": also when
\* callbacks have overlapped, once none of them is waiting.  Refuted by an
\* OnConnectionLost that takes mu after the OnConnect of the next connection.
FlagAlwaysExact ==
    link = "up" /\ (\A t \in Threads : cb[t].pc # "lock") => IsConnected

\* A nil of SendPacket means that the message has left, unless the connection was
\* lost: while connected is stale paho drops a QoS 0 message without an error.
NilMeansSent ==
    \A s \in Senders : snd[s].result = "ok" /\ snd[s].steady => snd[s].fate = "out"

\* What a caller of SendPacket would like to rely on: an error means the message
\* will not be sent.  Refuted by the timeout of 10 s.
ErrorMeansUnsent == \A s \in Senders : snd[s].result = "err" => snd[s].fate # "out"

\* Broker echo, Publish and sanitizeInbound together: the packet handler never gets a
\* packet this node published, nor a field only a local radio may fill.
NoEcho == \A d \in delivered : d.gateway # Self /\ ~d.trusted

\* Stop is final: once it has returned the transport never reports itself
\* connected, although an OnConnect callback that waited for mu behind Stop sets
\* connected to TRUE afterwards.
StopSticks == stop = "done" => ~IsConnected

\* Stop keeps mu over Disconnect, with callbacks, message handlers (also one that
\* replies), the reconnect loop and senders waiting behind it: Stop returns and all
\* of them come to an end.
WoundUp ==
    (stop = "disconnect") ~>
        /\ stop = "done" /\ rec = "off"
        /\ \A t \in Threads : cb[t].pc = "idle"
        /\ \A s \in Senders : snd[s].pc = "idle"
        /\ \A h \in Handlers : inb[h].pc = "idle"
=============================================================================
