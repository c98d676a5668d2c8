----------------------------- MODULE MqttProofs -----------------------------
(***************************************************************************)
(* Proofs about the MQTT transport, for every set of channels, goroutines  *)
(* and envelopes: the types, that no channel is lost between AddChannel    *)
(* and a reconnect, when the connected flag is exact, what a nil of        *)
(* SendPacket is worth, that no packet of this node comes back, and that   *)
(* Stop is final.                                                          *)
(***************************************************************************)
EXTENDS Mqtt, TLAPS

(***************************************************************************)
(* Types.                                                                  *)
(***************************************************************************)

\* A packet of this node that the broker returns is an envelope, so every message
\* that can arrive is one.
LEMMA ArrivingType == \A e \in Envelopes \cup Echoes : e \in Envelope
<1>1. \A n \in Names : Own(n) \in Envelope
  BY Zenon DEF Own, Envelope
<1>2. Echoes \subseteq {Own(n) : n \in Names}
  BY Zenon DEF Echoes
<1> QED BY <1>1, <1>2, MqttAssumption, Zenon DEF MqttAssumption

\* The bound on lost connections is a number.
LEMMA LossBound == MaxLosses \in Nat
  BY MqttAssumption, Zenon DEF MqttAssumption

\* Losing or opening a connection leaves the calls of SendPacket well-typed.
LEMMA UnsteadyType == snd \in [Senders -> SendCall] => Unsteady \in [Senders -> SendCall]
<1> SUFFICES ASSUME snd \in [Senders -> SendCall], NEW s \in Senders
             PROVE [snd[s] EXCEPT !.steady = FALSE] \in SendCall
  BY DEF Unsteady
<1> QED BY DEF SendCall

\* A new callback is well-typed, whichever goroutine runs it.
LEMMA SpawnType ==
    ASSUME cb \in [Threads -> CallbackRun], NEW t \in Threads,
           NEW kind \in {"connected", "lost"}, Spawn(t, kind)
    PROVE  cb' \in [Threads -> CallbackRun] /\ crossed' \in BOOLEAN
<1>1. [kind |-> kind, pc |-> "lock", todo |-> {}] \in CallbackRun
  BY DEF CallbackRun
<1>2. crossed' \in BOOLEAN
  BY Zenon DEF Spawn
<1> QED BY <1>1, <1>2 DEF Spawn

\* What SendPacket and its later steps make of a call is a call.
LEMMA SendType ==
    ASSUME TypeOK, NEW s \in Senders,
           SendPacket(s) \/ Sending(s) \/ Transmit(s) \/ Discard(s)
    PROVE  snd' \in [Senders -> SendCall]
<1>1. CASE SendPacket(s)
  <2> DEFINE c == [pc |-> IF IsConnected THEN "publish" ELSE "idle",
                   fate |-> "none", steady |-> link = "up",
                   result |-> IF IsConnected THEN "none" ELSE "err"]
  <2>1. (link = "up") \in BOOLEAN
    BY Zenon
  <2>2. c \in SendCall
    BY <2>1 DEF SendCall
  <2>3. snd' = [snd EXCEPT ![s] = c]
    BY <1>1 DEF SendPacket
  <2> HIDE DEF c
  <2> QED BY <2>2, <2>3 DEF TypeOK
<1>2. CASE Publish(s)
  <2> DEFINE next == IF link = "up" THEN "wait" ELSE "idle"
             fate == IF link = "up" THEN "queued" ELSE "dropped"
             result == CASE link = "up" -> "none" [] link = "reconnecting" -> "ok"
                         [] OTHER -> "err"
  <2>1. /\ next \in {"idle", "publish", "wait"}
        /\ fate \in {"none", "queued", "out", "dropped"}
        /\ result \in {"none", "ok", "err"}
    BY Zenon
  <2>2. snd' = [snd EXCEPT ![s].pc = next, ![s].fate = fate, ![s].result = result]
    BY <1>2 DEF Publish
  <2> HIDE DEF next, fate, result
  <2> DEFINE c == [snd[s] EXCEPT !.pc = next, !.fate = fate, !.result = result]
  <2>3. c \in SendCall
    BY <2>1 DEF TypeOK, SendCall
  <2>4. snd' = [snd EXCEPT ![s] = c]
    BY <2>2
  <2> HIDE DEF c
  <2> QED BY <2>3, <2>4 DEF TypeOK
<1>3. CASE Published(s) \/ PublishTimesOut(s) \/ Transmit(s) \/ Discard(s)
  BY <1>3 DEF Published, PublishTimesOut, Transmit, Discard, TypeOK, SendCall
<1> QED BY <1>1, <1>2, <1>3 DEF Sending

\* The types hold in every state; the channels, goroutines and envelopes are arbitrary.
THEOREM TypeCorrect == Spec => []TypeOK
<1>1. Init => TypeOK
  <2> SUFFICES ASSUME Init PROVE TypeOK
    OBVIOUS
  <2>1. NoCallback \in CallbackRun /\ NotSending \in SendCall
    BY DEF NoCallback, CallbackRun, NotSending, SendCall
  <2>2. losses \in 0..MaxLosses
    BY LossBound DEF Init
  <2>3. mu \in BOOLEAN /\ connected \in BOOLEAN /\ crossed \in BOOLEAN
    BY Zenon DEF Init
  <2> QED BY <2>1, <2>2, <2>3 DEF Init, TypeOK
<1>2. TypeOK /\ [Next]_vars => TypeOK'
  <2> SUFFICES ASSUME TypeOK, [Next]_vars PROVE TypeOK'
    OBVIOUS
  <2>1. CASE Start \/ StartFails \/ DialFails \/ OnReconnecting
    BY <2>1 DEF TypeOK, Start, StartFails, DialFails, OnReconnecting, calls
  <2>2. CASE Stop
    BY <2>2, UnsteadyType DEF TypeOK, Stop, calls
  <2>3. CASE Disconnected
    BY <2>3 DEF TypeOK, Disconnected, calls
  <2>4. ASSUME NEW t \in Threads, StartSucceeds(t) \/ Reconnected(t) PROVE TypeOK'
    <3>1. Connected(t)
      BY <2>4 DEF StartSucceeds, Reconnected
    <3>2. cb' \in [Threads -> CallbackRun] /\ crossed' \in BOOLEAN
      BY <3>1, SpawnType DEF TypeOK, Connected
    <3> QED BY <3>1, <3>2, UnsteadyType DEF TypeOK, Connected
  <2>5. ASSUME NEW t \in Threads, NEW kept \in BOOLEAN, LoseLink(t, kept) PROVE TypeOK'
    <3>1. cb' \in [Threads -> CallbackRun] /\ crossed' \in BOOLEAN
      BY <2>5, SpawnType DEF TypeOK, LoseLink
    <3>2. losses' \in 0..MaxLosses
      BY <2>5, LossBound DEF TypeOK, LoseLink
    <3> QED BY <2>5, <3>1, <3>2, UnsteadyType DEF TypeOK, LoseLink
  <2>6. ASSUME NEW t \in Threads, Callback(t) PROVE TypeOK'
    <3>1. CASE OnConnected(t)
      <4>1. cb' \in [Threads -> CallbackRun]
        BY <3>1 DEF OnConnected, TypeOK, CallbackRun
      <4> QED BY <3>1, <4>1 DEF OnConnected, TypeOK, client
    <3>2. CASE OnConnectionLost(t)
      <4>1. cb' \in [Threads -> CallbackRun]
        BY <3>2 DEF OnConnectionLost, TypeOK, CallbackRun
      <4> QED BY <3>2, <4>1 DEF OnConnectionLost, TypeOK, client
    <3>3. CASE Resubscribed(t) \/ Emit(t)
      <4>1. cb' \in [Threads -> CallbackRun]
        BY <3>3 DEF Resubscribed, Emit, NoCallback, TypeOK, CallbackRun
      <4> QED BY <3>3, <4>1 DEF Resubscribed, Emit, TypeOK, client
    <3>4. ASSUME NEW n \in Names, Resubscribe(t, n) PROVE TypeOK'
      <4>1. cb' \in [Threads -> CallbackRun]
        BY <3>4 DEF Resubscribe, TypeOK, CallbackRun
      <4> QED BY <3>4, <4>1 DEF Resubscribe, SubscribeAll, TypeOK
    <3> QED BY <2>6, <3>1, <3>2, <3>3, <3>4 DEF Callback
  <2>7. ASSUME NEW n \in Names, AddChannel(n) PROVE TypeOK'
    BY <2>7 DEF TypeOK, AddChannel, SubscribeAll, calls
  <2>8. ASSUME NEW s \in Senders, SendPacket(s) \/ Sending(s) \/ Transmit(s) \/ Discard(s)
        PROVE TypeOK'
    <3>1. UNCHANGED <<client, mu, stop, connected, channels, calls, inb, delivered>>
      BY <2>8 DEF SendPacket, Sending, Publish, Published, PublishTimesOut, Transmit, Discard,
                  SendFrame
    <3> QED BY <2>8, <3>1, SendType DEF TypeOK, client, calls
  <2>9. ASSUME NEW h \in Handlers, Handling(h) PROVE TypeOK'
    <3>1. CASE Consume(h)
      BY <3>1 DEF TypeOK, Consume, client, calls
    <3>2. ASSUME NEW replies \in BOOLEAN, HandleMessage(h, replies) PROVE TypeOK'
      <4>1. inb[h] \in Message
        BY <3>2 DEF TypeOK, HandleMessage, NoMessage
      <4>2. /\ inb' \in [Handlers -> {NoMessage} \cup Message]
            /\ UNCHANGED <<client, mu, stop, connected, channels, calls, snd>>
        BY <3>2, <4>1 DEF TypeOK, HandleMessage, Message
      <4>3. inb[h].msg \in Envelope
        BY <4>1 DEF Message
      <4>4. Sanitized(inb[h].msg) \in Envelope
        BY <4>3, Zenon DEF Sanitized, Envelope
      <4>5. delivered' \subseteq Envelope
        BY <3>2, <4>4 DEF TypeOK, HandleMessage
      <4> QED BY <4>2, <4>5 DEF TypeOK, client, calls
    <3> QED BY <2>9, <3>1, <3>2 DEF Handling
  <2>10. ASSUME NEW h \in Handlers, NEW e \in Envelopes \cup Echoes, Receive(h, e)
         PROVE TypeOK'
    <3>1. [pc |-> "lock", msg |-> e] \in Message
      BY ArrivingType DEF Message
    <3> QED BY <2>10, <3>1 DEF TypeOK, Receive, client, calls
  <2>11. CASE UNCHANGED vars
    BY <2>11 DEF TypeOK, vars, client, calls
  <2> QED
    BY <2>1, <2>2, <2>3, <2>4, <2>5, <2>6, <2>7, <2>8, <2>9, <2>10, <2>11 DEF Next
<1> QED BY <1>1, <1>2, PTL DEF Spec
-----------------------------------------------------------------------------
(***************************************************************************)
(* Steps that leave the link, the flag and the callbacks alone.            *)
(***************************************************************************)

\* Calls of SendPacket, messages and the reconnect loop: none of the properties below
\* but NilMeansSent and NoEcho depends on what they change.
Aside ==
    \/ OnReconnecting \/ DialFails
    \/ \E s \in Senders : SendPacket(s) \/ Sending(s) \/ Transmit(s) \/ Discard(s)
    \/ \E h \in Handlers :
          Handling(h) \/ \E e \in Envelopes \cup Echoes : Receive(h, e)

\* Such a step changes neither the link, the flag, the callbacks, the channels nor the
\* subscriptions.
LEMMA AsideFrame == Aside => UNCHANGED <<link, connected, channels, cb, crossed, subs>>
  BY DEF Aside, OnReconnecting, DialFails, SendPacket, Sending, Publish, Published,
         PublishTimesOut, Transmit, Discard, Handling, HandleMessage, Consume, Receive,
         SendFrame, client, calls
-----------------------------------------------------------------------------
(***************************************************************************)
(* ChannelsSubscribed is inductive with the types: each way to lose a      *)
(* subscription ends the connection, and each connection begins with a     *)
(* callback that reads the channels later, under mu.                       *)
(***************************************************************************)

\* A step outside the callbacks and AddChannel's Subscribe preserves it.
LEMMA SubscribedCallbacks ==
    ASSUME TypeOK, ChannelsSubscribed, NEW t \in Threads, Callback(t)
    PROVE  ChannelsSubscribed'
<1> SUFFICES ASSUME link' = "up", NEW n \in channels', n \notin subs'
             PROVE \E u \in Threads : Covers(u, n)'
  BY Zenon DEF ChannelsSubscribed
<1>1. link = "up" /\ n \in channels /\ n \notin subs
  BY DEF Callback, OnConnected, OnConnectionLost, Resubscribed, Emit, Resubscribe,
         SubscribeAll, client
<1>2. PICK u \in Threads : Covers(u, n)
  BY <1>1, Zenon DEF ChannelsSubscribed
<1>3. CASE u # t
  <2>1. cb'[u] = cb[u]
    BY <1>3 DEF Callback, OnConnected, OnConnectionLost, Resubscribed, Emit, Resubscribe,
                TypeOK
  <2> QED BY <1>2, <2>1 DEF Covers
<1>4. CASE u = t
  <2>1. CASE OnConnected(t)
    BY <1>1, <1>4, <2>1 DEF OnConnected, Covers, TypeOK, CallbackRun
  <2>2. ASSUME NEW m \in Names, Resubscribe(t, m) PROVE Covers(t, n)'
    <3>1. m # n
      BY <1>1, <2>2 DEF Resubscribe, SubscribeAll
    <3> QED BY <1>2, <1>4, <2>2, <3>1 DEF Resubscribe, Covers, TypeOK, CallbackRun
  <2>3. ~(OnConnectionLost(t) \/ Resubscribed(t) \/ Emit(t))
    BY <1>2, <1>4 DEF OnConnectionLost, Resubscribed, Emit, Covers
  <2> QED BY <2>1, <2>2, <2>3 DEF Callback
<1> QED BY <1>3, <1>4

\* AddChannel against OnConnect and a lost session: no channel is left without a
\* subscription while the client is connected, unless a callback is about to ask for it.
THEOREM SubscribedAlways == Spec => []ChannelsSubscribed
<1>1. Init => ChannelsSubscribed
  BY DEF Init, ChannelsSubscribed
<1>2. TypeOK /\ ChannelsSubscribed /\ [Next]_vars => ChannelsSubscribed'
  <2> SUFFICES ASSUME TypeOK, ChannelsSubscribed, [Next]_vars PROVE ChannelsSubscribed'
    OBVIOUS
  <2>1. CASE Start \/ StartFails \/ Stop \/ Disconnected
    BY <2>1 DEF Start, StartFails, Stop, Disconnected, ChannelsSubscribed
  <2>2. ASSUME NEW t \in Threads, StartSucceeds(t) \/ Reconnected(t)
        PROVE ChannelsSubscribed'
    <3>1. Spawn(t, "connected")
      BY <2>2 DEF StartSucceeds, Reconnected, Connected
    <3>2. cb'[t].kind = "connected" /\ cb'[t].pc = "lock"
      BY <3>1 DEF Spawn, TypeOK, CallbackRun
    <3> QED BY <3>2 DEF ChannelsSubscribed, Covers
  <2>3. ASSUME NEW t \in Threads, NEW kept \in BOOLEAN, LoseLink(t, kept)
        PROVE ChannelsSubscribed'
    BY <2>3 DEF LoseLink, ChannelsSubscribed
  <2>4. ASSUME NEW t \in Threads, Callback(t) PROVE ChannelsSubscribed'
    BY <2>4, SubscribedCallbacks
  <2>5. ASSUME NEW n \in Names, AddChannel(n) PROVE ChannelsSubscribed'
    <3>1. UNCHANGED <<link, cb>> /\ channels' = channels \cup {n}
      BY <2>5 DEF AddChannel, calls
    <3>2. link = "up" => subs' = subs \cup {n}
      BY <2>5 DEF AddChannel, SubscribeAll, ClientConnected
    <3> QED BY <3>1, <3>2 DEF ChannelsSubscribed, Covers
  <2>6. CASE Aside \/ UNCHANGED vars
    <3>1. UNCHANGED <<link, channels, cb, subs>>
      BY <2>6, AsideFrame DEF vars, client, calls
    <3> QED BY <3>1 DEF ChannelsSubscribed, Covers
  <2> QED BY <2>1, <2>2, <2>3, <2>4, <2>5, <2>6 DEF Next, Aside
<1> QED BY <1>1, <1>2, TypeCorrect, PTL DEF Spec
-----------------------------------------------------------------------------
(***************************************************************************)
(* FlagExact is not inductive: it takes the state while a callback waits.  *)
(***************************************************************************)

\* While callbacks do not overlap at most one of them waits for mu, it is the one for
\* the present state of the link, and without one the flag is exact.
FlagInv ==
    link \in {"up", "reconnecting"} /\ ~crossed =>
        /\ \A t, u \in Threads : cb[t].pc = "lock" /\ cb[u].pc = "lock" => t = u
        /\ \A t \in Threads : cb[t].pc = "lock" =>
              cb[t].kind = IF link = "up" THEN "connected" ELSE "lost"
        /\ (\A t \in Threads : cb[t].pc # "lock") => (connected <=> link = "up")

\* A callback started by a change of the link is the only one that waits, or crossed
\* is set.
LEMMA SpawnFlag ==
    ASSUME TypeOK, NEW t \in Threads, NEW kind \in {"connected", "lost"}, Spawn(t, kind),
           link' = IF kind = "connected" THEN "up" ELSE "reconnecting"
    PROVE  FlagInv'
<1> SUFFICES ASSUME ~crossed' PROVE FlagInv'
  BY Zenon DEF FlagInv
<1>1. \A u \in Threads : cb[u].pc # "lock"
  BY Zenon DEF Spawn
<1>2. cb'[t].kind = kind /\ cb'[t].pc = "lock"
  BY DEF Spawn, TypeOK, CallbackRun
<1>3. \A u \in Threads : u # t => cb'[u].pc # "lock"
  BY <1>1 DEF Spawn, TypeOK
<1> QED BY <1>2, <1>3 DEF FlagInv

\* The connected flag under callbacks that run on goroutines of their own: it is the
\* state of the link, as long as the last two callbacks did not wait together.
THEOREM FlagExactAlways == Spec => []FlagExact
<1>1. Init => FlagInv
  BY DEF Init, FlagInv
<1>2. TypeOK /\ FlagInv /\ [Next]_vars => FlagInv'
  <2> SUFFICES ASSUME TypeOK, FlagInv, [Next]_vars PROVE FlagInv'
    OBVIOUS
  <2>1. CASE Start \/ StartFails \/ Stop \/ Disconnected
    BY <2>1 DEF Start, StartFails, Stop, Disconnected, FlagInv
  <2>2. ASSUME NEW t \in Threads, StartSucceeds(t) \/ Reconnected(t) PROVE FlagInv'
    BY <2>2, SpawnFlag DEF StartSucceeds, Reconnected, Connected
  <2>3. ASSUME NEW t \in Threads, NEW kept \in BOOLEAN, LoseLink(t, kept) PROVE FlagInv'
    BY <2>3, SpawnFlag DEF LoseLink
  <2>4. ASSUME NEW t \in Threads, OnConnected(t) \/ OnConnectionLost(t) PROVE FlagInv'
    <3> SUFFICES ASSUME link' \in {"up", "reconnecting"}, ~crossed' PROVE FlagInv'
      BY Zenon DEF FlagInv
    <3>1. UNCHANGED <<link, crossed>>
      BY <2>4 DEF OnConnected, OnConnectionLost, client
    <3>2. cb'[t].pc # "lock" /\ \A u \in Threads : u # t => cb'[u] = cb[u]
      BY <2>4 DEF OnConnected, OnConnectionLost, TypeOK, CallbackRun
    <3>3. \A u \in Threads : cb'[u].pc # "lock"
      BY <2>4, <3>1, <3>2 DEF OnConnected, OnConnectionLost, FlagInv
    <3>4. connected' <=> link' = "up"
      BY <2>4, <3>1 DEF OnConnected, OnConnectionLost, FlagInv
    <3> QED BY <3>3, <3>4 DEF FlagInv
  <2>5. ASSUME NEW t \in Threads,
               Resubscribed(t) \/ Emit(t) \/ \E n \in Names : Resubscribe(t, n)
        PROVE FlagInv'
    <3>1. UNCHANGED <<link, crossed, connected>>
      BY <2>5 DEF Resubscribed, Emit, Resubscribe, client
    <3>2. \A u \in Threads : /\ cb'[u].pc = "lock" <=> cb[u].pc = "lock"
                             /\ cb[u].pc = "lock" => cb'[u] = cb[u]
      <4>1. cb[t].pc # "lock"
        BY <2>5 DEF Resubscribed, Emit, Resubscribe
      <4>2. \A u \in Threads : u # t => cb'[u] = cb[u]
        BY <2>5 DEF Resubscribed, Emit, Resubscribe, TypeOK
      <4>3. CASE Resubscribed(t) \/ Emit(t)
        BY <4>1, <4>2, <4>3 DEF Resubscribed, Emit, NoCallback, TypeOK, CallbackRun
      <4>4. ASSUME NEW n \in Names, Resubscribe(t, n) PROVE cb'[t].pc = cb[t].pc
        BY <4>4 DEF Resubscribe, TypeOK, CallbackRun
      <4> QED BY <2>5, <4>1, <4>2, <4>3, <4>4
    <3> QED BY <3>1, <3>2 DEF FlagInv
  <2>6. CASE Aside \/ (\E n \in Names : AddChannel(n)) \/ UNCHANGED vars
    <3>1. UNCHANGED <<link, crossed, connected, cb>>
      BY <2>6, AsideFrame DEF AddChannel, vars, client, calls
    <3> QED BY <3>1 DEF FlagInv
  <2> QED BY <2>1, <2>2, <2>3, <2>4, <2>5, <2>6 DEF Next, Aside, Callback
<1>3. FlagInv => FlagExact
  BY Zenon DEF FlagInv, FlagExact
<1> QED BY <1>1, <1>2, <1>3, TypeCorrect, PTL DEF Spec
-----------------------------------------------------------------------------
(***************************************************************************)
(* What SendPacket's nil is worth, and what reaches the packet handler.    *)
(***************************************************************************)

\* A call that is still steady has a connection; Stop holds mu exactly while it waits,
\* and from then on the client is closing.
SteadyInv ==
    /\ \A s \in Senders : snd[s].steady => link = "up"
    /\ stop = "disconnect" => link = "closing"

\* Only the steps of the sender itself set steady, and only on a connected client.
LEMMA SendingSteady ==
    ASSUME TypeOK, SteadyInv, NilMeansSent, NEW s \in Senders,
           SendPacket(s) \/ Sending(s) \/ Transmit(s) \/ Discard(s)
    PROVE  SteadyInv' /\ NilMeansSent'
<1>1. UNCHANGED <<link, stop>>
  BY DEF SendPacket, Sending, Publish, Published, PublishTimesOut, Transmit, Discard,
         SendFrame, client
<1>2. \A u \in Senders : u # s => snd'[u] = snd[u]
  BY DEF SendPacket, Sending, Publish, Published, PublishTimesOut, Transmit, Discard, TypeOK
<1>3. /\ snd'[s].steady => link = "up"
      /\ snd'[s].result = "ok" /\ snd'[s].steady => snd'[s].fate = "out"
  <2>1. CASE SendPacket(s)
    BY <2>1 DEF SendPacket, TypeOK, SendCall
  <2>2. CASE Publish(s)
    <3>1. snd'[s].steady = snd[s].steady
      BY <2>2 DEF Publish, TypeOK, SendCall
    <3>2. link = "up" => snd'[s].result = "none"
      BY <2>2 DEF Publish, TypeOK, SendCall
    <3> QED BY <3>1, <3>2 DEF SteadyInv
  <2>3. CASE Published(s) \/ PublishTimesOut(s)
    BY <2>3 DEF Published, PublishTimesOut, TypeOK, SendCall, SteadyInv
  <2>4. CASE Transmit(s) \/ Discard(s)
    BY <2>4 DEF Transmit, Discard, TypeOK, SendCall, SteadyInv, NilMeansSent
  <2> QED BY <2>1, <2>2, <2>3, <2>4 DEF Sending
<1> QED BY <1>1, <1>2, <1>3 DEF SteadyInv, NilMeansSent

\* A nil of SendPacket on a connection that lasted means that the message has left,
\* whatever the callbacks, AddChannel and Stop do meanwhile.
THEOREM NilMeansSentAlways == Spec => []NilMeansSent
<1> DEFINE Inv == SteadyInv /\ NilMeansSent
<1>1. Init => Inv
  BY DEF Init, SteadyInv, NilMeansSent, NotSending
<1>2. TypeOK /\ Inv /\ [Next]_vars => Inv'
  <2> SUFFICES ASSUME TypeOK, Inv, [Next]_vars PROVE Inv'
    OBVIOUS
  <2>1. ASSUME snd' = Unsteady, stop' = "disconnect" => link' = "closing" PROVE Inv'
    <3>1. \A s \in Senders : snd'[s].steady = FALSE
      BY <2>1 DEF Unsteady, TypeOK, SendCall
    <3> QED BY <2>1, <3>1 DEF SteadyInv, NilMeansSent
  <2>2. CASE Stop
    BY <2>1, <2>2 DEF Stop
  <2>3. ASSUME NEW t \in Threads, StartSucceeds(t) \/ Reconnected(t) PROVE Inv'
    BY <2>1, <2>3 DEF StartSucceeds, Reconnected, Connected, SteadyInv
  <2>4. ASSUME NEW t \in Threads, NEW kept \in BOOLEAN, LoseLink(t, kept) PROVE Inv'
    BY <2>1, <2>4 DEF LoseLink, SteadyInv
  <2>5. CASE Start \/ StartFails \/ Disconnected
    BY <2>5 DEF Start, StartFails, Disconnected, SteadyInv, NilMeansSent
  <2>6. ASSUME NEW s \in Senders, SendPacket(s) \/ Sending(s) \/ Transmit(s) \/ Discard(s)
        PROVE Inv'
    BY <2>6, SendingSteady
  <2>7. ASSUME UNCHANGED <<link, stop, snd>> PROVE Inv'
    BY <2>7 DEF SteadyInv, NilMeansSent
  <2>8. CASE OnReconnecting \/ DialFails \/ (\E n \in Names : AddChannel(n)) \/ UNCHANGED vars
    BY <2>7, <2>8 DEF OnReconnecting, DialFails, AddChannel, vars, client
  <2>9. ASSUME NEW t \in Threads, Callback(t) PROVE Inv'
    BY <2>7, <2>9 DEF Callback, OnConnected, OnConnectionLost, Resubscribed, Emit,
                      Resubscribe, client
  <2>10. ASSUME NEW h \in Handlers,
                Handling(h) \/ \E e \in Envelopes \cup Echoes : Receive(h, e)
         PROVE Inv'
    BY <2>7, <2>10 DEF Handling, HandleMessage, Consume, Receive, client
  <2> QED BY <2>2, <2>3, <2>4, <2>5, <2>6, <2>8, <2>9, <2>10 DEF Next
<1> QED BY <1>1, <1>2, TypeCorrect, PTL DEF Spec

\* The broker returns what this node publishes; sanitizeInbound keeps it, and every
\* field only a local radio may fill, from the packet handler.
THEOREM NoEchoAlways == Spec => []NoEcho
<1>1. Init => NoEcho
  BY DEF Init, NoEcho
<1>2. TypeOK /\ NoEcho /\ [Next]_vars => NoEcho'
  <2> SUFFICES ASSUME TypeOK, NoEcho, [Next]_vars PROVE NoEcho'
    OBVIOUS
  <2>1. ASSUME NEW h \in Handlers, NEW replies \in BOOLEAN, HandleMessage(h, replies)
        PROVE NoEcho'
    <3>1. CASE delivered' = delivered
      BY <3>1 DEF NoEcho
    <3>2. CASE Accepts(inb[h].msg) /\ delivered' = delivered \cup {Sanitized(inb[h].msg)}
      <4>1. inb[h].msg \in Envelope
        BY <2>1 DEF TypeOK, HandleMessage, NoMessage, Message
      <4>2. /\ Sanitized(inb[h].msg).gateway = inb[h].msg.gateway
            /\ Sanitized(inb[h].msg).trusted = FALSE
        BY <4>1 DEF Sanitized, Envelope
      <4> QED BY <3>2, <4>2 DEF NoEcho, Accepts
    <3> QED BY <2>1, <3>1, <3>2 DEF HandleMessage
  <2>2. ASSUME UNCHANGED delivered PROVE NoEcho'
    BY <2>2 DEF NoEcho
  <2>3. CASE Start \/ StartFails \/ Stop \/ Disconnected \/ OnReconnecting \/ DialFails
    BY <2>2, <2>3 DEF Start, StartFails, Stop, Disconnected, OnReconnecting, DialFails
  <2>4. ASSUME NEW t \in Threads,
               \/ StartSucceeds(t) \/ Reconnected(t) \/ Callback(t)
               \/ \E kept \in BOOLEAN : LoseLink(t, kept)
        PROVE NoEcho'
    BY <2>2, <2>4 DEF StartSucceeds, Reconnected, Connected, LoseLink, Callback, OnConnected,
                      OnConnectionLost, Resubscribed, Emit, Resubscribe
  <2>5. ASSUME NEW s \in Senders, SendPacket(s) \/ Sending(s) \/ Transmit(s) \/ Discard(s)
        PROVE NoEcho'
    BY <2>2, <2>5 DEF SendPacket, Sending, Publish, Published, PublishTimesOut, Transmit,
                      Discard, SendFrame
  <2>6. ASSUME NEW h \in Handlers, Consume(h) \/ \E e \in Envelopes \cup Echoes : Receive(h, e)
        PROVE NoEcho'
    BY <2>2, <2>6 DEF Consume, Receive
  <2>7. CASE (\E n \in Names : AddChannel(n)) \/ UNCHANGED vars
    BY <2>2, <2>7 DEF AddChannel, vars
  <2> QED BY <2>1, <2>3, <2>4, <2>5, <2>6, <2>7 DEF Next, Handling
<1> QED BY <1>1, <1>2, TypeCorrect, PTL DEF Spec
-----------------------------------------------------------------------------
\* The client stays closed: only Start and the reconnect loop open a connection, and each
\* of them from a state a client that is closed never returns to.
ClosedInv ==
    /\ stop = "disconnect" => link = "closing"
    /\ stop = "done" => link = "closed"

\* Once Stop has returned IsConnected stays false, whatever callback was waiting for mu
\* behind it and sets connected afterwards.
THEOREM StopSticksAlways == Spec => []StopSticks
<1>1. Init => ClosedInv
  BY DEF Init, ClosedInv
<1>2. TypeOK /\ ClosedInv /\ [Next]_vars => ClosedInv'
  <2> SUFFICES ASSUME TypeOK, ClosedInv, [Next]_vars PROVE ClosedInv'
    OBVIOUS
  <2>1. CASE Start \/ StartFails \/ Stop \/ Disconnected
    BY <2>1 DEF Start, StartFails, Stop, Disconnected, ClosedInv
  <2>2. ASSUME NEW t \in Threads,
               StartSucceeds(t) \/ Reconnected(t) \/ \E kept \in BOOLEAN : LoseLink(t, kept)
        PROVE ClosedInv'
    <3>1. link \in {"dialing", "reconnecting", "up"} /\ stop' = stop
      BY <2>2 DEF StartSucceeds, Reconnected, Connected, LoseLink
    <3>2. stop \notin {"disconnect", "done"}
      BY <3>1 DEF ClosedInv
    <3> QED BY <3>1, <3>2 DEF ClosedInv
  <2>3. CASE \/ Aside \/ (\E n \in Names : AddChannel(n)) \/ UNCHANGED vars
             \/ \E t \in Threads : Callback(t)
    <3>1. UNCHANGED <<link, stop>>
      BY <2>3 DEF Aside, OnReconnecting, DialFails, SendPacket, Sending, Publish, Published,
                  PublishTimesOut, Transmit, Discard, Handling, HandleMessage, Consume,
                  Receive, SendFrame, AddChannel, Callback, OnConnected, OnConnectionLost,
                  Resubscribed, Emit, Resubscribe, vars, client
    <3> QED BY <3>1 DEF ClosedInv
  <2> QED BY <2>1, <2>2, <2>3 DEF Next, Aside
<1>3. ClosedInv => StopSticks
  BY DEF ClosedInv, StopSticks, IsConnected, ClientConnected
<1> QED BY <1>1, <1>2, <1>3, TypeCorrect, PTL DEF Spec
=============================================================================
