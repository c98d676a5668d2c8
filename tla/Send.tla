-------------------------------- MODULE Send --------------------------------
(***************************************************************************)
(* The send path of device/node: every Send and Send...As operation of     *)
(* Node and BridgeNode down to RawTransport.SendPacket, that is the choice *)
(* of channel, PKI with its PSK fallback, packet IDs, hop limits, signing, *)
(* encryption and the pacing lock.                                         *)
(*                                                                         *)
(* Senders are goroutines inside one call each.  A call is cut where the   *)
(* code takes a lock or blocks: NodeDB and registry reads, the packet ID   *)
(* generator, the pacing mutex and the transport.  Meanwhile the receive   *)
(* pipeline learns keys and channels (Hear, LearnKey) and a bridge gains   *)
(* channels (AddChannel).                                                  *)
(*                                                                         *)
(* Encryption is abstract: a frame records the key it was made with (a     *)
(* channel, or the pair of nodes) and the ID its nonce and its signature   *)
(* were made from.  Sizes are those of the frame with a signature but      *)
(* without the OK-to-MQTT bit.  Any ID may be drawn here; which ones       *)
(* packetIDGenerator draws is the subject of PacketId.                     *)
(***************************************************************************)
EXTENDS Naturals, Sequences, FiniteSets

CONSTANTS
    Senders, NoSender,    \* goroutines inside a send, and none of them
    Jobs,                 \* senders that are broadcast jobs of the scheduler
    Once,                 \* bound: senders that make one call
    Nodes, Broadcast,     \* node IDs; the broadcast addresses
    Self, IsBridge,       \* own ID; BridgeNode or Node
    Managed,              \* BridgeConfig.IsManagedNode
    PrivateFor,           \* local nodes whose private key is available
    Introducible,         \* identities buildUserFor can build a valid User for
    Licensed, OkToMQTT,   \* Config.Licensed, Config.OkToMQTT
    HopLimit, MaxHops,    \* default hop limit, core.MaxHops
    Channels, NoChannel, NoName,
    Configured,           \* Channels.Settings, the primary first
    ChHash, ChName,       \* wire hash and name of a channel
    Ids, NoId, Stale,     \* packet IDs; none; a signature over something else
    MaxFrame, MqttBit,    \* core.MaxLoraPayload; length of the bitfield field
    MaxSize,              \* frames beyond it have more than core.MaxDataPayload
    SendDelay,            \* the pacing delay, in ticks
    Options,              \* the send options a caller may pass, see Option
    Sizes,                \* frame sizes tried
    ClientPackets         \* packets a client may hand over, see ClientPacket

Names == {ChName[c] : c \in Channels}
Targets == Nodes \cup {Broadcast}
Ports == {"TEXT", "NODEINFO", "MAP_REPORT", "OTHER"}

\* sendOptions: WithPKI, WithChannelDef, WithChannel.
Option == [pki : BOOLEAN, def : Channels \cup {NoChannel}, name : Names \cup {NoName}]

\* The fields of a ToRadio packet the path looks at: Channel, PkiEncrypted,
\* HopLimit and whether its Data carries a signature.  Its payload is decoded,
\* as clients send it.
ClientPacket == [from : Nodes, to : Targets, hash : Nat, flag : BOOLEAN, hop : 0..MaxHops,
                 preset : BOOLEAN, size : Nat]

\* What an API call asks of the path: mode "try" is PKI with a PSK fallback
\* (SendData), the others are sendAs's EncryptionMode.  via tells sendPacketOn
\* from sendAs.  asked is the caller's WithChannelDef, def what became of it.
Request == [via : {"base", "as"}, from : Nodes, to : Targets, port : Ports,
            mode : {"psk", "try", "pki", "none"}, asked : Channels \cup {NoChannel},
            def : Channels \cup {NoChannel}, name : Names \cup {NoName}, size : Nat,
            preset : BOOLEAN, client : BOOLEAN, hash : Nat, flag : BOOLEAN, hop : 0..MaxHops]

\* A MeshPacket handed to the transport.  chan is the topic and, under "psk",
\* the key; nonce and sig are the IDs they were computed from.
Frame == [how : {"psk", "pki", "clear"}, flag : BOOLEAN, hash : Nat, chan : Channels,
          id : Ids, nonce : Ids, sig : Ids \cup {NoId, Stale}, size : Nat,
          hops : Nat, start : Nat]

ASSUME SendAssumption ==
    /\ NoSender \notin Senders /\ Jobs \subseteq Senders /\ Once \subseteq Senders
    /\ Broadcast \notin Nodes
    /\ Self \in Nodes
    /\ {IsBridge, Licensed, OkToMQTT} \subseteq BOOLEAN
    /\ Managed \subseteq Nodes /\ PrivateFor \subseteq Nodes /\ Introducible \subseteq Nodes
    /\ MaxHops \in Nat /\ HopLimit \in 1..MaxHops
    /\ NoChannel \notin Channels
    /\ NoName \notin Names
    /\ ChHash \in [Channels -> Nat]
    /\ Configured \in Seq(Channels) /\ Configured # <<>>
    /\ Ids # {} /\ {NoId, Stale} \cap Ids = {} /\ NoId # Stale
    /\ MaxFrame \in Nat /\ MqttBit \in Nat /\ MaxSize \in Nat /\ SendDelay \in Nat
    /\ Options \subseteq Option /\ Options # {}
    /\ Sizes \subseteq Nat /\ Sizes # {}
    /\ ClientPackets \subseteq ClientPacket

VARIABLES
    registry,  \* ChannelRegistry, in registration order
    heard,     \* NodeDB.channels
    keyed,     \* nodes whose public key the lookup finds
    lock,      \* holder of sendMu
    since,     \* ticks since lastSend, up to SendDelay
    quiet,     \* history: ticks since a transport send began, up to SendDelay
    pc,        \* pc[s]: the next lock section of the call
    req,       \* req[s]: the request of the call
    chan,      \* chan[s]: the channel resolved
    pid,       \* pid[s]: sendAs's packetID
    frame,     \* frame[s]: the packet under construction
    out,       \* history: out[s], the frames the call handed to the transport,
               \* with the transport's verdict
    result     \* result[s]: what the last call of s returned

net == <<registry, heard, keyed>>
pacing == <<lock, since, quiet>>
vars == <<net, pacing, pc, req, chan, pid, frame, out, result>>

Stages == {"idle", "pki", "channel", "stamp", "id", "seal", "lock", "pace", "sending"}
Sent == [frame : Frame, ok : BOOLEAN]

\* The types of the registry, the locals of a send and the frames it builds; a frame always
\* has a channel, a packet ID and hop counts (what sendPacketOn and sendAs fill in).
TypeOK ==
    /\ registry \in Seq(Channels)
    /\ heard \in [Nodes -> Channels \cup {NoChannel}]
    /\ keyed \subseteq Nodes
    /\ lock \in Senders \cup {NoSender}
    /\ since \in 0..SendDelay
    /\ quiet \in 0..SendDelay
    /\ pc \in [Senders -> Stages]
    /\ req \in [Senders -> Request]
    /\ chan \in [Senders -> Channels]
    /\ pid \in [Senders -> Ids]
    /\ frame \in [Senders -> Frame]
    /\ out \in [Senders -> Seq(Sent)]
    /\ result \in [Senders -> {"none", "ok", "err"}]

Primary == Configured[1]

\* A packet of Node n with everything left to the defaults.
Plain(from, to, port, size) ==
    [via |-> "base", from |-> from, to |-> to, port |-> port, mode |-> "psk",
     asked |-> NoChannel, def |-> NoChannel, name |-> NoName, size |-> size, preset |-> FALSE,
     client |-> FALSE, hash |-> 0, flag |-> FALSE, hop |-> 0]

\* The locals of a call that has not set them yet.
AnyId == CHOOSE i \in Ids : TRUE
NoFrame == [how |-> "psk", flag |-> FALSE, hash |-> ChHash[Primary], chan |-> Primary,
            id |-> AnyId, nonce |-> AnyId, sig |-> NoId, size |-> 0, hops |-> 1, start |-> 1]

Init ==
    /\ registry = Configured
    /\ heard = [n \in Nodes |-> NoChannel]
    /\ keyed = {}
    /\ lock = NoSender
    /\ since = SendDelay          \* lastSend.IsZero: the first send does not wait
    /\ quiet = SendDelay
    /\ pc = [s \in Senders |-> "idle"]
    /\ req = [s \in Senders |-> Plain(Self, Broadcast, "OTHER", 0)]
    /\ chan = [s \in Senders |-> Primary]
    /\ pid = [s \in Senders |-> AnyId]
    /\ frame = [s \in Senders |-> NoFrame]
    /\ out = [s \in Senders |-> <<>>]
    /\ result = [s \in Senders |-> "none"]
-----------------------------------------------------------------------------
(***************************************************************************)
(* Helpers.                                                                *)
(***************************************************************************)

Goto(s, stage) == pc' = [pc EXCEPT ![s] = stage]

\* ChannelRegistry.Lookup and ResolveByName.
Registered == {registry[i] : i \in 1..Len(registry)}
Lookup(hash) ==
    LET hashed == {i \in 1..Len(registry) : ChHash[registry[i]] = hash}
    IN  IF hashed = {} THEN NoChannel
        ELSE registry[CHOOSE i \in hashed : \A j \in hashed : i <= j]
ResolveByName(name) ==
    LET named == {c \in Registered : ChName[c] = name}
    IN  IF Cardinality(named) = 1 THEN CHOOSE c \in named : TRUE ELSE NoChannel

\* channelForDestination.
ChannelForDestination(to, pki) ==
    IF ~pki /\ to # Broadcast /\ heard[to] # NoChannel THEN heard[to] ELSE Primary

\* The channel a request goes out on, NoChannel when its name does not resolve.
ChannelOf(r, pki) ==
    IF r.def # NoChannel THEN r.def
    ELSE IF r.name # NoName THEN ResolveByName(r.name)
    ELSE ChannelForDestination(r.to, pki)

\* signOutbound: what the packet is signed over, if anything.
Signable(r, pki) == ~pki /\ (Licensed \/ r.to = Broadcast) /\ r.from \in PrivateFor
\* Mutant: the size is not checked.
SignAnySize(r, size, pki, id) == IF Signable(r, pki) THEN id ELSE NoId
SignOutbound(r, size, pki, id) ==
    IF Signable(r, pki) /\ size <= MaxFrame THEN id ELSE NoId

\* adjustHopForRelay and applyHopLimits: one extra hop for another identity.
RelayHop(from, hops) ==
    IF IsBridge /\ from # Self THEN (IF hops + 1 > MaxHops THEN MaxHops ELSE hops + 1)
    ELSE hops

\* applyPacketDefaults: a hop limit the caller left at zero.
Hops(r) == IF r.hop # 0 THEN r.hop ELSE HopLimit
-----------------------------------------------------------------------------
(***************************************************************************)
(* The API.  Call starts a request, Refuse returns an error at once.       *)
(***************************************************************************)

\* A sender in no call; one in Once has not made a call before.
MayCall(s) == pc[s] = "idle" /\ (s \in Once => result[s] = "none")

CallFrame(s) ==
    /\ chan' = [chan EXCEPT ![s] = Primary]
    /\ pid' = [pid EXCEPT ![s] = AnyId]
    /\ frame' = [frame EXCEPT ![s] = NoFrame]
    /\ UNCHANGED <<net, pacing>>

Call(s, r, stage) ==
    /\ MayCall(s)
    /\ Goto(s, stage)
    /\ req' = [req EXCEPT ![s] = r]
    /\ out' = [out EXCEPT ![s] = <<>>]
    /\ result' = [result EXCEPT ![s] = "none"]
    /\ CallFrame(s)

Refuse(s, r) ==
    /\ MayCall(s)
    /\ req' = [req EXCEPT ![s] = r]
    /\ out' = [out EXCEPT ![s] = <<>>]
    /\ result' = [result EXCEPT ![s] = "err"]
    /\ UNCHANGED pc
    /\ CallFrame(s)

WithOption(r, o) == [r EXCEPT !.asked = o.def, !.def = o.def, !.name = o.name]
TryPki(r, pki) == [r EXCEPT !.mode = IF pki THEN "try" ELSE "psk"]
Start(r) == IF r.mode = "try" THEN "pki" ELSE "channel"

\* Node.SendText: with PKI it goes through SendData, which takes no channel.
SendText(s, to, o, n) ==
    LET r == Plain(Self, to, "TEXT", n)
    IN  IF n > MaxSize THEN Refuse(s, r)
        ELSE IF o.pki THEN Call(s, [TryPki(r, TRUE) EXCEPT !.asked = o.def], "pki")
        ELSE Call(s, WithOption(r, o), "channel")

\* Node.SendWaypoint and SendMeshBeacon: they refuse what is too large, and know
\* no PKI.
SendWaypoint(s, to, o, n) ==
    LET r == WithOption(Plain(Self, to, "OTHER", n), o)
    IN  IF n > MaxSize THEN Refuse(s, r) ELSE Call(s, r, "channel")
SendMeshBeacon(s, o, n) == SendWaypoint(s, Broadcast, o, n)

\* Operations without options: SendAck, SendNack, RequestTraceroute, the replies
\* respondNodeInfo and respondPosition; broadcast NodeInfo, position, neighbors.
SendPlain(s, to, n) == Call(s, Plain(Self, to, "OTHER", n), "channel")
SendMapReport(s, n) == Call(s, Plain(Self, Broadcast, "MAP_REPORT", n), "channel")

\* Node.SendData: the Data is the caller's, a signature in it included.
SendData(s, to, pki, preset, n) ==
    LET r == TryPki([Plain(Self, to, "OTHER", n) EXCEPT !.preset = preset], pki)
    IN  Call(s, r, Start(r))

\* OnOutboundPacket as New installs it: the client's Channel is looked up as a
\* hash; one that is not registered leaves the choice to channelForDestination.
FromClient(s, p) ==
    Call(s, [Plain(p.from, p.to, "OTHER", p.size) EXCEPT
               !.def = Lookup(p.hash), !.preset = p.preset, !.client = TRUE,
               !.hash = p.hash, !.flag = p.flag, !.hop = p.hop], "channel")

\* sendAs's checks, after those of its caller.
SendAs(s, r) ==
    IF r.from \notin Managed \/ r.size > MaxSize THEN Refuse(s, r) ELSE Call(s, r, "id")
As(from, to, port, mode, n) ==
    [Plain(from, to, port, n) EXCEPT !.via = "as", !.mode = mode]
EncModeFor(o) == IF o.pki THEN "pki" ELSE "psk"

\* SendTextAs and SendNodeInfoAs pass on the channel name only.
Named(r, o) == [r EXCEPT !.asked = o.def, !.name = o.name]
SendTextAs(s, from, to, o, n) == SendAs(s, Named(As(from, to, "TEXT", EncModeFor(o), n), o))
SendNodeInfoAs(s, from, to, o, n) ==
    LET r == Named(As(from, to, "NODEINFO", EncModeFor(o), n), o)
    IN  IF from \notin Introducible THEN Refuse(s, r) ELSE SendAs(s, r)

\* Position, telemetry, reaction, waypoint, beacon, traceroute, neighbor reply.
SendPayloadAs(s, from, to, o, n) ==
    SendAs(s, WithOption(As(from, to, "OTHER", EncModeFor(o), n), o))

\* SendNackAs and SendNeighborInfoAs; sendNodeInfoResponse of the receive path.
SendPlainAs(s, from, to, n) == SendAs(s, As(from, to, "OTHER", "psk", n))
SendMapReportAs(s, from, located, n) ==
    LET r == As(from, Broadcast, "MAP_REPORT", "none", n)
    IN  IF ~located THEN Refuse(s, r) ELSE SendAs(s, r)

\* SendDataAs and SendAckAs take Node's path, with adjustHopForRelay.
SendDataAs(s, from, to, pki, preset, n) ==
    LET r == TryPki([Plain(from, to, "OTHER", n) EXCEPT
                       !.preset = preset,
                       !.hop = IF from = Self THEN 0 ELSE RelayHop(from, HopLimit)], pki)
    IN  IF from \notin Managed THEN Refuse(s, r) ELSE Call(s, r, Start(r))
SendAckAs(s, from, to, n) == SendDataAs(s, from, to, FALSE, FALSE, n)
-----------------------------------------------------------------------------
(***************************************************************************)
(* Inside a call.                                                          *)
(***************************************************************************)

\* The packet sendPKIPacket builds: the caller's Data is encrypted as it is, preset
\* signature included, on channel 0 under a fresh ID.
PkiFrame(r, i) ==
    LET hops == RelayHop(r.from, HopLimit)
    IN  [how |-> "pki", flag |-> TRUE, hash |-> 0, chan |-> Primary, id |-> i, nonce |-> i,
         sig |-> IF r.preset THEN Stale ELSE NoId, size |-> r.size, hops |-> hops, start |-> hops]

\* sendPKIPacket and sendPKIPacketAs up to the lock.  Without both keys SendData
\* falls back to PSK.
TryPKI(s) ==
    LET r == req[s]
        keys == r.from \in PrivateFor /\ r.to \in keyed
    IN
    /\ pc[s] = "pki"
    /\ \/ /\ keys
          /\ \E i \in Ids : frame' = [frame EXCEPT ![s] = PkiFrame(r, i)]
          /\ Goto(s, "lock")
       \/ ~keys /\ Goto(s, "channel") /\ UNCHANGED frame
    /\ UNCHANGED <<net, pacing, req, chan, pid, out, result>>

\* The call returns.
Return(s, verdict) ==
    /\ Goto(s, "idle")
    /\ result' = [result EXCEPT ![s] = verdict]

\* sendPacketWith and sendPacket.
ResolveChannel(s) ==
    LET c == ChannelOf(req[s], req[s].flag)
    IN
    /\ pc[s] = "channel"
    /\ IF c = NoChannel THEN Return(s, "err") /\ UNCHANGED chan
       ELSE /\ chan' = [chan EXCEPT ![s] = c]
            /\ Goto(s, "stamp")
            /\ UNCHANGED result
    /\ UNCHANGED <<net, pacing, req, pid, frame, out>>

StampPacket(s) ==
    LET r == req[s]
        size == r.size + IF OkToMQTT THEN MqttBit ELSE 0
    IN
    /\ pc[s] = "stamp"
    /\ \E i \in Ids :
         frame' = [frame EXCEPT ![s] =
           [how |-> IF r.flag THEN "clear" ELSE "psk", flag |-> r.flag,
            hash |-> IF ~r.flag /\ r.hash = 0 THEN ChHash[chan[s]] ELSE r.hash,
            chan |-> chan[s], id |-> i, nonce |-> i,
            sig |-> SignOutbound(r, size, r.flag, i),
            size |-> size, hops |-> Hops(r), start |-> Hops(r)]]
    /\ Goto(s, "lock")
    /\ UNCHANGED <<net, pacing, req, chan, pid, out, result>>

\* sendAs, first part: the packet ID.
DrawId(s) ==
    /\ pc[s] = "id"
    /\ \E i \in Ids : pid' = [pid EXCEPT ![s] = i]
    /\ Goto(s, "seal")
    /\ UNCHANGED <<net, pacing, req, chan, frame, out, result>>

\* sendAs, second part: channel, signature, encryption.  There is no fallback
\* from PKI here.  The MQTT bit is always set.
AsFrame(s, c, how) ==
    LET r == req[s]
        hops == RelayHop(r.from, HopLimit)
    IN  [how |-> how, flag |-> how = "pki",
         hash |-> IF how = "psk" THEN ChHash[c] ELSE 0,
         chan |-> c, id |-> pid[s], nonce |-> pid[s],
         sig |-> SignOutbound(r, r.size + MqttBit, r.mode = "pki", pid[s]),
         size |-> r.size + MqttBit, hops |-> hops, start |-> hops]
Seal(s) ==
    LET r == req[s]
        c == ChannelOf(r, r.mode = "pki")
        keys == r.from \in PrivateFor /\ r.to \in keyed
    IN
    /\ pc[s] = "seal"
    /\ IF c = NoChannel \/ (r.mode = "pki" /\ ~keys)
       THEN Return(s, "err") /\ UNCHANGED frame
       ELSE /\ frame' = [frame EXCEPT ![s] =
                 AsFrame(s, c, IF r.mode = "none" THEN "clear" ELSE r.mode)]
            /\ Goto(s, "lock")
            /\ UNCHANGED result
    /\ UNCHANGED <<net, pacing, req, chan, pid, out>>
-----------------------------------------------------------------------------
(***************************************************************************)
(* Pacing and the transport.                                               *)
(***************************************************************************)

TakeLock(s) ==
    /\ pc[s] = "lock"
    /\ lock = NoSender
    /\ lock' = s
    /\ Goto(s, "pace")
    /\ UNCHANGED <<net, since, quiet, req, chan, pid, frame, out, result>>

\* The sleep is over: lastSend is set and transport.SendPacket called, with the
\* lock held.
\* Mutant: lastSend is not set.
BeginWithoutStamp(s) ==
    /\ pc[s] = "pace"
    /\ since >= SendDelay
    /\ quiet' = 0
    /\ Goto(s, "sending")
    /\ UNCHANGED <<net, lock, since, req, chan, pid, frame, out, result>>
BeginSend(s) ==
    /\ pc[s] = "pace"
    /\ since >= SendDelay
    /\ since' = 0
    /\ quiet' = 0
    /\ Goto(s, "sending")
    /\ UNCHANGED <<net, lock, req, chan, pid, frame, out, result>>

Deliver(s, ok) == out' = [out EXCEPT ![s] = Append(@, [frame |-> frame[s], ok |-> ok])]

\* transport.SendPacket returns, and the deferred Unlock runs.  An error of the
\* PKI attempt sends SendData on to its PSK fallback.
\* Mutant: SendData goes on to PSK after a PKI attempt that went well.
SendReturnsAndGoesOn(s) ==
    /\ pc[s] = "sending"
    /\ lock' = NoSender
    /\ Deliver(s, TRUE)
    /\ IF req[s].mode = "try" /\ frame[s].how = "pki"
       THEN Goto(s, "channel") /\ UNCHANGED result
       ELSE Return(s, "ok")
    /\ UNCHANGED <<net, since, quiet, req, chan, pid, frame>>
SendReturns(s) ==
    /\ pc[s] = "sending"
    /\ lock' = NoSender
    /\ Deliver(s, TRUE)
    /\ Return(s, "ok")
    /\ UNCHANGED <<net, since, quiet, req, chan, pid, frame>>

\* Mutants: the error is lost; a failed send is tried again for ever.
FailSilently(s) ==
    /\ pc[s] = "sending"
    /\ lock' = NoSender
    /\ Deliver(s, FALSE)
    /\ Return(s, "ok")
    /\ UNCHANGED <<net, since, quiet, req, chan, pid, frame>>
FailRetry(s) ==
    /\ pc[s] = "sending"
    /\ lock' = NoSender
    /\ Goto(s, "lock")
    /\ UNCHANGED <<net, since, quiet, req, chan, pid, frame, out, result>>
SendFails(s) ==
    /\ pc[s] = "sending"
    /\ lock' = NoSender
    /\ Deliver(s, FALSE)
    /\ IF req[s].mode = "try" /\ frame[s].how = "pki"
       THEN Goto(s, "channel") /\ UNCHANGED result
       ELSE Return(s, "err")
    /\ UNCHANGED <<net, since, quiet, req, chan, pid, frame>>

Capped(t) == IF t < SendDelay THEN t + 1 ELSE t
Tick ==
    /\ since < SendDelay \/ quiet < SendDelay
    /\ since' = Capped(since)
    /\ quiet' = Capped(quiet)
    /\ UNCHANGED <<net, lock, pc, req, chan, pid, frame, out, result>>

\* The receive pipeline records a key, or the channel a NodeInfo came on
\* (NodeDB.SetChannel; also BridgeNode.SetNodeChannel); a bridge registers a
\* channel (BridgeNode.AddChannel).
LearnKey(n) ==
    /\ n \notin keyed
    /\ keyed' = keyed \cup {n}
    /\ UNCHANGED <<registry, heard, pacing, pc, req, chan, pid, frame, out, result>>
Hear(n, c) ==
    /\ heard[n] # c
    /\ heard' = [heard EXCEPT ![n] = c]
    /\ UNCHANGED <<registry, keyed, pacing, pc, req, chan, pid, frame, out, result>>
AddChannel(c) ==
    /\ IsBridge
    /\ c \notin Registered
    /\ registry' = Append(registry, c)
    /\ UNCHANGED <<heard, keyed, pacing, pc, req, chan, pid, frame, out, result>>
-----------------------------------------------------------------------------
NodeCall(s) ==
    \/ \E to \in Targets, o \in Options, n \in Sizes :
          SendText(s, to, o, n) \/ SendWaypoint(s, to, o, n)
    \/ \E o \in Options, n \in Sizes : SendMeshBeacon(s, o, n)
    \/ \E to \in Targets, n \in Sizes : SendPlain(s, to, n)
    \/ \E n \in Sizes : SendMapReport(s, n)
    \/ \E to \in Targets, pki, preset \in BOOLEAN, n \in Sizes : SendData(s, to, pki, preset, n)
    \/ \E p \in ClientPackets : FromClient(s, p)

\* What a job of the broadcast scheduler calls: a small broadcast, no options.
JobCall(s) == SendPlain(s, Broadcast, 1)

BridgeCall(s) ==
    \E from \in Nodes, n \in Sizes :
        \/ \E to \in Targets, o \in Options :
              \/ SendTextAs(s, from, to, o, n) \/ SendNodeInfoAs(s, from, to, o, n)
              \/ SendPayloadAs(s, from, to, o, n)
        \/ \E to \in Targets : SendPlainAs(s, from, to, n) \/ SendAckAs(s, from, to, n)
        \/ \E located \in BOOLEAN : SendMapReportAs(s, from, located, n)
        \/ \E to \in Targets, pki, preset \in BOOLEAN : SendDataAs(s, from, to, pki, preset, n)

\* Packets in the name of a local node are dropped as echoes.
Remote == Nodes \ ({Self} \cup Managed)

Learn ==
    \/ \E n \in Remote : LearnKey(n)
    \/ \E n \in Remote, c \in Registered : Hear(n, c)
    \/ \E c \in Channels : AddChannel(c)

Working(s) ==
    \/ TryPKI(s) \/ ResolveChannel(s) \/ StampPacket(s) \/ DrawId(s) \/ Seal(s)
    \/ BeginSend(s) \/ SendReturns(s) \/ SendFails(s)

Next ==
    \/ Learn
    \/ Tick
    \/ \E s \in Senders :
          \/ s \in Jobs /\ JobCall(s)
          \/ s \notin Jobs /\ ~IsBridge /\ NodeCall(s)
          \/ s \notin Jobs /\ IsBridge /\ BridgeCall(s)
          \/ TakeLock(s) \/ Working(s)

Spec == Init /\ [][Next]_vars

\* A goroutine inside a call keeps running, time passes, transports return (MQTT
\* gives up after 10 s, a UDP write does not block), and Go's mutex hands itself
\* to the longest waiter when it is contended.
FairSpec ==
    /\ Spec
    /\ WF_vars(Tick)
    /\ \A s \in Senders : WF_vars(Working(s)) /\ SF_vars(TakeLock(s))
-----------------------------------------------------------------------------
(***************************************************************************)
(* Properties.                                                             *)
(***************************************************************************)

Frames(s) == {out[s][i].frame : i \in 1..Len(out[s])}
Returned(s) == pc[s] = "idle" /\ result[s] # "none"

\* A client names a channel that is not registered (by index, say).
UnknownHash(r) == r.client /\ r.hash # 0 /\ r.def = NoChannel

\* A receiver that holds the key finds it.
Openable(r, f) ==
    /\ f.how = "psk" => f.hash = ChHash[f.chan] /\ ~f.flag
    /\ f.how = "pki" => f.hash = 0 /\ f.flag /\ r.to \in keyed

\* sendPacketOn, "so other nodes can receive them": whoever holds the key of the
\* channel finds it by the hash in the header, and a PKI frame is recognised by
\* channel 0 and was made for a recipient whose key is held.  True of every
\* operation except a client packet with an unknown channel.
FramesOpenable ==
    \A s \in Senders : \A f \in Frames(s) : Openable(req[s], f) \/ UnknownHash(req[s])

\* The same without the exception; refuted by what a phone sends, a channel index.
ClientFramesOpenable == \A s \in Senders : \A f \in Frames(s) : Openable(req[s], f)

\* checkSignaturePolicy of a peer that knows the sender as a signer lets the frame pass.
Acceptable(r, f) ==
    /\ f.how # "clear" \/ ~f.flag =>
          (Signable(r, f.how = "pki") /\ f.size <= MaxFrame => f.sig = f.id)
    /\ f.sig # NoId => f.sig = f.id /\ f.size <= MaxFrame

\* No peer drops a frame of ours for its signature: what a signer is expected to
\* sign is signed, over the frame's own ID, and a signed frame fits the radio
\* (signOutbound against checkSignaturePolicy).  A caller's preset signature
\* inside a PKI frame is the exception.
PeersAccept ==
    \A s \in Senders : \A f \in Frames(s) :
        Acceptable(req[s], f) \/ (f.how = "pki" /\ req[s].preset)

\* signOutbound, "any signature a caller preset is discarded first".
PresetDiscarded == \A s \in Senders : \A f \in Frames(s) : f.sig # Stale

\* How far a payload is exposed: cleartext only for a bridge's map report or a
\* client's packet flagged PkiEncrypted, and a second frame only for SendData with
\* PKI, under the channel key and after the transport refused the PKI frame
\* ("Falls back to PSK").
Confidential ==
    \A s \in Senders :
        /\ \A f \in Frames(s) :
              f.how = "clear" => req[s].mode = "none" \/ (req[s].client /\ req[s].flag)
        /\ \A i, j \in 1..Len(out[s]) : i < j =>
              /\ req[s].mode = "try"
              /\ out[s][i].frame.how = "pki" /\ ~out[s][i].ok
              /\ out[s][j].frame.how = "psk"

\* sendPacketOn, "A PKI packet is already encrypted": no frame that claims PKI
\* encryption carries a decoded payload.
FlaggedIsEncrypted == \A s \in Senders : \A f \in Frames(s) : f.flag => f.how = "pki"

\* SendData, "If usePKI is true and PKI keys are available for both sender and
\* recipient, the packet is sent with Curve25519 encryption": once a PKI frame was
\* made the payload does not leave under the channel key as well.
PkiWhenKeyed ==
    \A s \in Senders : \A f, g \in Frames(s) : f.how = "pki" => g.how = "pki"

\* EncryptPKI, "Falls back to PSK if keys are unavailable": sendAs does not fail a
\* PKI request that its checks let through before it reaches the transport.
PkiFallsBack ==
    \A s \in Senders :
        /\ Returned(s) /\ result[s] = "err" /\ req[s].mode = "pki"
        /\ req[s].from \in Managed /\ req[s].size <= MaxSize
        /\ req[s].name = NoName /\ req[s].port # "NODEINFO"
        => out[s] # <<>>

\* Node.SendMapReport, "Map reports are sent unencrypted as broadcast packets".
MapReportsClear ==
    \A s \in Senders : \A f \in Frames(s) : req[s].port = "MAP_REPORT" => f.how = "clear"

\* Operations that lose WithChannelDef; the channel is the one asked for.
DropsOption(r) == r.port \in {"TEXT", "NODEINFO"} /\ (r.via = "as" \/ r.mode = "try")
Chosen(r, c) == r.asked # NoChannel => c = r.asked

\* A PSK frame uses the channel the caller chose: exactly the one of
\* WithChannelDef, and for WithChannel one of that name, never a name that two
\* configured channels share ("a send on the wrong key is silent").  SendTextAs,
\* SendNodeInfoAs and SendText's PSK fallback, which drop the option, are excepted.
ChannelHonoured ==
    \A s \in Senders : \A f \in Frames(s) :
        f.how = "psk" =>
            /\ Chosen(req[s], f.chan) \/ DropsOption(req[s])
            /\ req[s].name # NoName /\ req[s].def = NoChannel =>
                  /\ ChName[f.chan] = req[s].name
                  /\ \A i, j \in 1..Len(Configured) :
                        ChName[Configured[i]] = req[s].name /\ ChName[Configured[j]] = req[s].name
                        => Configured[i] = Configured[j]

\* WithChannelDef, "sends on exactly this channel, by name and key".
ExactChannel ==
    \A s \in Senders : \A f \in Frames(s) : f.how = "psk" => Chosen(req[s], f.chan)

\* A nil error means that exactly one frame was accepted by the transport, an
\* error that none was, fallbacks included.
ResultTruthful ==
    \A s \in Senders : Returned(s) =>
        Cardinality({i \in 1..Len(out[s]) : out[s][i].ok}) = IF result[s] = "ok" THEN 1 ELSE 0

\* However the hop limit came about (applyPacketDefaults, adjustHopForRelay,
\* applyHopLimits, in either order), a frame we originate has travelled no hop
\* yet, starts with at least the default and at most core.MaxHops.
HopsInRange ==
    \A s \in Senders : \A f \in Frames(s) :
        /\ f.start = f.hops /\ f.hops <= MaxHops
        /\ ~req[s].client => f.hops >= HopLimit

\* Whatever leaves the transport is fit for the mesh: its holders can open it, no peer
\* drops it for its signature, it is on the channel the caller chose and its hop fields
\* are those of a packet that starts here.
WireSound == FramesOpenable /\ PeersAccept /\ ChannelHonoured /\ HopsInRange

\* "Pace outbound packets so radio hardware has time to switch": no transport
\* send begins within SendDelay of the one before, whoever sends.
Paced ==
    [][\A s \in Senders : pc[s] # "sending" /\ pc'[s] = "sending" => quiet >= SendDelay]_vars

\* Every call returns: neither the pacing lock nor a fallback strands a sender.
Returns == \A s \in Senders : (pc[s] # "idle") ~> (pc[s] = "idle")
=============================================================================
