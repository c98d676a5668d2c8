# Formal models of meshtastic-go

TLA+ modules, TLC configurations and TLAPS proofs for the logic of this
repository: what a virtual Meshtastic node or bridge does with the packets it
receives, how it sends, how its transports and its client API behave when
goroutines, failures and shutdown interleave, and the library functions that are
hard to get right at their edges. `PROJECT.json` holds the machine-readable index: which
definition models which source lines (`map`), the runs, a mutation for each
checked property, the findings, the hazards and the theorems.

Paths below are relative to `src/`.

## 1. The system and its parts

| Part | State | Operations | Hard behaviour |
|---|---|---|---|
| Packet deduplicator `core/dedupe` | map key -> time, mutex, fixed window | `Seen`, `SeenData`, probabilistic purge | callers on many goroutines; the time is read before the lock; purge and lookup are two lock sections; boundaries of the window |
| Receive pipeline `device/node` (`node.go`, `bridge.go`, `base.go`, `pki.go`, `bridge_responders.go`, `throttle.go`) | NodeDB, dedup map, throttle map, registry; locals of each handler call | `handleIncomingPacket`, `processDecoded`, responders | one goroutine per MQTT message and per child transport; check-then-act across NodeDB locks; PKI/PSK fallback; throttling |
| Signature policy `signing.go` | `HasXeddsaSigned` and the public key in the NodeDB | `checkSignaturePolicy`, first contact, `pinIdentity`, `markSigner`, `signOutbound` | which key is trusted depends on a long sequence of packets |
| NodeDB `device/nodedb` | node ID -> NodeInfo, heard channel; RW mutex | `Get`, `All`, `Update`, `SetChannel`, `Channel` | each call is atomic, pairs of calls are not |
| Channel registry `core/channel.go` | ordered channels | `Register`, `Lookup`, `LookupAll`, `LookupName`, `ResolveByName` | 8-bit hashes collide, names are shared, keys differ |
| Send path `send.go`, `bridge_send.go`, `base.go`, `pki.go` | pacing mutex and time of the last send; reads NodeDB and registry | `SendText`, `SendData`, ..., `Send...As`, client packets | order of ID, hash, bitfield, signature and encryption; PKI fallback after a transport error; pacing under contention |
| Packet IDs `packetid.go` | a 32-bit counter, mutex | `next` | wrap of the low ten bits; ID 0 |
| MultiTransport `transport/raw` | children, their state, dedup window | `Start`, `Stop`, state callbacks, receive, parallel send | callbacks of several children scan each other without a lock |
| UDP transport `transport/udp` | `running`, `listening`, `conn`, `stopChan` | `Start`, `Stop`, `listenWithReconnect` | `conn` written under a lock and read without it; shutdown races the bind |
| MQTT transport `transport/mqtt` | paho client, `connected`, channel list, `mu` | `Start`, `Stop`, `AddChannel`, `SendPacket`, `handleMessage`, paho callbacks | callbacks on goroutines of their own; a session lost on reconnect; late publishes; `Stop` holds its mutex while it waits for paho |
| Client API `device/clientapi` | per connection a reader, a writer and a subscriber buffer | accept, handshake, admin, `DispatchToClients`, shutdown | two goroutines write to one connection; full buffers; a reader that leaves without its writer |
| Client transport `transport/client` | device state, `connected`, handler registry, `mu` | `Connect`, `SendToRadio`, `Stop`, `readLoop`, `Handle`, `Unsubscribe` | a timeout against a late answer; handlers that send from the read loop; unsubscribe during dispatch |
| Stream framing `transport/stream` | write mutex, bytes on the wire | `WriteBytes`, `ReadBytes`, wake-up | several writers; console output and start bytes inside payloads; lengths at the MTU |
| Traceroute `core/traceroute`, bridge responders | two lists tied by position | `ParseRoute`, `InsertUnknownHops`, completion of requests and responses | lists that get out of step; hop counts that are unknown or inconsistent |
| Position precision `core/position.go` | channel settings, primary key | precision for a channel, truncation of coordinates | inherited and public keys; shifts of 32-bit words at their limits |
| Core values | names, region table, channel registry | cut to a byte limit, region preset map, `Register` and look-ups | split runes; caps of the region map; a channel registered again |
| Broadcast scheduler and `Run` | context, jobs and tickers, transport | start, ticks, cancellation | jobs nobody joins; the order of shutdown |

Interactions. A transport calls the node's packet handler from its own
goroutines; `MultiTransport` sits in between, deduplicates and merges state
events. The handler deduplicates again (by sender and ID), decrypts with PKI or
with the channels of the registry, applies the signature policy, updates the
NodeDB, emits an event and may reply through the send path. The send path reads
the NodeDB (key of the recipient, channel it was heard on) and the registry, and
ends in `RawTransport.SendPacket` under one pacing mutex. Clients of the API put
packets into the same path and get what the receive pipeline dispatches; a client
transport is the other end of such a connection. Nothing is persisted: a restart begins with an empty
NodeDB, so there is no crash recovery to check.

What makes the parts correct, in a line each:

- deduplicator: a recorded packet is a duplicate to every caller until its window ends;
- receive: a packet is processed once; no policy is bypassed by a race; stored
  keys are the ones the policy trusts; replies use a channel the peer can read;
- send: every frame can be opened and is accepted by its receivers, leaves on the
  channel and with the protection that was asked for, and the result tells what happened;
- MultiTransport: the merged state is that of the children; a packet once, and at most twice more per expiry; no packet is lost;
- UDP: `Stop` joins the listener and releases the socket; a broken socket is replaced;
- MQTT: every channel added is subscribed on every connection; the flag follows the
  connection; a nil of `SendPacket` means the message has left; `Stop` is final and everybody
  who waits behind it comes to an end;
- client API and client transport: a successful `Connect` has the whole configuration;
  packets arrive in order and once; a closed connection is removed; `Stop` returns;
- framing: what is read is what was written, frame by frame;
- traceroute: every hop keeps its own signal value; position: what leaves on a public
  channel is coarse; scheduler and `Run`: after cancellation everything ends.

## 2. Modules

| Module | Role |
|---|---|
| `DedupeWindow` | abstract specification of deduplication |
| `Dedupe` | `core/dedupe`; implements `DedupeWindow` |
| `Receive` | receive pipeline of `Node` and `BridgeNode`, with NodeDB, registry, policy and throttle |
| `ReceiveProofs` | its proofs |
| `Send` | send path of `Node` and `BridgeNode` |
| `SendProofs` | its proofs |
| `PacketId` | the ID generator |
| `Mqtt` | the MQTT transport with its paho client |
| `MqttProofs` | its proofs |
| `StreamPipe` | a `net.Pipe` or TCP connection that carries whole messages |
| `ClientApi` | the client API server: one reader and one writer per connection |
| `ClientTransport` | the client's end: callers, read loops, handler registry |
| `ClientSession` | the two composed over a `StreamPipe`, with the properties of the whole |
| `SessionProofs` | its proofs |
| `StreamFraming` | the bytes below it: header, length, data, noise |
| `FramingProofs` | its proofs |
| `Traceroute` | route analysis and the bridge's completion of routes |
| `PositionPrecision` | precision of a channel and truncation of coordinates |
| `CoreValues` | name truncation, region preset map, channel registry |
| `PartsProofs` | proofs about `Dedupe`, `PacketId`, `Traceroute`, `PositionPrecision` and `CoreValues` |
| `Lifecycle` | `Run` of node and bridge with the broadcast scheduler |
| `MultiTransport` | `raw.MultiTransport` with arbitrary children |
| `MultiProofs` | its proofs |
| `Udp` | the UDP transport |
| `UdpProofs` | its proofs |
| `MC...` | instances for TLC |

How code becomes actions. A goroutine has a program counter `pc`, and a step
ends where the code takes or releases a lock, blocks, calls a handler or touches
an unsynchronised shared field. Local computation belongs to the step that read
its inputs. Early returns are actions of their own (`Duplicate`, `DropEcho`,
`Refuse`) or lead to `"idle"`.

**Dedupe.** `Seen(c, k)` reads the clock and draws whether to purge;
`DeleteUntil` is the purge; `RecordNew`, `ForgetExpired` and `ReportDup` are the
three outcomes of `isSeen`'s lock section. `last` is a history variable: the time
of the latest record of a packet. Its window, `last + ExpiresAfter`, is the
refinement mapping to `DedupeWindow`, which allows "new" only outside a window.

**Receive.** `Duplicate`, `DropEcho` and `Intake` are the first steps of
`handleIncomingPacket`; `TryPKI` is decryption with both private-key lookups and
the PSK attempt; `VerifySignature`, `FirstContact`, `Unverifiable`, `Malformed`
and `Unsigned` are the branches of `checkSignaturePolicy`; `MarkSigner`,
`Bootstrap`, `PinIdentity`, `StoreUser`, `SetChannel` and `UpdateEntry` are the NodeDB lock
sections of `processDecoded`; `EmitEvent`, `RespondNode`, `RespondBridge` and
`RespondManaged` end it. `CooldownOver` lets a throttle entry expire. History:
`events`, `replies`, `undecoded`, `clobbered`, which notes a stored key that an unsigned
packet replaced, and `rewritten`, which keeps for each change of a signer's identity by
an unsigned packet what that packet was and whether a `User` was held before
(`RecordRewrite`).

**Send.** One operator per API operation builds a request; `TryPKI`,
`ResolveChannel`, `StampPacket`, `DrawId`, `Seal`, `TakeLock`, `BeginSend`,
`SendReturns` and `SendFails` carry it to the transport. `LearnKey`, `Hear` and
`AddChannel` change the shared state meanwhile. `out[s]` records the frames of the
current call with their outcome, `quiet` the time since the last send began.

**MultiTransport.** `Lifecycle` starts and stops one child after the other;
`ChildEvent` is a child's change of state with its callback (`overlapped`
remembers that one happened during another callback); `Scan` asks one
child at a time, `Emit` ends the callback; `Arrive`, `Dedupe` and `Deliver` are
the receive closure. `Dedupe` has the three outcomes of `isSeen`: recorded and passed,
a duplicate, and expired, in which case the record is deleted and the copy passes
without a new one; `Purge` is the purge that another call of `isSeen` may draw. `CallSend` and `SendStep` are
`SendPacket`. The children are arbitrary (`Serial` ones emit from one goroutine),
so the module stands for any mix of UDP and MQTT.

**Udp.** `Start`, `Stop` and its four parts, and the goroutine
`listenWithReconnect` cut at each access to `running`, `listening`, `stopChan`
and `conn`. A nil `conn` that is dereferenced sets `crashed`, after which nothing
happens.

**Mqtt.** The paho client is external: `Connected`, `LoseLink` (the broker may
keep or lose the session), `Reconnected`, `DialFails`, `Transmit`, `Discard` and
`Receive` are what its configuration lets it do. `OnConnected`, `Resubscribe`,
`Resubscribed`, `OnConnectionLost`, `Emit` are the callbacks on goroutines of their
own, `OnReconnecting` the one inside paho's loop. `SendPacket`, `Publish`,
`Published` and `PublishTimesOut` are the send path; `HandleMessage` is
`sanitizeInbound` with the packet handler. `Stop` keeps `mu` until `Disconnected`, and
`Disconnect(1000)` returns after a second whatever paho's goroutines do.
`crossed` and `steady` are history: callbacks that waited together, calls
during which the connection lasted.

**ClientSession.** `ClientApi` has one action per blocking point of `handleConn`:
the reader's loop, its read, its answers (a handshake is a sequence of messages with
the NodeDB read once in the middle), the writer's select and write, both under the
stream's mutex. `ClientTransport` has `Connect`, `SendToRadio` and `Stop` (with the
`RWMutex` they share), the read loop with packet handler and registry dispatch. A
`Write` on a `net.Pipe` returns when the peer has taken the message, which is what
makes the two ends wait for each other. A message in `Oversized` is refused by
`WriteBytes` on an open connection as well (`Fits`), which ends a handshake, a writer or
a call as any other write error does.

**MCParts** runs the modules that share no state (`PacketId`, `StreamFraming`,
`Traceroute`, `PositionPrecision`, `CoreValues`, `Lifecycle`, `Dedupe`) one at a
time: the first step of a behaviour has chosen one of them, `part`, the others do
not move.

In `Traceroute` the bridge handles a packet (`HandleTraceroute`) or a caller of the
library shows its route (`AnalyseRoute`, which pairs `Route` with `SnrBack` as
`ParseRoute` does).

`StreamFraming` writes and reads bytes and is checked against the list of data given
to `WriteBytes`; `Traceroute` and `PositionPrecision` are operators over every input
of a bounded set, checked against definitions that are stated without the code's
loops (`Analysed`, `Aligned`, `Coarse`). In `CoreValues` a name is one input; the
region map grows by one round of `RegionPresetMap`'s loop per step (a table ends after
any of them) and the registry by one call of `Register`; they are checked against
`NameWhole`, `RegionsAdvertised` and `RegistryExact`, which speak of the whole name,
the table and the calls so far. `Receive` and `Send` use a registry as the sequence of channels
that `RegistryExact` says it is.

### Abstractions

- Cryptography: a signature is the key that made it and verifies under that key
  alone; a ciphertext opens under the key it was made for; decryption under a
  wrong PSK yields an error or `UNKNOWN_APP`, which the code skips alike. What
  `TryDecode` and `TryDecodePKI` do with flags and lengths is kept.
- Payloads are their port, the fields the control flow looks at and a size.
- Times are ticks; a delay of several seconds becomes one or two of them.
- `Receive` stays within one dedup window (expiry is the subject of `Dedupe`).
- In `Send` a transport error means the frame was not delivered, and any ID may
  be drawn; `PacketId` says which are.
- The client session carries whole messages; `FramesRecovered` is what justifies it.
- Names are sequences of rune widths, coordinates have four bits, the region table
  has six regions against caps of two groups, three presets and three regions: the operators take the widths and caps as
  constants.
- MQTT topics are channel names; an envelope is the fields `sanitizeInbound` tests.
- Event handlers and transports are external: they return, and a transport's
  `SendPacket` succeeds or fails.

## 3. Runs

Passing runs. Deadlock checking is off for `multi`, `udp`, `mqtt`, `session` and
`parts`, which come to rest once stopped, closed or done.

| Run | Instance | Shows |
|---|---|---|
| `receive_seq` | 1 handler, BALANCED, 12 packets, among them map reports to the node itself and too long to be signed | no unsigned packet replaces a stored key, no unsigned NodeInfo a signer's `User`, and a map report changes it only where the policy accepts it |
| `receive_conc` | 2 handlers, BALANCED, 7 packets | processed once, no downgrade, signers recognised and kept |
| `receive_bridge` | 2 handlers, STRICT, a bridge with a managed node and consumer keys, 7 packets, one of them a ciphertext within the PKI overhead | only authenticated packets cause events, that ciphertext excepted; every stored key has a trace to the node's ID or the consumer; replies of managed identities use heard channels |
| `send_node` | a sender with all options, sizes and 6 client packets, and a broadcast job | frames openable, acceptable, on the right channel (`WireSound`); sends are spaced and every call returns |
| `send_bridge` | 1 sender, 2 identities | the same frames for `Send...As`; cleartext and second frames only where announced; truthful results |
| `multi` | 3 children; one of three scenarios: 2 callbacks at once while children start, fail, come and go; a sender and a callback; or a packet with and one without an ID, three copies each, one expiry or purge | merged state exact without overlaps; an event rests on what each scanned child said; a send fails only if every connected child failed; a packet is delivered once and at most twice more for an expiry, and none is lost |
| `udp` | 3 sockets, 3 starts, delay up to 3 | `Stop` joins and returns; reconnecting succeeds and holds one socket |
| `mqtt` | 1 channel, 2 callbacks at once, 1 sender, 1 message handler, 2 lost connections | channels subscribed across reconnects; the flag exact unless callbacks overlap; nil means sent on a lasting connection; no late callback revives a stopped transport; whoever waits behind `Stop` ends |
| `session` | 1 in-memory connection, 2 channel slots, 2 callers, 1 subscription, a buffer of 2, 4 dispatched packets, messages beyond the MTU | `Connect` returns if its handshake fits, and means configured, slots in order; packets once and in order, also after drops; no call after `Unsubscribe`; closed connections removed; `Stop` returns |
| `parts` | see below | IDs distinct, frames recovered, routes aligned, positions coarse, values right, `Dedupe` implements `DedupeWindow`, shutdown winds down |

Why these bounds are enough for the cases of interest. Two goroutines show every
pairwise race, and each critical section involves two. The channels include two
that share a name, two that collide in their hash under different keys, and one
that hashes to 0; the keys include the genuine one, another node's and one of the
wrong length; packet sets hold a signed and an unsigned introduction, a rotation,
a node that uses another's key, a packet with ID 0, an echo, a broken payload and
a PKI ciphertext.
Window 1 with four ticks lets a window open, end and open again while a caller's
clock reading is up to four ticks old. Sizes lie below, at and beyond the radio
limit with and without the OK-to-MQTT bit. `LowMod = 4` makes the low part wrap
within a few draws. A delay maximum of 3 is reached in two doublings and
is not a power of two, so the cap is exercised. Bounds that cut a run short are
named constants: `MaxTime`, `MaxForget`, `MaxStarts`, `MaxLosses`, `MaxConnects`,
`MaxSends`, `MaxDispatch`, `MaxFrames`, `MaxNoise`, `MaxRoute`, `MaxTable`,
`MaxBytes`, `MaxRegions`, `MaxRegister`, and `Once`, the senders that
make one call. In `send_node` that loses nothing: a call resets every local of
its goroutine, keys and channels may be learned before it, and the broadcast job,
which calls again and again, is there to contend for the lock.

Two lost connections let callbacks of three connections meet; one channel is enough because channels do
not influence each other. Three children let three copies of a packet arrive around one
expiry, the least that shows both extra deliveries; the scenarios of `multi` share no
state but `up`, which all of them change. In `session` a buffer of two holds two packets
at once, drops the third and takes the fourth, which is delivered after the drop; the
third, when it does get into the buffer, is beyond the MTU and ends the writer. Two
channel slots have an order. Two callers give a `SendToRadio` in progress while the owner
stops; the requests include one that is answered, a Disconnect and one beyond the MTU. A
request that does not parse ends the reader the way a read error does, and is not in the
instance; over TCP the pipe of `StreamPipe` has a window, and the theorems cover it.
In `parts` payloads hold both start bytes,
look like a header, are empty, at the MTU of 2 and beyond it; noise includes a
belied Start1 and a header of impossible length. Routes name up to two of three
relays, among them the gateway and the bridge itself, with every hop count up to 3.
Names of up to seven bytes, with runes of all widths, are cut to four: a rune of four
bytes may start at any place before the cut and end after it. Six regions in six groups
against caps of two groups, three regions and three presets (the union has four) reach
every cap. Four registrations over two names, two keys and
colliding hashes register a channel twice with another one between.

### Fairness

- `Receive!FairSpec`: a handler that took in a packet is scheduled until it
  returns. Its steps take mutexes which the same function releases; event
  handlers are assumed to return. Packets need never arrive.
- `Send!FairSpec`: a goroutine inside a call continues, time passes, transports
  return (MQTT publishes wait at most 10 s, a UDP write does not block). Taking
  the pacing lock is strongly fair, because a contended Go mutex switches to
  hand-over in order of waiting.
- `MultiTransport!FairSpec`: closures that started run on; children owe nothing.
  `MCMultiTransport!ScenarioSpec` needs it of the receive side only.
- `Udp!FairSpec`: the goroutine and a `Stop` that was called go on, sleeps end.
  Binding is strongly fair: it does not fail for ever. Nobody has to call
  `Start` or `Stop`, to send a datagram or to break a socket.
- `Mqtt!FairSpec`: callbacks, message handlers, paho's loop and `Disconnect` go on
  when nothing holds them up; `Disconnect` has a time limit. The broker owes nothing, connections need not be lost
  or regained.
- `ClientSession!FairSpec`: reader, writer, `handleConn`, callers and read loops go
  on. Weak fairness is enough at the mutexes since calls and packets are bounded.
  Nobody has to call, dispatch or shut down.
- `MCParts!FairSpec` (the life cycle): goroutines go on, broadcast functions return.
  `SelectDone` is strongly fair, because Go picks at random among the ready cases
  of a select and so takes one that stays ready in the end. Ticks are not fair.

### Disagreements between code and its documentation

Each of these configurations checks one statement of the repository and ends in a
counterexample. The first two are runs of `PROJECT.json`, which quotes the
statements; the others can be run the same way
(`tlc -config <configuration> <module>`), and each property's comment quotes the
words it formalises. Where the configuration is starred, replace the properties in it
by the one in the second column (and `FairSpec` by `Spec` if it is an invariant).

| Configuration | Property | What happens |
|---|---|---|
| `MCReceiveRace` (run `receive_race`) | `KeyPinned` | two NodeInfos handled at once: the unsigned one replaces the key stored in between |
| `MCUdpCrash` (run `udp_crash`) | `NeverCrashes` | `Stop` stores nil in `conn` before the listener uses it |
| `MCUdpLeak` | `StopReleases` | `Stop` returns with a socket bound after it looked for one |
| `MCParts` * | `NewIsRecorded` | `Seen` returns false for an expired entry without recording the packet |
| `MCReceiveBridgePin` | `SignerPinned` | a signer marked by a consumer key has no `User` yet; an unsigned NodeInfo sets it |
| `MCReceiveMap` | `SignerPinned` | an unsigned map report renames a known signer |
| `MCReceiveFallback` | `PskFallbackWorks` | after a failed PKI attempt the packet is still flagged as PKI, so no channel key opens it |
| `MCReceiveShort` | `StrictDocumented` | a ciphertext within the PKI overhead is decoded under the private key as a PSK and reported as PKI |
| `MCSendIndex` | `ClientFramesOpenable` | a channel index from a client is kept as the wire hash |
| `MCSendFlagged` | `FlaggedIsEncrypted` | a decoded client packet flagged as PKI leaves in cleartext |
| `MCSendTwice` | `PkiWhenKeyed` | a transport error on the PKI frame sends the payload again under the channel key |
| `MCSendTwice` * | `MapReportsClear` | `Node.SendMapReport` is PSK-encrypted |
| `MCSendTwice` * | `PresetDiscarded` | the PKI path keeps a preset signature |
| `MCSendExact` | `ExactChannel` | `SendTextAs` and others drop `WithChannelDef` |
| `MCSendFallback` | `PkiFallsBack` | `sendAs` fails a PKI request without keys |
| `MCParts` * | `NeverZero` | an ID may be 0 |
| `MCMultiOverlap` | `AggregateAlwaysExact` | two children changing at once leave the consumer with the wrong state |
| `MCMqttFlag` | `FlagAlwaysExact` | a lost and a connected callback take `mu` in the wrong order; the flag stays wrong until the next change |
| `MCMqtt` * | `ErrorMeansUnsent` | a publish that timed out after 10 s is sent later |
| `MCClientAgain` | `ConnectsAgain` | after an earlier ConfigCompleteId a second `Connect` waits for a channel nobody closes |
| `MCClientSession` * | `DisconnectRemoves` | after a client's Disconnect the writer and its subscription stay until a write fails |
| `MCClientSession` * | `StopAlwaysReturns` | `SendToRadio` holds `mu` while it writes to a server that no longer reads |
| `MCPartsStray` | `FramesAlwaysRecovered` | one stray Start1 before a frame swallows its header |
| `MCParts` * | `RouteAlwaysAligned` | `insertUnknownHops` returns before it pads the SNR list when `HopStart` is 0, so later values stand at the wrong hop |
| `MCParts` * | `GapsFilled` | `InsertUnknownHops` takes the last hop for the receiver and inserts one placeholder fewer than its comment says, and than the bridge's `insertUnknownHops` does |
| `MCParts` * | `FailsClosed` | "fails closed" (`core/position.go`): with a primary without settings a channel that inherits its key counts as private |
| `MCParts` * | `QuietAfterRun` | `Run` returns while a broadcast goes on, or begins |

The corresponding properties of the passing runs are stated with the exception
they need (`StrictAuthenticates`, `IdentityPinned`, `WireSound`, `Confidential`,
`AggregateExact`, `DeliveredOnce`, `FlagExact`, `NilMeansSent`, `Connects`, `StopReturns`,
`Removed`, `FramesRecovered`, `RouteAligned`, `PositionCoarse`), so that what does hold is
pinned down as well.

Two things met while reading that need no checker: `ParseRoute`
(`core/traceroute/traceroute.go:33-48`) pairs the hops of `Route` with the values of
`SnrBack`, while the protobuf's comment ties `snr_towards` to `route`; and its
comment says that unknown hops are filled in, which `InsertUnknownHops` does and
`ParseRoute` does not. The model follows the code: `AnalyseRoute` hands `ParseRoute` the
list of the direction the code pairs it with, of whatever length.

## 4. Proofs

All theorems hold for every value of the constants that satisfies the module's
`ASSUME`: any number of goroutines, nodes, keys, channels, packets and sockets.

**PartsProofs, the deduplicator.** `IInv` (in `Dedupe`) is `TypeOK`, `RecordKept`, and three
facts it needs: a caller's time is not ahead of the clock (`CallerClock`; otherwise a
purge could use a future time and drop live records), an entry of the map is the
latest record of its packet (`SeenIsLast`), and a call is open exactly while its
answer is pending (`CallOpen`; for the mapping of `ret`). From it:
`TypeCorrect`, `RecordKeptAlways`, and `ImplementsWindow`, where the initial
states map to initial states and each step to a window step or a stutter.

**ReceiveProofs.** `IInv` adds to the checked invariants:

- `RecordedWork`: a packet with an ID that some handler works on is in the
  deduplicator, which is why no second handler takes it in (`ProcessedOnce`);
- `Belief(h)`: what a handler concluded about the packet (signed, PKI, sender a
  signer on arrival) is still justified by the NodeDB and the packet;
- `Judged(h)`: a handler past the policy step has passed it, so an event can only
  stem from an accepted packet.

`VInv` adds, for STRICT, that each key a handler is about to use or store has a
trace to the node's ID or the consumer (`Traced(h)`); without it
`StrictKeysVouched` is not inductive, since a handler stores a key it read
some steps earlier. `AInv` adds what vouches for the packet itself (`Backed(h)`): one taken
for PKI was encrypted with a vouched key or is too short to be PKI, and an accepted
signature is a vouched key's. An event is authenticated only through both, and
`StrictAuthenticates` names the short ciphertext as what is left. Proved: `TypeCorrect`,
`ProcessedOnceAlways`, `SignedEventsAlways`, `NoDowngradeAlways`, the action property
`SignerForeverAlways`, `StrictKeysVouchedAlways` and `StrictAuthenticatesAlways`.

`CInv` adds that a channel recorded in the NodeDB, and one a handler is about to record
(`KnowsChannel(h)`), is one a recorded packet of that node was readable on; from it
`RepliesOnHeardChannelsAlways`, for any number of handlers and colliding hashes.

The two pinning rules are proved for one handler at a time (`OneAtATime`), under every
policy and for any packets and consumer keys. `KeyPinnedSerially`: the race that
`MCReceiveRace` exhibits is the only thing that defeats the rule about keys. Its invariant
is that a key is only held in a `User` (`KeyHasUser`) and that the key an unsigned NodeInfo
brings to its store is the one already held (`KeepsKey(h)`). `IdentityPinnedSerially`:
of the rule about signers it holds that an unsigned NodeInfo never changes a `User` that is
held, and that nothing else changes one unless the policy accepts a signer's unsigned packet
(`Unchecked`: COMPATIBLE, a packet taken for PKI, under BALANCED one that is unicast or too
long to be signed). Those are the cases of `MCReceiveMap` and
`MCReceiveBridgePin`. The invariant is that whatever is about to change a `User` without a
signature has been let past by the policy or comes from a node that is no signer
(`KeepsSigner(h)`); every update of the NodeDB is followed through it (`RewriteStep`,
`OwnSigner`).

**SendProofs.** `TypeOK` is not inductive: what a step makes of a request depends on the
path it is on, so `IInv` is `TypeOK` with `Sound`, which says of each call that its
request is one an operation builds (`Legal`), that its program counter and mode belong
together (`OnPath`), that the channel it resolved is the caller's (`Resolved`), and that
a frame is fit from the moment it is made to the last retry (`Fit`). Keys and channels
are learned meanwhile, and what makes a frame openable only grows with them.
Proved: `TypeCorrect`; `WireSoundAlways` and `ConfidentialAlways`,
each from `Sound`, the second also through `Attempts` (a second frame exists only after
the transport refused a PKI frame of `SendData`, `Refused`, and is under the channel key);
`ResultTruthfulAlways` (through `Honest`: a running call has no accepted frame yet,
so the PKI retry cannot be a second success); and the action property `PacedAlways`.

**MultiProofs.** The loops over children ask one at a time while the children change,
so each invariant speaks of the children still to be asked, `Rest(i)`:
`SendTruthfulAlways` through `SendProgress` (a child connected all along is a target or
still to be asked), the action property `EventsWitnessedAlways` through `Unasked`,
`AggregateExactAlways` through `Alone` (until a change overlaps a callback one callback
runs, the children it has asked are still down, and the consumer was told what held
before its child changed), `DeliveredOnceAlways` through `Budget` (a packet that is not
on record may pass once more, one that is may not, and losing a record is worth two
passes: that of the copy that found it expired and that of the next). Also `TypeCorrect`. All for any
finite set of children in any order.

**SessionProofs.** `Shape` is `TypeOK` with the few facts about locks and program
counters it needs (the holder of `writeMu` has something to write; a subscriber buffer
stays within its size). From it:

- `NoCallAfterUnsubscribeAlways` through `Dispatching`: what a loop has yet to call is
  registered, because `Unsubscribe` waits for the registry's lock;
- `PacketsInOrderAlways` through `InLine`, which orders everything on its way: what the
  client took, what its loop read, the pipe, what the reader has yet to write beside
  what the writer holds, and the buffer. A packet's number has to exceed all that is
  ahead of it, and a dispatched one exceeds them all;
- `ConfiguredAlways` through `Once`, which follows the one WantConfigId and its answer
  (`Asking`, `Answered`), and `Closed`. `InLine` and `Once` need each other: the answer
  is stored in order because nothing that came before it holds a channel or a
  ConfigComplete. Hypothesis: no caller sends a WantConfigId of its own with
  `SendToRadio`, which would make the server begin a second table.

The NodeDB's set of peers is assumed finite (`ClientApi`), as a map is.

**PartsProofs, packet IDs.** `WindowDistinctAlways` through `Counting`: between the i-th
and the j-th ID of the window the low part has advanced by j - i and wrapped at most
once. The rest is arithmetic modulo `LowMod`, for every `LowMod` and every random high
part.

**PartsProofs, positions.** `PositionIsCoarse` for every word width, every cap and every
channel table. Powers of two are a recursive function, and that the recursion defines
one (`Pow2Def`) is proved by the least number for which it would not; from it the laws
of powers and, with `Euclid` (quotient and remainder are unique), that masking and adding
half a cell gives the centre of the cell, for negative coordinates too (`TruncateCentre`).

**PartsProofs, traceroute.** `RouteIsAligned` for routes of any length. The lists are
compared place by place: a list is `Tied` to the packet's when it begins with it and
each place after that has the value its hop calls for. Padding ties the lists
(`InsertTied`) and adding the gateway or the bridge keeps them tied (`AddTied`). A route
that is shown (`AnalyseRoute`) names sender, hops and receiver in their places, with
placeholders only before the receiver. The
constants' assumption is that the bridge is neither the gateway nor the other node it
answers for, and that neither has the broadcast ID.

**PartsProofs, values.** `ValuesAreRight` through `ValuesInv`, for every limit, cap,
table and sequence of registrations:

- in a name, a prefix ends with a whole rune exactly where a lead byte follows
  (`RuneBoundary`), so the loop, which looks at the prefix, finds the boundary that
  `NameWhole` finds in the whole name;
- `MapInv`: a key stands for a group that is right for every region with that key
  (`KeyStands`), a region in the map points at the group of its key (`PointsRight`), and
  regions are missing only when a cap was met (`Complete`). `KeyStands` needs what the
  table in `regions.go` has: regions of one profile and default all advertise the EU
  union or none does (`ValuesAssumption`). The code takes the group's presets from the
  first region with the key, so a table without it would mislead clients;
- `RegistryInv`: `order` is `LastAtFirst` of the calls, and each entry of `byHash` and
  `byName` is the part of `order` with that hash or name, in its order (`Index`).
  Definitions of one channel have one hash and one name, so a replacement reaches the
  entries that hold the old definition and no others.

**FramingProofs.** `FramesAreRecovered`, for any writers, payloads, noise and wake bytes
and any MTU that two bytes can tell. `FramingInv` looks at all bytes ever written: there
are marks between frames and noise such that from each mark but the last a whole frame,
a byte of noise, a false start or a header of impossible length leads to another
(`Leap`), and the reader started at a mark and has not passed the next one. That the
marks exist needs the write side (`Writing`: only the holder of `writeMu` is between
header and data); that the reader ends each leap at its end needs what it holds in each
state (`Stage`).

**UdpProofs.** `IInv` is `TypeOK` with `StopOrder` (a closed `stopChan`, a running
`Stop` and a leaving goroutine all mean `running` is false), `Joined` (the
goroutine exists while the transport runs or `Stop` waits) and `Bound` (socket and
flag follow the goroutine while the transport runs). Proved: `TypeCorrect`,
`StopJoinsAlways`, `ConnectedHasSocketAlways`, and `ReconnectsDoNotLeakAlways` through
`Accounted`: each Start but the last may have left one socket open, and the last one
holds one only while the goroutine is past its bind.

**MqttProofs.** `TypeCorrect`; `SubscribedAlways`, inductive with the types, because
each way to lose a subscription ends the connection and each connection starts a
callback that reads the channels later, under `mu`; `FlagExactAlways` through
`FlagInv` (while callbacks do not overlap at most one waits for `mu`, and it is the
one for the present state of the link; without it nothing is known of the flag at
the moment the callback takes `mu`); `NilMeansSentAlways` through `SteadyInv` (a steady call
has a connection, and a `Stop` that waits means the client is closing);
`StopSticksAlways` through `ClosedInv` (after `Stop` the link is closed for good, so that a
flag set by a late callback no longer shows in `IsConnected`); and
`NoEchoAlways`: the broker returns what this node publishes and `sanitizeInbound`
keeps it, and the fields only a local radio may fill, from the packet handler.

Only model-checked:

- liveness under fairness (`SignerRecognised`, `Returns`, `Delivered`, `StopReturns`,
  `Reconnects`, `WoundUp`, `Connects`, `Removed`, `WindsDown`), which this prover does not reach,
  and with it `Lifecycle`, whose only promise is that it winds down.

Every safety property that a passing run checks is stated by a theorem.

## 5. Not modelled

- Generated protobuf code (`core/proto/*.pb.go`, 37,000 of the repository's 45,000
  lines of Go) and its generator. It holds accessors and descriptors, no logic of this
  program, and no definition here stands for a line of it. Of the 8,500 hand-written
  lines the map covers more than half; the rest is mostly what follows.
- Ciphers, key parsing and XEdDSA arithmetic; distances, bearings and geofences;
  signal quality; ID formatting: stateless computation on large integers or floating
  point, outside TLC's reach.
- TCP and serial dialling, logging, options, constructors and plain accessors.
- `nodedb.ProcessPacket` has no caller in the repository.
- Two controllers calling `Start` and `Stop` of a UDP transport, or `Start` of an
  MQTT transport, at once; a `Start` of MQTT after `Stop`.
- Restart recovery: nothing is persisted.

## 6. Plan

Done: `Dedupe` with its abstract specification; `Receive` with policy and NodeDB;
`Send`; `PacketId`; `MultiTransport`; `Udp`; `Mqtt`; `ClientApi`, `ClientTransport` and
their composition; `StreamFraming`; `Traceroute`; `PositionPrecision`; `CoreValues`;
`Lifecycle`; proofs of every safety property that the runs check, for all of them but
`Lifecycle`, which has none.

Next:

1. `Udp` with concurrent controllers.
