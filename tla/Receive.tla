------------------------------ MODULE Receive -------------------------------
(***************************************************************************)
(* The receive pipeline of device/node: Node.handleIncomingPacket and      *)
(* BridgeNode.handleIncomingPacket with everything they call (dedup,       *)
(* self-echo filter, PKI and PSK decryption, signature policy, identity    *)
(* pinning, NodeDB updates, events, throttled replies).                    *)
(*                                                                         *)
(* Transports call the handler from several goroutines at once (one per    *)
(* MQTT message, one per child of a MultiTransport), so the pipeline is    *)
(* split where the code takes and releases a lock: each NodeDB, dedup and  *)
(* throttle call is one step, and local computation belongs to the step    *)
(* that read its inputs.                                                   *)
(*                                                                         *)
(* Cryptography is abstract: a signature is the key that made it and       *)
(* verifies under that key only; a ciphertext opens under the key it was   *)
(* made for.  A public key derives at most one node ID (KeyOwner).  A PSK  *)
(* decryption under a wrong key yields an error or UNKNOWN_APP, both of    *)
(* which the code skips.  Runs stay inside one dedup window (Dedupe).      *)
(***************************************************************************)
EXTENDS Naturals, Sequences, FiniteSets

CONSTANTS
    Handlers,     \* goroutines running the packet handler
    Nodes,        \* node IDs, local and remote
    Broadcast,    \* the broadcast address, not a node
    Self,         \* the Node's or the bridge's own ID
    IsBridge,     \* TRUE for BridgeNode, FALSE for Node
    Managed,      \* nodes for which BridgeConfig.IsManagedNode holds
    PrivateFor,   \* local nodes whose X25519 private key is available
    Introducible, \* bridge identities with a User whose key derives their ID
    Keys,         \* public keys a NodeInfo may carry
    FullKeys,     \* those of the right length (crypto.PublicKeySize)
    NoKey,        \* no public key
    KeyOwner,     \* KeyOwner[k]: the node ID derived from a full key k
    ConsumerKey,  \* BridgeConfig.PublicKeyForNode (NoKey where it returns nil)
    Policy,       \* SignaturePolicy
    Licensed,     \* Config.Licensed
    Channels, NoChannel,
    Registry,     \* sequence of registered channels, in registration order
    ChHash, ChName, ChPsk,   \* wire hash, name and key of a channel
    NoSig, BadSig,           \* no signature; one of the wrong length
    NoName,       \* the transport supplied no channel name
    Packets       \* the packets that may arrive

Ports == {"NODEINFO", "POSITION", "TELEMETRY", "MAP_REPORT", "NEIGHBORINFO",
          "TRACEROUTE", "ROUTING", "OTHER"}

\* from..want are the header and the Data fields the pipeline looks at.
\* answers is RequestId # 0 and ack is WantAck.  body is "broken" when the payload
\* does not unmarshal (or is an empty beacon), "partial" for a telemetry without
\* device metrics and for a dummy neighbor probe, "full" otherwise.
\* kind says how the payload travels, chan and peer the channel or the sender
\* key it was encrypted with, topic the channel name given by the transport,
\* long whether the ciphertext exceeds crypto.MeshtasticPKCOverhead.
Packet ==
    [from : Nodes, to : Nodes \cup {Broadcast}, id : Nat,
     port : Ports, key : Keys \cup {NoKey}, sig : Keys \cup {NoSig, BadSig},
     fits : BOOLEAN, want : BOOLEAN, answers : BOOLEAN, ack : BOOLEAN,
     body : {"full", "partial", "broken"},
     kind : {"decoded", "psk", "pki"}, hash : Nat, 
     topic : {ChName[c] : c \in Channels} \cup {NoName, "PKI"},
     chan : Channels \cup {NoChannel}, peer : Keys \cup {NoKey}, long : BOOLEAN]

ASSUME ReceiveAssumption ==
    /\ Broadcast \notin Nodes
    /\ Self \in Nodes
    /\ IsBridge \in BOOLEAN
    /\ Managed \subseteq Nodes
    /\ Introducible \subseteq Nodes
    /\ FullKeys \subseteq Keys
    /\ NoKey \notin Keys
    /\ {NoSig, BadSig} \cap Keys = {}
    /\ NoSig # BadSig
    /\ KeyOwner \in [FullKeys -> Nodes]
    /\ ConsumerKey \in [Nodes -> Keys \cup {NoKey}]
    /\ Policy \in {"COMPATIBLE", "BALANCED", "STRICT"}
    /\ Licensed \in BOOLEAN
    /\ NoChannel \notin Channels
    /\ Registry \in Seq(Channels) /\ Registry # <<>>
    /\ Packets \subseteq Packet

VARIABLES
    db,        \* db[n]: the NodeDB entry of n, see Entry
    heard,     \* heard[n]: NodeDB.channels, the channel n's NodeInfo came on
    seen,      \* the deduplicator: set of <<from, id>>
    cooling,   \* the throttle: <<node, port>> pairs inside their cooldown
    pc,        \* pc[h]: the next lock section of handler h
    pkt,       \* pkt[h]: the packet h works on
    ctx,       \* ctx[h]: h's local variables, see Context
    events,    \* history: the events emitted, see Event
    replies,   \* history: the replies handed to the send path, see Reply
    undecoded, \* history: packets that no key could open
    clobbered, \* history: nodes whose full key an unsigned NodeInfo replaced
    rewritten  \* history: changes of a known signer's User without a signature

vars == <<db, heard, seen, cooling, pc, pkt, ctx, events, replies, undecoded,
          clobbered, rewritten>>
history == <<events, replies, undecoded, clobbered, rewritten>>

\* A pb.NodeInfo: known is "in the map", user is "User is not nil", key is
\* User.PublicKey and signer is HasXeddsaSigned.
Entry == [known : BOOLEAN, user : BOOLEAN, key : Keys \cup {NoKey}, signer : BOOLEAN]

\* chan and pki are processDecoded's arguments, signed is checkSignaturePolicy's
\* result, key is user.PublicKey as pinIdentity left it.  marked remembers
\* whether the sender was a known signer when the packet arrived.
Context == [chan : Channels \cup {NoChannel}, pki : BOOLEAN, signed : BOOLEAN,
            key : Keys \cup {NoKey}, marked : BOOLEAN]

Event == [pkt : Packet, signed : BOOLEAN, pki : BOOLEAN, marked : BOOLEAN,
          chan : Channels \cup {NoChannel}]

\* user is whether the signer had a User before the change.
Rewrite == [pkt : Packet, pki : BOOLEAN, user : BOOLEAN]

Reply == [as : Nodes, to : Nodes, port : Ports, pki : BOOLEAN, chan : Channels]

Stages == {"idle", "pki", "policy", "mark", "bootstrap", "pin", "store",
           "channel", "update", "emit", "respond", "respondManaged"}

\* The types of the NodeDB, the deduplicator, the throttle and the handlers' locals; every
\* reply has a registered channel to leave on (channelForDestination never returns none).
TypeOK ==
    /\ db \in [Nodes -> Entry]
    /\ heard \in [Nodes -> Channels \cup {NoChannel}]
    /\ seen \subseteq Nodes \X Nat
    /\ cooling \subseteq Nodes \X Ports
    /\ pc \in [Handlers -> Stages]
    /\ pkt \in [Handlers -> Packet]
    /\ ctx \in [Handlers -> Context]
    /\ events \subseteq Event
    /\ replies \subseteq Reply
    /\ undecoded \subseteq Packet
    /\ clobbered \subseteq Nodes
    /\ rewritten \subseteq Rewrite

NoEntry == [known |-> FALSE, user |-> FALSE, key |-> NoKey, signer |-> FALSE]
NoContext == [chan |-> NoChannel, pki |-> FALSE, signed |-> FALSE, key |-> NoKey,
              marked |-> FALSE]

Init ==
    /\ db = [n \in Nodes |-> NoEntry]
    /\ heard = [n \in Nodes |-> NoChannel]
    /\ seen = {}
    /\ cooling = {}
    /\ pc = [h \in Handlers |-> "idle"]
    /\ pkt \in [Handlers -> Packets]
    /\ ctx = [h \in Handlers |-> NoContext]
    /\ events = {}
    /\ replies = {}
    /\ undecoded = {}
    /\ clobbered = {}
    /\ rewritten = {}
-----------------------------------------------------------------------------
(***************************************************************************)
(* Pure helpers.                                                           *)
(***************************************************************************)

Goto(h, stage) == pc' = [pc EXCEPT ![h] = stage]
Primary == Registry[1]
Registered == {Registry[i] : i \in 1..Len(Registry)}

\* ChannelRegistry.ResolveByName: unknown and shared names resolve to nothing.
ByName(name) ==
    LET named == {c \in Registered : ChName[c] = name}
    IN  IF Cardinality(named) = 1 THEN CHOOSE c \in named : TRUE ELSE NoChannel

\* ChannelRegistry.LookupAll and the loop over its result: the first registered
\* channel with the packet's hash whose key opens the packet.  TryDecode treats
\* a packet flagged PkiEncrypted as a Curve25519 ciphertext, which no PSK opens.
PskChannel(p, pkiFlag) ==
    LET opens == {i \in 1..Len(Registry) :
                    /\ ChHash[Registry[i]] = p.hash
                    /\ ~pkiFlag /\ p.kind = "psk"
                    /\ ChPsk[Registry[i]] = ChPsk[p.chan]}
    IN  IF opens = {} THEN NoChannel
        ELSE Registry[CHOOSE i \in opens : \A j \in opens : i <= j]

\* baseNode.decodedChannel: the transport's name, else ChannelRegistry.LookupName.
LookupName(hash) ==
    LET hashed == {i \in 1..Len(Registry) : ChHash[Registry[i]] = hash}
    IN  IF hashed = {} THEN NoName
        ELSE ChName[Registry[CHOOSE i \in hashed : \A j \in hashed : i <= j]]
DecodedName(p) == IF p.topic # NoName THEN p.topic ELSE LookupName(p.hash)
DecodedChannel(p) == ByName(DecodedName(p))


\* Node.shouldTryPKI and BridgeNode.shouldTryPKI.
NodeShouldTryPKI(p) == Self \in PrivateFor /\ p.kind # "decoded" /\ p.hash = 0 /\ p.to = Self
BridgeShouldTryPKI(p) == p.kind # "decoded" /\ p.hash = 0 /\ p.to \in Managed
ShouldTryPKI(p) == IF IsBridge THEN BridgeShouldTryPKI(p) ELSE NodeShouldTryPKI(p)

\* tryDecryptPKI: the sender's key, from the NodeDB for a Node and from the
\* consumer for a bridge, and NoKey when a key is missing.
NodePKIKey(p) == IF db[p.from].user THEN db[p.from].key ELSE NoKey
BridgePKIKey(p) == IF p.to \in PrivateFor THEN ConsumerKey[p.from] ELSE NoKey
PKIKey(p) == IF IsBridge THEN BridgePKIKey(p) ELSE NodePKIKey(p)

\* publicKeyFor as set up by New and NewBridge, and lookupPublicKey's length check.
StoredKey(n) == IF db[n].user THEN db[n].key ELSE NoKey
PublicKeyFor(n) == IF IsBridge /\ ConsumerKey[n] # NoKey THEN ConsumerKey[n] ELSE StoredKey(n)
LookupPublicKey(n) == IF PublicKeyFor(n) \in FullKeys THEN PublicKeyFor(n) ELSE NoKey

MatchesPublicKey(n, k) == k \in FullKeys /\ KeyOwner[k] = n

\* Where processDecoded goes first for a packet it accepts.
FirstStage(p, signed) ==
    IF p.body = "broken" THEN "idle"
    ELSE CASE p.port = "NODEINFO" -> IF signed THEN "store" ELSE "pin"
           [] p.port \in {"POSITION", "MAP_REPORT"} -> "update"
           [] p.port = "TELEMETRY" -> IF p.body = "full" THEN "update" ELSE "emit"
           [] p.port = "TRACEROUTE" -> IF IsBridge /\ ~p.answers THEN "respond" ELSE "emit"
           [] OTHER -> "emit"
-----------------------------------------------------------------------------
(***************************************************************************)
(* handleIncomingPacket.                                                   *)
(***************************************************************************)

\* Steps 1 and 2: a transport calls the handler with p; the deduplicator is the
\* first shared state it touches.  Packets without an ID are not deduplicated.
SeenBefore(p) == p.id # 0 /\ <<p.from, p.id>> \in seen
\* Mutant: the packet is looked up but not recorded.
RecordNothing(p) == seen' = seen
Record(p) == seen' = IF p.id = 0 THEN seen ELSE seen \cup {<<p.from, p.id>>}
SelfEcho(p) == p.from = Self \/ (IsBridge /\ p.from \in Managed)

Duplicate(h, p) ==
    /\ pc[h] = "idle"
    /\ SeenBefore(p)
    /\ UNCHANGED vars

DropEcho(h, p) ==
    /\ pc[h] = "idle"
    /\ ~SeenBefore(p)
    /\ Record(p)
    /\ SelfEcho(p)
    /\ UNCHANGED <<db, heard, cooling, pc, pkt, ctx, history>>

\* processDecoded is entered with the channel and the PKI flag.
Decoded(h, p, ch, pki, marked) ==
    /\ ctx' = [ctx EXCEPT ![h] = [chan |-> ch, pki |-> pki, signed |-> FALSE,
                                  key |-> p.key, marked |-> marked]]
    /\ Goto(h, "policy")
    /\ UNCHANGED undecoded

TryPSK(h, p, pkiFlag, marked) ==
    LET ch == PskChannel(p, pkiFlag)
    IN  IF ch # NoChannel THEN Decoded(h, p, ch, FALSE, marked)
        ELSE /\ undecoded' = undecoded \cup {p}
             /\ Goto(h, "idle")
             /\ UNCHANGED ctx

Intake(h, p) ==
    LET marked == db[p.from].signer
    IN
    /\ pc[h] = "idle"
    /\ ~SeenBefore(p)
    /\ Record(p)
    /\ ~SelfEcho(p)
    /\ pkt' = [pkt EXCEPT ![h] = p]
    /\ \/ /\ p.kind = "decoded"
          /\ Decoded(h, p, DecodedChannel(p), FALSE, marked)
       \/ /\ ShouldTryPKI(p)
          /\ ctx' = [ctx EXCEPT ![h] = [NoContext EXCEPT !.marked = marked]]
          /\ Goto(h, "pki")
          /\ UNCHANGED undecoded
       \/ /\ p.kind # "decoded" /\ ~ShouldTryPKI(p)
          /\ TryPSK(h, p, FALSE, marked)
    /\ UNCHANGED <<db, heard, cooling, events, replies, clobbered, rewritten>>

\* What a chance decoding looks like: some port, no signature, no request.
Garbled(p) == [p EXCEPT !.port = "OTHER", !.sig = NoSig, !.want = FALSE, !.body = "full"]

\* tryDecryptPKI, then the PSK fallback.  TryDecodePKI flags the packet
\* PkiEncrypted before it knows whether decryption succeeds.  A ciphertext too
\* short for PKI is XORed with the private key instead; the result may by chance
\* parse as a Data and is then taken for a PKI message.
TryPKI(h) ==
    LET p == pkt[h]
        key == PKIKey(p)
        flagged == key # NoKey /\ p.long
        opened == flagged /\ p.kind = "pki" /\ p.peer = key
        marked == ctx[h].marked
    IN
    /\ pc[h] = "pki"
    /\ \/ opened /\ Decoded(h, p, NoChannel, TRUE, marked) /\ UNCHANGED pkt
       \/ /\ key # NoKey /\ ~p.long
          /\ Decoded(h, Garbled(p), NoChannel, TRUE, marked)
          /\ pkt' = [pkt EXCEPT ![h] = Garbled(p)]
       \/ ~opened /\ TryPSK(h, p, flagged, marked) /\ UNCHANGED pkt
    /\ UNCHANGED <<db, heard, seen, cooling, events, replies, clobbered, rewritten>>
-----------------------------------------------------------------------------
(***************************************************************************)
(* checkSignaturePolicy.                                                   *)
(***************************************************************************)

Accept(h, signed) ==
    /\ ctx' = [ctx EXCEPT ![h].signed = signed]
    /\ Goto(h, FirstStage(pkt[h], signed))

Reject(h) == Goto(h, "idle") /\ UNCHANGED ctx

PolicyFrame == UNCHANGED <<db, heard, seen, cooling, pkt, history>>

\* A 64-byte signature, and a key to check it with.
VerifySignature(h) ==
    LET key == LookupPublicKey(pkt[h].from)
    IN
    /\ pc[h] = "policy"
    /\ pkt[h].sig \in Keys
    /\ key # NoKey
    /\ IF pkt[h].sig = key THEN Goto(h, "mark") /\ UNCHANGED ctx ELSE Reject(h)
    /\ PolicyFrame

\* Mutants: the key need not derive the sender; an entry without a key counts as
\* an earlier contact.
FirstContactAnyKey(h) ==
    LET p == pkt[h]
    IN
    /\ pc[h] = "policy"
    /\ p.sig \in Keys
    /\ LookupPublicKey(p.from) = NoKey
    /\ p.port = "NODEINFO"
    /\ IF p.sig = p.key THEN Goto(h, "bootstrap") /\ UNCHANGED ctx ELSE Reject(h)
    /\ PolicyFrame

FirstContactUnknownOnly(h) ==
    LET p == pkt[h]
    IN
    /\ pc[h] = "policy"
    /\ p.sig \in Keys
    /\ LookupPublicKey(p.from) = NoKey
    /\ p.port = "NODEINFO"
    /\ IF ~db[p.from].known /\ MatchesPublicKey(p.from, p.key) /\ p.sig = p.key
       THEN Goto(h, "bootstrap") /\ UNCHANGED ctx
       ELSE Reject(h)
    /\ PolicyFrame

\* verifyFirstContactNodeInfo: no key held, and a NodeInfo brings its own.
FirstContact(h) ==
    LET p == pkt[h]
    IN
    /\ pc[h] = "policy"
    /\ p.sig \in Keys
    /\ LookupPublicKey(p.from) = NoKey
    /\ p.port = "NODEINFO"
    /\ IF p.body # "broken" /\ MatchesPublicKey(p.from, p.key) /\ p.sig = p.key
       THEN Goto(h, "bootstrap") /\ UNCHANGED ctx
       ELSE Reject(h)
    /\ PolicyFrame

\* Signed, but there is no key to check the signature against.
Unverifiable(h) ==
    /\ pc[h] = "policy"
    /\ pkt[h].sig \in Keys
    /\ LookupPublicKey(pkt[h].from) = NoKey
    /\ pkt[h].port # "NODEINFO"
    /\ IF Policy = "STRICT" THEN Reject(h) ELSE Accept(h, FALSE)
    /\ PolicyFrame

Malformed(h) ==
    /\ pc[h] = "policy"
    /\ pkt[h].sig = BadSig
    /\ Reject(h)
    /\ PolicyFrame

IsKnownSigner(n) == db[n].signer

\* Mutant: the downgrade rule is applied to unicasts instead of broadcasts.
DowngradedUnicast(p) ==
    IsKnownSigner(p.from) /\ (p.to # Broadcast \/ Licensed) /\ p.fits

\* BALANCED drops what a signer always signs; fits stands for the size check.
Downgraded(p) ==
    IsKnownSigner(p.from) /\ (p.to = Broadcast \/ Licensed) /\ p.fits

\* Mutant: STRICT treats unsigned packets the way BALANCED does.
UnsignedLenient(h) ==
    /\ pc[h] = "policy"
    /\ pkt[h].sig = NoSig
    /\ IF ctx[h].pki \/ Policy = "COMPATIBLE" \/ ~Downgraded(pkt[h])
       THEN Accept(h, FALSE) ELSE Reject(h)
    /\ PolicyFrame

Unsigned(h) ==
    /\ pc[h] = "policy"
    /\ pkt[h].sig = NoSig
    /\ IF \/ ctx[h].pki
          \/ Policy = "COMPATIBLE"
          \/ Policy = "BALANCED" /\ ~Downgraded(pkt[h])
       THEN Accept(h, FALSE) ELSE Reject(h)
    /\ PolicyFrame

\* markSigner.
MarkSigner(h) ==
    /\ pc[h] = "mark"
    /\ db' = [db EXCEPT ![pkt[h].from].known = TRUE, ![pkt[h].from].signer = TRUE]
    /\ Accept(h, TRUE)
    /\ UNCHANGED <<heard, seen, cooling, pkt, history>>

\* The update at the end of verifyFirstContactNodeInfo.
Bootstrap(h) ==
    /\ pc[h] = "bootstrap"
    /\ db' = [db EXCEPT ![pkt[h].from] =
                [known |-> TRUE, user |-> TRUE, key |-> pkt[h].key, signer |-> TRUE]]
    /\ Accept(h, TRUE)
    /\ UNCHANGED <<heard, seen, cooling, pkt, history>>
-----------------------------------------------------------------------------
(***************************************************************************)
(* processDecoded.                                                         *)
(***************************************************************************)

\* Mutant: the held key is not kept.
PinWithoutKey(h) ==
    LET existing == db[pkt[h].from]
    IN
    /\ pc[h] = "pin"
    /\ Goto(h, IF existing.user /\ existing.signer THEN "respond" ELSE "store")
    /\ UNCHANGED <<db, heard, seen, cooling, pkt, ctx, history>>

\* pinIdentity for an unsigned NodeInfo: a read of the NodeDB, acted on later.
PinIdentity(h) ==
    LET existing == db[pkt[h].from]
    IN
    /\ pc[h] = "pin"
    /\ IF existing.user /\ existing.signer
       THEN Goto(h, "respond") /\ UNCHANGED ctx
       ELSE /\ Goto(h, "store")
            /\ ctx' = IF existing.user /\ existing.key \in FullKeys
                      THEN [ctx EXCEPT ![h].key = existing.key] ELSE ctx
    /\ UNCHANGED <<db, heard, seen, cooling, pkt, history>>

\* The User of a known signer changes without a signature.
RecordRewrite(h) ==
    LET entry == db[pkt[h].from]
    IN  rewritten' = IF entry.signer /\ ~ctx[h].signed
                     THEN rewritten \cup {[pkt |-> pkt[h], pki |-> ctx[h].pki, user |-> entry.user]}
                     ELSE rewritten

\* db.Update(from, info.User = user).
StoreUser(h) ==
    LET n == pkt[h].from
        unsigned == ~ctx[h].signed
    IN
    /\ pc[h] = "store"
    /\ db' = [db EXCEPT ![n].known = TRUE, ![n].user = TRUE, ![n].key = ctx[h].key]
    /\ clobbered' = IF unsigned /\ db[n].key \in FullKeys /\ db[n].key # ctx[h].key
                    THEN clobbered \cup {n} ELSE clobbered
    /\ RecordRewrite(h)
    /\ Goto(h, "channel")
    /\ UNCHANGED <<heard, seen, cooling, pkt, ctx, events, replies, undecoded>>

\* Mutant: the channel is looked up by wire hash, which collides.
SetChannelByHash(h) ==
    LET hashed == {i \in 1..Len(Registry) : ChHash[Registry[i]] = pkt[h].hash}
    IN
    /\ pc[h] = "channel"
    /\ heard' = IF hashed = {} THEN heard
                ELSE [heard EXCEPT ![pkt[h].from] =
                        Registry[CHOOSE i \in hashed : \A j \in hashed : i <= j]]
    /\ Goto(h, "emit")
    /\ UNCHANGED <<db, seen, cooling, pkt, ctx, history>>

\* db.SetChannel, skipped when the channel is not known.
SetChannel(h) ==
    /\ pc[h] = "channel"
    /\ heard' = IF ctx[h].chan = NoChannel THEN heard
                ELSE [heard EXCEPT ![pkt[h].from] = ctx[h].chan]
    /\ Goto(h, "emit")
    /\ UNCHANGED <<db, seen, cooling, pkt, ctx, history>>

\* The NodeDB update of a position, of device metrics or of a map report.  A
\* map report also sets names, model and role of the User, creating one without
\* a key if there is none; nothing consults pinIdentity.
UpdateEntry(h) ==
    LET n == pkt[h].from
        renames == pkt[h].port = "MAP_REPORT"
    IN
    /\ pc[h] = "update"
    /\ db' = [db EXCEPT ![n].known = TRUE, ![n].user = @ \/ renames]
    /\ IF renames THEN RecordRewrite(h) ELSE UNCHANGED rewritten
    /\ Goto(h, "emit")
    /\ UNCHANGED <<heard, seen, cooling, pkt, ctx, events, replies, undecoded, clobbered>>

\* emitEvent, called synchronously by the handler goroutine.
EmitEvent(h) ==
    /\ pc[h] = "emit"
    /\ events' = events \cup
        {[pkt |-> pkt[h], signed |-> ctx[h].signed, pki |-> ctx[h].pki,
          marked |-> ctx[h].marked, chan |-> ctx[h].chan]}
    /\ Goto(h, "respond")
    /\ UNCHANGED <<db, heard, seen, cooling, pkt, ctx, replies, undecoded,
                   clobbered, rewritten>>
-----------------------------------------------------------------------------
(***************************************************************************)
(* Replies.  canRespond(n, port) takes the throttle's lock; the reply then *)
(* goes to the send path, which picks the channel.                         *)
(***************************************************************************)

\* TRACEROUTE has a cooldown too, but nothing asks canRespond for it.
Throttled(port) == port \in {"NODEINFO", "TELEMETRY", "NEIGHBORINFO"}
CanRespond(n, port) == <<n, port>> \notin cooling
StartCooldown(n, port) ==
    cooling' = IF Throttled(port) THEN cooling \cup {<<n, port>>} ELSE cooling

\* channelForDestination of a unicast.
ChannelForDestination(n) == IF heard[n] # NoChannel THEN heard[n] ELSE Primary

SendReply(as, h) ==
    replies' = replies \cup
        {[as |-> as, to |-> pkt[h].from, port |-> pkt[h].port, pki |-> FALSE,
          chan |-> ChannelForDestination(pkt[h].from)]}

ReplyFrame == UNCHANGED <<db, heard, seen, pkt, ctx, events, undecoded, clobbered, rewritten>>

\* Node: NodeInfo replies are throttled per requester, position replies are not.
NodeAnswers(h) == pkt[h].want /\ pkt[h].port \in {"NODEINFO", "POSITION"}

RespondNode(h) ==
    LET n == pkt[h].from
    IN
    /\ ~IsBridge
    /\ pc[h] = "respond"
    /\ IF NodeAnswers(h) /\ CanRespond(n, pkt[h].port)
       THEN StartCooldown(n, pkt[h].port) /\ SendReply(Self, h)
       ELSE UNCHANGED <<cooling, replies>>
    /\ Goto(h, "idle")
    /\ ReplyFrame

\* Bridge: the bridge's own NodeInfo reply, throttled per answering identity; the
\* cooldown starts even when sendNodeInfoResponse has no valid User to send.
RespondBridge(h) ==
    /\ IsBridge
    /\ pc[h] = "respond"
    /\ IF pkt[h].port = "NODEINFO" /\ pkt[h].want /\ CanRespond(Self, "NODEINFO")
       THEN /\ StartCooldown(Self, "NODEINFO")
            /\ IF Self \in Introducible THEN SendReply(Self, h) ELSE UNCHANGED replies
       ELSE UNCHANGED <<cooling, replies>>
    /\ Goto(h, "respondManaged")
    /\ ReplyFrame

\* The managed node a unicast request was addressed to answers.
ManagedAnswers(h) ==
    LET p == pkt[h]
    IN  /\ p.to \in Managed
        /\ \/ p.want /\ p.port = "TELEMETRY"
           \/ p.want /\ p.port = "NEIGHBORINFO" /\ p.body = "full"
           \/ p.want /\ p.port = "NODEINFO" /\ p.to # Self
           \/ p.port = "TRACEROUTE" /\ ~p.answers

\* The channel name processDecoded was called with; responseEncryption answers
\* under PKI when it reads "PKI", whatever the packet travelled under.
RequestName(h) ==
    IF ctx[h].pki THEN "PKI"
    ELSE IF ctx[h].chan # NoChannel THEN ChName[ctx[h].chan] ELSE DecodedName(pkt[h])

\* channelOption and sendAs: the exact channel of the request; else its name,
\* which must resolve; else the destination's channel.
PskAnswerChannel(h) ==
    IF ctx[h].chan # NoChannel THEN ctx[h].chan
    ELSE IF RequestName(h) = NoName THEN ChannelForDestination(pkt[h].from)
    ELSE ByName(RequestName(h))

Answer(h, pki, ch) ==
    {[as |-> pkt[h].to, to |-> pkt[h].from, port |-> pkt[h].port, pki |-> pki, chan |-> c] :
        c \in {ch} \ {NoChannel}}

\* A NodeInfo always goes to the destination's channel; the others follow
\* responseEncryption, and a PKI reply fails without both keys.
ManagedReply(h) ==
    IF pkt[h].port = "NODEINFO"
    THEN IF pkt[h].to \in Introducible
         THEN Answer(h, FALSE, ChannelForDestination(pkt[h].from)) ELSE {}
    ELSE IF RequestName(h) = "PKI"
    THEN IF pkt[h].to \in PrivateFor /\ ConsumerKey[pkt[h].from] # NoKey
         THEN Answer(h, TRUE, Primary) ELSE {}
    ELSE Answer(h, FALSE, PskAnswerChannel(h))

\* handleTracerouteRequest first acknowledges a request that asks for it.
Ack(h) ==
    IF pkt[h].port = "TRACEROUTE" /\ pkt[h].ack
    THEN {[as |-> pkt[h].to, to |-> pkt[h].from, port |-> "ROUTING", pki |-> FALSE,
           chan |-> ChannelForDestination(pkt[h].from)]}
    ELSE {}

RespondManaged(h) ==
    /\ pc[h] = "respondManaged"
    /\ IF ManagedAnswers(h) /\ CanRespond(pkt[h].to, pkt[h].port)
       THEN /\ StartCooldown(pkt[h].to, pkt[h].port)
            /\ replies' = replies \cup Ack(h) \cup ManagedReply(h)
       ELSE UNCHANGED <<cooling, replies>>
    /\ Goto(h, "idle")
    /\ ReplyFrame

\* A cooldown runs out.
CooldownOver ==
    /\ \E c \in cooling : cooling' = cooling \ {c}
    /\ UNCHANGED <<db, heard, seen, pc, pkt, ctx, history>>
-----------------------------------------------------------------------------
\* The steps of a handler that has taken in a packet.
Working(h) ==
    \/ TryPKI(h) \/ VerifySignature(h) \/ FirstContact(h) \/ Unverifiable(h)
    \/ Malformed(h) \/ Unsigned(h) \/ MarkSigner(h) \/ Bootstrap(h)
    \/ PinIdentity(h) \/ StoreUser(h) \/ SetChannel(h) \/ UpdateEntry(h)
    \/ EmitEvent(h) \/ RespondNode(h) \/ RespondBridge(h) \/ RespondManaged(h)

Pipeline(h) ==
    \/ \E p \in Packets : Duplicate(h, p) \/ DropEcho(h, p) \/ Intake(h, p)
    \/ Working(h)

Next == CooldownOver \/ \E h \in Handlers : Pipeline(h)

Spec == Init /\ [][Next]_vars

\* A handler goroutine that has started is scheduled until it returns: the steps
\* after intake only take mutexes that the same function releases, and event
\* handlers are assumed to return.
FairSpec == Spec /\ \A h \in Handlers : WF_vars(Working(h))
-----------------------------------------------------------------------------
(***************************************************************************)
(* Properties.                                                             *)
(***************************************************************************)

\* Handlers inside the pipeline; packets the deduplicator cannot tell apart.
Busy == Stages \ {"idle"}
SameID(p, q) == p.from = q.from /\ p.id = q.id /\ p.id # 0

\* Deduplication covers the whole pipeline: while a handler works on a packet
\* that carries an ID, no other handler works on the same (from, id), and no
\* event has been emitted for it yet (handleIncomingPacket, step 1).
ProcessedOnce ==
    \A h \in Handlers : pc[h] \in Busy =>
        /\ \A g \in Handlers \ {h} : pc[g] \in Busy => ~SameID(pkt[g], pkt[h])
        /\ pc[h] \notin {"respond", "respondManaged"} =>
              \A e \in events : ~SameID(e.pkt, pkt[h])

\* BALANCED, "rejects unsigned, signable broadcasts from nodes that have
\* previously signed": no event stems from such a packet when its sender was a
\* known signer on arrival, whatever other handlers do to the NodeDB meanwhile.
NoDowngrade ==
    Policy = "BALANCED" =>
        \A e \in events :
            ~ (/\ e.marked
               /\ e.pkt.sig = NoSig /\ ~e.pki
               /\ e.pkt.to = Broadcast \/ Licensed
               /\ e.pkt.fits)

\* An event reported as signed comes from a node the NodeDB knows as a signer:
\* markSigner and the first-contact update precede the event and nothing undoes
\* them.
SignedEventsFromSigners ==
    \A e \in events : e.signed => db[e.pkt.from].signer

\* Keys of n that can be traced back to n's ID or to the consumer: derived from
\* it, supplied by the consumer, or carried by a NodeInfo that such a key
\* authenticated (the least set closed under that).
RootKeys(n) == {k \in FullKeys : KeyOwner[k] = n} \cup ({ConsumerKey[n]} \cap Keys)
VouchClosed(n, S) ==
    \A p \in Packets :
        /\ p.from = n /\ p.port = "NODEINFO" /\ p.key \in Keys
        /\ p.sig \in S \/ (p.kind = "pki" /\ p.peer \in S)
        => p.key \in S
Vouched == [n \in Nodes |->
    {k \in Keys : \A S \in SUBSET Keys : RootKeys(n) \subseteq S /\ VouchClosed(n, S) => k \in S}]

\* Under STRICT every key in the NodeDB has such a trace, under any interleaving.
StrictKeysVouched ==
    Policy = "STRICT" => \A n \in Nodes : db[n].key # NoKey => db[n].key \in Vouched[n]

\* What STRICT asks of an event: a signature by a key with such a trace, or a message
\* that the PKI of such a key encrypted.
Authenticated(e) ==
    \/ e.signed /\ e.pkt.sig \in Vouched[e.pkt.from]
    \/ e.pki /\ e.pkt.kind = "pki" /\ e.pkt.long /\ e.pkt.peer \in Vouched[e.pkt.from]

\* Under STRICT an event is authenticated, however handlers interleave and keys change.
\* The exception: TryDecodePKI takes a ciphertext too short to be PKI for one when the XOR
\* with the private key happens to parse (keys.go, len(x.Encrypted) > MeshtasticPKCOverhead).
StrictAuthenticates ==
    Policy = "STRICT" => \A e \in events : Authenticated(e) \/ (e.pki /\ ~e.pkt.long)

\* config.pb.go on STRICT, "Accept only packets authenticated by a verified XEdDSA
\* signature or successful PKI decryption": refuted by that exception.
StrictDocumented ==
    Policy = "STRICT" => \A e \in events : Authenticated(e)

\* pinIdentity, "An unsigned NodeInfo may never replace a public key we already
\* hold": true of one handler at a time; pinIdentity's check and the update it
\* allows are separate lock sections, so concurrent handlers refute it.
KeyPinned == clobbered = {}

\* pinIdentity, "a node known to sign may only change its identity through a
\* signed NodeInfo": refuted by map reports, which change the User without asking
\* pinIdentity, and by a NodeInfo from a signer whose User is not known yet.
SignerPinned == rewritten = {}

\* Packets that the policy accepts without a verified signature even from a signer.
Unchecked(p, pki) ==
    \/ pki
    \/ Policy = "COMPATIBLE"
    \/ Policy = "BALANCED" /\ (p.sig # NoSig \/ ~p.fits \/ ~(p.to = Broadcast \/ Licensed))

\* What does hold of both rules when a transport hands over one packet at a time, over
\* any sequence of packets: a held key is never replaced without a signature, a signer's
\* User, once held, is never changed by an unsigned NodeInfo, and it is changed by a map
\* report only where the policy lets a signer's unsigned packet pass.
IdentityPinned ==
    /\ KeyPinned
    /\ \A r \in rewritten :
        /\ r.pkt.port = "NODEINFO" => ~r.user
        /\ Unchecked(r.pkt, r.pki)

\* A node once known as a signer stays one: no later update resets the flag.
SignerForever == [][\A n \in Nodes : db[n].signer => db'[n].signer]_vars

\* A node that introduces itself with a signed NodeInfo becomes a known signer
\* once the packet gets past decryption, provided every NodeInfo that arrives in
\* its name carries that key or none (the packets of the run).
SignerRecognised ==
    \A p \in Packets :
        p.port = "NODEINFO" /\ MatchesPublicKey(p.from, p.key) /\ p.sig = p.key =>
            ((\E h \in Handlers : pkt[h] = p /\ pc[h] = "policy") ~> db[p.from].signer)

\* We received a packet from n that names c or its key.
HeardOn(n, c) ==
    \E p \in Packets :
        /\ p.from = n
        /\ p.id = 0 \/ <<n, p.id>> \in seen
        /\ \/ p.kind = "psk" /\ ChPsk[p.chan] = ChPsk[c]
           \/ p.kind = "decoded" /\ DecodedChannel(p) = c

\* A reply leaves under PKI, on the primary channel, or on a channel whose key
\* a packet from its addressee that we received was readable with (or whose
\* name the transport gave for one).
RepliesOnHeardChannels ==
    \A r \in replies : r.pki \/ r.chan = Primary \/ HeardOn(r.to, r.chan)

\* "PKI decryption failed, falling back to PSK": a packet encrypted with the key
\* of a registered channel is never given up as undecodable.
PskFallbackWorks ==
    \A p \in undecoded :
        ~ (p.kind = "psk" /\ \E c \in Registered : ChHash[c] = p.hash /\ ChPsk[c] = ChPsk[p.chan])
=============================================================================
