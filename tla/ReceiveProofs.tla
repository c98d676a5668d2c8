--------------------------- MODULE ReceiveProofs ----------------------------
(***************************************************************************)
(* Proofs about Receive, for any number of handler goroutines, any packets *)
(* and either kind of node.  The inductive invariant IInv relates what a   *)
(* handler has in its local variables to the shared state it was read      *)
(* from; every part of it is monotone in the deduplicator's records and in *)
(* the signer flags, which is why interleaving cannot break it.            *)
(***************************************************************************)
EXTENDS Receive, TLAPS, FiniteSetTheorems, NaturalsInduction, WellFoundedInduction

\* Stages behind the signature policy: only an accepted packet gets there.
Accepted == {"pin", "store", "channel", "update", "emit", "respond", "respondManaged"}

\* A packet in work, or already reported, is on record if it has an ID.
RecordedWork ==
    /\ \A h \in Handlers : pc[h] # "idle" /\ pkt[h].id # 0 =>
            <<pkt[h].from, pkt[h].id>> \in seen
    /\ \A e \in events : e.pkt.id # 0 => <<e.pkt.from, e.pkt.id>> \in seen

\* What a handler believes about the sender is still true of the NodeDB.
Belief(h) ==
    pc[h] # "idle" /\ (ctx[h].signed \/ ctx[h].marked) => db[pkt[h].from].signer

\* Only a signed packet has its signature verified; an accepted packet is not a
\* downgrade under BALANCED, and is signed or taken for PKI under STRICT.
Downgrade(p, pki, marked) ==
    /\ marked /\ p.sig = NoSig /\ ~pki
    /\ p.to = Broadcast \/ Licensed
    /\ p.fits
Judged(h) ==
    /\ pc[h] \in {"mark", "bootstrap"} => pkt[h].sig # NoSig
    /\ pc[h] \in Accepted =>
        /\ Policy = "BALANCED" => ~Downgrade(pkt[h], ctx[h].pki, ctx[h].marked)
        /\ Policy = "STRICT" => ctx[h].signed \/ ctx[h].pki

IInv ==
    /\ TypeOK
    /\ RecordedWork
    /\ ProcessedOnce
    /\ \A h \in Handlers : Belief(h) /\ Judged(h)
    /\ SignedEventsFromSigners
    /\ NoDowngrade

\* Stages in which a handler's copy of the key is still the packet's own.
OwnKey == {"policy", "mark", "bootstrap", "pin"}

\* Under STRICT, whatever key a handler is about to use or store is vouched for.
Traced(h) ==
    pc[h] # "idle" =>
        /\ pkt[h].port = "NODEINFO" => pkt[h] \in Packets
        /\ pc[h] \in OwnKey => ctx[h].key = pkt[h].key
        /\ pc[h] = "mark" => pkt[h].sig \in Vouched[pkt[h].from]
        /\ pc[h] = "bootstrap" => pkt[h].key \in Vouched[pkt[h].from]
        /\ pc[h] \in OwnKey /\ ctx[h].pki /\ pkt[h].port = "NODEINFO" =>
                pkt[h].kind = "pki" /\ pkt[h].peer \in Vouched[pkt[h].from]
        /\ pc[h] \in {"pin", "store"} =>
                pkt[h].port = "NODEINFO" /\ ctx[h].key \in Vouched[pkt[h].from] \cup {NoKey}

VInv == IInv /\ StrictKeysVouched /\ (Policy = "STRICT" => \A h \in Handlers : Traced(h))
-----------------------------------------------------------------------------
(***************************************************************************)
(* The types of the helpers.                                               *)
(***************************************************************************)

\* A set of registry positions has a first one.
LEMMA LeastExists ==
    ASSUME NEW S, S \subseteq Nat, S # {}
    PROVE  \E i \in S : \A j \in S : i <= j
<1>1. PICK i \in S : \A j \in S : ~ (<<j, i>> \in OpToRel(<, Nat))
    BY NatLessThanWellFounded, WFMin, Zenon
<1>2. \A j \in S : ~ (j < i)
    BY <1>1, Zenon DEF OpToRel
<1> QED
    BY <1>2

\* The registry holds channels, the primary one first.
LEMMA RegistryType ==
    /\ \A i \in 1..Len(Registry) : Registry[i] \in Channels
    /\ Registered \subseteq Channels
    /\ Primary \in Channels
    /\ NoChannel \notin Channels
BY ReceiveAssumption DEF Registered, Primary

\* The first of a set of registry positions holds a channel.
LEMMA FirstChannelType ==
    ASSUME NEW S, S \subseteq 1..Len(Registry), S # {}
    PROVE  Registry[CHOOSE i \in S : \A j \in S : i <= j] \in Channels
<1>1. S \subseteq Nat
    OBVIOUS
<1>2. (CHOOSE i \in S : \A j \in S : i <= j) \in S
    BY <1>1, LeastExists
<1> QED
    BY <1>2, RegistryType

\* A channel name resolves to a registered channel or to nothing.
LEMMA ByNameType == \A name : ByName(name) \in Channels \cup {NoChannel}
<1> TAKE name
<1> DEFINE named == {c \in Registered : ChName[c] = name}
<1>1. CASE Cardinality(named) = 1
    <2>1. named # {}
        <3>1. ASSUME named = {} PROVE FALSE
            BY <1>1, <3>1, FS_EmptySet
        <3> QED BY <3>1
    <2>2. (CHOOSE c \in named : TRUE) \in named
        BY <2>1
    <2> QED
        BY <2>2, <1>1, RegistryType DEF ByName
<1>2. CASE Cardinality(named) # 1
    BY <1>2 DEF ByName
<1> QED
    BY <1>1, <1>2

\* The PSK attempt finds a channel or none.
LEMMA PskChannelType ==
    \A p, flag : PskChannel(p, flag) \in Channels \cup {NoChannel}
<1> TAKE p, flag
<1> DEFINE opens == {i \in 1..Len(Registry) :
                       /\ ChHash[Registry[i]] = p.hash
                       /\ ~flag /\ p.kind = "psk"
                       /\ ChPsk[Registry[i]] = ChPsk[p.chan]}
<1>1. CASE opens = {}
    BY <1>1 DEF PskChannel
<1>2. CASE opens # {}
    <2>1. opens \subseteq 1..Len(Registry)
        OBVIOUS
    <2>2. Registry[CHOOSE i \in opens : \A j \in opens : i <= j] \in Channels
        BY <1>2, <2>1, FirstChannelType, Zenon
    <2> QED
        BY <1>2, <2>2, Zenon DEF PskChannel
<1> QED
    BY <1>1, <1>2

\* The fields of a packet have their types.
LEMMA PacketFields ==
    ASSUME NEW p \in Packet
    PROVE  /\ p.from \in Nodes
           /\ p.to \in Nodes \cup {Broadcast}
           /\ p.id \in Nat
           /\ p.port \in Ports
           /\ p.key \in Keys \cup {NoKey}
           /\ p.sig \in Keys \cup {NoSig, BadSig}
           /\ p.fits \in BOOLEAN
           /\ p.body \in {"full", "partial", "broken"}
BY DEF Packet

\* A ciphertext decoded under the wrong key is a packet with the same header.
LEMMA GarbledType ==
    ASSUME NEW p \in Packet
    PROVE  /\ Garbled(p) \in Packet
           /\ Garbled(p).from = p.from /\ Garbled(p).id = p.id
           /\ Garbled(p).port = "OTHER"
           /\ Garbled(p).key = p.key
BY ZenonT(40) DEF Packet, Garbled, Ports

\* Acceptance leads to a stage behind the policy, or ends the work.
LEMMA FirstStageType ==
    \A p, signed : FirstStage(p, signed) \in (Accepted \cup {"idle"})
BY DEF FirstStage, Accepted
-----------------------------------------------------------------------------
(***************************************************************************)
(* Type correctness.                                                       *)
(***************************************************************************)

\* The pipeline starts with its types.
LEMMA InitType == Init => TypeOK
BY ReceiveAssumption DEF Init, TypeOK, NoEntry, NoContext, Entry, Context, Stages

\* Decoding leaves a context and a stage of a handler.
LEMMA DecodedType ==
    ASSUME TypeOK, NEW h \in Handlers, NEW p \in Packet,
           NEW ch \in Channels \cup {NoChannel}, NEW pki \in BOOLEAN,
           NEW marked \in BOOLEAN, Decoded(h, p, ch, pki, marked)
    PROVE  /\ ctx' \in [Handlers -> Context]
           /\ pc' \in [Handlers -> Stages]
           /\ undecoded' \subseteq Packet
BY PacketFields DEF TypeOK, Decoded, Goto, Context, Stages

\* The PSK attempt leaves a context and a stage of a handler.
LEMMA TryPSKType ==
    ASSUME TypeOK, NEW h \in Handlers, NEW p \in Packet, NEW flag \in BOOLEAN,
           NEW marked \in BOOLEAN, TryPSK(h, p, flag, marked)
    PROVE  /\ ctx' \in [Handlers -> Context]
           /\ pc' \in [Handlers -> Stages]
           /\ undecoded' \subseteq Packet
<1>1. CASE PskChannel(p, flag) # NoChannel
    BY <1>1, PskChannelType, DecodedType DEF TryPSK
<1>2. CASE PskChannel(p, flag) = NoChannel
    BY <1>2 DEF TryPSK, TypeOK, Goto, Stages
<1> QED
    BY <1>1, <1>2

\* A packet the policy accepts goes on with its context.
LEMMA AcceptType ==
    ASSUME TypeOK, NEW h \in Handlers, NEW signed \in BOOLEAN, Accept(h, signed)
    PROVE  ctx' \in [Handlers -> Context] /\ pc' \in [Handlers -> Stages]
<1>1. FirstStage(pkt[h], signed) \in Stages
    BY FirstStageType DEF Accepted, Stages
<1> QED
    BY <1>1 DEF Accept, TypeOK, Goto, Context

\* A packet the policy drops ends its handler call.
LEMMA RejectType ==
    ASSUME TypeOK, NEW h \in Handlers, Reject(h)
    PROVE  ctx' \in [Handlers -> Context] /\ pc' \in [Handlers -> Stages]
BY DEF Reject, TypeOK, Goto, Stages

\* A reply always has a channel.
LEMMA ChannelForDestinationType ==
    ASSUME TypeOK, NEW n \in Nodes
    PROVE  ChannelForDestination(n) \in Channels
BY RegistryType DEF TypeOK, ChannelForDestination

\* The throttle map holds nodes and ports.
LEMMA CooldownType ==
    ASSUME TypeOK, NEW n \in Nodes, NEW port \in Ports, StartCooldown(n, port)
    PROVE  cooling' \subseteq Nodes \X Ports
BY DEF TypeOK, StartCooldown

\* What sendReply sends is a reply.
LEMMA SendReplyType ==
    ASSUME TypeOK, NEW h \in Handlers, NEW as \in Nodes, SendReply(as, h)
    PROVE  replies' \subseteq Reply
<1>1. pkt[h].from \in Nodes /\ pkt[h].port \in Ports
    BY PacketFields DEF TypeOK
<1>2. ChannelForDestination(pkt[h].from) \in Channels
    BY <1>1, ChannelForDestinationType
<1>3. [as |-> as, to |-> pkt[h].from, port |-> pkt[h].port, pki |-> FALSE,
       chan |-> ChannelForDestination(pkt[h].from)] \in Reply
    BY <1>1, <1>2 DEF Reply
<1> QED
    BY <1>3, Zenon DEF SendReply, TypeOK

\* What a managed identity answers are replies.
LEMMA ManagedReplyType ==
    ASSUME TypeOK, NEW h \in Handlers, ManagedAnswers(h)
    PROVE  Ack(h) \subseteq Reply /\ ManagedReply(h) \subseteq Reply
<1>1. pkt[h].from \in Nodes /\ pkt[h].port \in Ports /\ pkt[h].to \in Nodes
    BY PacketFields, ReceiveAssumption DEF TypeOK, ManagedAnswers
<1>2. ChannelForDestination(pkt[h].from) \in Channels
    BY <1>1, ChannelForDestinationType
<1>3. PskAnswerChannel(h) \in Channels \cup {NoChannel}
    BY <1>2, ByNameType DEF PskAnswerChannel, TypeOK, Context
<1>4. \A pki \in BOOLEAN, ch \in Channels \cup {NoChannel} : Answer(h, pki, ch) \subseteq Reply
    BY <1>1 DEF Answer, Reply
<1>5. Ack(h) \subseteq Reply
    <2>1. [as |-> pkt[h].to, to |-> pkt[h].from, port |-> "ROUTING", pki |-> FALSE,
           chan |-> ChannelForDestination(pkt[h].from)] \in Reply
        BY <1>1, <1>2 DEF Reply, Ports
    <2> QED
        BY <2>1, Zenon DEF Ack
<1>6. ManagedReply(h) \subseteq Reply
    BY <1>2, <1>3, <1>4, RegistryType DEF ManagedReply
<1> QED
    BY <1>5, <1>6

\* A recorded change of a signer's User is well formed.
LEMMA RewriteType ==
    ASSUME TypeOK, NEW h \in Handlers, RecordRewrite(h)
    PROVE  rewritten' \subseteq Rewrite
<1>1. pkt[h] \in Packet /\ ctx[h].pki \in BOOLEAN /\ db[pkt[h].from].user \in BOOLEAN
    BY PacketFields DEF TypeOK, Context, Entry
<1> QED
    BY <1>1 DEF RecordRewrite, Rewrite, TypeOK

\* No step leaves the types.
LEMMA NextType == TypeOK /\ [Next]_vars => TypeOK'
<1> SUFFICES ASSUME TypeOK, [Next]_vars PROVE TypeOK'
    OBVIOUS
<1>1. CASE CooldownOver
    BY <1>1 DEF CooldownOver, TypeOK, history
<1>2. CASE UNCHANGED vars
    BY <1>2 DEF vars, TypeOK
<1>3. ASSUME NEW h \in Handlers, NEW p \in Packets,
             Duplicate(h, p) \/ DropEcho(h, p) \/ Intake(h, p)
      PROVE  TypeOK'
    <2> p \in Packet
        BY ReceiveAssumption
    <2>1. p.from \in Nodes /\ p.id \in Nat
        BY PacketFields
    <2>2. Record(p) => seen' \subseteq Nodes \X Nat
        BY <2>1 DEF Record, TypeOK
    <2>3. CASE Duplicate(h, p)
        BY <2>3 DEF Duplicate, vars, TypeOK
    <2>4. CASE DropEcho(h, p)
        BY <2>2, <2>4 DEF DropEcho, TypeOK, history
    <2>5. CASE Intake(h, p)
        <3> DEFINE marked == db[p.from].signer
        <3>1. marked \in BOOLEAN
            BY <2>1 DEF TypeOK, Entry
        <3>2. DecodedChannel(p) \in Channels \cup {NoChannel}
            BY ByNameType DEF DecodedChannel
        <3>3. /\ ctx' \in [Handlers -> Context]
              /\ pc' \in [Handlers -> Stages]
              /\ undecoded' \subseteq Packet
            <4>1. CASE Decoded(h, p, DecodedChannel(p), FALSE, marked)
                BY <3>1, <3>2, <4>1, DecodedType
            <4>2. CASE TryPSK(h, p, FALSE, marked)
                BY <3>1, <4>2, TryPSKType
            <4>3. CASE /\ ctx' = [ctx EXCEPT ![h] = [NoContext EXCEPT !.marked = marked]]
                       /\ Goto(h, "pki")
                       /\ UNCHANGED undecoded
                BY <3>1, <4>3, ReceiveAssumption DEF TypeOK, Context, NoContext, Goto, Stages
            <4> QED
                BY <2>5, <4>1, <4>2, <4>3 DEF Intake
        <3> QED
            BY <2>2, <2>5, <3>3 DEF Intake, TypeOK
    <2> QED
        BY <1>3, <2>3, <2>4, <2>5
<1>4. ASSUME NEW h \in Handlers, Working(h)
      PROVE  TypeOK'
    <2>0. /\ pkt[h] \in Packet /\ pkt[h].from \in Nodes /\ pkt[h].port \in Ports
          /\ pkt[h].key \in Keys \cup {NoKey}
        BY PacketFields DEF TypeOK
    <2>1. CASE TryPKI(h)
        <3>1. ctx[h].marked \in BOOLEAN
            BY DEF TypeOK, Context
        <3>2. Garbled(pkt[h]) \in Packet
            BY <2>0, GarbledType
        <3> DEFINE Local == /\ ctx' \in [Handlers -> Context]
                            /\ pc' \in [Handlers -> Stages]
                            /\ undecoded' \subseteq Packet
        <3>3. Local
            <4>1. ASSUME NEW q \in Packet, Decoded(h, q, NoChannel, TRUE, ctx[h].marked)
                  PROVE  Local
                BY <3>1, <4>1, DecodedType
            <4>2. ASSUME NEW flag \in BOOLEAN, TryPSK(h, pkt[h], flag, ctx[h].marked)
                  PROVE  Local
                BY <2>0, <3>1, <4>2, TryPSKType
            <4>3. PICK flag \in BOOLEAN :
                    \/ Decoded(h, pkt[h], NoChannel, TRUE, ctx[h].marked)
                    \/ Decoded(h, Garbled(pkt[h]), NoChannel, TRUE, ctx[h].marked)
                    \/ TryPSK(h, pkt[h], flag, ctx[h].marked)
                BY <2>1, Zenon DEF TryPKI
            <4> QED
                BY <2>0, <3>2, <4>1, <4>2, <4>3, Zenon
        <3>4. pkt' \in [Handlers -> Packet]
            BY <2>1, <3>2 DEF TryPKI, TypeOK
        <3> QED
            BY <2>1, <3>3, <3>4 DEF TryPKI, TypeOK
    <2>2. CASE VerifySignature(h) \/ FirstContact(h) \/ Unverifiable(h) \/ Malformed(h) \/ Unsigned(h)
        <3>1. ctx' \in [Handlers -> Context] /\ pc' \in [Handlers -> Stages]
            <4>1. CASE Accept(h, FALSE)
                BY <4>1, AcceptType
            <4>2. CASE Reject(h)
                BY <4>2, RejectType
            <4>3. CASE (Goto(h, "mark") \/ Goto(h, "bootstrap")) /\ UNCHANGED ctx
                BY <4>3 DEF TypeOK, Goto, Stages
            <4> QED
                BY <2>2, <4>1, <4>2, <4>3
                   DEF VerifySignature, FirstContact, Unverifiable, Malformed, Unsigned
        <3>2. PolicyFrame
            BY <2>2 DEF VerifySignature, FirstContact, Unverifiable, Malformed, Unsigned
        <3> QED
            BY <3>1, <3>2 DEF PolicyFrame, TypeOK, history
    <2>3. CASE MarkSigner(h) \/ Bootstrap(h)
        <3>1. ctx' \in [Handlers -> Context] /\ pc' \in [Handlers -> Stages]
            BY <2>3, AcceptType DEF MarkSigner, Bootstrap
        <3>2. db' \in [Nodes -> Entry]
            <4>1. CASE MarkSigner(h)
                BY <2>0, <4>1 DEF MarkSigner, TypeOK, Entry
            <4>2. CASE Bootstrap(h)
                <5>1. [known |-> TRUE, user |-> TRUE, key |-> pkt[h].key, signer |-> TRUE] \in Entry
                    BY <2>0 DEF Entry
                <5> QED
                    BY <4>2, <5>1 DEF Bootstrap, TypeOK
            <4> QED
                BY <2>3, <4>1, <4>2
        <3> QED
            BY <2>3, <3>1, <3>2 DEF MarkSigner, Bootstrap, TypeOK, history
    <2>4. CASE PinIdentity(h)
        <3>1. db[pkt[h].from].key \in Keys \cup {NoKey}
            BY <2>0 DEF TypeOK, Entry
        <3>2. ctx' \in [Handlers -> Context]
            BY <2>4, <3>1 DEF PinIdentity, TypeOK, Context
        <3>3. pc' \in [Handlers -> Stages]
            BY <2>4 DEF PinIdentity, TypeOK, Goto, Stages
        <3> QED
            BY <2>4, <3>2, <3>3 DEF PinIdentity, TypeOK, history
    <2>5. CASE StoreUser(h)
        <3>1. ctx[h].key \in Keys \cup {NoKey}
            BY DEF TypeOK, Context
        <3>2. db' \in [Nodes -> Entry]
            BY <2>0, <2>5, <3>1, ZenonT(40) DEF StoreUser, TypeOK, Entry
        <3>3. rewritten' \subseteq Rewrite
            BY <2>5, RewriteType DEF StoreUser
        <3> QED
            BY <2>0, <2>5, <3>2, <3>3 DEF StoreUser, TypeOK, Goto, Stages
    <2>6. CASE SetChannel(h)
        BY <2>0, <2>6 DEF SetChannel, TypeOK, Context, Goto, Stages, history
    <2>7. CASE UpdateEntry(h)
        <3>1. db' \in [Nodes -> Entry]
            BY <2>0, <2>7, ZenonT(40) DEF UpdateEntry, TypeOK, Entry
        <3>2. rewritten' \subseteq Rewrite
            BY <2>7, RewriteType DEF UpdateEntry, TypeOK
        <3> QED
            BY <2>0, <2>7, <3>1, <3>2 DEF UpdateEntry, TypeOK, Goto, Stages
    <2>8. CASE EmitEvent(h)
        <3>1. events' \subseteq Event
            BY <2>0, <2>8 DEF EmitEvent, TypeOK, Event, Context
        <3> QED
            BY <2>8, <3>1 DEF EmitEvent, TypeOK, Goto, Stages
    <2>9. CASE RespondNode(h) \/ RespondBridge(h) \/ RespondManaged(h)
        <3>1. pc' \in [Handlers -> Stages]
            BY <2>9 DEF RespondNode, RespondBridge, RespondManaged, Goto, TypeOK, Stages
        <3>2. cooling' \subseteq Nodes \X Ports
            <4>1. CASE RespondNode(h)
                BY <2>0, <4>1, CooldownType DEF RespondNode, TypeOK
            <4>2. CASE RespondBridge(h)
                BY <4>2, CooldownType, ReceiveAssumption DEF RespondBridge, TypeOK, Ports
            <4>3. CASE RespondManaged(h)
                <5>1. ManagedAnswers(h) => pkt[h].to \in Nodes
                    BY ReceiveAssumption DEF ManagedAnswers
                <5> QED
                    BY <2>0, <4>3, <5>1, CooldownType DEF RespondManaged, TypeOK
            <4> QED
                BY <2>9, <4>1, <4>2, <4>3
        <3>3. replies' \subseteq Reply
            <4>1. CASE RespondNode(h)
                BY <4>1, SendReplyType, ReceiveAssumption DEF RespondNode, TypeOK
            <4>2. CASE RespondBridge(h)
                BY <4>2, SendReplyType, ReceiveAssumption DEF RespondBridge, TypeOK
            <4>3. CASE RespondManaged(h)
                BY <4>3, ManagedReplyType DEF RespondManaged, TypeOK
            <4> QED
                BY <2>9, <4>1, <4>2, <4>3
        <3>4. ReplyFrame
            BY <2>9 DEF RespondNode, RespondBridge, RespondManaged
        <3> QED
            BY <3>1, <3>2, <3>3, <3>4 DEF ReplyFrame, TypeOK
    <2> QED
        BY <1>4, <2>1, <2>2, <2>3, <2>4, <2>5, <2>6, <2>7, <2>8, <2>9 DEF Working
<1> QED
    BY <1>1, <1>2, <1>3, <1>4 DEF Next, Pipeline

\* The pipeline's state is well typed in every reachable state; in particular a
\* reply is always given a channel.
THEOREM TypeCorrect == Spec => []TypeOK
BY InitType, NextType, PTL DEF Spec
-----------------------------------------------------------------------------
(***************************************************************************)
(* What every step of a handler has in common.                             *)
(***************************************************************************)

\* A step of h touches no other handler's local state, keeps every record of the
\* deduplicator and every signer flag, and only EmitEvent reports.
LEMMA StepFrame ==
    ASSUME TypeOK, NEW h \in Handlers, Pipeline(h)
    PROVE  /\ \A g \in Handlers : g # h => /\ pc'[g] = pc[g]
                                          /\ pkt'[g] = pkt[g]
                                          /\ ctx'[g] = ctx[g]
           /\ \A n \in Nodes : db[n].signer => db'[n].signer
           /\ seen \subseteq seen'
           /\ EmitEvent(h) \/ events' = events
<1> DEFINE Framed == /\ \A g \in Handlers : g # h => /\ pc'[g] = pc[g]
                                                    /\ pkt'[g] = pkt[g]
                                                    /\ ctx'[g] = ctx[g]
                     /\ \A n \in Nodes : db[n].signer => db'[n].signer
                     /\ seen \subseteq seen'
                     /\ EmitEvent(h) \/ events' = events
<1> SUFFICES Framed
    OBVIOUS
<1> USE DEF TypeOK, Goto, history
<1>1. ASSUME NEW p \in Packets, Duplicate(h, p) \/ DropEcho(h, p) \/ Intake(h, p)
      PROVE  Framed
    BY <1>1 DEF Duplicate, DropEcho, Intake, Record, Decoded, TryPSK, vars
<1>2. CASE TryPKI(h)
    BY <1>2 DEF TryPKI, Decoded, TryPSK
<1>3. CASE VerifySignature(h) \/ FirstContact(h) \/ Unverifiable(h) \/ Malformed(h) \/ Unsigned(h)
    BY <1>3 DEF VerifySignature, FirstContact, Unverifiable, Malformed, Unsigned,
       Accept, Reject, PolicyFrame
<1>4. CASE MarkSigner(h) \/ Bootstrap(h)
    <2>1. \A n \in Nodes : db[n].signer => db'[n].signer
        <3>1. CASE MarkSigner(h)
            BY <3>1 DEF MarkSigner, Entry
        <3>2. CASE Bootstrap(h)
            BY <3>2 DEF Bootstrap
        <3> QED
            BY <1>4, <3>1, <3>2
    <2> QED
        BY <1>4, <2>1 DEF MarkSigner, Bootstrap, Accept
<1>5. CASE PinIdentity(h) \/ SetChannel(h)
    BY <1>5 DEF PinIdentity, SetChannel
<1>6. CASE StoreUser(h) \/ UpdateEntry(h)
    BY <1>6 DEF StoreUser, UpdateEntry, Entry
<1>7. CASE EmitEvent(h)
    BY <1>7 DEF EmitEvent
<1>8. CASE RespondNode(h) \/ RespondBridge(h) \/ RespondManaged(h)
    BY <1>8 DEF RespondNode, RespondBridge, RespondManaged, ReplyFrame
<1> QED
    BY <1>1, <1>2, <1>3, <1>4, <1>5, <1>6, <1>7, <1>8 DEF Pipeline, Working

\* A handler at work keeps its packet's identity and never goes back from its
\* replies to a stage before the event.
LEMMA WorkFrame ==
    ASSUME TypeOK, NEW h \in Handlers, Working(h)
    PROVE  /\ pc[h] # "idle"
           /\ pkt'[h].from = pkt[h].from /\ pkt'[h].id = pkt[h].id
           /\ seen' = seen
           /\ pc[h] \in {"respond", "respondManaged"} => pc'[h] \in {"idle", "respondManaged"}
<1> DEFINE Framed == /\ pc[h] # "idle"
                     /\ pkt'[h].from = pkt[h].from /\ pkt'[h].id = pkt[h].id
                     /\ seen' = seen
                     /\ pc[h] \in {"respond", "respondManaged"} => pc'[h] \in {"idle", "respondManaged"}
<1> SUFFICES Framed
    OBVIOUS
<1> USE DEF TypeOK
<1>1. CASE TryPKI(h)
    <2>1. pkt[h] \in Packet
        OBVIOUS
    <2> QED
        BY <1>1, <2>1, GarbledType DEF TryPKI
<1>2. CASE VerifySignature(h) \/ FirstContact(h) \/ Unverifiable(h) \/ Malformed(h) \/ Unsigned(h)
    BY <1>2 DEF VerifySignature, FirstContact, Unverifiable, Malformed, Unsigned, PolicyFrame
<1>3. CASE MarkSigner(h) \/ Bootstrap(h) \/ PinIdentity(h) \/ SetChannel(h)
    BY <1>3 DEF MarkSigner, Bootstrap, PinIdentity, SetChannel
<1>4. CASE StoreUser(h) \/ UpdateEntry(h) \/ EmitEvent(h)
    BY <1>4 DEF StoreUser, UpdateEntry, EmitEvent
<1>5. CASE RespondNode(h) \/ RespondBridge(h) \/ RespondManaged(h)
    BY <1>5 DEF RespondNode, RespondBridge, RespondManaged, ReplyFrame, Goto
<1> QED
    BY <1>1, <1>2, <1>3, <1>4, <1>5 DEF Working
-----------------------------------------------------------------------------
(***************************************************************************)
(* Deduplication.                                                          *)
(***************************************************************************)

\* No step of a handler takes in a packet that is recorded, or records too late.
LEMMA OnceStep ==
    ASSUME TypeOK, RecordedWork, ProcessedOnce, NEW h \in Handlers, Pipeline(h)
    PROVE  RecordedWork' /\ ProcessedOnce'
<1> USE DEF RecordedWork, ProcessedOnce, SameID, Busy, Stages
<1>1. TypeOK'
    BY NextType DEF Next
<1>2. ASSUME NEW p \in Packets, Duplicate(h, p) \/ DropEcho(h, p)
      PROVE  RecordedWork' /\ ProcessedOnce'
    BY <1>2, StepFrame DEF Duplicate, DropEcho, vars, history
<1>3. ASSUME NEW p \in Packets, Intake(h, p)
      PROVE  RecordedWork' /\ ProcessedOnce'
    <2>1. p.id # 0 => <<p.from, p.id>> \notin seen /\ <<p.from, p.id>> \in seen'
        BY <1>3 DEF Intake, SeenBefore, Record
    <2>2. pkt'[h] = p /\ pc[h] = "idle" /\ events' = events
        BY <1>3 DEF Intake, TypeOK
    <2> QED
        BY <2>1, <2>2, StepFrame, <1>1 DEF TypeOK
<1>4. CASE EmitEvent(h)
    <2>1. \A e \in events' : e \in events \/ e.pkt = pkt[h]
        BY <1>4 DEF EmitEvent
    <2>2. pc'[h] = "respond" /\ pc[h] = "emit" /\ pkt' = pkt /\ seen' = seen
        BY <1>4 DEF EmitEvent, TypeOK, Goto
    <2> QED
        BY <2>1, <2>2, StepFrame, <1>1 DEF TypeOK
<1>5. CASE Working(h) /\ ~EmitEvent(h)
    BY <1>1, <1>5, StepFrame, WorkFrame DEF TypeOK
<1> QED
    BY <1>2, <1>3, <1>4, <1>5 DEF Pipeline
-----------------------------------------------------------------------------
(***************************************************************************)
(* Signature policy.                                                       *)
(***************************************************************************)

\* A step of h keeps what h believes true and lets no packet through that the
\* policy forbids.
LEMMA OwnStep ==
    ASSUME TypeOK, NEW h \in Handlers, Belief(h), Judged(h), Pipeline(h)
    PROVE  Belief(h)' /\ Judged(h)'
<1> DEFINE Goal == Belief(h)' /\ Judged(h)'
<1> SUFFICES Goal
    OBVIOUS
<1>0. /\ pkt[h] \in Packet /\ pkt[h].from \in Nodes /\ ctx[h] \in Context
      /\ pkt[h].sig \in Keys \cup {NoSig, BadSig}
      /\ NoSig \notin Keys /\ NoSig # BadSig
    BY PacketFields, ReceiveAssumption DEF TypeOK
<1>1. \A n \in Nodes : db[n].signer => db'[n].signer
    BY StepFrame
<1>2. ASSUME NEW p \in Packets, Duplicate(h, p) \/ DropEcho(h, p)
      PROVE  Goal
    BY <1>2 DEF Duplicate, DropEcho, vars, history, Belief, Judged, Downgrade
<1>3. ASSUME NEW p \in Packets, Intake(h, p)
      PROVE  Goal
    <2>1. pkt'[h] = p /\ db' = db
        BY <1>3 DEF Intake, TypeOK
    <2>2. /\ pc'[h] \in {"idle", "pki", "policy"}
          /\ pc'[h] # "idle" => /\ ctx'[h].signed = FALSE
                               /\ ctx'[h].marked = db[p.from].signer
        <3>1. CASE Decoded(h, p, DecodedChannel(p), FALSE, db[p.from].signer)
            BY <3>1 DEF Decoded, TypeOK, Goto
        <3>2. CASE TryPSK(h, p, FALSE, db[p.from].signer)
            <4>1. CASE Decoded(h, p, PskChannel(p, FALSE), FALSE, db[p.from].signer)
                BY <4>1 DEF Decoded, TypeOK, Goto
            <4>2. CASE Goto(h, "idle")
                BY <4>2 DEF TypeOK, Goto
            <4> QED
                BY <3>2, <4>1, <4>2 DEF TryPSK
        <3>3. CASE /\ ctx' = [ctx EXCEPT ![h] = [NoContext EXCEPT !.marked = db[p.from].signer]]
                   /\ Goto(h, "pki")
            BY <3>3 DEF TypeOK, Goto, NoContext
        <3> QED
            BY <1>3, <3>1, <3>2, <3>3 DEF Intake
    <2> QED
        BY <2>1, <2>2 DEF Belief, Judged, Accepted
<1>4. CASE TryPKI(h)
    <2>1. pkt'[h].from = pkt[h].from /\ db' = db
        BY <1>4, WorkFrame DEF TryPKI, Working
    <2>2. /\ pc[h] # "idle" /\ pc'[h] \in {"idle", "policy"}
          /\ pc'[h] # "idle" => /\ ctx'[h].signed = FALSE
                               /\ ctx'[h].marked = ctx[h].marked
        BY <1>4 DEF TryPKI, Decoded, TryPSK, TypeOK, Goto
    <2> QED
        BY <2>1, <2>2 DEF Belief, Judged, Accepted
<1>5. CASE VerifySignature(h) \/ FirstContact(h) \/ Malformed(h)
    <2>1. /\ pkt' = pkt /\ db' = db /\ ctx' = ctx
          /\ pc[h] = "policy" /\ pc'[h] \in {"idle", "mark", "bootstrap"}
          /\ pc'[h] # "idle" => pkt[h].sig # NoSig
        BY <1>5, <1>0 DEF VerifySignature, FirstContact, Malformed, PolicyFrame, Reject, Goto, TypeOK
    <2> QED
        BY <2>1 DEF Belief, Judged, Accepted
<1>6. CASE Unverifiable(h) \/ Unsigned(h)
    <2>1. /\ pkt' = pkt /\ db' = db /\ pc[h] = "policy"
        BY <1>6 DEF Unverifiable, Unsigned, PolicyFrame
    <2>2. CASE Reject(h)
        BY <2>1, <2>2 DEF Reject, Goto, TypeOK, Belief, Judged, Accepted
    <2>3. CASE Accept(h, FALSE)
        <3>1. ctx'[h].signed = FALSE /\ ctx'[h].marked = ctx[h].marked /\ ctx'[h].pki = ctx[h].pki
            BY <2>3, <1>0 DEF Accept, TypeOK, Context
        <3>0. pc'[h] \notin {"mark", "bootstrap"}
            BY <2>3, FirstStageType DEF Accept, Goto, TypeOK, Accepted
        <3>2. Belief(h)'
            BY <2>1, <3>1 DEF Belief
        <3>3. CASE Unverifiable(h) /\ Policy # "STRICT"
            BY <1>0, <2>1, <3>0, <3>1, <3>2, <3>3 DEF Unverifiable, Judged, Downgrade
        <3>4. CASE /\ Unsigned(h)
                   /\ \/ ctx[h].pki
                      \/ Policy = "COMPATIBLE"
                      \/ Policy = "BALANCED" /\ ~Downgraded(pkt[h])
            BY <2>1, <3>0, <3>1, <3>2, <3>4 DEF Judged, Downgrade, Downgraded, IsKnownSigner, Belief
        <3>5. CASE Unsigned(h) /\ Reject(h)
            BY <2>2, <3>5
        <3>6. CASE Unverifiable(h) /\ Reject(h)
            BY <2>2, <3>6
        <3> QED
            BY <1>6, <3>3, <3>4, <3>5, <3>6 DEF Unverifiable, Unsigned
    <2> QED
        BY <1>6, <2>2, <2>3 DEF Unverifiable, Unsigned
<1>7. CASE MarkSigner(h) \/ Bootstrap(h)
    <2>1. pkt' = pkt /\ ctx'[h].signed = TRUE
        <3>1. Accept(h, TRUE) /\ pkt' = pkt
            BY <1>7 DEF MarkSigner, Bootstrap
        <3> QED
            BY <3>1, <1>0 DEF Accept, TypeOK, Context
    <2>3. pkt[h].sig # NoSig /\ pc'[h] \notin {"mark", "bootstrap"}
        <3>1. Accept(h, TRUE) /\ pc[h] \in {"mark", "bootstrap"}
            BY <1>7 DEF MarkSigner, Bootstrap
        <3> QED
            BY <3>1, FirstStageType DEF Judged, Accept, Goto, TypeOK, Accepted
    <2>2. db'[pkt[h].from].signer
        <3>1. CASE MarkSigner(h)
            BY <1>0, <3>1 DEF MarkSigner, TypeOK, Entry
        <3>2. CASE Bootstrap(h)
            BY <1>0, <3>2 DEF Bootstrap, TypeOK
        <3> QED
            BY <1>7, <3>1, <3>2
    <2> QED
        BY <2>1, <2>2, <2>3 DEF Belief, Judged, Downgrade, Accepted
<1>8. CASE PinIdentity(h) \/ StoreUser(h) \/ SetChannel(h) \/ UpdateEntry(h) \/ EmitEvent(h)
    <2>1. /\ pkt' = pkt /\ pc[h] \in Accepted
          /\ ctx'[h].signed = ctx[h].signed /\ ctx'[h].marked = ctx[h].marked
          /\ ctx'[h].pki = ctx[h].pki /\ pc'[h] \notin {"mark", "bootstrap"}
        BY <1>8, <1>0 DEF Goto, PinIdentity, StoreUser, SetChannel, UpdateEntry, EmitEvent,
           Accepted, TypeOK, Context
    <2> QED
        BY <1>0, <1>1, <2>1 DEF Belief, Judged, Downgrade, Accepted
<1>9. CASE RespondNode(h) \/ RespondBridge(h) \/ RespondManaged(h)
    <2>1. /\ pkt' = pkt /\ ctx' = ctx /\ db' = db /\ pc[h] \in Accepted
          /\ pc'[h] \notin {"mark", "bootstrap"}
        BY <1>9 DEF Goto, TypeOK, RespondNode, RespondBridge, RespondManaged, ReplyFrame, Accepted
    <2> QED
        BY <2>1 DEF Belief, Judged, Downgrade, Accepted
<1> QED
    BY <1>2, <1>3, <1>4, <1>5, <1>6, <1>7, <1>8, <1>9 DEF Pipeline, Working

\* A step of h does not disturb another handler's beliefs.
LEMMA OtherStep ==
    ASSUME TypeOK, NEW h \in Handlers, NEW g \in Handlers, g # h,
           Belief(g), Judged(g), Pipeline(h)
    PROVE  Belief(g)' /\ Judged(g)'
<1>1. pkt[g].from \in Nodes
    BY PacketFields DEF TypeOK
<1> QED
    BY <1>1, StepFrame DEF Belief, Judged, Downgrade

\* Events stay acceptable: old ones because signer flags are kept, a new one
\* because of what its handler knows.
LEMMA EventStep ==
    ASSUME TypeOK, NEW h \in Handlers, Belief(h), Judged(h), Pipeline(h),
           SignedEventsFromSigners, NoDowngrade
    PROVE  SignedEventsFromSigners' /\ NoDowngrade'
<1>1. \A e \in events : e.pkt.from \in Nodes
    BY PacketFields DEF TypeOK, Event
<1>2. pkt[h].from \in Nodes
    BY PacketFields DEF TypeOK
<1>3. \A n \in Nodes : db[n].signer => db'[n].signer
    BY StepFrame
<1>4. CASE events' = events
    BY <1>1, <1>3, <1>4 DEF SignedEventsFromSigners, NoDowngrade
<1>5. CASE EmitEvent(h)
    <2> DEFINE new == [pkt |-> pkt[h], signed |-> ctx[h].signed, pki |-> ctx[h].pki,
                       marked |-> ctx[h].marked, chan |-> ctx[h].chan]
    <2>1. events' = events \cup {new} /\ db' = db /\ pc[h] = "emit"
        BY <1>5 DEF EmitEvent
    <2>2. new.pkt = pkt[h] /\ new.signed = ctx[h].signed /\ new.pki = ctx[h].pki
          /\ new.marked = ctx[h].marked
        OBVIOUS
    <2>3. /\ new.signed => db[new.pkt.from].signer
          /\ Policy = "BALANCED" => ~Downgrade(new.pkt, new.pki, new.marked)
        BY <2>1, <2>2 DEF Belief, Judged, Accepted
    <2> HIDE DEF new
    <2> QED
        BY <2>1, <2>3 DEF SignedEventsFromSigners, NoDowngrade, Downgrade
<1> QED
    BY <1>4, <1>5, StepFrame

\* With an empty NodeDB and idle handlers the inductive invariant holds.
LEMMA InitIInv == Init => IInv
<1> SUFFICES ASSUME Init PROVE IInv
    OBVIOUS
<1>1. \A h \in Handlers : pc[h] = "idle"
    BY DEF Init
<1>2. events = {}
    BY DEF Init
<1> QED
    BY <1>1, <1>2, InitType DEF IInv, RecordedWork, ProcessedOnce, Busy, Belief, Judged,
       Accepted, SignedEventsFromSigners, NoDowngrade

\* Steps that touch neither the handlers, the NodeDB, the records nor the events.
LEMMA QuietStep ==
    ASSUME IInv, TypeOK', UNCHANGED <<db, seen, pc, pkt, ctx, events>>
    PROVE  IInv'
BY DEF IInv, RecordedWork, ProcessedOnce, SameID, Belief, Judged, Downgrade,
   SignedEventsFromSigners, NoDowngrade

\* Every step keeps the inductive invariant: one lemma above for each part.
LEMMA NextIInv == IInv /\ [Next]_vars => IInv'
<1> SUFFICES ASSUME IInv, [Next]_vars PROVE IInv'
    OBVIOUS
<1>1. TypeOK /\ TypeOK'
    BY NextType DEF IInv
<1>2. CASE CooldownOver \/ UNCHANGED vars
    BY <1>1, <1>2, QuietStep DEF CooldownOver, vars, history
<1>3. ASSUME NEW h \in Handlers, Pipeline(h)
      PROVE  IInv'
    <2>1. RecordedWork' /\ ProcessedOnce'
        BY <1>3, OnceStep DEF IInv
    <2>2. ASSUME NEW g \in Handlers
          PROVE  Belief(g)' /\ Judged(g)'
        <3>1. CASE g = h
            BY <1>3, <3>1, OwnStep DEF IInv
        <3>2. CASE g # h
            BY <1>3, <3>2, OtherStep DEF IInv
        <3> QED
            BY <3>1, <3>2
    <2>3. SignedEventsFromSigners' /\ NoDowngrade'
        BY <1>3, EventStep DEF IInv
    <2> QED
        BY <1>1, <2>1, <2>2, <2>3 DEF IInv
<1> QED
    BY <1>2, <1>3 DEF Next

\* No packet with an ID is worked on by two handlers at once, or again after its
\* event, however the transports' goroutines interleave.
THEOREM ProcessedOnceAlways == Spec => []ProcessedOnce
BY InitIInv, NextIInv, PTL DEF Spec, IInv

\* An event reported as signed is from a node the NodeDB knows as a signer.
THEOREM SignedEventsAlways == Spec => []SignedEventsFromSigners
BY InitIInv, NextIInv, PTL DEF Spec, IInv

\* BALANCED: an unsigned, signable broadcast of a node that had signed before it
\* arrived never becomes an event.
THEOREM NoDowngradeAlways == Spec => []NoDowngrade
BY InitIInv, NextIInv, PTL DEF Spec, IInv

\* A node that has been recognised as a signer is never forgotten as one.
THEOREM SignerForeverAlways == Spec => SignerForever
<1>1. TypeOK /\ [Next]_vars => [\A n \in Nodes : db[n].signer => db'[n].signer]_vars
    <2> SUFFICES ASSUME TypeOK, Next
                 PROVE  \A n \in Nodes : db[n].signer => db'[n].signer
        OBVIOUS
    <2>1. CASE CooldownOver
        BY <2>1 DEF CooldownOver
    <2>2. ASSUME NEW h \in Handlers, Pipeline(h)
          PROVE  \A n \in Nodes : db[n].signer => db'[n].signer
        BY <2>2, StepFrame
    <2> QED
        BY <2>1, <2>2 DEF Next
<1> QED
    BY <1>1, InitType, NextType, PTL DEF Spec, SignerForever
-----------------------------------------------------------------------------
(***************************************************************************)
(* Keys under STRICT.                                                      *)
(***************************************************************************)

\* The node's own keys are vouched for, and so is every key that a NodeInfo
\* authenticated by a vouched key carries.
LEMMA VouchedRoot ==
    ASSUME NEW n \in Nodes
    PROVE  RootKeys(n) \subseteq Vouched[n]
BY ReceiveAssumption DEF RootKeys, Vouched

\* A key announced under a vouched key is vouched for.
LEMMA VouchedClosed ==
    ASSUME NEW n \in Nodes, NEW p \in Packets, p.from = n, p.port = "NODEINFO", p.key \in Keys,
           p.sig \in Vouched[n] \/ (p.kind = "pki" /\ p.peer \in Vouched[n])
    PROVE  p.key \in Vouched[n]
<1> SUFFICES ASSUME NEW S \in SUBSET Keys, RootKeys(n) \subseteq S, VouchClosed(n, S)
             PROVE  p.key \in S
    BY DEF Vouched
<1>1. p.sig \in S \/ (p.kind = "pki" /\ p.peer \in S)
    BY DEF Vouched
<1> QED
    BY <1>1 DEF VouchClosed

\* Keys the pipeline looks up are vouched for when those in the NodeDB are.
LEMMA LookupVouched ==
    ASSUME TypeOK, StrictKeysVouched, Policy = "STRICT", NEW n \in Nodes
    PROVE  /\ LookupPublicKey(n) # NoKey => LookupPublicKey(n) \in Vouched[n]
           /\ ConsumerKey[n] # NoKey => ConsumerKey[n] \in Vouched[n]
           /\ db[n].key # NoKey => db[n].key \in Vouched[n]
<1>1. ConsumerKey[n] # NoKey => ConsumerKey[n] \in Vouched[n]
    BY VouchedRoot, ReceiveAssumption DEF RootKeys
<1>2. db[n].key # NoKey => db[n].key \in Vouched[n]
    BY DEF StrictKeysVouched
<1> QED
    BY <1>1, <1>2 DEF LookupPublicKey, PublicKeyFor, StoredKey

\* A handler's own steps only give it keys with a trace.
LEMMA OwnTraced ==
    ASSUME TypeOK, TypeOK', StrictKeysVouched, Policy = "STRICT", NEW h \in Handlers,
           Traced(h), Judged(h), Judged(h)', Pipeline(h)
    PROVE  Traced(h)'
<1>0. /\ pkt[h] \in Packet /\ pkt[h].from \in Nodes /\ pkt[h].port \in Ports
      /\ pkt[h].key \in Keys \cup {NoKey} /\ ctx[h] \in Context
      /\ ctx[h].key \in Keys \cup {NoKey}
      /\ NoKey \notin Keys
    BY PacketFields, ReceiveAssumption DEF TypeOK, Context
<1> DEFINE n == pkt[h].from
<1>1. ASSUME NEW p \in Packets, Duplicate(h, p) \/ DropEcho(h, p)
      PROVE  Traced(h)'
    BY <1>1 DEF Duplicate, DropEcho, Traced, vars
<1>2. ASSUME NEW p \in Packets, Intake(h, p)
      PROVE  Traced(h)'
    <2>1. pkt'[h] = p
        BY <1>2 DEF Intake, TypeOK
    <2>2. /\ pc'[h] \in {"idle", "pki", "policy"}
          /\ pc'[h] = "policy" => ctx'[h].key = p.key /\ ctx'[h].pki = FALSE
        <3>1. ASSUME NEW ch, Decoded(h, p, ch, FALSE, db[p.from].signer)
              PROVE  pc'[h] = "policy" /\ ctx'[h].key = p.key /\ ctx'[h].pki = FALSE
            BY <3>1 DEF Decoded, TypeOK, Goto
        <3>2. CASE Goto(h, "idle") \/ Goto(h, "pki")
            BY <3>2 DEF Goto, TypeOK
        <3> QED
            BY <1>2, <3>1, <3>2 DEF Intake, TryPSK
    <2> QED
        BY <2>1, <2>2 DEF Traced, OwnKey
<1>3. CASE TryPKI(h)
    <2> DEFINE key == PKIKey(pkt[h])
    <2>1. key # NoKey => key \in Vouched[n]
        BY <1>0, LookupVouched DEF PKIKey, NodePKIKey, BridgePKIKey
    <2>2. pc[h] = "pki"
        BY <1>3 DEF TryPKI
    <2>3. CASE /\ pkt[h].kind = "pki" /\ pkt[h].peer = key /\ key # NoKey
               /\ Decoded(h, pkt[h], NoChannel, TRUE, ctx[h].marked) /\ pkt' = pkt
        <3>1. pc'[h] = "policy" /\ ctx'[h].key = pkt[h].key
            BY <2>3 DEF Decoded, TypeOK, Goto
        <3> QED
            BY <2>1, <2>2, <2>3, <3>1 DEF Traced, OwnKey
    <2>4. CASE /\ Decoded(h, Garbled(pkt[h]), NoChannel, TRUE, ctx[h].marked)
               /\ pkt' = [pkt EXCEPT ![h] = Garbled(pkt[h])]
        <3>1. pc'[h] = "policy" /\ ctx'[h].key = Garbled(pkt[h]).key /\ pkt'[h] = Garbled(pkt[h])
            BY <2>4 DEF Decoded, TypeOK, Goto
        <3> QED
            BY <1>0, <3>1, GarbledType DEF Traced, OwnKey
    <2>5. ASSUME NEW flag, TryPSK(h, pkt[h], flag, ctx[h].marked), pkt' = pkt
          PROVE  Traced(h)'
        <3>1. CASE Decoded(h, pkt[h], PskChannel(pkt[h], flag), FALSE, ctx[h].marked)
            <4>1. pc'[h] = "policy" /\ ctx'[h].key = pkt[h].key /\ ctx'[h].pki = FALSE
                BY <3>1 DEF Decoded, TypeOK, Goto
            <4> QED
                BY <2>2, <2>5, <4>1 DEF Traced, OwnKey
        <3>2. CASE Goto(h, "idle")
            BY <3>2 DEF Goto, TypeOK, Traced
        <3> QED
            BY <2>5, <3>1, <3>2 DEF TryPSK
    <2> QED
        BY <1>3, <2>3, <2>4, <2>5 DEF TryPKI
<1>4. CASE VerifySignature(h) \/ FirstContact(h) \/ Malformed(h)
    <2>1. pkt' = pkt /\ ctx' = ctx /\ pc[h] = "policy" /\ pc'[h] \in {"idle", "mark", "bootstrap"}
        BY <1>4 DEF VerifySignature, FirstContact, Malformed, PolicyFrame, Reject, Goto, TypeOK
    <2>2. pc'[h] = "mark" => pkt[h].sig = LookupPublicKey(n) /\ LookupPublicKey(n) # NoKey
        BY <1>4 DEF VerifySignature, FirstContact, Malformed, Reject, Goto, TypeOK
    <2>3. pc'[h] = "bootstrap" => pkt[h].key \in RootKeys(n)
        BY <1>4 DEF VerifySignature, FirstContact, Malformed, Reject, Goto, TypeOK,
           MatchesPublicKey, RootKeys
    <2> QED
        BY <1>0, <2>1, <2>2, <2>3, LookupVouched, VouchedRoot DEF Traced, OwnKey
<1>5. CASE Unverifiable(h) \/ Unsigned(h)
    <2>1. pkt' = pkt /\ pc[h] = "policy"
        BY <1>5 DEF Unverifiable, Unsigned, PolicyFrame
    <2>2. CASE Reject(h)
        BY <2>2 DEF Reject, Goto, TypeOK, Traced
    <2>3. CASE Accept(h, FALSE)
        <3>1. ctx'[h].key = ctx[h].key /\ ctx'[h].pki = ctx[h].pki /\ ctx'[h].signed = FALSE
            BY <2>3, <1>0 DEF Accept, TypeOK, Context
        <3>2. /\ pc'[h] \in Accepted \cup {"idle"}
              /\ pc'[h] \in {"pin", "store"} => pkt[h].port = "NODEINFO"
            BY <2>3, FirstStageType DEF Accept, Goto, TypeOK, FirstStage
        <3>3. CASE pc'[h] \in {"pin", "store"}
            <4>1. ctx[h].pki /\ pkt[h].port = "NODEINFO"
                BY <3>1, <3>2, <3>3 DEF Judged, Accepted
            <4>2. /\ pkt[h] \in Packets /\ ctx[h].key = pkt[h].key
                  /\ pkt[h].kind = "pki" /\ pkt[h].peer \in Vouched[n]
                BY <2>1, <4>1 DEF Traced, OwnKey
            <4>3. pkt[h].key # NoKey => pkt[h].key \in Vouched[n]
                BY <1>0, <4>1, <4>2, VouchedClosed
            <4> QED
                BY <1>0, <2>1, <3>1, <3>3, <4>1, <4>2, <4>3 DEF Traced, OwnKey
        <3>4. CASE pc'[h] \notin {"pin", "store"}
            BY <2>1, <3>1, <3>2, <3>4 DEF Traced, OwnKey, Accepted
        <3> QED
            BY <3>3, <3>4
    <2> QED
        BY <1>5, <2>2, <2>3 DEF Unverifiable, Unsigned
<1>6. CASE MarkSigner(h) \/ Bootstrap(h)
    <2>1. /\ pkt' = pkt /\ pc[h] \in {"mark", "bootstrap"} /\ Accept(h, TRUE)
        BY <1>6 DEF MarkSigner, Bootstrap
    <2>2. ctx'[h].key = ctx[h].key
        BY <2>1, <1>0 DEF Accept, TypeOK, Context
    <2>3. /\ pc'[h] \in (Accepted \cup {"idle"}) \ {"pin"}
          /\ pc'[h] = "store" => pkt[h].port = "NODEINFO"
        BY <2>1, FirstStageType DEF Accept, Goto, TypeOK, FirstStage
    <2>4. pkt[h].port = "NODEINFO" /\ pkt[h].key # NoKey => pkt[h].key \in Vouched[n]
        <3>1. CASE pc[h] = "bootstrap"
            BY <3>1 DEF Traced
        <3>2. CASE pc[h] = "mark" /\ pkt[h].port = "NODEINFO" /\ pkt[h].key # NoKey
            <4>1. pkt[h] \in Packets /\ pkt[h].sig \in Vouched[n] /\ pkt[h].key \in Keys
                BY <1>0, <3>2 DEF Traced
            <4> QED
                BY <1>0, <3>2, <4>1, VouchedClosed
        <3> QED
            BY <2>1, <3>1, <3>2
    <2> QED
        BY <1>0, <2>1, <2>2, <2>3, <2>4 DEF Traced, OwnKey, Accepted
<1>7. CASE PinIdentity(h)
    <2>1. /\ pkt' = pkt /\ pc[h] = "pin" /\ pc'[h] \in {"respond", "store"}
          /\ ctx'[h].key = ctx[h].key \/ (ctx'[h].key = db[n].key /\ db[n].key \in FullKeys)
        BY <1>0, <1>7 DEF PinIdentity, Goto, TypeOK, Context
    <2>2. db[n].key \in FullKeys => db[n].key \in Vouched[n]
        BY <1>0, LookupVouched, ReceiveAssumption
    <2> QED
        BY <2>1, <2>2 DEF Traced, OwnKey
<1>8. CASE StoreUser(h) \/ SetChannel(h) \/ UpdateEntry(h) \/ EmitEvent(h)
    <2>1. pkt' = pkt /\ pc[h] # "idle" /\ pc'[h] \in {"channel", "emit", "respond"}
        BY <1>8 DEF StoreUser, SetChannel, UpdateEntry, EmitEvent, Goto, TypeOK
    <2> QED
        BY <2>1 DEF Traced, OwnKey
<1>9. CASE RespondNode(h) \/ RespondBridge(h) \/ RespondManaged(h)
    <2>1. pkt' = pkt /\ pc[h] # "idle" /\ pc'[h] \in {"idle", "respondManaged"}
        BY <1>9 DEF RespondNode, RespondBridge, RespondManaged, ReplyFrame, Goto, TypeOK
    <2> QED
        BY <2>1 DEF Traced, OwnKey
<1> QED
    BY <1>1, <1>2, <1>3, <1>4, <1>5, <1>6, <1>7, <1>8, <1>9 DEF Pipeline, Working

\* The NodeDB's keys change in two places, both fed by a traced handler.
LEMMA KeysStep ==
    ASSUME TypeOK, StrictKeysVouched, NEW h \in Handlers,
           Policy = "STRICT" => Traced(h), Pipeline(h)
    PROVE  StrictKeysVouched'
<1> SUFFICES ASSUME Policy = "STRICT", NEW n \in Nodes, db'[n].key # NoKey
             PROVE  db'[n].key \in Vouched[n]
    BY DEF StrictKeysVouched
<1>0. pkt[h].from \in Nodes /\ (db[n].key # NoKey => db[n].key \in Vouched[n])
    BY PacketFields DEF TypeOK, StrictKeysVouched
<1>1. CASE db'[n].key = db[n].key
    BY <1>0, <1>1
<1>2. CASE Bootstrap(h)
    <2>1. db'[n].key = (IF n = pkt[h].from THEN pkt[h].key ELSE db[n].key)
        BY <1>0, <1>2 DEF Bootstrap, TypeOK
    <2>2. pkt[h].key \in Vouched[pkt[h].from]
        BY <1>2 DEF Bootstrap, Traced
    <2> QED
        BY <1>0, <2>1, <2>2
<1>3. CASE StoreUser(h)
    <2>1. db'[n].key = (IF n = pkt[h].from THEN ctx[h].key ELSE db[n].key)
        BY <1>0, <1>3 DEF StoreUser, TypeOK, Entry
    <2>2. ctx[h].key \in Vouched[pkt[h].from] \cup {NoKey}
        BY <1>3 DEF StoreUser, Traced
    <2> QED
        BY <1>0, <2>1, <2>2
<1>4. CASE MarkSigner(h)
    <2>1. db'[n].key = db[n].key
        BY <1>0, <1>4 DEF MarkSigner, TypeOK, Entry
    <2> QED
        BY <1>1, <2>1
<1>7. CASE UpdateEntry(h)
    <2>1. db'[n].key = db[n].key
        BY <1>0, <1>7 DEF UpdateEntry, TypeOK, Entry
    <2> QED
        BY <1>1, <2>1
<1>5. CASE db' = db
    BY <1>1, <1>5
<1>6. \/ Bootstrap(h) \/ StoreUser(h) \/ MarkSigner(h) \/ UpdateEntry(h) \/ db' = db
    BY DEF Pipeline, Working, Duplicate, DropEcho, Intake, TryPKI, VerifySignature,
       FirstContact, Unverifiable, Malformed, Unsigned, PolicyFrame, PinIdentity, SetChannel,
       EmitEvent, RespondNode, RespondBridge, RespondManaged, ReplyFrame, vars
<1> QED
    BY <1>2, <1>3, <1>4, <1>5, <1>6, <1>7

\* Every step keeps the traces of the keys, stored and about to be stored.
LEMMA NextVInv == VInv /\ [Next]_vars => VInv'
<1> SUFFICES ASSUME VInv, [Next]_vars PROVE VInv'
    OBVIOUS
<1>1. IInv /\ IInv' /\ TypeOK /\ TypeOK'
    BY NextIInv DEF VInv, IInv
<1>2. CASE CooldownOver \/ UNCHANGED vars
    BY <1>1, <1>2 DEF VInv, CooldownOver, vars, Traced, StrictKeysVouched
<1>3. ASSUME NEW h \in Handlers, Pipeline(h)
      PROVE  VInv'
    <2>1. StrictKeysVouched'
        BY <1>1, <1>3, KeysStep DEF VInv
    <2>2. ASSUME Policy = "STRICT", NEW g \in Handlers
          PROVE  Traced(g)'
        <3>1. CASE g = h
            BY <1>1, <1>3, <2>2, <3>1, OwnTraced DEF VInv, IInv
        <3>2. CASE g # h
            <4>1. pc'[g] = pc[g] /\ pkt'[g] = pkt[g] /\ ctx'[g] = ctx[g]
                BY <1>1, <1>3, <3>2, StepFrame
            <4> QED
                BY <2>2, <4>1 DEF VInv, Traced
        <3> QED
            BY <3>1, <3>2
    <2> QED
        BY <1>1, <2>1, <2>2 DEF VInv
<1> QED
    BY <1>2, <1>3 DEF Next

\* An empty NodeDB holds no key.
LEMMA InitVInv == Init => VInv
BY InitIInv DEF VInv, Init, StrictKeysVouched, NoEntry, Traced

\* STRICT: every key the NodeDB holds for a node can be traced to the node's ID or
\* to the consumer through authenticated NodeInfos.
THEOREM StrictKeysVouchedAlways == Spec => []StrictKeysVouched
BY InitVInv, NextVInv, PTL DEF Spec, VInv

\* What vouches for the packet a handler works on: a packet taken for PKI was encrypted
\* with a vouched key or is too short, and an accepted signature is a vouched key's.
Backed(h) ==
    pc[h] # "idle" =>
        /\ ctx[h].pki => \/ ~pkt[h].long
                         \/ pkt[h].kind = "pki" /\ pkt[h].peer \in Vouched[pkt[h].from]
        /\ pc[h] = "bootstrap" => pkt[h].sig = pkt[h].key
        /\ pc[h] \in Accepted /\ ctx[h].signed => pkt[h].sig \in Vouched[pkt[h].from]

AInv == VInv /\ StrictAuthenticates /\ (Policy = "STRICT" => \A h \in Handlers : Backed(h))

\* A handler's own steps keep what vouches for its packet.
LEMMA OwnBacked ==
    ASSUME TypeOK, StrictKeysVouched, Policy = "STRICT", NEW h \in Handlers,
           Traced(h), Backed(h), Pipeline(h)
    PROVE  Backed(h)'
<1>0. pkt[h] \in Packet /\ pkt[h].from \in Nodes /\ ctx[h] \in Context
    BY PacketFields DEF TypeOK
<1>1. ASSUME NEW p \in Packets, Duplicate(h, p) \/ DropEcho(h, p)
      PROVE  Backed(h)'
    BY <1>1 DEF Duplicate, DropEcho, Backed, vars
<1>2. ASSUME NEW p \in Packets, Intake(h, p)
      PROVE  Backed(h)'
    <2>1. /\ pc'[h] \in {"idle", "pki", "policy"}
          /\ pc'[h] # "idle" => ctx'[h].pki = FALSE
        <3>1. ASSUME NEW ch, Decoded(h, p, ch, FALSE, db[p.from].signer)
              PROVE  pc'[h] = "policy" /\ ctx'[h].pki = FALSE
            BY <3>1 DEF Decoded, TypeOK, Goto
        <3>2. CASE Goto(h, "idle")
            BY <3>2 DEF Goto, TypeOK
        <3>3. CASE /\ ctx' = [ctx EXCEPT ![h] = [NoContext EXCEPT !.marked = db[p.from].signer]]
                   /\ Goto(h, "pki")
            BY <3>3 DEF Goto, TypeOK, NoContext
        <3> QED
            BY <1>2, <3>1, <3>2, <3>3 DEF Intake, TryPSK
    <2> QED
        BY <2>1 DEF Backed, Accepted
<1>3. CASE TryPKI(h)
    <2> DEFINE key == PKIKey(pkt[h])
    <2>1. key # NoKey => key \in Vouched[pkt[h].from]
        BY <1>0, LookupVouched DEF PKIKey, NodePKIKey, BridgePKIKey
    <2>2. CASE /\ pkt[h].kind = "pki" /\ pkt[h].peer = key /\ key # NoKey
               /\ Decoded(h, pkt[h], NoChannel, TRUE, ctx[h].marked) /\ pkt' = pkt
        <3>1. pc'[h] = "policy"
            BY <2>2 DEF Decoded, TypeOK, Goto
        <3> QED
            BY <2>1, <2>2, <3>1 DEF Backed, Accepted
    <2>3. CASE /\ Decoded(h, Garbled(pkt[h]), NoChannel, TRUE, ctx[h].marked) /\ ~pkt[h].long
               /\ pkt' = [pkt EXCEPT ![h] = Garbled(pkt[h])]
        <3>1. pc'[h] = "policy" /\ pkt'[h] = Garbled(pkt[h])
            BY <2>3 DEF Decoded, TypeOK, Goto
        <3>2. ~Garbled(pkt[h]).long
            BY <1>0, <2>3 DEF Garbled, Packet
        <3> QED
            BY <3>1, <3>2 DEF Backed, Accepted
    <2>4. ASSUME NEW flag, TryPSK(h, pkt[h], flag, ctx[h].marked)
          PROVE  Backed(h)'
        <3>1. CASE Decoded(h, pkt[h], PskChannel(pkt[h], flag), FALSE, ctx[h].marked)
            <4>1. pc'[h] = "policy" /\ ctx'[h].pki = FALSE
                BY <3>1 DEF Decoded, TypeOK, Goto
            <4> QED
                BY <4>1 DEF Backed, Accepted
        <3>2. CASE Goto(h, "idle")
            BY <3>2 DEF Goto, TypeOK, Backed
        <3> QED
            BY <2>4, <3>1, <3>2 DEF TryPSK
    <2> QED
        BY <1>3, <2>2, <2>3, <2>4 DEF TryPKI
<1>4. CASE VerifySignature(h) \/ FirstContact(h) \/ Malformed(h)
    <2>1. /\ pkt' = pkt /\ ctx' = ctx /\ pc[h] = "policy" /\ pc'[h] \in {"idle", "mark", "bootstrap"}
          /\ pc'[h] = "bootstrap" => pkt[h].sig = pkt[h].key
        BY <1>4 DEF VerifySignature, FirstContact, Malformed, PolicyFrame, Reject, Goto, TypeOK
    <2> QED
        BY <2>1 DEF Backed, Accepted
<1>5. CASE Unverifiable(h) \/ Unsigned(h)
    <2>1. pkt' = pkt /\ pc[h] = "policy"
        BY <1>5 DEF Unverifiable, Unsigned, PolicyFrame
    <2>2. CASE Reject(h)
        BY <2>2 DEF Reject, Goto, TypeOK, Backed
    <2>3. CASE Accept(h, FALSE)
        <3>1. ctx'[h].pki = ctx[h].pki /\ ctx'[h].signed = FALSE
            BY <2>3, <1>0 DEF Accept, TypeOK, Context
        <3>2. pc'[h] \in Accepted \cup {"idle"}
            BY <2>3, FirstStageType DEF Accept, Goto, TypeOK
        <3> QED
            BY <2>1, <3>1, <3>2 DEF Backed, Accepted
    <2> QED
        BY <1>5, <2>2, <2>3 DEF Unverifiable, Unsigned
<1>6. CASE MarkSigner(h) \/ Bootstrap(h)
    <2>1. pkt' = pkt /\ pc[h] \in {"mark", "bootstrap"} /\ Accept(h, TRUE)
        BY <1>6 DEF MarkSigner, Bootstrap
    <2>2. ctx'[h].pki = ctx[h].pki
        BY <2>1, <1>0 DEF Accept, TypeOK, Context
    <2>3. pkt[h].sig \in Vouched[pkt[h].from]
        BY <2>1 DEF Traced, Backed
    <2>4. pc'[h] \in Accepted \cup {"idle"}
        BY <2>1, FirstStageType DEF Accept, Goto, TypeOK
    <2> QED
        BY <2>1, <2>2, <2>3, <2>4 DEF Backed, Accepted
<1>7. CASE PinIdentity(h) \/ StoreUser(h) \/ SetChannel(h) \/ UpdateEntry(h) \/ EmitEvent(h)
    <2>1. /\ pkt' = pkt /\ pc[h] \in Accepted /\ pc'[h] \in Accepted
          /\ ctx'[h].signed = ctx[h].signed /\ ctx'[h].pki = ctx[h].pki
        BY <1>7, <1>0 DEF Goto, PinIdentity, StoreUser, SetChannel, UpdateEntry, EmitEvent,
           Accepted, TypeOK, Context
    <2> QED
        BY <2>1 DEF Backed, Accepted
<1>8. CASE RespondNode(h) \/ RespondBridge(h) \/ RespondManaged(h)
    <2>1. /\ pkt' = pkt /\ ctx' = ctx /\ pc[h] \in Accepted /\ pc'[h] \in {"idle", "respondManaged"}
        BY <1>8 DEF Goto, TypeOK, RespondNode, RespondBridge, RespondManaged, ReplyFrame, Accepted
    <2> QED
        BY <2>1 DEF Backed, Accepted
<1> QED
    BY <1>1, <1>2, <1>3, <1>4, <1>5, <1>6, <1>7, <1>8 DEF Pipeline, Working

\* A new event is authenticated by what backs its handler's packet.
LEMMA AuthenticatedStep ==
    ASSUME TypeOK, NEW h \in Handlers, Judged(h), Policy = "STRICT" => Backed(h),
           StrictAuthenticates, Pipeline(h)
    PROVE  StrictAuthenticates'
<1>1. CASE events' = events
    BY <1>1 DEF StrictAuthenticates, Authenticated
<1>2. CASE EmitEvent(h) /\ Policy = "STRICT"
    <2> DEFINE new == [pkt |-> pkt[h], signed |-> ctx[h].signed, pki |-> ctx[h].pki,
                       marked |-> ctx[h].marked, chan |-> ctx[h].chan]
    <2>1. events' = events \cup {new} /\ pc[h] = "emit"
        BY <1>2 DEF EmitEvent
    <2>2. new.pkt = pkt[h] /\ new.signed = ctx[h].signed /\ new.pki = ctx[h].pki
        OBVIOUS
    <2>3. pkt[h].long \in BOOLEAN
        BY DEF TypeOK, Packet
    <2>4. Authenticated(new) \/ (new.pki /\ ~new.pkt.long)
        BY <1>2, <2>1, <2>2, <2>3 DEF Authenticated, Backed, Judged, Accepted
    <2> HIDE DEF new
    <2> QED
        BY <2>1, <2>4 DEF StrictAuthenticates, Authenticated
<1> QED
    BY <1>1, <1>2, StepFrame DEF StrictAuthenticates

\* STRICT: every event is authenticated by a key that can be traced to the node's ID or to
\* the consumer, except for the ciphertexts too short for PKI.
THEOREM StrictAuthenticatesAlways == Spec => []StrictAuthenticates
<1>1. Init => AInv
    <2> SUFFICES ASSUME Init PROVE AInv
        OBVIOUS
    <2> QED
        BY InitVInv DEF AInv, Init, StrictAuthenticates, Backed
<1>2. AInv /\ [Next]_vars => AInv'
    <2> SUFFICES ASSUME AInv, [Next]_vars PROVE AInv'
        OBVIOUS
    <2>1. VInv /\ VInv' /\ TypeOK
        BY NextVInv DEF AInv, VInv, IInv
    <2>2. CASE CooldownOver \/ UNCHANGED vars
        <3>1. UNCHANGED <<pc, pkt, ctx, events>>
            BY <2>2 DEF CooldownOver, vars, history
        <3> QED
            BY <2>1, <3>1 DEF AInv, StrictAuthenticates, Authenticated, Backed
    <2>3. ASSUME NEW h \in Handlers, Pipeline(h)
          PROVE  AInv'
        <3>1. StrictAuthenticates'
            BY <2>1, <2>3, AuthenticatedStep DEF AInv, VInv, IInv
        <3>2. ASSUME Policy = "STRICT", NEW g \in Handlers
              PROVE  Backed(g)'
            <4>1. CASE g = h
                BY <2>1, <2>3, <3>2, <4>1, OwnBacked DEF AInv, VInv
            <4>2. CASE g # h
                <5>1. pc'[g] = pc[g] /\ pkt'[g] = pkt[g] /\ ctx'[g] = ctx[g]
                    BY <2>1, <2>3, <4>2, StepFrame
                <5> QED
                    BY <3>2, <5>1 DEF AInv, Backed
            <4> QED
                BY <4>1, <4>2
        <3> QED
            BY <2>1, <3>1, <3>2 DEF AInv
    <2> QED
        BY <2>2, <2>3 DEF Next
<1> QED
    BY <1>1, <1>2, PTL DEF Spec, AInv
-----------------------------------------------------------------------------
(***************************************************************************)
(* Channels of replies.                                                    *)
(***************************************************************************)

\* A handler's channel is one its packet was readable with; a handler that has no
\* channel and did not decrypt by PKI works on a packet that arrived in the clear,
\* unchanged, so that its name is the transport's.
KnowsChannel(h) ==
    pc[h] # "idle" =>
        /\ pc[h] = "pki" => pkt[h] \in Packets
        /\ ctx[h].chan # NoChannel => HeardOn(pkt[h].from, ctx[h].chan)
        /\ pc[h] # "pki" => \/ ctx[h].pki \/ ctx[h].chan # NoChannel
                            \/ pkt[h].kind = "decoded" /\ pkt[h] \in Packets

\* So is every channel the NodeDB remembers for a node.
HeardChannels == \A n \in Nodes : heard[n] # NoChannel => HeardOn(n, heard[n])

CInv == /\ IInv /\ HeardChannels /\ RepliesOnHeardChannels
        /\ \A h \in Handlers : KnowsChannel(h)

\* What was heard stays heard: the deduplicator's records only grow.
LEMMA HeardOnGrows ==
    ASSUME seen \subseteq seen'
    PROVE  \A n, c : HeardOn(n, c) => HeardOn(n, c)'
BY DEF HeardOn

\* A packet that a channel's key opens was made with that key.
LEMMA PskHeard ==
    ASSUME NEW p, NEW flag, PskChannel(p, flag) # NoChannel
    PROVE  p.kind = "psk" /\ ChPsk[p.chan] = ChPsk[PskChannel(p, flag)]
<1> DEFINE opens == {i \in 1..Len(Registry) :
                       /\ ChHash[Registry[i]] = p.hash
                       /\ ~flag /\ p.kind = "psk"
                       /\ ChPsk[Registry[i]] = ChPsk[p.chan]}
           first == CHOOSE i \in opens : \A j \in opens : i <= j
<1>1. opens # {} /\ PskChannel(p, flag) = Registry[first]
    BY Zenon DEF PskChannel
<1>2. opens \subseteq Nat
    OBVIOUS
<1>3. first \in opens
    <2>1. \E i \in opens : \A j \in opens : i <= j
        BY <1>1, <1>2, LeastExists, Zenon
    <2> QED
        BY <2>1, Zenon
<1> QED
    BY <1>1, <1>3, Zenon

\* A packet on record that was taken in names the channel that opened it.
LEMMA TryPSKKnows ==
    ASSUME TypeOK, TypeOK', RecordedWork', NEW h \in Handlers, NEW p \in Packets, NEW flag,
           NEW marked, TryPSK(h, p, flag, marked), pkt'[h] = p
    PROVE  KnowsChannel(h)'
<1> DEFINE ch == PskChannel(p, flag)
<1>1. CASE ch = NoChannel
    <2>1. pc'[h] = "idle"
        BY <1>1 DEF TryPSK, Goto, TypeOK
    <2> QED
        BY <2>1 DEF KnowsChannel
<1>2. CASE ch # NoChannel
    <2>1. Decoded(h, p, ch, FALSE, marked)
        BY <1>2 DEF TryPSK
    <2>2. pc'[h] = "policy" /\ ctx'[h].chan = ch
        BY <2>1 DEF Decoded, Goto, TypeOK
    <2>3. p.id # 0 => <<p.from, p.id>> \in seen'
        BY <2>2 DEF RecordedWork
    <2>4. p.kind = "psk" /\ ChPsk[p.chan] = ChPsk[ch]
        BY <1>2, PskHeard
    <2>5. HeardOn(p.from, ch)'
        BY <2>3, <2>4 DEF HeardOn
    <2> QED
        BY <1>2, <2>2, <2>5 DEF KnowsChannel
<1> QED
    BY <1>1, <1>2

\* Behind decryption a handler keeps its packet, its channel and its PKI flag.
LEMMA SettledFrame ==
    ASSUME TypeOK, NEW h \in Handlers, Working(h), ~TryPKI(h)
    PROVE  /\ pc[h] \notin {"idle", "pki"} /\ pc'[h] # "pki" /\ pkt' = pkt /\ seen' = seen
           /\ ctx'[h].chan = ctx[h].chan /\ ctx'[h].pki = ctx[h].pki
<1> USE DEF TypeOK, Goto
<1>0. ctx[h] \in Context
    OBVIOUS
<1>1. ASSUME NEW signed, Accept(h, signed)
      PROVE  pc'[h] # "pki" /\ ctx'[h].chan = ctx[h].chan /\ ctx'[h].pki = ctx[h].pki
    <2>1. FirstStage(pkt[h], signed) # "pki"
        BY FirstStageType DEF Accepted
    <2> QED
        BY <1>0, <1>1, <2>1 DEF Accept, Context
<1>2. CASE VerifySignature(h) \/ FirstContact(h) \/ Unverifiable(h) \/ Malformed(h) \/ Unsigned(h)
    BY <1>1, <1>2 DEF VerifySignature, FirstContact, Unverifiable, Malformed, Unsigned,
       PolicyFrame, Reject
<1>3. CASE MarkSigner(h) \/ Bootstrap(h)
    BY <1>1, <1>3 DEF MarkSigner, Bootstrap
<1>4. CASE PinIdentity(h)
    BY <1>0, <1>4 DEF PinIdentity, Context
<1>5. CASE SetChannel(h) \/ StoreUser(h) \/ UpdateEntry(h) \/ EmitEvent(h)
    BY <1>5 DEF SetChannel, StoreUser, UpdateEntry, EmitEvent
<1>6. CASE RespondNode(h) \/ RespondBridge(h) \/ RespondManaged(h)
    BY <1>6 DEF RespondNode, RespondBridge, RespondManaged, ReplyFrame
<1> QED
    BY <1>2, <1>3, <1>4, <1>5, <1>6 DEF Working

\* A handler's own steps keep it to a channel its sender was heard on.
LEMMA OwnKnows ==
    ASSUME TypeOK, TypeOK', RecordedWork', NEW h \in Handlers, KnowsChannel(h), Pipeline(h)
    PROVE  KnowsChannel(h)'
<1>1. ASSUME NEW p \in Packets, Duplicate(h, p) \/ DropEcho(h, p)
      PROVE  KnowsChannel(h)'
    <2>1. pc[h] = "idle" /\ pc' = pc
        BY <1>1 DEF Duplicate, DropEcho, vars
    <2> QED
        BY <2>1 DEF KnowsChannel
<1>2. ASSUME NEW p \in Packets, Intake(h, p)
      PROVE  KnowsChannel(h)'
    <2>0. pkt'[h] = p
        BY <1>2 DEF Intake, TypeOK
    <2>1. CASE p.kind = "decoded" /\ Decoded(h, p, DecodedChannel(p), FALSE, db[p.from].signer)
        <3>1. pc'[h] = "policy" /\ ctx'[h].chan = DecodedChannel(p)
            BY <2>1 DEF Decoded, Goto, TypeOK
        <3>2. p.id # 0 => <<p.from, p.id>> \in seen'
            BY <2>0, <3>1 DEF RecordedWork
        <3>3. HeardOn(p.from, DecodedChannel(p))'
            BY <2>1, <3>2 DEF HeardOn, DecodedChannel, ByName, DecodedName, LookupName, Registered
        <3> QED
            BY <2>0, <2>1, <3>1, <3>3 DEF KnowsChannel
    <2>2. CASE ctx' = [ctx EXCEPT ![h] = [NoContext EXCEPT !.marked = db[p.from].signer]]
               /\ Goto(h, "pki")
        <3>1. pc'[h] = "pki" /\ ctx'[h].chan = NoChannel
            BY <2>2 DEF Goto, TypeOK, NoContext
        <3> QED
            BY <2>0, <3>1 DEF KnowsChannel
    <2>3. CASE TryPSK(h, p, FALSE, db[p.from].signer)
        BY <2>0, <2>3, TryPSKKnows
    <2> QED
        BY <1>2, <2>1, <2>2, <2>3 DEF Intake
<1>3. CASE TryPKI(h)
    <2>0. pkt[h] \in Packets
        BY <1>3 DEF TryPKI, KnowsChannel
    <2>1. ASSUME NEW q, Decoded(h, q, NoChannel, TRUE, ctx[h].marked)
          PROVE  KnowsChannel(h)'
        <3>1. pc'[h] = "policy" /\ ctx'[h].chan = NoChannel /\ ctx'[h].pki
            BY <2>1 DEF Decoded, Goto, TypeOK
        <3> QED
            BY <3>1 DEF KnowsChannel
    <2>2. ASSUME NEW flag, TryPSK(h, pkt[h], flag, ctx[h].marked), pkt' = pkt
          PROVE  KnowsChannel(h)'
        BY <2>0, <2>2, TryPSKKnows
    <2> QED
        BY <1>3, <2>1, <2>2 DEF TryPKI
<1>4. CASE Working(h) /\ ~TryPKI(h)
    <2>1. HeardOn(pkt[h].from, ctx[h].chan) => HeardOn(pkt[h].from, ctx[h].chan)'
        BY <1>4, SettledFrame DEF HeardOn
    <2> QED
        BY <1>4, <2>1, SettledFrame, HeardOnGrows DEF KnowsChannel
<1> QED
    BY <1>1, <1>2, <1>3, <1>4 DEF Pipeline

\* A unicast goes out on the primary channel or on one its addressee was heard on.
LEMMA DestinationHeard ==
    ASSUME TypeOK, HeardChannels, NEW n \in Nodes
    PROVE  ChannelForDestination(n) = Primary \/ HeardOn(n, ChannelForDestination(n))
BY DEF ChannelForDestination, HeardChannels

\* Whatever a managed node answers with is PKI, or on such a channel.
LEMMA ManagedReplyHeard ==
    ASSUME TypeOK, RecordedWork, HeardChannels, NEW h \in Handlers, KnowsChannel(h),
           pc[h] = "respondManaged", NEW r \in Ack(h) \cup ManagedReply(h)
    PROVE  r.pki \/ r.chan = Primary \/ HeardOn(r.to, r.chan)
<1> DEFINE n == pkt[h].from
           Good == r.pki \/ r.chan = Primary \/ HeardOn(r.to, r.chan)
<1>0. n \in Nodes /\ (ChannelForDestination(n) = Primary \/ HeardOn(n, ChannelForDestination(n)))
    BY PacketFields, DestinationHeard DEF TypeOK
<1>1. CASE r.to = n /\ r.chan = ChannelForDestination(n)
    BY <1>0, <1>1
<1>2. CASE r.pki
    BY <1>2
<1>3. CASE r \in Answer(h, FALSE, PskAnswerChannel(h)) /\ RequestName(h) # "PKI"
    <2>1. r.to = n /\ r.chan = PskAnswerChannel(h) /\ r.chan # NoChannel
        BY <1>3 DEF Answer
    <2>2. CASE ctx[h].chan # NoChannel
        BY <2>1, <2>2 DEF KnowsChannel, PskAnswerChannel
    <2>3. CASE ctx[h].chan = NoChannel /\ RequestName(h) = NoName
        BY <1>1, <2>1, <2>3 DEF PskAnswerChannel
    <2>4. CASE ctx[h].chan = NoChannel /\ RequestName(h) # NoName
        <3>1. ~ctx[h].pki /\ RequestName(h) = DecodedName(pkt[h])
            BY <1>3, <2>4 DEF RequestName
        <3>2. pkt[h] \in Packets /\ pkt[h].kind = "decoded"
            BY <2>4, <3>1 DEF KnowsChannel
        <3>3. r.chan = DecodedChannel(pkt[h])
            BY <2>1, <2>4, <3>1 DEF PskAnswerChannel, DecodedChannel
        <3>4. pkt[h].id # 0 => <<n, pkt[h].id>> \in seen
            BY DEF RecordedWork
        <3> QED
            BY <2>1, <3>2, <3>3, <3>4 DEF HeardOn
    <2> QED
        BY <2>2, <2>3, <2>4
<1>4. r \in Ack(h) => r.to = n /\ r.chan = ChannelForDestination(n)
    BY DEF Ack
<1>5. r \in Answer(h, FALSE, ChannelForDestination(n)) => r.to = n /\ r.chan = ChannelForDestination(n)
    BY DEF Answer
<1>6. r \in Answer(h, TRUE, Primary) => r.pki
    BY DEF Answer
<1> QED
    BY <1>1, <1>2, <1>3, <1>4, <1>5, <1>6 DEF ManagedReply

\* Only SetChannel changes what the NodeDB remembers, and only the responders reply.
LEMMA ChannelStep ==
    ASSUME TypeOK, TypeOK', RecordedWork, HeardChannels, RepliesOnHeardChannels, NEW h \in Handlers,
           KnowsChannel(h), Pipeline(h)
    PROVE  HeardChannels' /\ RepliesOnHeardChannels'
<1>0. /\ pkt[h].from \in Nodes /\ seen \subseteq seen'
      /\ \A n, c : HeardOn(n, c) => HeardOn(n, c)'
    BY PacketFields, StepFrame, HeardOnGrows DEF TypeOK
<1>1. ASSUME heard' = heard PROVE HeardChannels'
    BY <1>0, <1>1 DEF HeardChannels
<1>2. ASSUME SetChannel(h) PROVE HeardChannels'
    <2>1. pc[h] = "channel"
        BY <1>2 DEF SetChannel
    <2>2. ASSUME NEW n \in Nodes, heard'[n] # NoChannel PROVE HeardOn(n, heard'[n])
        <3>1. CASE heard'[n] = heard[n]
            BY <2>2, <3>1 DEF HeardChannels
        <3>2. CASE n = pkt[h].from /\ heard'[n] = ctx[h].chan
            BY <2>1, <2>2, <3>2 DEF KnowsChannel
        <3> QED
            BY <1>2, <3>1, <3>2 DEF SetChannel, TypeOK
    <2> QED
        BY <1>0, <2>2 DEF HeardChannels
<1>3. SetChannel(h) \/ heard' = heard
    BY DEF Pipeline, Working, Duplicate, DropEcho, Intake, TryPKI, VerifySignature,
       FirstContact, Unverifiable, Malformed, Unsigned, PolicyFrame, PinIdentity, MarkSigner,
       Bootstrap, StoreUser, UpdateEntry, EmitEvent, RespondNode, RespondBridge,
       RespondManaged, ReplyFrame, vars
<1> DEFINE Good(r) == r.pki \/ r.chan = Primary \/ HeardOn(r.to, r.chan)
<1>4. ASSUME NEW as, SendReply(as, h) PROVE \A r \in replies' : r \in replies \/ Good(r)
    <2> DEFINE dest == ChannelForDestination(pkt[h].from)
               reply == [as |-> as, to |-> pkt[h].from, port |-> pkt[h].port, pki |-> FALSE,
                         chan |-> dest]
    <2> HIDE DEF dest
    <2>1. reply.to = pkt[h].from /\ reply.chan = dest
        OBVIOUS
    <2>2. replies' = replies \cup {reply}
        BY <1>4 DEF SendReply, dest
    <2>3. dest = Primary \/ HeardOn(pkt[h].from, dest)
        BY <1>0, DestinationHeard DEF dest
    <2> HIDE DEF reply
    <2> QED
        BY <2>1, <2>2, <2>3
<1>5. ASSUME RespondNode(h) \/ RespondBridge(h) PROVE \A r \in replies' : r \in replies \/ Good(r)
    BY <1>4, <1>5 DEF RespondNode, RespondBridge
<1>6. ASSUME RespondManaged(h) PROVE \A r \in replies' : r \in replies \/ Good(r)
    BY <1>6, ManagedReplyHeard DEF RespondManaged
<1>7. RespondNode(h) \/ RespondBridge(h) \/ RespondManaged(h) \/ replies' = replies
    BY DEF Pipeline, Working, Duplicate, DropEcho, Intake, TryPKI, VerifySignature,
       FirstContact, Unverifiable, Malformed, Unsigned, PolicyFrame, PinIdentity, MarkSigner,
       Bootstrap, StoreUser, UpdateEntry, EmitEvent, SetChannel, history, vars
<1>8. \A r \in replies' : r \in replies \/ Good(r)
    BY <1>5, <1>6, <1>7
<1>9. RepliesOnHeardChannels'
    BY <1>0, <1>8 DEF RepliesOnHeardChannels, Primary
<1> QED
    BY <1>1, <1>2, <1>3, <1>9

\* Every step keeps what is known of heard channels and of replies.
LEMMA NextCInv == CInv /\ [Next]_vars => CInv'
<1> SUFFICES ASSUME CInv, [Next]_vars PROVE CInv'
    OBVIOUS
<1>1. IInv /\ IInv' /\ TypeOK /\ TypeOK' /\ RecordedWork /\ RecordedWork'
    BY NextIInv DEF CInv, IInv
<1>2. CASE CooldownOver \/ UNCHANGED vars
    <2>1. UNCHANGED <<db, heard, seen, pc, pkt, ctx, replies>>
        BY <1>2 DEF CooldownOver, vars, history
    <2>2. \A n, c : HeardOn(n, c) => HeardOn(n, c)'
        BY <2>1, HeardOnGrows
    <2> QED
        BY <1>1, <2>1, <2>2 DEF CInv, KnowsChannel, HeardChannels, RepliesOnHeardChannels, Primary
<1>3. ASSUME NEW h \in Handlers, Pipeline(h)
      PROVE  CInv'
    <2>1. HeardChannels' /\ RepliesOnHeardChannels'
        BY <1>1, <1>3, ChannelStep DEF CInv
    <2>2. ASSUME NEW g \in Handlers
          PROVE  KnowsChannel(g)'
        <3>1. CASE g = h
            BY <1>1, <1>3, <3>1, OwnKnows DEF CInv
        <3>2. CASE g # h
            <4>1. pc'[g] = pc[g] /\ pkt'[g] = pkt[g] /\ ctx'[g] = ctx[g] /\ seen \subseteq seen'
                BY <1>1, <1>3, <3>2, StepFrame
            <4> QED
                BY <2>2, <4>1, HeardOnGrows DEF CInv, KnowsChannel
        <3> QED
            BY <3>1, <3>2
    <2> QED
        BY <1>1, <2>1, <2>2 DEF CInv
<1> QED
    BY <1>2, <1>3 DEF Next

\* A reply leaves under PKI, on the primary channel, or on a channel that a packet
\* received from its addressee was readable with, however the handlers interleave.
THEOREM RepliesOnHeardChannelsAlways == Spec => []RepliesOnHeardChannels
<1>1. Init => CInv
    BY InitIInv DEF CInv, Init, HeardChannels, RepliesOnHeardChannels, KnowsChannel
<1> QED
    BY <1>1, NextCInv, PTL DEF Spec, CInv
-----------------------------------------------------------------------------
(***************************************************************************)
(* Identity pinning.                                                       *)
(***************************************************************************)

\* One handler call at a time, as from a transport that reads on one goroutine.
OneAtATime == \A g, h \in Handlers : g = h

\* The NodeDB holds a key only in a User; what an unsigned NodeInfo is about to store
\* is the key that is held.
KeyHasUser == \A n \in Nodes : db[n].key # NoKey => db[n].user
KeepsKey(h) ==
    pc[h] = "store" /\ ~ctx[h].signed /\ db[pkt[h].from].key \in FullKeys =>
        ctx[h].key = db[pkt[h].from].key

\* What is about to change a User without a signature was let past by the policy, or its
\* sender is not a signer; a NodeInfo got past pinIdentity, too.
KeepsSigner(h) ==
    ~ctx[h].signed =>
        /\ pc[h] \in {"pin", "store", "update"} =>
                Unchecked(pkt[h], ctx[h].pki) \/ ~db[pkt[h].from].signer
        /\ pc[h] = "store" => ~(db[pkt[h].from].user /\ db[pkt[h].from].signer)

\* What a handler accepts goes to "store" when signed and to "pin" when not, and the rest of its locals stay.
LEMMA AcceptFrame ==
    ASSUME TypeOK, NEW h \in Handlers, NEW signed \in BOOLEAN, Accept(h, signed)
    PROVE  /\ ctx'[h].signed = signed /\ ctx'[h].key = ctx[h].key /\ ctx'[h].pki = ctx[h].pki
           /\ pc'[h] \in Accepted \cup {"idle"}
           /\ pc'[h] = "store" => signed /\ pkt[h].port = "NODEINFO"
           /\ pc'[h] = "pin" => ~signed
<1>1. pc'[h] = FirstStage(pkt[h], signed)
    BY DEF Accept, Goto, TypeOK
<1>2. ctx'[h].signed = signed /\ ctx'[h].key = ctx[h].key /\ ctx'[h].pki = ctx[h].pki
    BY DEF Accept, TypeOK, Context
<1>3. FirstStage(pkt[h], signed) = "store" => signed /\ pkt[h].port = "NODEINFO"
    BY DEF FirstStage
<1>4. FirstStage(pkt[h], signed) = "pin" => ~signed
    BY DEF FirstStage
<1> QED
    BY <1>1, <1>2, <1>3, <1>4, FirstStageType

\* What each of the four updates of the NodeDB does to the entry of a node.
LEMMA EntryStep ==
    ASSUME TypeOK, NEW h \in Handlers, NEW n \in Nodes
    PROVE  /\ MarkSigner(h) => /\ db'[n].user = db[n].user /\ db'[n].key = db[n].key
                               /\ n # pkt[h].from => db'[n].signer = db[n].signer
           /\ Bootstrap(h) => IF n = pkt[h].from THEN db'[n].user /\ db'[n].key = pkt[h].key
                              ELSE db'[n] = db[n]
           /\ StoreUser(h) => IF n = pkt[h].from
                              THEN /\ db'[n].user /\ db'[n].key = ctx[h].key
                                   /\ db'[n].signer = db[n].signer
                              ELSE db'[n] = db[n]
           /\ UpdateEntry(h) => /\ db[n].user => db'[n].user
                                /\ db'[n].key = db[n].key /\ db'[n].signer = db[n].signer
<1>0. db \in [Nodes -> Entry] /\ db[n] \in Entry /\ pkt[h].from \in Nodes
    BY PacketFields DEF TypeOK
<1>1. ASSUME MarkSigner(h)
      PROVE  /\ db'[n].user = db[n].user /\ db'[n].key = db[n].key
             /\ n # pkt[h].from => db'[n].signer = db[n].signer
    BY <1>0, <1>1 DEF MarkSigner, Entry
<1>2. ASSUME Bootstrap(h)
      PROVE  IF n = pkt[h].from THEN db'[n].user /\ db'[n].key = pkt[h].key ELSE db'[n] = db[n]
    BY <1>0, <1>2 DEF Bootstrap
<1>3. ASSUME StoreUser(h)
      PROVE  IF n = pkt[h].from
             THEN db'[n].user /\ db'[n].key = ctx[h].key /\ db'[n].signer = db[n].signer
             ELSE db'[n] = db[n]
    BY <1>0, <1>3 DEF StoreUser, Entry
<1>4. ASSUME UpdateEntry(h)
      PROVE  /\ db[n].user => db'[n].user
             /\ db'[n].key = db[n].key /\ db'[n].signer = db[n].signer
    BY <1>0, <1>4 DEF UpdateEntry, Entry
<1> QED
    BY <1>1, <1>2, <1>3, <1>4, Zenon

\* The other steps leave the NodeDB alone.
LEMMA EntryFrame ==
    ASSUME NEW h \in Handlers, Pipeline(h)
    PROVE  MarkSigner(h) \/ Bootstrap(h) \/ StoreUser(h) \/ UpdateEntry(h) \/ db' = db
BY DEF Pipeline, Working, Duplicate, DropEcho, Intake, TryPKI, VerifySignature, FirstContact,
   Unverifiable, Malformed, Unsigned, PolicyFrame, PinIdentity, SetChannel, EmitEvent,
   RespondNode, RespondBridge, RespondManaged, ReplyFrame, vars

\* A step of the only handler keeps what it holds about keys, and replaces none.
LEMMA KeyStep ==
    ASSUME TypeOK, KeyHasUser, NEW h \in Handlers, KeepsKey(h), Pipeline(h)
    PROVE  KeyHasUser' /\ KeepsKey(h)' /\ clobbered' = clobbered
<1>0. pkt[h].from \in Nodes /\ ctx[h] \in Context /\ FullKeys \subseteq Keys /\ NoKey \notin Keys
    BY PacketFields, ReceiveAssumption DEF TypeOK
<1>1. ASSUME NEW n \in Nodes, db'[n].key # NoKey PROVE db'[n].user
    <2>1. CASE MarkSigner(h)
        BY <1>1, <2>1, EntryStep DEF KeyHasUser
    <2>2. CASE Bootstrap(h)
        BY <1>1, <2>2, EntryStep DEF KeyHasUser
    <2>3. CASE StoreUser(h)
        BY <1>1, <2>3, EntryStep DEF KeyHasUser
    <2>4. CASE UpdateEntry(h)
        BY <1>1, <2>4, EntryStep DEF KeyHasUser
    <2>5. CASE db' = db
        BY <1>1, <2>5 DEF KeyHasUser
    <2> QED
        BY <2>1, <2>2, <2>3, <2>4, <2>5, EntryFrame
<1>2. clobbered' = clobbered
    <2>1. CASE StoreUser(h)
        BY <2>1 DEF StoreUser, KeepsKey
    <2>2. StoreUser(h) \/ clobbered' = clobbered
        BY DEF Pipeline, Working, Duplicate, DropEcho, Intake, TryPKI, VerifySignature,
           FirstContact, Unverifiable, Malformed, Unsigned, PolicyFrame, PinIdentity, MarkSigner,
           Bootstrap, UpdateEntry, EmitEvent, SetChannel, RespondNode, RespondBridge,
           RespondManaged, ReplyFrame, history, vars
    <2> QED
        BY <2>1, <2>2
<1>3. ASSUME pc'[h] # "store" PROVE KeepsKey(h)'
    BY <1>3 DEF KeepsKey
<1>4. CASE PinIdentity(h)
    <2>1. db' = db /\ pkt' = pkt
        BY <1>4 DEF PinIdentity
    <2>2. ASSUME db[pkt[h].from].key \in FullKeys, pc'[h] = "store"
          PROVE  ctx'[h].key = db[pkt[h].from].key
        <3>1. db[pkt[h].from].user
            BY <1>0, <2>2 DEF KeyHasUser
        <3> QED
            BY <1>0, <1>4, <2>2, <3>1 DEF PinIdentity, Goto, TypeOK, Context
    <2> QED
        BY <1>1, <1>2, <2>1, <2>2 DEF KeepsKey, KeyHasUser
<1>5. ASSUME NEW signed \in BOOLEAN, Accept(h, signed) PROVE KeepsKey(h)'
    BY <1>5, AcceptFrame DEF KeepsKey
<1>6. CASE VerifySignature(h) \/ FirstContact(h) \/ Malformed(h)
    <2>1. pc'[h] # "store"
        BY <1>6 DEF VerifySignature, FirstContact, Malformed, Reject, Goto, TypeOK
    <2> QED
        BY <1>1, <1>2, <1>3, <2>1 DEF KeyHasUser
<1>7. CASE Unverifiable(h) \/ Unsigned(h) \/ MarkSigner(h) \/ Bootstrap(h)
    <2>1. pc'[h] # "store" \/ \E signed \in BOOLEAN : Accept(h, signed)
        BY <1>7 DEF Unverifiable, Unsigned, MarkSigner, Bootstrap, Reject, Goto, TypeOK
    <2> QED
        BY <1>1, <1>2, <1>3, <1>5, <2>1 DEF KeyHasUser
<1>8. ASSUME NEW p \in Packets, Duplicate(h, p) \/ DropEcho(h, p) \/ Intake(h, p)
      PROVE  pc'[h] # "store"
    BY <1>8 DEF Duplicate, DropEcho, Intake, TryPSK, Decoded, Goto, TypeOK, vars
<1>9. CASE TryPKI(h)
    <2>1. pc'[h] # "store"
        BY <1>9 DEF TryPKI, TryPSK, Decoded, Goto, TypeOK
    <2> QED
        BY <1>1, <1>2, <1>3, <2>1 DEF KeyHasUser
<1>10. CASE StoreUser(h) \/ SetChannel(h) \/ UpdateEntry(h) \/ EmitEvent(h)
    <2>1. pc'[h] # "store"
        BY <1>10 DEF StoreUser, SetChannel, UpdateEntry, EmitEvent, Goto, TypeOK
    <2> QED
        BY <1>1, <1>2, <1>3, <2>1 DEF KeyHasUser
<1>11. CASE RespondNode(h) \/ RespondBridge(h) \/ RespondManaged(h)
    <2>1. pc'[h] # "store"
        BY <1>11 DEF RespondNode, RespondBridge, RespondManaged, Goto, TypeOK
    <2> QED
        BY <1>1, <1>2, <1>3, <2>1 DEF KeyHasUser
<1> QED
    BY <1>1, <1>2, <1>3, <1>4, <1>6, <1>7, <1>8, <1>9, <1>10, <1>11
    DEF Pipeline, Working, KeyHasUser

\* An unsigned NodeInfo never replaces a public key that is held, when packets are handled
\* one at a time, for any packets, keys and policy.
THEOREM KeyPinnedSerially ==
    ASSUME OneAtATime
    PROVE  Spec => []KeyPinned
<1> DEFINE KInv == TypeOK /\ KeyHasUser /\ KeyPinned /\ \A h \in Handlers : KeepsKey(h)
<1>1. Init => KInv
    BY InitType DEF Init, NoEntry, KeyHasUser, KeyPinned, KeepsKey
<1>2. KInv /\ [Next]_vars => KInv'
    <2> SUFFICES ASSUME KInv, [Next]_vars PROVE KInv'
        OBVIOUS
    <2>1. TypeOK'
        BY NextType
    <2>2. CASE CooldownOver \/ UNCHANGED vars
        <3>1. UNCHANGED <<db, pc, pkt, ctx, clobbered>>
            BY <2>2 DEF CooldownOver, vars, history
        <3> QED
            BY <2>1, <3>1 DEF KeyHasUser, KeyPinned, KeepsKey
    <2>3. ASSUME NEW h \in Handlers, Pipeline(h) PROVE KInv'
        <3>1. KeyHasUser' /\ KeepsKey(h)' /\ clobbered' = clobbered
            BY <2>3, KeyStep
        <3>2. \A g \in Handlers : KeepsKey(g)'
            BY <3>1 DEF OneAtATime
        <3> QED
            BY <2>1, <3>1, <3>2 DEF KeyPinned
    <2> QED
        BY <2>2, <2>3 DEF Next
<1> QED
    BY <1>1, <1>2, PTL DEF Spec

\* The two places that change a User change a signer's only as IdentityPinned allows.
LEMMA RewriteStep ==
    ASSUME NEW h \in Handlers, KeepsSigner(h), Pipeline(h)
    PROVE  \A r \in rewritten' \ rewritten :
              /\ r.pkt.port = "NODEINFO" => ~r.user
              /\ Unchecked(r.pkt, r.pki)
<1> DEFINE new == [pkt |-> pkt[h], pki |-> ctx[h].pki, user |-> db[pkt[h].from].user]
<1>0. new.pkt = pkt[h] /\ new.pki = ctx[h].pki /\ new.user = db[pkt[h].from].user
    OBVIOUS
<1>1. RecordRewrite(h) => \A r \in rewritten' \ rewritten :
                                r = new /\ db[pkt[h].from].signer /\ ~ctx[h].signed
    BY DEF RecordRewrite
<1> HIDE DEF new
<1>2. CASE StoreUser(h)
    <2>1. RecordRewrite(h) /\ pc[h] = "store"
        BY <1>2 DEF StoreUser
    <2> QED
        BY <1>0, <1>1, <2>1 DEF KeepsSigner
<1>3. CASE UpdateEntry(h)
    <2>1. /\ pc[h] = "update"
          /\ (RecordRewrite(h) /\ pkt[h].port = "MAP_REPORT") \/ rewritten' = rewritten
        BY <1>3 DEF UpdateEntry
    <2> QED
        BY <1>0, <1>1, <2>1 DEF KeepsSigner
<1>4. StoreUser(h) \/ UpdateEntry(h) \/ rewritten' = rewritten
    BY DEF Pipeline, Working, Duplicate, DropEcho, Intake, TryPKI, VerifySignature,
       FirstContact, Unverifiable, Malformed, Unsigned, PolicyFrame, PinIdentity, MarkSigner,
       Bootstrap, EmitEvent, SetChannel, RespondNode, RespondBridge, RespondManaged, ReplyFrame,
       history, vars
<1> QED
    BY <1>2, <1>3, <1>4

\* A step of the only handler keeps what it holds about its sender.
LEMMA OwnSigner ==
    ASSUME TypeOK, NEW h \in Handlers, KeepsSigner(h), Pipeline(h)
    PROVE  KeepsSigner(h)'
<1>0. pkt[h].from \in Nodes /\ ctx[h] \in Context
    BY PacketFields DEF TypeOK
<1>1. ASSUME pc'[h] \notin {"pin", "store", "update"} PROVE KeepsSigner(h)'
    BY <1>1 DEF KeepsSigner
<1>2. ASSUME NEW p \in Packets, Duplicate(h, p) \/ DropEcho(h, p) \/ Intake(h, p)
      PROVE  pc'[h] \notin {"pin", "store", "update"}
    BY <1>2 DEF Duplicate, DropEcho, Intake, TryPSK, Decoded, Goto, TypeOK, vars
<1>3. CASE TryPKI(h)
    <2>1. pc'[h] \notin {"pin", "store", "update"}
        BY <1>3 DEF TryPKI, TryPSK, Decoded, Goto, TypeOK
    <2> QED
        BY <1>1, <2>1
<1>4. CASE VerifySignature(h) \/ FirstContact(h) \/ Malformed(h)
    <2>1. pc'[h] \notin {"pin", "store", "update"}
        BY <1>4 DEF VerifySignature, FirstContact, Malformed, Reject, Goto, TypeOK
    <2> QED
        BY <1>1, <2>1
<1>5. CASE Unverifiable(h) \/ Unsigned(h)
    <2>1. pkt' = pkt /\ db' = db
        BY <1>5 DEF Unverifiable, Unsigned, PolicyFrame
    <2>2. CASE Reject(h)
        BY <1>1, <2>2 DEF Reject, Goto, TypeOK
    <2>3. CASE Accept(h, FALSE) /\ ~Reject(h)
        <3>1. ctx'[h].pki = ctx[h].pki /\ pc'[h] # "store"
            BY <2>3, AcceptFrame
        <3>2. Unchecked(pkt[h], ctx[h].pki) \/ ~db[pkt[h].from].signer
            <4>1. CASE Unverifiable(h)
                BY <2>3, <4>1, ReceiveAssumption DEF Unverifiable, Unchecked
            <4>2. CASE Unsigned(h)
                BY <2>3, <4>2 DEF Unsigned, Unchecked, Downgraded, IsKnownSigner
            <4> QED
                BY <1>5, <4>1, <4>2
        <3> QED
            BY <2>1, <3>1, <3>2 DEF KeepsSigner
    <2> QED
        BY <1>5, <2>2, <2>3 DEF Unverifiable, Unsigned
<1>6. CASE MarkSigner(h) \/ Bootstrap(h)
    <2>1. Accept(h, TRUE)
        BY <1>6 DEF MarkSigner, Bootstrap
    <2>2. ctx'[h].signed
        BY <2>1, AcceptFrame
    <2> QED
        BY <2>2 DEF KeepsSigner
<1>7. CASE PinIdentity(h)
    <2>1. /\ pkt' = pkt /\ db' = db /\ pc[h] = "pin" /\ pc'[h] \in {"respond", "store"}
          /\ ctx'[h].pki = ctx[h].pki /\ ctx'[h].signed = ctx[h].signed
          /\ pc'[h] = "store" => ~(db[pkt[h].from].user /\ db[pkt[h].from].signer)
        BY <1>0, <1>7 DEF PinIdentity, Goto, TypeOK, Context
    <2> QED
        BY <2>1 DEF KeepsSigner
<1>8. CASE StoreUser(h) \/ SetChannel(h) \/ UpdateEntry(h) \/ EmitEvent(h)
    <2>1. pc'[h] \notin {"pin", "store", "update"}
        BY <1>8 DEF StoreUser, SetChannel, UpdateEntry, EmitEvent, Goto, TypeOK
    <2> QED
        BY <1>1, <2>1
<1>9. CASE RespondNode(h) \/ RespondBridge(h) \/ RespondManaged(h)
    <2>1. pc'[h] \notin {"pin", "store", "update"}
        BY <1>9 DEF RespondNode, RespondBridge, RespondManaged, Goto, TypeOK
    <2> QED
        BY <1>1, <2>1
<1> QED
    BY <1>1, <1>2, <1>3, <1>4, <1>5, <1>6, <1>7, <1>8, <1>9 DEF Pipeline, Working

\* Both rules of pinIdentity over any sequence of packets handled one at a time, under any
\* policy and for any keys: no unsigned packet replaces a key that is held, no unsigned
\* NodeInfo changes a User held of a signer, and a map report only where the policy lets a
\* signer's unsigned packet pass.
THEOREM IdentityPinnedSerially ==
    ASSUME OneAtATime
    PROVE  Spec => []IdentityPinned
<1> DEFINE Allowed == \A r \in rewritten : /\ r.pkt.port = "NODEINFO" => ~r.user
                                           /\ Unchecked(r.pkt, r.pki)
           SInv == TypeOK /\ Allowed /\ \A h \in Handlers : KeepsSigner(h)
<1>1. Init => SInv
    BY InitType DEF Init, KeepsSigner
<1>2. SInv /\ [Next]_vars => SInv'
    <2> SUFFICES ASSUME SInv, [Next]_vars PROVE SInv'
        OBVIOUS
    <2>1. TypeOK'
        BY NextType
    <2>2. CASE CooldownOver \/ UNCHANGED vars
        <3>1. UNCHANGED <<db, pc, pkt, ctx, rewritten>>
            BY <2>2 DEF CooldownOver, vars, history
        <3> QED
            BY <2>1, <3>1 DEF KeepsSigner, Unchecked
    <2>3. ASSUME NEW h \in Handlers, Pipeline(h) PROVE SInv'
        <3>1. KeepsSigner(h)' /\ Allowed'
            BY <2>3, OwnSigner, RewriteStep DEF Unchecked
        <3>2. \A g \in Handlers : KeepsSigner(g)'
            BY <3>1 DEF OneAtATime
        <3> QED
            BY <2>1, <3>1, <3>2
    <2> QED
        BY <2>2, <2>3 DEF Next
<1>3. KeyPinned /\ Allowed => IdentityPinned
    BY DEF IdentityPinned
<1> QED
    BY <1>1, <1>2, <1>3, KeyPinnedSerially, PTL DEF Spec
=============================================================================
