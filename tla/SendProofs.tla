----------------------------- MODULE SendProofs -----------------------------
(***************************************************************************)
(* Proofs about Send, for any set of senders, nodes, channels, options,    *)
(* sizes and client packets, of a Node and of a BridgeNode: its types,     *)
(* that every frame handed to the transport is fit for the mesh and        *)
(* protected as asked, that results tell the truth, and the pacing.        *)
(***************************************************************************)
EXTENDS Send, TLAPS, FiniteSetTheorems, WellFoundedInduction

\* What the operations of the API make of their arguments: the flag and a hash only come
\* from a client, whose channel is the one of its hash; a channel the caller asked for is
\* either kept or lost by one of the operations known to lose it.
Legal(r) ==
    /\ r.client => /\ r.mode = "psk" /\ r.name = NoName /\ r.asked = NoChannel
                   /\ r.def # NoChannel => ChHash[r.def] = r.hash
    /\ ~r.client => ~r.flag /\ r.hash = 0 /\ (r.hop = 0 \/ r.hop >= HopLimit)
    /\ r.asked # NoChannel => r.def = r.asked \/ DropsOption(r)

\* The paths of sendPacketOn, sendPKIPacket and sendAs a request can be on.
OnPath(r, stage) ==
    /\ stage = "pki" => r.mode = "try"
    /\ stage \in {"channel", "stamp"} => r.mode \in {"psk", "try"}
    /\ stage \in {"id", "seal"} => r.mode \in {"psk", "pki", "none"}

\* The channel a request resolves to: its own, or the only one of the name.
Resolved(r, c) ==
    /\ r.def # NoChannel => c = r.def
    /\ r.def = NoChannel /\ r.name # NoName =>
          /\ ChName[c] = r.name
          /\ \A i, j \in 1..Len(Configured) :
                ChName[Configured[i]] = r.name /\ ChName[Configured[j]] = r.name
                => Configured[i] = Configured[j]

\* What WireSound and Confidential ask of a single frame; only what makes it Openable depends on
\* the state.
Formed(r, f) ==
    /\ Acceptable(r, f) \/ (f.how = "pki" /\ r.preset)
    /\ f.how = "psk" => Resolved(r, f.chan)
    /\ f.start = f.hops /\ f.hops <= MaxHops
    /\ ~r.client => f.hops >= HopLimit
    /\ f.how = "clear" => r.mode = "none" \/ (r.client /\ r.flag)
Fit(r, f) == (Openable(r, f) \/ UnknownHash(r)) /\ Formed(r, f)

\* A frame is fit from the moment it is made, through the lock and the transport.
CallSound(s) ==
    /\ Legal(req[s]) /\ OnPath(req[s], pc[s])
    /\ pc[s] = "stamp" => Resolved(req[s], chan[s])
    /\ pc[s] \in {"lock", "pace", "sending"} => Fit(req[s], frame[s])
    /\ \A i \in 1..Len(out[s]) : Fit(req[s], out[s][i].frame)

\* Channels are only ever added.
Kept == \A i \in 1..Len(Configured) : Configured[i] \in Registered

Sound == Kept /\ \A s \in Senders : CallSound(s)

\* The attempts the transport accepted: none while the call runs, one if it returned nil.
Accepted(s) == {i \in 1..Len(out[s]) : out[s][i].ok}
HonestCall(s) ==
    /\ pc[s] # "idle" \/ result[s] = "err" => Accepted(s) = {}
    /\ pc[s] = "idle" /\ result[s] = "ok" => \E i \in 1..Len(out[s]) : Accepted(s) = {i}
Honest == \A s \in Senders : HonestCall(s)

\* The transport refused the PKI frame of a SendData.
Refused(s) == req[s].mode = "try" /\ out[s][1].frame.how = "pki" /\ ~out[s][1].ok
\* The attempts of a call: one that is still running has made at most one, a PKI frame that
\* was refused, and what it is about to send then is under the channel key.
Attempts(s) ==
    /\ Len(out[s]) <= 2 /\ (pc[s] # "idle" => Len(out[s]) <= 1)
    /\ Len(out[s]) = 2 => Refused(s) /\ out[s][2].frame.how = "psk"
    /\ pc[s] # "idle" /\ Len(out[s]) = 1 => Refused(s)
    /\ pc[s] \in {"pki", "id", "seal"} => Len(out[s]) = 0
    /\ pc[s] \in {"lock", "pace", "sending"} /\ Len(out[s]) = 1 => frame[s].how = "psk"
-----------------------------------------------------------------------------
(***************************************************************************)
(* Constants and helpers.                                                  *)
(***************************************************************************)

\* What the assumption says of senders and nodes.
LEMMA NodeFacts ==
    /\ NoSender \notin Senders /\ Self \in Nodes /\ Broadcast \notin Nodes
    /\ Self \in Targets /\ Broadcast \in Targets /\ Nodes \subseteq Targets
BY SendAssumption DEF SendAssumption, Targets

\* What the assumption says of channels.
LEMMA ChannelFacts ==
    /\ NoChannel \notin Channels /\ NoName \notin Names
    /\ ChHash \in [Channels -> Nat]
    /\ Configured \in Seq(Channels) /\ Primary \in Channels
BY SendAssumption DEF SendAssumption, Primary

\* What the assumption says of packet IDs.
LEMMA IdFacts == AnyId \in Ids /\ NoId \notin Ids /\ Stale \notin Ids /\ NoId # Stale
BY SendAssumption DEF SendAssumption, AnyId

\* What the assumption says of hops, sizes and the pacing delay.
LEMMA NumberFacts ==
    /\ MaxHops \in Nat /\ HopLimit \in 1..MaxHops /\ SendDelay \in Nat
    /\ MaxFrame \in Nat /\ MqttBit \in Nat /\ MaxSize \in Nat
BY SendAssumption DEF SendAssumption

\* What the assumption says of the inputs of the operations.
LEMMA InputFacts ==
    Options \subseteq Option /\ Sizes \subseteq Nat /\ ClientPackets \subseteq ClientPacket
BY SendAssumption DEF SendAssumption

\* A set of registry positions has a first one.
LEMMA LeastExists ==
    ASSUME NEW S, S \subseteq Nat, S # {}
    PROVE  \E i \in S : \A j \in S : i <= j
<1>1. PICK i \in S : \A j \in S : ~ (<<j, i>> \in OpToRel(<, Nat))
  BY NatLessThanWellFounded, WFMin, Zenon
<1>2. \A j \in S : ~ (j < i)
  BY <1>1, Zenon DEF OpToRel
<1> QED
  BY <1>2

\* ChannelRegistry.Lookup answers with a channel of that hash, or nothing.
LEMMA LookupFacts ==
    ASSUME registry \in Seq(Channels), NEW hash
    PROVE  /\ Lookup(hash) \in Channels \cup {NoChannel}
           /\ Lookup(hash) # NoChannel => ChHash[Lookup(hash)] = hash
<1> DEFINE hashed == {i \in 1..Len(registry) : ChHash[registry[i]] = hash}
           first == CHOOSE i \in hashed : \A j \in hashed : i <= j
<1>1. CASE hashed = {}
  BY <1>1 DEF Lookup
<1>2. CASE hashed # {}
  <2>1. hashed \subseteq Nat
    OBVIOUS
  <2>2. first \in hashed
    BY <1>2, <2>1, LeastExists
  <2>3. Lookup(hash) = registry[first]
    BY <1>2 DEF Lookup
  <2>4. first \in 1..Len(registry) /\ ChHash[registry[first]] = hash
    BY <2>2
  <2> HIDE DEF first
  <2> QED
    BY <2>3, <2>4
<1> QED
  BY <1>1, <1>2

\* ResolveByName answers with the only registered channel of that name, or nothing.
LEMMA ResolveFacts ==
    ASSUME registry \in Seq(Channels), NEW name
    PROVE  /\ ResolveByName(name) \in Channels \cup {NoChannel}
           /\ ResolveByName(name) # NoChannel =>
                 /\ ChName[ResolveByName(name)] = name
                 /\ \A c \in Registered : ChName[c] = name => c = ResolveByName(name)
<1> DEFINE named == {c \in Registered : ChName[c] = name}
<1>1. CASE Cardinality(named) # 1
  BY <1>1 DEF ResolveByName
<1>2. CASE Cardinality(named) = 1
  <2>1. IsFiniteSet(named)
    <3> DEFINE f == [i \in 1..Len(registry) |-> registry[i]]
    <3>1. f \in Surjection(1..Len(registry), Registered)
      BY DEF Surjection, Registered
    <3>2. IsFiniteSet(1..Len(registry))
      <4>1. Len(registry) \in Int
        OBVIOUS
      <4> QED
        BY <4>1, FS_Interval
    <3> HIDE DEF f
    <3>3. IsFiniteSet(Registered)
      BY <3>1, <3>2, FS_Surjection
    <3>4. named \in SUBSET Registered
      OBVIOUS
    <3> QED
      BY <3>3, <3>4, FS_Subset
  <2>2. PICK c : named = {c}
    BY <1>2, <2>1, FS_Singleton
  <2>3. (CHOOSE d \in named : TRUE) = c
    BY <2>2
  <2>4. ResolveByName(name) = c
    BY <1>2, <2>3 DEF ResolveByName
  <2>5. c \in named /\ c \in Channels
    BY <2>2 DEF Registered
  <2> QED
    BY <2>2, <2>4, <2>5
<1> QED
  BY <1>1, <1>2

\* The channel chosen for a request has the type of a channel, and is the one asked for.
LEMMA ChannelOfFacts ==
    ASSUME TypeOK, Kept, NEW r \in Request, NEW pki \in BOOLEAN
    PROVE  /\ ChannelOf(r, pki) \in Channels \cup {NoChannel}
           /\ ChannelOf(r, pki) # NoChannel => Resolved(r, ChannelOf(r, pki))
<1>1. /\ registry \in Seq(Channels) /\ heard \in [Nodes -> Channels \cup {NoChannel}]
      /\ r.to \in Targets /\ r.def \in Channels \cup {NoChannel}
  BY DEF TypeOK, Request
<1>2. CASE r.def # NoChannel
  BY <1>1, <1>2 DEF ChannelOf, Resolved
<1>3. CASE r.def = NoChannel /\ r.name # NoName
  <2>1. ChannelOf(r, pki) = ResolveByName(r.name)
    BY <1>3 DEF ChannelOf
  <2> QED
    BY <1>1, <1>3, <2>1, ResolveFacts DEF Resolved, Kept
<1>4. CASE r.def = NoChannel /\ r.name = NoName
  <2>1. ChannelOf(r, pki) = ChannelForDestination(r.to, pki)
    BY <1>4 DEF ChannelOf
  <2>2. ChannelForDestination(r.to, pki) \in Channels
    BY <1>1, ChannelFacts DEF ChannelForDestination, Targets
  <2> QED
    BY <1>4, <2>1, <2>2 DEF Resolved
<1> QED
  BY <1>2, <1>3, <1>4

\* The relay hop is added within core.MaxHops.
LEMMA HopFacts ==
    /\ \A from : RelayHop(from, HopLimit) \in HopLimit..MaxHops
    /\ \A r \in Request : Hops(r) \in 1..MaxHops
    /\ \A r \in Request : ~r.client /\ Legal(r) => Hops(r) >= HopLimit
<1>1. \A from : RelayHop(from, HopLimit) \in HopLimit..MaxHops
  BY NumberFacts DEF RelayHop
<1>2. ASSUME NEW r \in Request PROVE Hops(r) \in 1..MaxHops
  BY NumberFacts DEF Hops, Request
<1>3. ASSUME NEW r \in Request, ~r.client, Legal(r) PROVE Hops(r) >= HopLimit
  BY <1>3, NumberFacts DEF Hops, Request, Legal
<1> QED
  BY <1>1, <1>2, <1>3
-----------------------------------------------------------------------------
(***************************************************************************)
(* The API: every operation starts or refuses a legal request, on a path   *)
(* its mode belongs to.                                                    *)
(***************************************************************************)

Good(r) == r \in Request /\ Legal(r)
Entered(s) ==
    \E r \in Request : /\ Legal(r)
                       /\ \/ Refuse(s, r)
                          \/ \E stage \in {"pki", "channel", "id"} : OnPath(r, stage) /\ Call(s, r, stage)

\* The request of a plain send is legal.
LEMMA PlainRequest ==
    ASSUME NEW from \in Nodes, NEW to \in Targets, NEW port \in Ports, NEW n \in Nat
    PROVE  Good(Plain(from, to, port, n)) /\ Plain(from, to, port, n).mode = "psk"
<1>1. Plain(from, to, port, n) \in Request
  BY NumberFacts DEF Plain, Request
<1>2. Legal(Plain(from, to, port, n))
  BY DEF Plain, Legal
<1> QED
  BY <1>1, <1>2 DEF Plain, Good

\* The options, the PKI switch and the identity of the sender keep the type of a request.
LEMMA RequestUpdates ==
    ASSUME NEW r \in Request
    PROVE  /\ \A o \in Option : /\ WithOption(r, o) \in Request /\ Named(r, o) \in Request
                              /\ [r EXCEPT !.asked = o.def] \in Request
           /\ \A pki \in BOOLEAN : TryPki(r, pki) \in Request
           /\ \A mode \in {"psk", "pki", "none"} : [r EXCEPT !.via = "as", !.mode = mode] \in Request
           /\ \A preset \in BOOLEAN, hop \in 0..MaxHops :
                 [r EXCEPT !.preset = preset, !.hop = hop] \in Request
<1>1. ASSUME NEW o \in Option PROVE WithOption(r, o) \in Request
  BY DEF WithOption, Request, Option
<1>2. ASSUME NEW o \in Option PROVE Named(r, o) \in Request
  BY DEF Named, Request, Option
<1>3. ASSUME NEW o \in Option PROVE [r EXCEPT !.asked = o.def] \in Request
  BY DEF Request, Option
<1>4. ASSUME NEW pki \in BOOLEAN PROVE TryPki(r, pki) \in Request
  BY DEF TryPki, Request
<1>5. ASSUME NEW mode \in {"psk", "pki", "none"} PROVE [r EXCEPT !.via = "as", !.mode = mode] \in Request
  BY DEF Request
<1>6. ASSUME NEW preset \in BOOLEAN, NEW hop \in 0..MaxHops
      PROVE  [r EXCEPT !.preset = preset, !.hop = hop] \in Request
  BY DEF Request
<1> QED
  BY <1>1, <1>2, <1>3, <1>4, <1>5, <1>6

\* What they make of a plain request is legal.
LEMMA OptionRequest ==
    ASSUME NEW from \in Nodes, NEW to \in Targets, NEW port \in Ports, NEW n \in Nat,
           NEW o \in Option
    PROVE  Good(WithOption(Plain(from, to, port, n), o))
<1>1. WithOption(Plain(from, to, port, n), o) \in Request
  BY PlainRequest, RequestUpdates, Zenon DEF Good
<1>2. Legal(WithOption(Plain(from, to, port, n), o))
  BY DEF WithOption, Plain, Legal
<1> QED
  BY <1>1, <1>2 DEF Good

\* The request of SendText is legal.
LEMMA TextRequest ==
    ASSUME NEW to \in Targets, NEW n \in Nat, NEW o \in Option
    PROVE  Good([TryPki(Plain(Self, to, "TEXT", n), TRUE) EXCEPT !.asked = o.def])
<1> DEFINE r == [TryPki(Plain(Self, to, "TEXT", n), TRUE) EXCEPT !.asked = o.def]
<1>1. r \in Request
  <2>1. "TEXT" \in Ports
    BY DEF Ports
  <2> QED
    BY <2>1, NodeFacts, PlainRequest, RequestUpdates, Zenon DEF Good
<1>2. Legal(r)
  BY DEF TryPki, Plain, Legal, DropsOption
<1> QED
  BY <1>1, <1>2 DEF Good

\* The request of SendData is legal.
LEMMA DataRequest ==
    ASSUME NEW from \in Nodes, NEW to \in Targets, NEW n \in Nat, NEW pki \in BOOLEAN,
           NEW preset \in BOOLEAN, NEW hop \in {0} \cup HopLimit..MaxHops
    PROVE  LET r == TryPki([Plain(from, to, "OTHER", n) EXCEPT !.preset = preset, !.hop = hop], pki)
           IN  Good(r) /\ r.mode \in {"psk", "try"}
<1> DEFINE r0 == [Plain(from, to, "OTHER", n) EXCEPT !.preset = preset, !.hop = hop]
           r == TryPki(r0, pki)
<1>1. r0 \in Request
  <2>1. Plain(from, to, "OTHER", n) \in Request
    BY PlainRequest DEF Good, Ports
  <2>2. hop \in 0..MaxHops
    BY NumberFacts
  <2> QED
    BY <2>1, <2>2, RequestUpdates, Zenon
<1>2. ~r0.client /\ ~r0.flag /\ r0.hash = 0 /\ r0.hop = hop /\ r0.asked = NoChannel
  BY DEF Plain
<1> HIDE DEF r0
<1>3. /\ r \in Request /\ ~r.client /\ ~r.flag /\ r.hash = 0 /\ r.hop = hop
      /\ r.asked = NoChannel /\ r.mode \in {"psk", "try"}
  BY <1>1, <1>2 DEF TryPki, Request
<1>4. Legal(r)
  BY <1>3, NumberFacts DEF Legal
<1> QED
  BY <1>3, <1>4 DEF Good, r0

\* A client's packet becomes a legal request.
LEMMA ClientRequest ==
    ASSUME registry \in Seq(Channels), NEW p \in ClientPacket
    PROVE  Good([Plain(p.from, p.to, "OTHER", p.size) EXCEPT
                   !.def = Lookup(p.hash), !.preset = p.preset, !.client = TRUE,
                   !.hash = p.hash, !.flag = p.flag, !.hop = p.hop])
<1> DEFINE d == Lookup(p.hash)
           r == [Plain(p.from, p.to, "OTHER", p.size) EXCEPT
                   !.def = d, !.preset = p.preset, !.client = TRUE,
                   !.hash = p.hash, !.flag = p.flag, !.hop = p.hop]
<1>1. d \in Channels \cup {NoChannel} /\ (d # NoChannel => ChHash[d] = p.hash)
  BY LookupFacts
<1> HIDE DEF d
<1>2. r \in Request
  BY <1>1, NumberFacts DEF Plain, Request, ClientPacket, Ports
<1>3. Legal(r)
  BY <1>1 DEF Plain, Legal
<1> QED
  BY <1>2, <1>3 DEF Good, d

\* The request of a Send...As operation is legal.
LEMMA AsRequest ==
    ASSUME NEW from \in Nodes, NEW to \in Targets, NEW port \in Ports, NEW n \in Nat,
           NEW mode \in {"psk", "pki", "none"}
    PROVE  Good(As(from, to, port, mode, n)) /\ As(from, to, port, mode, n).mode = mode
<1> DEFINE r == As(from, to, port, mode, n)
<1>1. r \in Request
  BY PlainRequest, RequestUpdates, Zenon DEF Good, As
<1>2. Legal(r) /\ r.mode = mode
  BY DEF As, Plain, Legal
<1> QED
  BY <1>1, <1>2 DEF Good

\* So is that of an operation that applies its options.
LEMMA AsOptionRequest ==
    ASSUME NEW from \in Nodes, NEW to \in Targets, NEW n \in Nat, NEW o \in Option,
           NEW mode \in {"psk", "pki", "none"}
    PROVE  LET r == WithOption(As(from, to, "OTHER", mode, n), o)
           IN  Good(r) /\ r.mode = mode
<1> DEFINE r == WithOption(As(from, to, "OTHER", mode, n), o)
<1>1. r \in Request
  BY AsRequest, RequestUpdates DEF Good, Ports
<1>2. Legal(r) /\ r.mode = mode
  BY DEF WithOption, As, Plain, Legal
<1> QED
  BY <1>1, <1>2 DEF Good

\* So is that of an operation that keeps only the name of a channel.
LEMMA AsNamedRequest ==
    ASSUME NEW from \in Nodes, NEW to \in Targets, NEW port \in {"TEXT", "NODEINFO"},
           NEW n \in Nat, NEW o \in Option, NEW mode \in {"psk", "pki", "none"}
    PROVE  LET r == Named(As(from, to, port, mode, n), o)
           IN  Good(r) /\ r.mode = mode
<1> DEFINE r == Named(As(from, to, port, mode, n), o)
<1>1. r \in Request
  BY AsRequest, RequestUpdates, ZenonT(40) DEF Good, Ports
<1>2. Legal(r) /\ r.mode = mode
  BY DEF Named, As, Plain, Legal, DropsOption
<1> QED
  BY <1>1, <1>2 DEF Good
-----------------------------------------------------------------------------
\* Every call of a Node.
LEMMA NodeCalls ==
    ASSUME TypeOK, NEW s \in Senders, NodeCall(s)
    PROVE  Entered(s)
<1>1. ASSUME NEW to \in Targets, NEW o \in Options, NEW n \in Sizes, SendText(s, to, o, n)
      PROVE  Entered(s)
  <2> DEFINE r == Plain(Self, to, "TEXT", n)
             r1 == [TryPki(r, TRUE) EXCEPT !.asked = o.def]
             r2 == WithOption(r, o)
  <2>1. Good(r) /\ Good(r1) /\ Good(r2)
    BY InputFacts, NodeFacts, PlainRequest, TextRequest, OptionRequest DEF Ports
  <2>2. r1.mode = "try" /\ r2.mode = "psk"
    BY DEF TryPki, Plain, WithOption
  <2>3. Refuse(s, r) \/ Call(s, r1, "pki") \/ Call(s, r2, "channel")
    BY <1>1 DEF SendText
  <2> HIDE DEF r, r1, r2
  <2> QED
    BY <2>1, <2>2, <2>3 DEF Entered, OnPath, Good
<1>2. ASSUME NEW to \in Targets, NEW o \in Options, NEW n \in Sizes, SendWaypoint(s, to, o, n)
      PROVE  Entered(s)
  <2> DEFINE r == WithOption(Plain(Self, to, "OTHER", n), o)
  <2>1. Good(r)
    BY InputFacts, NodeFacts, OptionRequest DEF Ports
  <2>2. r.mode = "psk"
    BY DEF Plain, WithOption
  <2>3. Refuse(s, r) \/ Call(s, r, "channel")
    BY <1>2 DEF SendWaypoint
  <2> HIDE DEF r
  <2> QED
    BY <2>1, <2>2, <2>3 DEF Entered, OnPath, Good
<1>3. ASSUME NEW o \in Options, NEW n \in Sizes, SendMeshBeacon(s, o, n) PROVE Entered(s)
  BY <1>2, <1>3, NodeFacts DEF SendMeshBeacon
<1>4. ASSUME NEW to \in Targets, NEW n \in Sizes, SendPlain(s, to, n) PROVE Entered(s)
  <2>1. Good(Plain(Self, to, "OTHER", n)) /\ Plain(Self, to, "OTHER", n).mode = "psk"
    BY InputFacts, NodeFacts, PlainRequest DEF Ports
  <2> QED
    BY <1>4, <2>1 DEF SendPlain, Entered, OnPath, Good
<1>5. ASSUME NEW n \in Sizes, SendMapReport(s, n) PROVE Entered(s)
  <2> DEFINE r == Plain(Self, Broadcast, "MAP_REPORT", n)
  <2>1. Good(r) /\ r.mode = "psk"
    BY InputFacts, NodeFacts, PlainRequest DEF Ports
  <2>2. Call(s, r, "channel")
    BY <1>5 DEF SendMapReport
  <2> HIDE DEF r
  <2> QED
    BY <2>1, <2>2 DEF Entered, OnPath, Good
<1>6. ASSUME NEW to \in Targets, NEW pki \in BOOLEAN, NEW preset \in BOOLEAN, NEW n \in Sizes,
             SendData(s, to, pki, preset, n)
      PROVE  Entered(s)
  <2> DEFINE r0 == [Plain(Self, to, "OTHER", n) EXCEPT !.preset = preset]
             r1 == [Plain(Self, to, "OTHER", n) EXCEPT !.preset = preset, !.hop = 0]
             r == TryPki(r1, pki)
  <2>1. r0 = r1
    <3> DEFINE q == Plain(Self, to, "OTHER", n)
    <3>1. q \in Request /\ q.hop = 0
      BY InputFacts, NodeFacts, PlainRequest DEF Good, Ports, Plain
    <3> HIDE DEF q
    <3>2. [q EXCEPT !.preset = preset] = [q EXCEPT !.preset = preset, !.hop = 0]
      BY <3>1 DEF Request
    <3> QED
      BY <3>2 DEF q
  <2>2. Good(r) /\ r.mode \in {"psk", "try"}
    BY InputFacts, NodeFacts, DataRequest
  <2>3. Call(s, r, Start(r))
    BY <1>6, <2>1 DEF SendData
  <2> HIDE DEF r
  <2>4. Start(r) \in {"pki", "channel"} /\ OnPath(r, Start(r))
    BY <2>2 DEF Start, OnPath
  <2> QED
    BY <2>2, <2>3, <2>4 DEF Entered, Good
<1>7. ASSUME NEW p \in ClientPackets, FromClient(s, p) PROVE Entered(s)
  <2> DEFINE r == [Plain(p.from, p.to, "OTHER", p.size) EXCEPT
                     !.def = Lookup(p.hash), !.preset = p.preset, !.client = TRUE,
                     !.hash = p.hash, !.flag = p.flag, !.hop = p.hop]
  <2>1. Good(r)
    BY InputFacts, ClientRequest DEF TypeOK
  <2>2. r.mode = "psk"
    BY DEF Plain
  <2>3. Call(s, r, "channel")
    BY <1>7 DEF FromClient
  <2> HIDE DEF r
  <2> QED
    BY <2>1, <2>2, <2>3 DEF Entered, OnPath, Good
<1> QED
  BY <1>1, <1>2, <1>3, <1>4, <1>5, <1>6, <1>7 DEF NodeCall

\* sendAs refuses a legal request or starts it at its packet ID.
LEMMA SendAsEnters ==
    ASSUME NEW s, NEW r, Good(r), r.mode \in {"psk", "pki", "none"}, SendAs(s, r) \/ Refuse(s, r)
    PROVE  Entered(s)
BY DEF SendAs, Entered, OnPath, Good

\* SendDataAs and SendAckAs take Node's path.
LEMMA DataAsEnters ==
    ASSUME NEW s, NEW from \in Nodes, NEW to \in Targets, NEW n \in Sizes, NEW pki \in BOOLEAN,
           NEW preset \in BOOLEAN, SendDataAs(s, from, to, pki, preset, n)
    PROVE  Entered(s)
<1> DEFINE hop == IF from = Self THEN 0 ELSE RelayHop(from, HopLimit)
           r == TryPki([Plain(from, to, "OTHER", n) EXCEPT !.preset = preset, !.hop = hop], pki)
<1>1. hop \in {0} \cup HopLimit..MaxHops
  BY HopFacts
<1>2. Refuse(s, r) \/ Call(s, r, Start(r))
  BY DEF SendDataAs
<1> HIDE DEF hop
<1>3. Good(r) /\ r.mode \in {"psk", "try"}
  BY <1>1, InputFacts, DataRequest
<1> HIDE DEF r
<1>4. Start(r) \in {"pki", "channel"} /\ OnPath(r, Start(r))
  BY <1>3 DEF Start, OnPath
<1> QED
  BY <1>2, <1>3, <1>4 DEF Entered, Good

\* Every call of a BridgeNode.
LEMMA BridgeCalls ==
    ASSUME NEW s \in Senders, BridgeCall(s)
    PROVE  Entered(s)
<1>1. PICK from \in Nodes, n \in Sizes :
        \/ \E to \in Targets, o \in Options :
              \/ SendTextAs(s, from, to, o, n) \/ SendNodeInfoAs(s, from, to, o, n)
              \/ SendPayloadAs(s, from, to, o, n)
        \/ \E to \in Targets : SendPlainAs(s, from, to, n) \/ SendAckAs(s, from, to, n)
        \/ \E located \in BOOLEAN : SendMapReportAs(s, from, located, n)
        \/ \E to \in Targets, pki, preset \in BOOLEAN : SendDataAs(s, from, to, pki, preset, n)
  BY DEF BridgeCall
<1>2. n \in Nat /\ Options \subseteq Option
  BY InputFacts
<1>3. ASSUME NEW to \in Targets, NEW o \in Options, SendTextAs(s, from, to, o, n)
      PROVE  Entered(s)
  <2> DEFINE r == Named(As(from, to, "TEXT", EncModeFor(o), n), o)
  <2>1. EncModeFor(o) \in {"psk", "pki"}
    BY DEF EncModeFor
  <2>2. Good(r) /\ r.mode \in {"psk", "pki"}
    BY <1>2, <2>1, AsNamedRequest
  <2>3. SendAs(s, r)
    BY <1>3 DEF SendTextAs
  <2> HIDE DEF r
  <2> QED
    BY <2>2, <2>3, SendAsEnters
<1>4. ASSUME NEW to \in Targets, NEW o \in Options, SendNodeInfoAs(s, from, to, o, n)
      PROVE  Entered(s)
  <2> DEFINE r == Named(As(from, to, "NODEINFO", EncModeFor(o), n), o)
  <2>1. EncModeFor(o) \in {"psk", "pki"}
    BY DEF EncModeFor
  <2>2. Good(r) /\ r.mode \in {"psk", "pki"}
    BY <1>2, <2>1, AsNamedRequest
  <2>3. SendAs(s, r) \/ Refuse(s, r)
    BY <1>4 DEF SendNodeInfoAs
  <2> HIDE DEF r
  <2> QED
    BY <2>2, <2>3, SendAsEnters
<1>5. ASSUME NEW to \in Targets, NEW o \in Options, SendPayloadAs(s, from, to, o, n)
      PROVE  Entered(s)
  <2> DEFINE r == WithOption(As(from, to, "OTHER", EncModeFor(o), n), o)
  <2>1. EncModeFor(o) \in {"psk", "pki"}
    BY DEF EncModeFor
  <2>2. Good(r) /\ r.mode \in {"psk", "pki"}
    BY <1>2, <2>1, AsOptionRequest
  <2>3. SendAs(s, r)
    BY <1>5 DEF SendPayloadAs
  <2> HIDE DEF r
  <2> QED
    BY <2>2, <2>3, SendAsEnters
<1>6. ASSUME NEW to \in Targets, SendPlainAs(s, from, to, n) PROVE Entered(s)
  <2> DEFINE r == As(from, to, "OTHER", "psk", n)
  <2>1. Good(r) /\ r.mode = "psk"
    BY <1>2, AsRequest DEF Ports
  <2>2. SendAs(s, r)
    BY <1>6 DEF SendPlainAs
  <2> HIDE DEF r
  <2> QED
    BY <2>1, <2>2, SendAsEnters
<1>7. ASSUME NEW located \in BOOLEAN, SendMapReportAs(s, from, located, n) PROVE Entered(s)
  <2> DEFINE r == As(from, Broadcast, "MAP_REPORT", "none", n)
  <2>1. Good(r) /\ r.mode = "none"
    BY <1>2, NodeFacts, AsRequest DEF Ports
  <2>2. SendAs(s, r) \/ Refuse(s, r)
    BY <1>7 DEF SendMapReportAs
  <2> HIDE DEF r
  <2> QED
    BY <2>1, <2>2, SendAsEnters
<1>8. ASSUME NEW to \in Targets, NEW pki \in BOOLEAN, NEW preset \in BOOLEAN,
             SendDataAs(s, from, to, pki, preset, n)
      PROVE  Entered(s)
  BY <1>8, DataAsEnters
<1>9. ASSUME NEW to \in Targets, SendAckAs(s, from, to, n) PROVE Entered(s)
  BY <1>9, DataAsEnters DEF SendAckAs
<1> QED
  BY <1>1, <1>3, <1>4, <1>5, <1>6, <1>7, <1>8, <1>9

\* A step is the start of a call, a step inside one, time, or something the node learns.
LEMMA StepCases ==
    ASSUME TypeOK, [Next]_vars
    PROVE  \/ \E s \in Senders : Entered(s) \/ TakeLock(s) \/ Working(s)
           \/ Learn \/ Tick \/ UNCHANGED vars
<1>1. ASSUME NEW s \in Senders, JobCall(s) PROVE Entered(s)
  <2> DEFINE r == Plain(Self, Broadcast, "OTHER", 1)
  <2>1. Good(r) /\ r.mode = "psk"
    BY NodeFacts, PlainRequest DEF Ports
  <2>2. Call(s, r, "channel")
    BY <1>1 DEF JobCall, SendPlain
  <2> HIDE DEF r
  <2> QED
    BY <2>1, <2>2 DEF Entered, OnPath, Good
<1> QED
  BY <1>1, NodeCalls, BridgeCalls DEF Next
-----------------------------------------------------------------------------
(***************************************************************************)
(* The frames: what sendPKIPacket, sendPacketOn and sendAs build.          *)
(***************************************************************************)

StampedSize(r) == r.size + (IF OkToMQTT THEN MqttBit ELSE 0)
StampFrame(r, c, i) ==
    [how |-> IF r.flag THEN "clear" ELSE "psk", flag |-> r.flag,
     hash |-> IF ~r.flag /\ r.hash = 0 THEN ChHash[c] ELSE r.hash,
     chan |-> c, id |-> i, nonce |-> i,
     sig |-> SignOutbound(r, StampedSize(r), r.flag, i),
     size |-> StampedSize(r), hops |-> Hops(r), start |-> Hops(r)]

\* signOutbound signs what fits and what a peer expects to be signed, with its own ID.
LEMMA SignFacts ==
    ASSUME NEW r, NEW size, NEW pki, NEW i \in Ids
    PROVE  /\ SignOutbound(r, size, pki, i) \in {i, NoId}
           /\ Signable(r, pki) /\ size <= MaxFrame => SignOutbound(r, size, pki, i) = i
           /\ SignOutbound(r, size, pki, i) # NoId => size <= MaxFrame
BY DEF SignOutbound

\* A frame made for a keyed recipient is fit.
LEMMA PkiFrameFacts ==
    ASSUME NEW r \in Request, NEW i \in Ids
    PROVE  /\ PkiFrame(r, i) \in Frame
           /\ r.mode = "try" /\ r.to \in keyed => Fit(r, PkiFrame(r, i))
<1> DEFINE hops == RelayHop(r.from, HopLimit)
           f == PkiFrame(r, i)
<1>1. hops \in HopLimit..MaxHops /\ hops \in Nat
  BY HopFacts, NumberFacts
<1>2. f = [how |-> "pki", flag |-> TRUE, hash |-> 0, chan |-> Primary, id |-> i, nonce |-> i,
           sig |-> IF r.preset THEN Stale ELSE NoId, size |-> r.size, hops |-> hops,
           start |-> hops]
  BY DEF PkiFrame
<1> HIDE DEF hops, f
<1>3. f \in Frame
  BY <1>1, <1>2, ChannelFacts DEF Frame, Request
<1>4. ASSUME r.mode = "try", r.to \in keyed PROVE Fit(r, f)
  <2>1. Openable(r, f)
    BY <1>2, <1>4 DEF Openable
  <2>2. r.preset \/ Acceptable(r, f)
    BY <1>2 DEF Acceptable, Signable
  <2>3. f.how = "pki" /\ f.start = f.hops /\ f.hops <= MaxHops /\ f.hops >= HopLimit
    BY <1>1, <1>2, NumberFacts
  <2> QED
    BY <1>4, <2>1, <2>2, <2>3 DEF Fit, Formed
<1> QED
  BY <1>3, <1>4 DEF f

\* A frame stamped for the channel the request resolved to is fit.
LEMMA StampFrameFacts ==
    ASSUME NEW r \in Request, NEW c \in Channels, NEW i \in Ids
    PROVE  /\ StampFrame(r, c, i) \in Frame
           /\ Legal(r) /\ r.mode \in {"psk", "try"} /\ Resolved(r, c) => Fit(r, StampFrame(r, c, i))
<1> DEFINE f == StampFrame(r, c, i)
           sig == SignOutbound(r, StampedSize(r), r.flag, i)
           hash == IF ~r.flag /\ r.hash = 0 THEN ChHash[c] ELSE r.hash
           size == StampedSize(r)
           how == IF r.flag THEN "clear" ELSE "psk"
<1>1. /\ sig \in {i, NoId}
      /\ Signable(r, r.flag) /\ size <= MaxFrame => sig = i
      /\ sig # NoId => size <= MaxFrame
  BY SignFacts
<1>2. size \in Nat /\ hash \in Nat /\ Hops(r) \in 1..MaxHops
  BY NumberFacts, ChannelFacts, HopFacts DEF StampedSize, Request
<1>3. r.flag \in BOOLEAN /\ r.client \in BOOLEAN
  BY Zenon DEF Request
<1>4. how \in {"clear", "psk"} /\ (how = "psk" <=> ~r.flag)
  OBVIOUS
<1>5. f = [how |-> how, flag |-> r.flag, hash |-> hash, chan |-> c, id |-> i, nonce |-> i,
           sig |-> sig, size |-> size, hops |-> Hops(r), start |-> Hops(r)]
  BY DEF StampFrame
<1> HIDE DEF f, sig, size, how
<1>6. f \in Frame
  <2> HIDE DEF hash
  <2>1. Hops(r) \in Nat
    BY <1>2, NumberFacts
  <2> QED
    BY <1>1, <1>2, <1>3, <1>4, <1>5, <2>1 DEF Frame
<1>7. ASSUME Legal(r), r.mode \in {"psk", "try"}, Resolved(r, c) PROVE Fit(r, f)
  <2>1. f.how = how /\ f.flag = r.flag /\ f.hash = hash /\ f.chan = c /\ f.id = i
        /\ f.sig = sig /\ f.size = size /\ f.hops = Hops(r) /\ f.start = Hops(r)
    BY <1>5
  <2>2. Openable(r, f) \/ UnknownHash(r)
    <3>1. CASE r.flag
      BY <1>4, <2>1, <3>1 DEF Openable
    <3>2. CASE ~r.flag /\ r.hash = 0
      BY <1>4, <2>1, <3>2 DEF Openable
    <3>3. CASE ~r.flag /\ r.hash # 0
      <4>1. r.client
        BY <1>7, <3>3 DEF Legal
      <4>2. r.def = NoChannel \/ (ChHash[c] = r.hash /\ c = r.def)
        BY <1>7, <4>1 DEF Legal, Resolved
      <4>3. f.hash = r.hash
        BY <2>1, <3>3
      <4> QED
        BY <1>4, <2>1, <3>3, <4>1, <4>2, <4>3 DEF Openable, UnknownHash
    <3> QED
      BY <3>1, <3>2, <3>3
  <2>3. Acceptable(r, f)
    <3>1. f.sig # NoId => f.sig = f.id /\ f.size <= MaxFrame
      BY <1>1, <2>1
    <3>2. f.how = "psk" => (Signable(r, FALSE) /\ f.size <= MaxFrame => f.sig = f.id)
      BY <1>1, <1>3, <1>4, <2>1 DEF Signable
    <3> QED
      BY <1>4, <2>1, <3>1, <3>2 DEF Acceptable
  <2>4. f.hops <= MaxHops /\ (~r.client => f.hops >= HopLimit)
    BY <1>2, <1>7, <2>1, HopFacts
  <2>5. f.how = "clear" => r.client /\ r.flag
    BY <1>3, <1>4, <1>7, <2>1 DEF Legal
  <2> QED
    BY <1>7, <2>1, <2>2, <2>3, <2>4, <2>5 DEF Fit, Formed
<1> QED
  BY <1>6, <1>7 DEF f

\* So is a frame of sendAs in the mode that was asked for.
LEMMA AsFrameFacts ==
    ASSUME NEW s, req[s] \in Request, pid[s] \in Ids, NEW c \in Channels,
           NEW how \in {"psk", "pki", "clear"}
    PROVE  /\ AsFrame(s, c, how) \in Frame
           /\ /\ Resolved(req[s], c)
              /\ \/ how = "clear" /\ req[s].mode = "none"
                 \/ how = "psk" /\ req[s].mode = "psk"
                 \/ how = "pki" /\ req[s].mode = "pki" /\ req[s].to \in keyed
              => Fit(req[s], AsFrame(s, c, how))
<1> DEFINE r == req[s]
           i == pid[s]
           f == AsFrame(s, c, how)
           pki == r.mode = "pki"
           sig == SignOutbound(r, r.size + MqttBit, pki, i)
           size == r.size + MqttBit
           hash == IF how = "psk" THEN ChHash[c] ELSE 0
           hops == RelayHop(r.from, HopLimit)
<1>1. /\ sig \in {i, NoId}
      /\ Signable(r, pki) /\ size <= MaxFrame => sig = i
      /\ sig # NoId => size <= MaxFrame
  BY SignFacts
<1>2. size \in Nat /\ hash \in Nat /\ hops \in HopLimit..MaxHops /\ hops \in Nat
  BY NumberFacts, ChannelFacts, HopFacts, SMTT(30) DEF Request
<1>3. f = [how |-> how, flag |-> how = "pki", hash |-> hash, chan |-> c, id |-> i,
           nonce |-> i, sig |-> sig, size |-> size, hops |-> hops, start |-> hops]
  BY DEF AsFrame
<1> HIDE DEF f, sig, size, hash, hops
<1>4. f \in Frame
  <2>1. (how = "pki") \in BOOLEAN
    OBVIOUS
  <2> QED
    BY <1>1, <1>2, <1>3, <2>1 DEF Frame
<1>5. /\ f.how = how /\ (f.flag <=> how = "pki") /\ f.hash = hash /\ f.chan = c /\ f.id = i
      /\ f.sig = sig /\ f.size = size /\ f.hops = hops /\ f.start = hops
  BY <1>3
<1>6. ASSUME Resolved(r, c),
             \/ how = "clear" /\ r.mode = "none"
             \/ how = "psk" /\ r.mode = "psk"
             \/ how = "pki" /\ r.mode = "pki" /\ r.to \in keyed
      PROVE  Fit(r, f)
  <2>1. Openable(r, f)
    BY <1>5, <1>6 DEF Openable, hash
  <2>2. Acceptable(r, f)
    <3>1. pki <=> f.how = "pki"
      BY <1>5, <1>6
    <3> QED
      BY <1>1, <1>5, <3>1 DEF Acceptable, Signable
  <2>3. f.hops <= MaxHops /\ f.hops >= HopLimit
    BY <1>2, <1>5, NumberFacts
  <2> QED
    BY <1>5, <1>6, <2>1, <2>2, <2>3 DEF Fit, Formed
<1> QED
  BY <1>4, <1>6 DEF f
-----------------------------------------------------------------------------
(***************************************************************************)
(* Types.                                                                  *)
(***************************************************************************)

\* The frame of a goroutine that has sent nothing yet has the type.
LEMMA NoFrameType == NoFrame \in Frame
BY ChannelFacts, IdFacts, NumberFacts DEF NoFrame, Frame

\* What a call starts with, and what a refused one leaves.
LEMMA EnteredFacts ==
    ASSUME TypeOK, NEW s \in Senders, Entered(s)
    PROVE  \E r \in Request, stage \in {"idle", "pki", "channel", "id"} :
              /\ Legal(r) /\ OnPath(r, stage) /\ pc[s] = "idle"
              /\ pc' = [pc EXCEPT ![s] = stage]
              /\ req' = [req EXCEPT ![s] = r]
              /\ out' = [out EXCEPT ![s] = <<>>]
              /\ \E v \in {"none", "err"} : result' = [result EXCEPT ![s] = v]
              /\ CallFrame(s)
<1>1. PICK r \in Request :
        /\ Legal(r)
        /\ \/ Refuse(s, r)
           \/ \E stage \in {"pki", "channel", "id"} : OnPath(r, stage) /\ Call(s, r, stage)
  BY DEF Entered
<1>2. CASE Refuse(s, r)
  <2>1. pc[s] = "idle" /\ pc' = [pc EXCEPT ![s] = "idle"]
    BY <1>2 DEF Refuse, MayCall, TypeOK
  <2>2. OnPath(r, "idle")
    BY DEF OnPath
  <2> QED
    BY <1>1, <1>2, <2>1, <2>2 DEF Refuse
<1>3. ASSUME NEW stage \in {"pki", "channel", "id"}, OnPath(r, stage), Call(s, r, stage)
      PROVE  pc[s] = "idle" /\ pc' = [pc EXCEPT ![s] = stage]
  BY <1>3 DEF Call, MayCall, Goto
<1> QED
  BY <1>1, <1>2, <1>3 DEF Call

\* The start of a call keeps the types.
LEMMA EnteredTypes ==
    ASSUME TypeOK, NEW s \in Senders, Entered(s)
    PROVE  TypeOK'
<1>1. PICK r \in Request, stage \in {"idle", "pki", "channel", "id"} :
        /\ pc' = [pc EXCEPT ![s] = stage]
        /\ req' = [req EXCEPT ![s] = r]
        /\ out' = [out EXCEPT ![s] = <<>>]
        /\ \E v \in {"none", "err"} : result' = [result EXCEPT ![s] = v]
        /\ CallFrame(s)
  BY EnteredFacts
<1>2. pc' \in [Senders -> Stages] /\ result' \in [Senders -> {"none", "ok", "err"}]
  BY <1>1 DEF TypeOK, Stages
<1>3. req' \in [Senders -> Request] /\ out' \in [Senders -> Seq(Sent)]
  BY <1>1 DEF TypeOK
<1>4. chan' \in [Senders -> Channels] /\ pid' \in [Senders -> Ids] /\ frame' \in [Senders -> Frame]
  BY <1>1, ChannelFacts, IdFacts, NoFrameType DEF TypeOK, CallFrame
<1>5. UNCHANGED <<registry, heard, keyed, lock, since, quiet>>
  BY <1>1 DEF CallFrame, net, pacing
<1> QED
  BY <1>2, <1>3, <1>4, <1>5 DEF TypeOK

\* The steps inside a call keep the types.
LEMMA WorkingTypes ==
    ASSUME TypeOK, Kept, NEW s \in Senders, OnPath(req[s], pc[s]), TakeLock(s) \/ Working(s)
    PROVE  TypeOK'
<1>1. /\ req[s] \in Request /\ chan[s] \in Channels /\ pid[s] \in Ids /\ frame[s] \in Frame
      /\ registry \in Seq(Channels) /\ frame \in [Senders -> Frame]
  BY DEF TypeOK
<1>2. req[s].flag \in BOOLEAN
  BY <1>1, Zenon DEF Request
<1>3. CASE TakeLock(s)
  BY <1>3 DEF TakeLock, TypeOK, Goto, net, Stages
<1>4. CASE TryPKI(s)
  <2>1. \A i \in Ids : PkiFrame(req[s], i) \in Frame
    BY <1>1, PkiFrameFacts
  <2>2. frame' \in [Senders -> Frame] /\ pc' \in [Senders -> Stages]
    BY <1>1, <1>4, <2>1 DEF TryPKI, TypeOK, Goto, Stages
  <2> QED
    BY <1>4, <2>2 DEF TryPKI, TypeOK, net, pacing
<1>5. CASE ResolveChannel(s)
  <2> DEFINE c == ChannelOf(req[s], req[s].flag)
  <2>1. c \in Channels \cup {NoChannel}
    BY <1>1, <1>2, ChannelOfFacts
  <2>2. chan' \in [Senders -> Channels]
    BY <1>5, <2>1 DEF ResolveChannel, TypeOK
  <2>3. pc' \in [Senders -> Stages] /\ result' \in [Senders -> {"none", "ok", "err"}]
    BY <1>5 DEF ResolveChannel, TypeOK, Goto, Return, Stages
  <2> QED
    BY <1>5, <2>2, <2>3 DEF ResolveChannel, TypeOK, net, pacing
<1>6. CASE StampPacket(s)
  <2>1. PICK i \in Ids : frame' = [frame EXCEPT ![s] = StampFrame(req[s], chan[s], i)]
    BY <1>6 DEF StampPacket, StampFrame, StampedSize
  <2>2. StampFrame(req[s], chan[s], i) \in Frame
    BY <1>1, StampFrameFacts
  <2>3. frame' \in [Senders -> Frame]
    BY <1>1, <2>1, <2>2
  <2> QED
    BY <1>6, <2>3 DEF StampPacket, TypeOK, Goto, net, pacing, Stages
<1>7. CASE DrawId(s)
  BY <1>7 DEF DrawId, TypeOK, Goto, net, pacing, Stages
<1>8. CASE Seal(s)
  <2> DEFINE c == ChannelOf(req[s], req[s].mode = "pki")
  <2>1. c \in Channels \cup {NoChannel}
    BY <1>1, ChannelOfFacts
  <2>2. frame' \in [Senders -> Frame]
    <3>1. CASE frame' = frame
      BY <1>1, <3>1
    <3>2. CASE frame' # frame
      <4> DEFINE how == IF req[s].mode = "none" THEN "clear" ELSE req[s].mode
      <4>1. c \in Channels /\ frame' = [frame EXCEPT ![s] = AsFrame(s, c, how)]
        BY <1>8, <2>1, <3>2 DEF Seal
      <4>2. AsFrame(s, c, how) \in Frame
        <5>1. CASE how \in {"psk", "pki", "clear"}
          BY <1>1, <4>1, <5>1, AsFrameFacts
        <5>2. how \in {"psk", "pki", "clear"}
          BY <1>8 DEF Seal, OnPath
        <5> QED
          BY <5>1, <5>2
      <4> QED
        BY <1>1, <4>1, <4>2
    <3> QED
      BY <3>1, <3>2
  <2>3. pc' \in [Senders -> Stages] /\ result' \in [Senders -> {"none", "ok", "err"}]
    BY <1>8 DEF Seal, TypeOK, Goto, Return, Stages
  <2> QED
    BY <1>8, <2>2, <2>3 DEF Seal, TypeOK, net, pacing
<1>9. CASE BeginSend(s)
  BY <1>9, NumberFacts DEF BeginSend, TypeOK, Goto, net, Stages
<1>10. CASE SendReturns(s) \/ SendFails(s)
  <2>1. pc' \in [Senders -> Stages] /\ result' \in [Senders -> {"none", "ok", "err"}]
    BY <1>10 DEF SendReturns, SendFails, TypeOK, Goto, Return, Stages
  <2>2. PICK ok \in BOOLEAN : Deliver(s, ok)
    BY <1>10 DEF SendReturns, SendFails
  <2>3. [frame |-> frame[s], ok |-> ok] \in Sent
    BY <1>1 DEF Sent
  <2>4. out' \in [Senders -> Seq(Sent)]
    BY <2>2, <2>3 DEF Deliver, TypeOK
  <2> QED
    BY <1>10, <2>1, <2>4 DEF SendReturns, SendFails, TypeOK, net
<1> QED
  BY <1>3, <1>4, <1>5, <1>6, <1>7, <1>8, <1>9, <1>10 DEF Working
-----------------------------------------------------------------------------
(***************************************************************************)
(* Every frame is fit.                                                     *)
(***************************************************************************)

\* Keys are only learned, so what could be opened still can.
LEMMA FitKept ==
    ASSUME NEW r, NEW f, keyed \subseteq keyed'
    PROVE  Fit(r, f) => Fit(r, f)'
BY DEF Fit, Openable

\* A call that no step touches stays sound.
LEMMA Untouched ==
    ASSUME NEW s, CallSound(s), keyed \subseteq keyed',
           /\ pc'[s] = pc[s] /\ req'[s] = req[s] /\ chan'[s] = chan[s]
           /\ frame'[s] = frame[s] /\ out'[s] = out[s]
    PROVE  CallSound(s)'
BY DEF CallSound, Fit, Openable

\* The start of a call: a legal request, no frame yet.
LEMMA EnteredSound ==
    ASSUME TypeOK, NEW s \in Senders, Entered(s)
    PROVE  CallSound(s)'
<1>1. PICK r \in Request, stage \in {"idle", "pki", "channel", "id"} :
        /\ Legal(r) /\ OnPath(r, stage)
        /\ pc' = [pc EXCEPT ![s] = stage]
        /\ req' = [req EXCEPT ![s] = r]
        /\ out' = [out EXCEPT ![s] = <<>>]
  BY EnteredFacts
<1>2. pc'[s] = stage /\ req'[s] = r /\ out'[s] = <<>>
  BY <1>1 DEF TypeOK
<1>3. Len(out'[s]) = 0
  BY <1>2
<1> QED
  BY <1>1, <1>2, <1>3 DEF CallSound

\* The steps inside a call: the channel is the one asked for, the frame built from it is fit,
\* and it is not changed on its way through the lock.
LEMMA WorkingSound ==
    ASSUME TypeOK, Kept, NEW s \in Senders, CallSound(s), TakeLock(s) \/ Working(s)
    PROVE  CallSound(s)'
<1>1. /\ req[s] \in Request /\ chan[s] \in Channels /\ pid[s] \in Ids /\ frame[s] \in Frame
      /\ pc \in [Senders -> Stages] /\ frame \in [Senders -> Frame]
      /\ chan \in [Senders -> Channels] /\ out \in [Senders -> Seq(Sent)]
      /\ out[s] \in Seq(Sent)
  BY DEF TypeOK
<1>2. req' = req /\ keyed' = keyed
  BY DEF TakeLock, Working, TryPKI, ResolveChannel, StampPacket, DrawId, Seal, BeginSend,
         SendReturns, SendFails, net
<1>3. Legal(req[s]) /\ OnPath(req[s], pc[s]) /\ \A i \in 1..Len(out[s]) : Fit(req[s], out[s][i].frame)
  BY DEF CallSound
<1>4. CASE out' = out
  <2> SUFFICES /\ OnPath(req[s], pc'[s])
               /\ pc'[s] = "stamp" => Resolved(req[s], chan'[s])
               /\ pc'[s] \in {"lock", "pace", "sending"} => Fit(req[s], frame'[s])
    BY <1>2, <1>3, <1>4 DEF CallSound, Fit, Openable
  <2>1. CASE TakeLock(s) \/ BeginSend(s)
    BY <1>1, <2>1 DEF TakeLock, BeginSend, Goto, CallSound, OnPath
  <2>2. CASE TryPKI(s)
    <3>1. CASE pc'[s] = "lock"
      <4>1. PICK i \in Ids : frame' = [frame EXCEPT ![s] = PkiFrame(req[s], i)]
        BY <1>1, <2>2, <3>1 DEF TryPKI, Goto
      <4>2. req[s].to \in keyed /\ req[s].mode = "try"
        BY <1>1, <1>3, <2>2, <3>1 DEF TryPKI, Goto, OnPath
      <4>3. Fit(req[s], frame'[s])
        BY <1>1, <4>1, <4>2, PkiFrameFacts
      <4> QED
        BY <3>1, <4>3 DEF OnPath
    <3>2. CASE pc'[s] # "lock"
      <4>1. pc'[s] = "channel" /\ req[s].mode = "try"
        BY <1>1, <1>3, <2>2, <3>2 DEF TryPKI, Goto, OnPath
      <4> QED
        BY <4>1 DEF OnPath
    <3> QED
      BY <3>1, <3>2
  <2>3. CASE ResolveChannel(s)
    <3> DEFINE c == ChannelOf(req[s], req[s].flag)
    <3>1. req[s].flag \in BOOLEAN
      BY <1>1, Zenon DEF Request
    <3>2. c # NoChannel => Resolved(req[s], c)
      BY <1>1, <3>1, ChannelOfFacts
    <3>3. CASE c = NoChannel
      BY <1>1, <2>3, <3>3 DEF ResolveChannel, Return, Goto, OnPath
    <3>4. CASE c # NoChannel
      <4>1. pc'[s] = "stamp" /\ chan'[s] = c /\ pc[s] = "channel"
        BY <1>1, <2>3, <3>4 DEF ResolveChannel, Goto
      <4> QED
        BY <1>3, <3>2, <3>4, <4>1 DEF OnPath
    <3> QED
      BY <3>3, <3>4
  <2>4. CASE StampPacket(s)
    <3>1. PICK i \in Ids : frame' = [frame EXCEPT ![s] = StampFrame(req[s], chan[s], i)]
      BY <2>4 DEF StampPacket, StampFrame, StampedSize
    <3>2. pc'[s] = "lock" /\ pc[s] = "stamp"
      BY <1>1, <2>4 DEF StampPacket, Goto
    <3>3. req[s].mode \in {"psk", "try"} /\ Resolved(req[s], chan[s])
      BY <1>3, <3>2 DEF OnPath, CallSound
    <3>4. Fit(req[s], frame'[s])
      BY <1>1, <1>3, <3>1, <3>3, StampFrameFacts
    <3> QED
      BY <3>2, <3>4 DEF OnPath
  <2>5. CASE DrawId(s)
    BY <1>1, <1>3, <2>5 DEF DrawId, Goto, OnPath
  <2>6. CASE Seal(s)
    <3> DEFINE r == req[s]
               c == ChannelOf(r, r.mode = "pki")
               how == IF r.mode = "none" THEN "clear" ELSE r.mode
    <3>1. r.mode \in {"psk", "pki", "none"}
      BY <1>3, <2>6 DEF Seal, OnPath
    <3>2. /\ c \in Channels \cup {NoChannel}
          /\ c # NoChannel => Resolved(r, c)
      BY <1>1, ChannelOfFacts
    <3>3. CASE pc'[s] = "idle"
      BY <3>3 DEF OnPath
    <3>4. CASE pc'[s] # "idle"
      <4>1. /\ c # NoChannel /\ (r.mode = "pki" => r.to \in keyed)
            /\ frame'[s] = AsFrame(s, c, how) /\ pc'[s] = "lock"
        BY <1>1, <2>6, <3>4 DEF Seal, Return, Goto
      <4>2. Fit(r, frame'[s])
        BY <1>1, <3>1, <3>2, <4>1, AsFrameFacts
      <4> QED
        BY <4>1, <4>2 DEF OnPath
    <3> QED
      BY <3>3, <3>4
  <2>7. ~(SendReturns(s) \/ SendFails(s))
    <3>1. ASSUME NEW ok, Deliver(s, ok) PROVE FALSE
      <4>1. out'[s] = Append(out[s], [frame |-> frame[s], ok |-> ok])
        BY <1>1, <3>1 DEF Deliver
      <4>2. Len(out'[s]) = Len(out[s]) + 1
        BY <1>1, <4>1
      <4> QED
        BY <1>1, <1>4, <4>2
    <3> QED
      BY <3>1 DEF SendReturns, SendFails
  <2> QED
    BY <2>1, <2>2, <2>3, <2>4, <2>5, <2>6, <2>7 DEF Working
<1>5. CASE SendReturns(s) \/ SendFails(s)
  <2>1. PICK ok \in BOOLEAN : Deliver(s, ok)
    BY <1>5 DEF SendReturns, SendFails
  <2>2. out'[s] = Append(out[s], [frame |-> frame[s], ok |-> ok])
    BY <1>1, <2>1 DEF Deliver
  <2>3. Fit(req[s], frame[s])
    BY <1>5 DEF SendReturns, SendFails, CallSound
  <2>4. \A i \in 1..Len(out'[s]) : Fit(req[s], out'[s][i].frame)
    <3> SUFFICES ASSUME NEW i \in 1..Len(out'[s]) PROVE Fit(req[s], out'[s][i].frame)
      OBVIOUS
    <3>1. CASE i \in 1..Len(out[s])
      <4>1. out'[s][i] = out[s][i]
        BY <1>1, <2>2, <3>1
      <4> QED
        BY <1>3, <3>1, <4>1
    <3>2. CASE i \notin 1..Len(out[s])
      <4>1. out'[s][i] = [frame |-> frame[s], ok |-> ok]
        BY <1>1, <2>2, <3>2
      <4> QED
        BY <2>3, <4>1
    <3> QED
      BY <3>1, <3>2
  <2>5. pc'[s] \in {"idle", "channel"} /\ OnPath(req[s], pc'[s])
    BY <1>1, <1>5 DEF SendReturns, SendFails, Return, Goto, OnPath
  <2> QED
    BY <1>2, <1>3, <2>4, <2>5 DEF CallSound, Fit, Openable
<1>6. CASE ~(SendReturns(s) \/ SendFails(s))
  <2>1. out' = out
    BY <1>6 DEF TakeLock, Working, TryPKI, ResolveChannel, StampPacket, DrawId, Seal, BeginSend
  <2> QED
    BY <1>4, <2>1
<1> QED
  BY <1>5, <1>6
-----------------------------------------------------------------------------
\* TypeOK alone is not inductive (sendAs makes a frame of any mode it is given), and neither
\* are the properties of the frames (they hold because of the request's path): together they
\* are.
IInv == TypeOK /\ Sound

\* A step of one call leaves the others alone.
LEMMA OthersUntouched ==
    ASSUME TypeOK, NEW s \in Senders, NEW v \in Senders, v # s,
           Entered(s) \/ TakeLock(s) \/ Working(s)
    PROVE  /\ pc'[v] = pc[v] /\ req'[v] = req[v] /\ chan'[v] = chan[v]
           /\ frame'[v] = frame[v] /\ out'[v] = out[v] /\ result'[v] = result[v]
           /\ keyed' = keyed /\ registry' = registry
<1>1. CASE Entered(s)
  <2>1. PICK r \in Request, stage \in {"idle", "pki", "channel", "id"} :
          /\ pc' = [pc EXCEPT ![s] = stage]
          /\ req' = [req EXCEPT ![s] = r]
          /\ out' = [out EXCEPT ![s] = <<>>]
          /\ \E verdict \in {"none", "err"} : result' = [result EXCEPT ![s] = verdict]
          /\ CallFrame(s)
    BY <1>1, EnteredFacts
  <2> QED
    BY <2>1 DEF TypeOK, CallFrame, net
<1>2. CASE TakeLock(s) \/ Working(s)
  <2> USE DEF TypeOK, Goto, net
  <2>1. CASE TakeLock(s)
    BY <2>1 DEF TakeLock
  <2>2. CASE TryPKI(s)
    BY <2>2 DEF TryPKI
  <2>3. CASE ResolveChannel(s)
    BY <2>3 DEF ResolveChannel, Return
  <2>4. CASE StampPacket(s)
    BY <2>4 DEF StampPacket
  <2>5. CASE DrawId(s)
    BY <2>5 DEF DrawId
  <2>6. CASE Seal(s)
    BY <2>6 DEF Seal, Return
  <2>7. CASE BeginSend(s)
    BY <2>7 DEF BeginSend
  <2>8. CASE SendReturns(s) \/ SendFails(s)
    BY <2>8 DEF SendReturns, SendFails, Deliver, Return
  <2> QED
    BY <1>2, <2>1, <2>2, <2>3, <2>4, <2>5, <2>6, <2>7, <2>8 DEF Working
<1> QED
  BY <1>1, <1>2

\* Before the first call nothing is on its way.
LEMMA InitIInv == Init => IInv
<1> SUFFICES ASSUME Init PROVE IInv
  OBVIOUS
<1> DEFINE r == Plain(Self, Broadcast, "OTHER", 0)
<1>1. Good(r)
  BY NodeFacts, PlainRequest DEF Ports
<1>2. TypeOK
  <2>1. req \in [Senders -> Request] /\ frame \in [Senders -> Frame]
    BY <1>1, NoFrameType DEF Init, Good
  <2>2. registry \in Seq(Channels) /\ chan \in [Senders -> Channels] /\ pid \in [Senders -> Ids]
    BY ChannelFacts, IdFacts DEF Init
  <2>3. since \in 0..SendDelay /\ quiet \in 0..SendDelay
    BY NumberFacts DEF Init
  <2>4. out \in [Senders -> Seq(Sent)] /\ pc \in [Senders -> Stages]
    BY DEF Init, Stages
  <2> QED
    BY <2>1, <2>2, <2>3, <2>4 DEF Init, TypeOK
<1>3. Kept
  BY DEF Init, Kept, Registered
<1>4. ASSUME NEW s \in Senders PROVE CallSound(s)
  <2>1. req[s] = r /\ pc[s] = "idle" /\ out[s] = <<>>
    BY DEF Init
  <2>2. Len(out[s]) = 0
    BY <2>1
  <2> HIDE DEF r
  <2> QED
    BY <1>1, <2>1, <2>2 DEF CallSound, Good, OnPath
<1> QED
  BY <1>2, <1>3, <1>4 DEF IInv, Sound

\* Calls, time and what the node learns keep the invariant.
LEMMA NextIInv == IInv /\ [Next]_vars => IInv'
<1> SUFFICES ASSUME IInv, [Next]_vars PROVE IInv'
  OBVIOUS
<1> USE DEF IInv, Sound
<1>1. ASSUME NEW s \in Senders, Entered(s) \/ TakeLock(s) \/ Working(s) PROVE IInv'
  <2>1. TypeOK'
    BY <1>1, EnteredTypes, WorkingTypes DEF CallSound
  <2>2. CallSound(s)'
    BY <1>1, EnteredSound, WorkingSound
  <2>3. ASSUME NEW v \in Senders, v # s PROVE CallSound(v)'
    BY <1>1, <2>3, OthersUntouched, Untouched
  <2>4. registry' = registry
    <3>1. CASE Entered(s)
      BY <3>1, EnteredFacts DEF CallFrame, net
    <3>2. CASE TakeLock(s) \/ Working(s)
      BY <3>2 DEF TakeLock, Working, TryPKI, ResolveChannel, StampPacket, DrawId, Seal,
                  BeginSend, SendReturns, SendFails, net
    <3> QED
      BY <1>1, <3>1, <3>2
  <2>5. Kept'
    BY <2>4 DEF Kept, Registered
  <2> QED
    BY <2>1, <2>2, <2>3, <2>5
<1>2. CASE Learn
  <2>1. UNCHANGED <<lock, since, quiet, pc, req, chan, pid, frame, out, result>>
    BY <1>2 DEF Learn, LearnKey, Hear, AddChannel, pacing
  <2>2. keyed \subseteq keyed' /\ keyed' \subseteq Nodes
    BY <1>2 DEF Learn, LearnKey, Hear, AddChannel, Remote, TypeOK
  <2>3. registry' = registry \/ \E c \in Channels : registry' = Append(registry, c)
    BY <1>2 DEF Learn, LearnKey, Hear, AddChannel
  <2>4. registry' \in Seq(Channels) /\ Registered \subseteq Registered'
    <3>1. registry \in Seq(Channels)
      BY DEF TypeOK
    <3>2. CASE registry' = registry
      BY <3>1, <3>2 DEF Registered
    <3>3. ASSUME NEW c \in Channels, registry' = Append(registry, c)
          PROVE  registry' \in Seq(Channels) /\ Registered \subseteq Registered'
      BY <3>1, <3>3 DEF Registered
    <3> QED
      BY <2>3, <3>2, <3>3
  <2>5. heard' \in [Nodes -> Channels \cup {NoChannel}]
    <3>1. Registered \subseteq Channels
      BY DEF TypeOK, Registered
    <3> QED
      BY <1>2, <3>1 DEF Learn, LearnKey, Hear, AddChannel, TypeOK
  <2>6. TypeOK' /\ Kept'
    BY <2>1, <2>2, <2>4, <2>5 DEF TypeOK, Kept
  <2>7. \A s \in Senders : CallSound(s)'
    BY <2>1, <2>2, Untouched
  <2> QED
    BY <2>6, <2>7
<1>3. CASE Tick
  <2>1. since' \in 0..SendDelay /\ quiet' \in 0..SendDelay
    BY <1>3, NumberFacts DEF Tick, Capped, TypeOK
  <2>2. UNCHANGED <<registry, heard, keyed, lock, pc, req, chan, pid, frame, out, result>>
    BY <1>3 DEF Tick, net
  <2>3. TypeOK' /\ Kept'
    BY <2>1, <2>2 DEF TypeOK, Kept, Registered
  <2>4. \A s \in Senders : CallSound(s)'
    BY <2>2, Untouched
  <2> QED
    BY <2>3, <2>4
<1>4. CASE UNCHANGED vars
  <2>1. UNCHANGED <<registry, heard, keyed, lock, since, quiet, pc, req, chan, pid, frame, out, result>>
    BY <1>4 DEF vars, net, pacing
  <2>2. TypeOK' /\ Kept'
    BY <2>1 DEF TypeOK, Kept, Registered
  <2>3. \A s \in Senders : CallSound(s)'
    BY <2>1, Untouched
  <2> QED
    BY <2>2, <2>3
<1> QED
  BY <1>1, <1>2, <1>3, <1>4, StepCases

\* Types and soundness hold for ever.
LEMMA Inductive == Spec => []IInv
BY InitIInv, NextIInv, PTL DEF Spec

\* The registry, the locals of every call and the frames it builds keep their types.
THEOREM TypeCorrect == Spec => []TypeOK
<1>1. IInv => TypeOK
  BY DEF IInv
<1> QED
  BY <1>1, Inductive, PTL

\* The frames of a call are the ones its history holds.
LEMMA FramesFit ==
    ASSUME IInv, NEW s \in Senders, NEW f \in Frames(s)
    PROVE  Legal(req[s]) /\ Fit(req[s], f)
BY DEF IInv, Sound, CallSound, Frames

\* Whatever leaves the transport can be opened by those who hold its key, is not dropped for
\* its signature, is on the channel the caller chose and has the hop fields of a packet that
\* starts here, while channels and keys are learned and calls interleave.
THEOREM WireSoundAlways == Spec => []WireSound
<1>1. IInv => WireSound
  <2> SUFFICES ASSUME IInv PROVE WireSound
    OBVIOUS
  <2>1. FramesOpenable
    BY FramesFit DEF FramesOpenable, Fit
  <2>2. PeersAccept
    BY FramesFit DEF PeersAccept, Fit, Formed
  <2>3. ChannelHonoured
    <3> SUFFICES ASSUME NEW s \in Senders, NEW f \in Frames(s), f.how = "psk"
                 PROVE  /\ Chosen(req[s], f.chan) \/ DropsOption(req[s])
                        /\ req[s].name # NoName /\ req[s].def = NoChannel =>
                              /\ ChName[f.chan] = req[s].name
                              /\ \A i, j \in 1..Len(Configured) :
                                    /\ ChName[Configured[i]] = req[s].name
                                    /\ ChName[Configured[j]] = req[s].name
                                    => Configured[i] = Configured[j]
      BY DEF ChannelHonoured
    <3>1. Legal(req[s]) /\ Resolved(req[s], f.chan)
      BY FramesFit DEF Fit, Formed
    <3> QED
      BY <3>1 DEF Legal, Resolved, Chosen
  <2>4. HopsInRange
    BY FramesFit DEF HopsInRange, Fit, Formed
  <2> QED
    BY <2>1, <2>2, <2>3, <2>4 DEF WireSound
<1> QED
  BY <1>1, Inductive, PTL

\* A transport call adds its frame to the attempts; the ones before stay.
LEMMA DeliverAttempts ==
    ASSUME TypeOK, NEW s \in Senders, NEW ok \in BOOLEAN, Deliver(s, ok)
    PROVE  /\ Len(out[s]) \in Nat /\ Len(out'[s]) = Len(out[s]) + 1
           /\ \A i \in 1..Len(out[s]) : out'[s][i] = out[s][i]
           /\ out'[s][Len(out[s]) + 1] = [frame |-> frame[s], ok |-> ok]
BY DEF TypeOK, Deliver

\* Every step keeps the attempts of a call in order: only the failure of a PKI attempt leads
\* to another one.
LEMMA NextAttempts ==
    IInv /\ (\A s \in Senders : Attempts(s)) /\ [Next]_vars => (\A s \in Senders : Attempts(s))'
<1> SUFFICES ASSUME IInv, \A s \in Senders : Attempts(s), [Next]_vars
             PROVE  \A s \in Senders : Attempts(s)'
  OBVIOUS
<1>0. /\ TypeOK /\ pc \in [Senders -> Stages] /\ frame \in [Senders -> Frame]
      /\ out \in [Senders -> Seq(Sent)] /\ chan \in [Senders -> Channels]
  BY DEF IInv, TypeOK
<1>1. ASSUME NEW v \in Senders,
             pc'[v] = pc[v], req'[v] = req[v], frame'[v] = frame[v], out'[v] = out[v]
      PROVE  Attempts(v)'
  BY <1>1 DEF Attempts, Refused
<1>2. ASSUME NEW s \in Senders, Entered(s) PROVE Attempts(s)'
  <2>1. out'[s] = <<>>
    BY <1>0, <1>2, EnteredFacts
  <2>2. Len(out'[s]) = 0
    BY <2>1
  <2> QED
    BY <2>2 DEF Attempts
<1>3. ASSUME NEW s \in Senders, TakeLock(s) \/ Working(s) PROVE Attempts(s)'
  <2>1. Attempts(s) /\ req' = req /\ Len(out[s]) \in Nat /\ pc[s] # "idle"
    <3>1. req' = req /\ pc[s] # "idle"
      BY <1>3 DEF TakeLock, Working, TryPKI, ResolveChannel, StampPacket, DrawId, Seal,
                  BeginSend, SendReturns, SendFails
    <3>2. out[s] \in Seq(Sent)
      BY <1>0
    <3> QED
      BY <3>1, <3>2
  <2>2. CASE TryPKI(s)
    <3>1. Len(out[s]) = 0 /\ out' = out
      BY <2>1, <2>2 DEF TryPKI, Attempts
    <3> QED
      BY <3>1 DEF Attempts
  <2>3. CASE ResolveChannel(s)
    <3>1. /\ pc[s] = "channel" /\ out' = out
          /\ pc'[s] \in {"idle", "stamp"}
      BY <1>0, <2>3 DEF ResolveChannel, Return, Goto
    <3> QED
      BY <2>1, <3>1 DEF Attempts, Refused
  <2>4. CASE StampPacket(s)
    <3>1. pc[s] = "stamp" /\ out' = out /\ pc'[s] = "lock"
      BY <1>0, <2>4 DEF StampPacket, Goto
    <3>2. Legal(req[s])
      BY DEF IInv, Sound, CallSound
    <3>3. req[s].mode = "try" => frame'[s].how = "psk"
      BY <1>0, <2>4, <3>2 DEF StampPacket, Legal
    <3> QED
      BY <2>1, <3>1, <3>3 DEF Attempts, Refused
  <2>5. CASE DrawId(s) \/ Seal(s)
    <3>1. Len(out[s]) = 0 /\ out' = out
      BY <2>1, <2>5 DEF DrawId, Seal, Attempts
    <3> QED
      BY <3>1 DEF Attempts
  <2>6. CASE TakeLock(s) \/ BeginSend(s)
    <3>1. /\ pc[s] \in {"lock", "pace"} /\ pc'[s] \in {"pace", "sending"}
          /\ out' = out /\ frame' = frame
      BY <1>0, <2>6 DEF TakeLock, BeginSend, Goto
    <3> QED
      BY <2>1, <3>1 DEF Attempts, Refused
  <2>7. CASE SendReturns(s) \/ SendFails(s)
    <3>1. PICK ok \in BOOLEAN : Deliver(s, ok) /\ (ok => SendReturns(s)) /\ (~ok => SendFails(s))
      BY <2>7 DEF SendReturns, SendFails
    <3>2. /\ pc[s] = "sending" /\ frame' = frame
          /\ pc'[s] = "channel" => ~ok /\ req[s].mode = "try" /\ frame[s].how = "pki"
          /\ pc'[s] \in {"idle", "channel"}
      BY <1>0, <2>7, <3>1 DEF SendReturns, SendFails, Return, Goto
    <3>3. /\ Len(out'[s]) = Len(out[s]) + 1
          /\ \A i \in 1..Len(out[s]) : out'[s][i] = out[s][i]
          /\ out'[s][Len(out[s]) + 1].frame = frame[s] /\ out'[s][Len(out[s]) + 1].ok = ok
      <4> DEFINE last == [frame |-> frame[s], ok |-> ok]
      <4>1. last.frame = frame[s] /\ last.ok = ok
        OBVIOUS
      <4>2. /\ Len(out'[s]) = Len(out[s]) + 1
            /\ \A i \in 1..Len(out[s]) : out'[s][i] = out[s][i]
            /\ out'[s][Len(out[s]) + 1] = last
        BY <1>0, <3>1, DeliverAttempts
      <4> HIDE DEF last
      <4> QED
        BY <4>1, <4>2
    <3>4. CASE Len(out[s]) = 0
      <4>1. Len(out'[s]) = 1 /\ out'[s][1].frame = frame[s] /\ out'[s][1].ok = ok
        BY <3>3, <3>4
      <4> QED
        BY <2>1, <3>2, <4>1 DEF Attempts, Refused
    <3>5. CASE Len(out[s]) = 1
      <4>1. Len(out'[s]) = 2 /\ out'[s][1] = out[s][1] /\ out'[s][2].frame = frame[s]
        BY <3>3, <3>5
      <4>2. frame[s].how = "psk" /\ Refused(s)
        BY <2>1, <3>2, <3>5 DEF Attempts
      <4>3. pc'[s] = "idle"
        BY <3>2, <4>2
      <4> QED
        BY <2>1, <4>1, <4>2, <4>3 DEF Attempts, Refused
    <3>6. Len(out[s]) <= 1
      BY <2>1 DEF Attempts
    <3>7. Len(out[s]) = 0 \/ Len(out[s]) = 1
      <4>1. \A n \in Nat : n <= 1 => n = 0 \/ n = 1
        OBVIOUS
      <4> QED
        BY <2>1, <3>6, <4>1, Zenon
    <3> QED
      BY <3>4, <3>5, <3>7
  <2> QED
    BY <1>3, <2>2, <2>3, <2>4, <2>5, <2>6, <2>7 DEF Working
<1>4. ASSUME NEW s \in Senders, Entered(s) \/ TakeLock(s) \/ Working(s)
      PROVE  \A v \in Senders : Attempts(v)'
  <2>1. ASSUME NEW v \in Senders, v # s PROVE Attempts(v)'
    BY <1>0, <1>1, <1>4, <2>1, OthersUntouched
  <2> QED
    BY <1>2, <1>3, <1>4, <2>1
<1>5. CASE Learn \/ Tick \/ UNCHANGED vars
  <2>1. UNCHANGED <<pc, req, frame, out>>
    BY <1>5 DEF Learn, LearnKey, Hear, AddChannel, Tick, vars
  <2> QED
    BY <1>1, <2>1
<1> QED
  BY <1>0, <1>4, <1>5, StepCases

\* Cleartext is what a map report or a flagged client packet asks for, and a payload leaves
\* under a second key only after the transport refused its PKI frame, whatever keys and
\* channels are learned meanwhile.
THEOREM ConfidentialAlways == Spec => []Confidential
<1> DEFINE Tried == \A s \in Senders : Attempts(s)
<1>1. Init => Tried
  <2> SUFFICES ASSUME Init, NEW s \in Senders PROVE Attempts(s)
    OBVIOUS
  <2>1. Len(out[s]) = 0
    BY DEF Init
  <2> QED
    BY <2>1 DEF Attempts
<1>2. IInv /\ Tried => Confidential
  <2> SUFFICES ASSUME IInv, Tried, NEW s \in Senders
               PROVE  /\ \A f \in Frames(s) :
                           f.how = "clear" => req[s].mode = "none" \/ (req[s].client /\ req[s].flag)
                      /\ \A i, j \in 1..Len(out[s]) : i < j =>
                           /\ req[s].mode = "try"
                           /\ out[s][i].frame.how = "pki" /\ ~out[s][i].ok
                           /\ out[s][j].frame.how = "psk"
    BY DEF Confidential
  <2>1. \A f \in Frames(s) :
          f.how = "clear" => req[s].mode = "none" \/ (req[s].client /\ req[s].flag)
    BY FramesFit DEF Fit, Formed
  <2>2. ASSUME NEW i \in 1..Len(out[s]), NEW j \in 1..Len(out[s]), i < j
        PROVE  i = 1 /\ j = 2 /\ Len(out[s]) = 2
    <3>1. Len(out[s]) \in Nat /\ Len(out[s]) <= 2
      <4>1. out[s] \in Seq(Sent)
        BY DEF IInv, TypeOK
      <4> QED
        BY <4>1 DEF Attempts
    <3> DEFINE n == Len(out[s])
    <3>2. n \in Nat /\ n <= 2 /\ i \in 1..n /\ j \in 1..n /\ i < j
      BY <2>2, <3>1
    <3> HIDE DEF n
    <3>3. i = 1 /\ j = 2 /\ n = 2
      BY <3>2
    <3> QED
      BY <3>3 DEF n
  <2>3. Len(out[s]) = 2 => Refused(s) /\ out[s][2].frame.how = "psk"
    BY DEF Attempts
  <2> QED
    BY <2>1, <2>2, <2>3 DEF Refused
<1>3. IInv /\ Tried /\ [Next]_vars => Tried'
  BY NextAttempts
<1> QED
  BY <1>1, <1>2, <1>3, Inductive, PTL DEF Spec
-----------------------------------------------------------------------------
(***************************************************************************)
(* Results and pacing.                                                     *)
(***************************************************************************)

\* A new attempt adds its own index to the accepted ones, or nothing.
LEMMA DeliverAccepted ==
    ASSUME TypeOK, NEW s \in Senders, NEW ok \in BOOLEAN, Deliver(s, ok), Accepted(s) = {}
    PROVE  IF ok THEN \E i \in 1..Len(out'[s]) : Accepted(s)' = {i} ELSE Accepted(s)' = {}
<1> DEFINE last == [frame |-> frame[s], ok |-> ok]
           n == Len(out[s]) + 1
<1>1. out[s] \in Seq(Sent) /\ out'[s] = Append(out[s], last) /\ last.ok = ok
  BY DEF TypeOK, Deliver
<1>2. n \in Nat /\ Len(out'[s]) = n /\ n \in 1..n /\ out'[s][n] = last
  BY <1>1
<1>3. \A i \in 1..n : i # n => out'[s][i] = out[s][i] /\ i \in 1..Len(out[s])
  BY <1>1
<1>4. \A i \in 1..Len(out[s]) : ~out[s][i].ok
  BY DEF Accepted
<1> HIDE DEF last, n
<1>5. \A i \in 1..n : i # n => ~out'[s][i].ok
  BY <1>3, <1>4
<1>6. Accepted(s)' = {i \in 1..n : out'[s][i].ok}
  BY <1>2 DEF Accepted
<1>7. CASE ok
  <2>1. Accepted(s)' = {n}
    BY <1>1, <1>2, <1>5, <1>6, <1>7
  <2> QED
    BY <1>2, <1>7, <2>1
<1>8. CASE ~ok
  <2>1. \A i \in 1..n : ~out'[s][i].ok
    BY <1>1, <1>2, <1>5, <1>8
  <2>2. Accepted(s)' = {}
    BY <1>6, <2>1
  <2> QED
    BY <1>8, <2>2
<1> QED
  BY <1>7, <1>8

\* Every step keeps the count of a call's accepted attempts honest: a fallback only follows an
\* attempt that failed.
LEMMA NextHonest == IInv /\ Honest /\ [Next]_vars => Honest'
<1> SUFFICES ASSUME IInv, Honest, [Next]_vars PROVE Honest'
  OBVIOUS
<1>0. TypeOK /\ pc \in [Senders -> Stages] /\ result \in [Senders -> {"none", "ok", "err"}]
        /\ out \in [Senders -> Seq(Sent)]
  BY DEF IInv, TypeOK
<1>1. ASSUME NEW v \in Senders, pc'[v] = pc[v], out'[v] = out[v], result'[v] = result[v]
      PROVE  HonestCall(v)'
  BY <1>1 DEF Honest, HonestCall, Accepted
<1>2. ASSUME NEW s \in Senders, Entered(s) PROVE HonestCall(s)'
  <2>1. out'[s] = <<>> /\ result'[s] # "ok"
    <3>1. PICK verdict \in {"none", "err"} :
            out' = [out EXCEPT ![s] = <<>>] /\ result' = [result EXCEPT ![s] = verdict]
      BY <1>0, <1>2, EnteredFacts
    <3> QED
      BY <1>0, <3>1
  <2>2. Accepted(s)' = {}
    BY <2>1 DEF Accepted
  <2> QED
    BY <2>1, <2>2 DEF HonestCall
<1>3. ASSUME NEW s \in Senders, TakeLock(s) \/ Working(s) PROVE HonestCall(s)'
  <2>1. pc[s] # "idle"
    BY <1>3 DEF TakeLock, Working, TryPKI, ResolveChannel, StampPacket, DrawId, Seal, BeginSend,
                SendReturns, SendFails
  <2>2. Accepted(s) = {}
    BY <2>1 DEF Honest, HonestCall
  <2>3. CASE SendReturns(s)
    <3>1. pc'[s] = "idle" /\ result'[s] = "ok" /\ Deliver(s, TRUE)
      BY <1>0, <2>3 DEF SendReturns, Return, Goto
    <3> QED
      BY <1>0, <2>2, <3>1, DeliverAccepted DEF HonestCall
  <2>4. CASE SendFails(s)
    <3>1. Deliver(s, FALSE) /\ (pc'[s] # "idle" \/ result'[s] = "err")
      BY <1>0, <2>4 DEF SendFails, Return, Goto
    <3>2. Accepted(s)' = {}
      BY <1>0, <2>2, <3>1, DeliverAccepted
    <3> QED
      BY <3>1, <3>2 DEF HonestCall
  <2>5. CASE ~SendReturns(s) /\ ~SendFails(s)
    <3>1. out' = out
      BY <1>3, <2>5 DEF TakeLock, Working, TryPKI, ResolveChannel, StampPacket, DrawId, Seal,
                        BeginSend
    <3>2. pc'[s] # "idle" \/ result'[s] = "err"
      <4>1. CASE ResolveChannel(s) \/ Seal(s)
        BY <1>0, <4>1 DEF ResolveChannel, Seal, Return, Goto
      <4>2. CASE TakeLock(s) \/ TryPKI(s) \/ StampPacket(s) \/ DrawId(s) \/ BeginSend(s)
        BY <1>0, <4>2 DEF TakeLock, TryPKI, StampPacket, DrawId, BeginSend, Goto
      <4> QED
        BY <1>3, <2>5, <4>1, <4>2 DEF Working
    <3> QED
      BY <2>2, <3>1, <3>2 DEF HonestCall, Accepted
  <2> QED
    BY <2>3, <2>4, <2>5
<1>4. ASSUME NEW s \in Senders, Entered(s) \/ TakeLock(s) \/ Working(s) PROVE Honest'
  <2>1. ASSUME NEW v \in Senders, v # s PROVE HonestCall(v)'
    BY <1>0, <1>1, <1>4, <2>1, OthersUntouched
  <2>2. HonestCall(s)'
    BY <1>2, <1>3, <1>4
  <2> QED
    BY <2>1, <2>2 DEF Honest
<1>5. CASE Learn \/ Tick \/ UNCHANGED vars
  <2>1. UNCHANGED <<pc, out, result>>
    BY <1>5 DEF Learn, LearnKey, Hear, AddChannel, Tick, vars
  <2> QED
    BY <1>1, <2>1 DEF Honest
<1> QED
  BY <1>0, <1>4, <1>5, StepCases

\* A nil error means that exactly one frame was accepted by the transport, an error that none
\* was, the PSK fallback included.
THEOREM ResultTruthfulAlways == Spec => []ResultTruthful
<1>1. Init => Honest
  <2> SUFFICES ASSUME Init, NEW s \in Senders PROVE HonestCall(s)
    BY DEF Honest
  <2>1. out[s] = <<>> /\ pc[s] = "idle" /\ result[s] = "none"
    BY DEF Init
  <2> QED
    BY <2>1 DEF HonestCall
<1>2. IInv /\ Honest => ResultTruthful
  <2> SUFFICES ASSUME IInv, Honest, NEW s \in Senders, Returned(s)
               PROVE  Cardinality(Accepted(s)) = IF result[s] = "ok" THEN 1 ELSE 0
    BY DEF ResultTruthful, Accepted
  <2>1. HonestCall(s) /\ result[s] \in {"none", "ok", "err"}
    BY DEF IInv, TypeOK, Honest
  <2>2. CASE result[s] = "ok"
    <3>1. PICK i \in 1..Len(out[s]) : Accepted(s) = {i}
      BY <2>1, <2>2 DEF HonestCall, Returned
    <3> QED
      BY <2>2, <3>1, FS_Singleton
  <2>3. CASE result[s] = "err"
    <3>1. Accepted(s) = {}
      BY <2>1, <2>3 DEF HonestCall
    <3> QED
      BY <2>3, <3>1, FS_EmptySet
  <2> QED
    BY <2>1, <2>2, <2>3 DEF Returned
<1> QED
  BY <1>1, <1>2, NextHonest, Inductive, PTL DEF Spec

\* lastSend is set whenever a transport send begins, so the sleep before the next one covers
\* the whole delay: no two begin within SendDelay of each other, whoever sends.
THEOREM PacedAlways == Spec => Paced
<1> DEFINE Spaced == \A s \in Senders : pc[s] # "sending" /\ pc'[s] = "sending" => quiet >= SendDelay
           Exact == since = quiet
<1>1. Init => Exact
  BY DEF Init
<1>2. IInv /\ Exact /\ [Next]_vars => Exact' /\ [Spaced]_vars
  <2> SUFFICES ASSUME IInv, Exact, [Next]_vars PROVE Exact' /\ Spaced
    OBVIOUS
  <2>0. TypeOK /\ pc \in [Senders -> Stages]
    BY DEF IInv, TypeOK
  <2>1. ASSUME NEW s \in Senders, Entered(s) PROVE Exact' /\ Spaced
    <3>1. PICK stage \in {"idle", "pki", "channel", "id"} :
            pc' = [pc EXCEPT ![s] = stage] /\ CallFrame(s)
      BY <2>0, <2>1, EnteredFacts
    <3> QED
      BY <2>0, <3>1 DEF CallFrame, pacing
  <2>2. ASSUME NEW s \in Senders, BeginSend(s) PROVE Exact' /\ Spaced
    BY <2>0, <2>2 DEF BeginSend, Goto
  <2>3. ASSUME NEW s \in Senders, TakeLock(s) \/ Working(s), ~BeginSend(s) PROVE Exact' /\ Spaced
    <3>1. UNCHANGED <<since, quiet>>
      BY <2>3 DEF TakeLock, Working, TryPKI, ResolveChannel, StampPacket, DrawId, Seal,
                  SendReturns, SendFails, pacing
    <3>2. \E stage \in Stages \ {"sending"} : pc' = [pc EXCEPT ![s] = stage]
      BY <2>3 DEF TakeLock, Working, TryPKI, ResolveChannel, StampPacket, DrawId, Seal,
                  SendReturns, SendFails, Return, Goto, Stages
    <3> QED
      BY <2>0, <3>1, <3>2
  <2>4. CASE Tick
    BY <2>4 DEF Tick, Capped
  <2>5. CASE Learn \/ UNCHANGED vars
    BY <2>5 DEF Learn, LearnKey, Hear, AddChannel, vars, pacing
  <2> QED
    BY <2>0, <2>1, <2>2, <2>3, <2>4, <2>5, StepCases
<1> HIDE DEF Spaced, Exact
<1>3. Spec => [][Spaced]_vars
  BY <1>1, <1>2, Inductive, PTL DEF Spec
<1> QED
  BY <1>3, PTL DEF Paced, Spaced
=============================================================================
