----------------------------- MODULE Traceroute -----------------------------
(***************************************************************************)
(* Route discovery.  core/traceroute turns a RouteDiscovery and the packet *)
(* that carried it into the list of hops shown to a user; the bridge's     *)
(* responders complete the RouteDiscovery they answer or deliver.  Hops    *)
(* and signal values travel in two lists that are only tied by position.   *)
(***************************************************************************)
EXTENDS Integers, Sequences, SequencesExt

CONSTANTS
    Relays,      \* nodes a route may name
    Gateway,     \* the node whose uplink delivers packets to the bridge
    Bridge,      \* the bridge's own node
    Virtual,     \* another node the bridge manages
    Stranger,    \* a node it does not manage
    Snrs,        \* raw signal values that relays recorded; the code divides them by 4
    RxSnr,       \* raw signal value of the gateway's reception
    MaxRoute,    \* bound on the hops a received RouteDiscovery names
    Nothing,     \* no packet, no answer
    MaxHops      \* 7 in the protocol: largest HopStart and HopLimit

BroadcastNodeID == "broadcast"   \* the ID a route gives to a hop nobody named

ASSUME TracerouteAssumption ==
    /\ MaxRoute \in Nat /\ MaxHops \in Nat /\ Snrs \subseteq Int /\ RxSnr \in Int
    /\ Bridge # Gateway /\ Bridge # Virtual
    /\ BroadcastNodeID \notin {Bridge, Gateway}
NoNode == "none"                 \* ID 0
MinInt8 == -128                  \* the signal value of such a hop

SeqsUpTo(S, n) == UNION {[1 .. k -> S] : k \in 0 .. n}

\* A packet with a RouteDiscovery, of which the two lists of one direction matter: to
\* the bridge's responders those of the direction travelled (Route and SnrTowards of a
\* request, RouteBack and SnrBack of a response).  A relay without signal data may
\* leave its value out.
Discoveries ==
    {d \in [route : SeqsUpTo(Relays, MaxRoute), snr : SeqsUpTo(Snrs, MaxRoute),
            hopStart : 0 .. MaxHops, hopLimit : 0 .. MaxHops,
            to : {Bridge, Virtual, Stranger}, via : {NoNode, Gateway, Stranger},
            request : BOOLEAN] :
        Len(d.snr) <= Len(d.route)}

VARIABLES
    discovery,   \* the packet being handled, or Nothing
    hops,        \* what a caller of the library shows: ParseRoute, InsertUnknownHops
    reply        \* the RouteDiscovery as answered (request) or delivered (response)

routeVars == <<discovery, hops, reply>>
-----------------------------------------------------------------------------
(* core/traceroute.                                                        *)

NoSnr == 0
KnownHop(n, snr) == [node |-> n, snr |-> snr, unknown |-> FALSE]
UnknownHop == [node |-> NoNode, snr |-> NoSnr, unknown |-> TRUE]

\* Sender, the hops named, each with the SNR of its place if there is one, receiver.
\* The hops are those of Route, the values those of SnrBack, the other direction's.
ParseRoute(route, snrBack, from, to) ==
    <<KnownHop(from, NoSnr)>>
    \o [i \in DOMAIN route |->
           KnownHop(route[i], IF i <= Len(snrBack) THEN snrBack[i] ELSE NoSnr)]
    \o <<KnownHop(to, NoSnr)>>

\* HopStart 0 means that the packet does not say; a limit above the start counts as 0.
HopCount(d) ==
    IF d.hopStart = 0 \/ d.hopLimit > d.hopStart THEN 0 ELSE d.hopStart - d.hopLimit

\* Placeholders go in before the receiver, as many as the hop count exceeds the hops
\* named and the final one.
InsertUnknownHops(hs, expected) ==
    IF Len(hs) < 2 \/ expected <= Len(hs) - 1 THEN hs
    ELSE Front(hs) \o [i \in 1 .. (expected - (Len(hs) - 1)) |-> UnknownHop] \o <<Last(hs)>>
-----------------------------------------------------------------------------
(* The bridge's responders.  A list is [route, snr].                       *)

Pad(s, n, x) == s \o [i \in 1 .. (n - Len(s)) |-> x]

\* Mutant: a value is added for each placeholder only, not for relays that left it out.
insertUnknownHopsInStep(l, d) ==
    IF d.hopStart = 0 \/ d.hopLimit > d.hopStart THEN l
    ELSE LET route == Pad(l.route, d.hopStart - d.hopLimit, BroadcastNodeID)
         IN [route |-> route,
             snr |-> Pad(l.snr, Len(l.snr) + Len(route) - Len(l.route), MinInt8)]

\* insertUnknownHops: nothing at all happens when the hop count is unknown.
insertUnknownHops(l, d) ==
    IF d.hopStart = 0 \/ d.hopLimit > d.hopStart THEN l
    ELSE LET route == Pad(l.route, d.hopStart - d.hopLimit, BroadcastNodeID)
         IN [route |-> route, snr |-> Pad(l.snr, Len(route), MinInt8)]

addNodeToRouteIfMissing(l, n, snr) ==
    IF Contains(l.route, n) THEN l
    ELSE [route |-> Append(l.route, n), snr |-> Append(l.snr, snr)]

\* The gateway, unless it is unknown or is the sender itself.
addGatewayToRoute(l, d) ==
    IF d.via \in {NoNode, Stranger} THEN l ELSE addNodeToRouteIfMissing(l, d.via, RxSnr)

\* The list of the direction the packet travelled, as handleTracerouteRequest (Route)
\* and handleTracerouteResponse (RouteBack) complete it; the sender is Stranger.
Completed(d) ==
    LET l == addGatewayToRoute(
                 insertUnknownHops([route |-> d.route, snr |-> d.snr], d), d)
        m == IF d.to # Bridge THEN addNodeToRouteIfMissing(l, Bridge, 0) ELSE l
    IN [route |-> m.route, snr |-> Append(m.snr, 0)]

\* The return list that a request's answer starts with.
StartOfReturn(d) ==
    LET l == [route |-> <<>>, snr |-> <<>>]
    IN IF d.to # Bridge THEN addNodeToRouteIfMissing(l, Bridge, 0) ELSE l

RouteInit == discovery = Nothing /\ hops = <<>> /\ reply = Nothing

\* A caller of the library shows the route of a packet; SnrBack, of the other direction,
\* is of any length.
AnalyseRoute(d, snrBack) ==
    /\ discovery' = d
    /\ hops' = InsertUnknownHops(ParseRoute(d.route, snrBack, Stranger, d.to), HopCount(d))
    /\ reply' = Nothing

\* The bridge handles a packet: nothing is answered for a node it does not manage.
HandleTraceroute(d) ==
    /\ discovery' = d
    /\ hops' = <<>>
    /\ reply' = IF d.to = Stranger THEN Nothing
                ELSE [there |-> Completed(d),
                      back |-> IF d.request THEN StartOfReturn(d) ELSE Nothing]

RouteNext ==
    /\ discovery = Nothing
    /\ \E d \in Discoveries :
         \/ HandleTraceroute(d)
         \/ \E snrBack \in SeqsUpTo(Snrs, MaxRoute) : AnalyseRoute(d, snrBack)

RouteSpec == RouteInit /\ [][RouteNext]_routeVars
-----------------------------------------------------------------------------
\* The route shown runs from the sender over exactly the hops named, in their order, to
\* the receiver.  Placeholders stand before the receiver only; with them there are legs
\* for the hops the packet was relayed over, and no more hops between the two ends than
\* that unless more are named.
Analysed(d) ==
    LET legs == Len(hops) - 1
        least == Len(d.route) + 1
    IN /\ legs >= least /\ legs >= HopCount(d)
       /\ legs > least => legs - 1 <= HopCount(d)
       /\ \A i \in 1 .. Len(hops) : hops[i].unknown <=> i \in (least + 1) .. legs
       /\ [i \in 1 .. least |-> hops[i].node] = <<Stranger>> \o d.route
       /\ Last(hops).node = d.to

\* "If the route has fewer intermediate nodes than expectedHops, unknown placeholder hops
\* are inserted": there are at least as many hops between sender and receiver as the
\* packet was relayed over.  The code takes the last of them for the receiver.
GapsFilled == hops # <<>> => Len(hops) - 2 >= HopCount(discovery)

\* Every hop of list l has its own signal value at its own place (what a relay recorded,
\* what the gateway measured, or unknown), and one more stands for the destination.
Aligned(d, l) ==
    /\ Len(l.snr) = Len(l.route) + 1
    /\ IsPrefix(d.route, l.route) /\ IsPrefix(d.snr, l.snr)
    /\ \A i \in (Len(d.snr) + 1) .. Len(l.route) :
         l.snr[i] = IF i <= Len(d.route) \/ l.route[i] = BroadcastNodeID THEN MinInt8
                    ELSE IF l.route[i] = Gateway THEN RxSnr ELSE 0

\* "keeping the SNR list aligned to the route length": the bridge's answer keeps hops
\* and signal values aligned on both lists and names the bridge when it answered for
\* another node, provided that the packet says how far it came; and the route shown to
\* a user names every hop in its place.
RouteAligned ==
    /\ hops # <<>> => Analysed(discovery)
    /\ reply # Nothing =>
        /\ discovery.hopStart > 0 /\ discovery.hopLimit <= discovery.hopStart =>
               Aligned(discovery, reply.there)
        /\ discovery.request => Len(reply.back.snr) = Len(reply.back.route)
        /\ discovery.to = Virtual =>
               /\ Contains(reply.there.route, Bridge)
               /\ discovery.request => Contains(reply.back.route, Bridge)

\* The same for every packet: insertUnknownHops returns before it pads the SNR list
\* when HopStart is not set, and a hop without a value then shifts those after it.
RouteAlwaysAligned ==
    reply # Nothing => Len(reply.there.snr) = Len(reply.there.route) + 1
=============================================================================
