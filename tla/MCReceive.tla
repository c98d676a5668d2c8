----------------------------- MODULE MCReceive ------------------------------
(***************************************************************************)
(* Model-checking instances of Receive: a local node s, a managed node m,  *)
(* remote nodes r and x with their genuine keys kr and kx, and a key ks of *)
(* the wrong length.  Channel c0 is the primary, c1 a secondary, c2 one    *)
(* that collides with c1's hash under another key; cz hashes to 0.         *)
(***************************************************************************)
EXTENDS Receive

CONSTANTS s, m, r, x, kr, kx, ks, c0, c1, c2, cz

MCNodes == {s, m, r, x}
MCKeys == {kr, kx, ks}
MCFullKeys == {kr, kx}
MCKeyOwner == [k \in MCFullKeys |-> IF k = kr THEN r ELSE x]
MCChannels == {c0, c1, c2, cz}
MCRegistry == <<c0, c2, c1, cz>>
MCChHash == [c \in MCChannels |-> CASE c = c0 -> 8 [] c = cz -> 0 [] OTHER -> 5]
MCChName == [c \in MCChannels |-> CASE c = c0 -> "LongFast" [] c = cz -> "zero" [] OTHER -> "side"]
MCChPsk == [c \in MCChannels |-> CASE c = c0 -> 1 [] c = c1 -> 2 [] c = c2 -> 3 [] OTHER -> 4]
NoConsumerKeys == [n \in MCNodes |-> NoKey]
ConsumerKnowsR == [n \in MCNodes |-> IF n = r THEN kr ELSE NoKey]

\* An unsigned broadcast from r on the secondary channel c1.
Base(id, port) ==
    [from |-> r, to |-> Broadcast, id |-> id, port |-> port, key |-> NoKey,
     sig |-> NoSig, fits |-> TRUE, want |-> FALSE, answers |-> FALSE, ack |-> FALSE,
     body |-> "full", kind |-> "psk", hash |-> 5,
     topic |-> NoName, chan |-> c1, peer |-> NoKey, long |-> TRUE]

\* r introduces itself; the same without a signature, with another key or
\* a short one; a rotation; x with r's key.
Intro(id)         == [Base(id, "NODEINFO") EXCEPT !.key = kr, !.sig = kr]
UnsignedIntro(id) == [Base(id, "NODEINFO") EXCEPT !.key = kr, !.want = TRUE]
DirectIntro(id)   == [UnsignedIntro(id) EXCEPT !.to = s]
OtherIntro(id)    == [Base(id, "NODEINFO") EXCEPT !.key = kx, !.want = TRUE, !.chan = c0, !.hash = 8]
ShortIntro(id)    == [Base(id, "NODEINFO") EXCEPT !.key = ks]
Rotate(id)        == [Base(id, "NODEINFO") EXCEPT !.key = kx, !.sig = kr]
BadIntro(id)      == [Intro(id) EXCEPT !.from = x]
BrokenText(id)    == [Base(id, "OTHER") EXCEPT !.sig = kr, !.body = "broken"]
Text(id)          == Base(id, "OTHER")
SignedText(id)    == [Base(id, "OTHER") EXCEPT !.sig = kr]
MangledText(id)   == [Base(id, "OTHER") EXCEPT !.sig = BadSig]
MapReport(id)     == [Base(id, "MAP_REPORT") EXCEPT !.kind = "decoded", !.topic = "LongFast", !.chan = NoChannel]
LongReport(id)    == [MapReport(id) EXCEPT !.fits = FALSE]
DirectReport(id)  == [MapReport(id) EXCEPT !.to = s]
PositionAsk(id)   == [Base(id, "POSITION") EXCEPT !.to = s, !.want = TRUE]
Echo(id)          == [Base(id, "OTHER") EXCEPT !.from = s]
Foreign(id)       == [Base(id, "OTHER") EXCEPT !.hash = 7]

\* PKI unicasts: a text, and a NodeInfo, from r; and a PSK unicast on the
\* channel that hashes to 0.
PkiText(id, to)   == [Base(id, "OTHER") EXCEPT !.to = to, !.kind = "pki", !.hash = 0, !.chan = NoChannel, !.peer = kr]
PkiIntro(id, to)  == [PkiText(id, to) EXCEPT !.port = "NODEINFO", !.key = kx]
ZeroText(id, to)  == [Base(id, "OTHER") EXCEPT !.to = to, !.hash = 0, !.chan = cz]
ZeroShort(id, to) == [ZeroText(id, to) EXCEPT !.long = FALSE]

\* Requests to the managed node.
Ask(id, port)     == [Base(id, port) EXCEPT !.to = m, !.want = TRUE]
PkiAsk(id, port)  == [PkiText(id, m) EXCEPT !.port = port, !.want = TRUE]
TraceAsk(id)      == [Ask(id, "TRACEROUTE") EXCEPT !.ack = TRUE]
Signed(p)         == [p EXCEPT !.sig = kr]

SequentialPackets == {Intro(1), OtherIntro(2), DirectIntro(3), SignedText(5), Rotate(6),
    ShortIntro(0), MapReport(0), Echo(9), PkiText(10, s), BrokenText(11), LongReport(12),
    DirectReport(13)}
ConcurrentPackets == {Intro(1), UnsignedIntro(2), Text(3), SignedText(4), MangledText(5),
    Foreign(6), PositionAsk(7)}
BridgePackets == {Intro(1), BadIntro(0), [PkiIntro(3, m) EXCEPT !.want = TRUE], Text(0),
    Signed(TraceAsk(5)), PkiAsk(6, "TELEMETRY"), ZeroShort(7, m)}
MapPackets == {Intro(1), MapReport(2)}
RacePackets == {Intro(1), OtherIntro(2)}
BridgePinPackets == {SignedText(1), OtherIntro(2)}
FallbackPackets == {Intro(1), ZeroText(2, s)}
ShortPackets == {Intro(1), ZeroShort(2, s)}
=============================================================================
