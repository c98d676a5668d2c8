------------------------------- MODULE MCSend -------------------------------
(***************************************************************************)
(* Model-checking instances of Send: a local node s, a managed node m of   *)
(* the bridge and a node remote.  Channel c0 is the primary, c1 and c2    *)
(* share a name, c3 may be added to a bridge at run time.                  *)
(***************************************************************************)
EXTENDS Send

CONSTANTS s, m, remote, c0, c1, c2, c3

MCChannels == {c0, c1, c2, c3}
MCConfigured == <<c0, c1, c2>>
MCChHash == [c \in MCChannels |-> CASE c = c0 -> 8 [] c = c1 -> 5 [] c = c2 -> 6 [] OTHER -> 7]
MCChName == [c \in MCChannels |-> CASE c = c0 -> "LongFast" [] c = c3 -> "extra" [] OTHER -> "side"]

Default == [pki |-> FALSE, def |-> NoChannel, name |-> NoName]
Pki     == [Default EXCEPT !.pki = TRUE]
DefOne  == [Default EXCEPT !.def = c1]
PkiDef  == [DefOne EXCEPT !.pki = TRUE]
Shared  == [Default EXCEPT !.name = "side"]
Extra   == [Default EXCEPT !.name = "extra"]

AllOptions == {Default, Pki, DefOne, PkiDef, Shared, Extra}
BridgeOptions == AllOptions \ {Default, PkiDef}

\* Sizes: fits; fits only without the MQTT bit; refused as too large.
AllSizes == {1, 3, 7}
OneSize == {1}

Client(hash) == [from |-> s, to |-> remote, hash |-> hash, flag |-> FALSE, hop |-> 0,
                 preset |-> FALSE, size |-> 1]
NoClients == {}
\* By registered hash, by none, by an index, flagged, with its own hop limit, with
\* a signature.
Clients == {Client(6), Client(0), Client(1), [Client(0) EXCEPT !.flag = TRUE],
            [Client(5) EXCEPT !.hop = 2], [Client(8) EXCEPT !.preset = TRUE, !.to = Broadcast]}
FlaggedClient == {[Client(0) EXCEPT !.flag = TRUE]}
IndexClient == {Client(1)}
=============================================================================
