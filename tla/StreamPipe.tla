----------------------------- MODULE StreamPipe -----------------------------
(***************************************************************************)
(* The connections between clients and the client API server: a net.Pipe   *)
(* (Server.Conn) or a TCP connection, with transport/stream on both ends.  *)
(* A message is a unit here: the writer holds writeMu for header and data, *)
(* and module StreamFraming says that such frames are read as written.     *)
(*                                                                         *)
(* A Write puts its message on the connection and returns at once over     *)
(* TCP, once the peer has taken it over a net.Pipe.                        *)
(***************************************************************************)
EXTENDS Naturals, Sequences

CONSTANTS
    Conns,       \* the connections
    InMemory,    \* those made by Server.Conn
    Window,      \* messages a TCP connection holds
    Oversized    \* messages longer than PacketMTU, which Write refuses

ASSUME PipeAssumption == InMemory \subseteq Conns /\ Window \in Nat \ {0}

VARIABLES
    down,        \* down[c]: FromRadio messages on their way
    up,          \* up[c]: ToRadio messages on their way
    clientOpen,  \* the client has not closed its end
    radioOpen    \* the server has not closed its end

pipe == <<down, up, clientOpen, radioOpen>>

PipeInit ==
    /\ down = [c \in Conns |-> <<>>] /\ up = [c \in Conns |-> <<>>]
    /\ clientOpen = [c \in Conns |-> TRUE] /\ radioOpen = [c \in Conns |-> TRUE]

\* WriteBytes looks at the length first, before it takes writeMu.
Fits(m) == m \notin Oversized

Open(c) == clientOpen[c] /\ radioOpen[c]

\* q is down or up.
Room(q, c) == Len(q[c]) < IF c \in InMemory THEN 1 ELSE Window
\* Closing a net.Pipe loses what is on its way, a TCP peer reads it first.
Readable(q, c) == q[c] # <<>> /\ (c \in InMemory => Open(c))
Taken(q, c) == c \in InMemory => q[c] = <<>>
=============================================================================
