-------------------------- MODULE MCMultiTransport --------------------------
(***************************************************************************)
(* Model-checking instance of MultiTransport: children u (UDP, which emits *)
(* its events from one goroutine), q and r (MQTT, whose callbacks run on   *)
(* goroutines of their own).  Callbacks and sends share only up, and a     *)
(* packet's way through the deduplicator shares no state with either, so a *)
(* behaviour is one of three scenarios: two callbacks at a time; sends     *)
(* with one callback at a time; or three copies of each packet, from       *)
(* children that are connected until Stop.                                 *)
(***************************************************************************)
EXTENDS MultiTransport

CONSTANTS u, q, r, t1, t2

Three == {u, q, r}
ThreeOrder == <<u, q, r>>

VARIABLE scenario

mcVars == <<vars, scenario>>

ConnectedInit ==
    /\ phase = "running" /\ at = N + 1 /\ started = Children
    /\ up = [c \in Children |-> TRUE]
    /\ cb = [t \in Threads |-> Idle]
    /\ told = "connected" /\ overlapped = FALSE
    /\ rx = {} /\ passed = {} /\ arrived = {} /\ seen = {}
    /\ forgotten = [k \in Packets |-> 0]
    /\ delivered = [k \in Packets |-> 0]
    /\ snd = [s \in Senders |-> NotSending]

ScenarioInit ==
    \/ scenario \in {"callbacks", "sends"} /\ Init
    \/ scenario = "packets" /\ ConnectedInit

CallbackNext == scenario = "callbacks" /\ Next /\ UNCHANGED <<receive, snd, scenario>>
SendNext == scenario = "sends" /\ Next /\ cb'[t2] = Idle /\ UNCHANGED <<receive, scenario>>
PacketNext == scenario = "packets" /\ Next /\ UNCHANGED <<cb, snd, scenario>>

ScenarioSpec ==
    /\ ScenarioInit /\ [][CallbackNext \/ SendNext \/ PacketNext]_mcVars
    /\ \A c \in Children, k \in Packets : WF_vars(Handle(c, k))
=============================================================================
