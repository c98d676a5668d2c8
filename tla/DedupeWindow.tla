---------------------------- MODULE DedupeWindow ----------------------------
(***************************************************************************)
(* What core/dedupe promises its users (Node, BridgeNode, MultiTransport): *)
(* once a packet has been admitted as new, and its time of arrival noted,  *)
(* no caller is told "new" about it again until ExpiresAfter has passed    *)
(* since the noted time.  Nothing is said of how the record is kept.       *)
(***************************************************************************)
EXTENDS Integers

CONSTANTS Callers,       \* goroutines that call Seen
          Packets,       \* packet identities (sender, packet id)
          ExpiresAfter,  \* length of the window
          MaxTime        \* bound on the clock

VARIABLES clock,         \* real (monotonic) time
          until,         \* until[k]: end of k's current window, NoTime if none yet
          arg,           \* arg[c]: the packet c asks, or last asked, about
          ret            \* ret[c]: "none" while c's call is open, else the answer

windowVars == <<clock, until, arg, ret>>

NoTime == -1

WindowInit ==
    /\ clock = 0
    /\ until = [k \in Packets |-> NoTime]
    /\ arg \in [Callers -> Packets]
    /\ ret = [c \in Callers |-> "idle"]

Advance ==
    /\ clock < MaxTime
    /\ clock' = clock + 1
    /\ UNCHANGED <<until, arg, ret>>

Ask(c, k) ==
    /\ ret[c] # "none"
    /\ arg' = [arg EXCEPT ![c] = k]
    /\ ret' = [ret EXCEPT ![c] = "none"]
    /\ UNCHANGED <<clock, until>>

\* "new" is an answer only outside the packet's window.  The answer may open a
\* new window, counted from a time t that is not in the future.
AnswerNew(c) ==
    /\ ret[c] = "none"
    /\ until[arg[c]] = NoTime \/ clock > until[arg[c]]
    /\ ret' = [ret EXCEPT ![c] = "new"]
    /\ \/ until' = until
       \/ \E t \in 0..clock : until' = [until EXCEPT ![arg[c]] = t + ExpiresAfter]
    /\ UNCHANGED <<clock, arg>>

\* "dup" is an answer only about a packet admitted before.
AnswerDup(c) ==
    /\ ret[c] = "none"
    /\ until[arg[c]] # NoTime
    /\ ret' = [ret EXCEPT ![c] = "dup"]
    /\ UNCHANGED <<clock, until, arg>>

WindowNext ==
    \/ Advance
    \/ \E c \in Callers :
          \/ \E k \in Packets : Ask(c, k)
          \/ AnswerNew(c)
          \/ AnswerDup(c)

WindowSpec == WindowInit /\ [][WindowNext]_windowVars
=============================================================================
