--------------------------- MODULE MultiTransport ---------------------------
(***************************************************************************)
(* raw.MultiTransport: several transports behind one RawTransport.  It     *)
(* starts and stops its children, merges their state events, removes       *)
(* duplicates among the packets they deliver and sends through all that    *)
(* are connected.                                                          *)
(*                                                                         *)
(* Nothing but the handler pointers is guarded by the mutex: children call *)
(* in from their own goroutines, and a callback or a send asks one child   *)
(* after the other whether it is connected while the others change.  Each  *)
(* such question is a step here.                                           *)
(***************************************************************************)
EXTENDS Naturals, Sequences, FiniteSets

CONSTANTS
    Children,      \* the child transports
    Order,         \* m.transports: the children as a sequence
    Serial,        \* children that emit their events from one goroutine (UDP)
    Threads,       \* goroutines available for state callbacks
    NoChild,
    Packets,       \* packets on the mesh
    ZeroIds,       \* those with Id = 0
    MaxForget,     \* bound on expiries of the 30 s record of a packet, each
    Senders        \* goroutines calling SendPacket

ASSUME MultiAssumption ==
    /\ Order \in Seq(Children)
    /\ {Order[i] : i \in 1..Len(Order)} = Children
    /\ Len(Order) = Cardinality(Children) /\ Len(Order) > 0
    /\ Serial \subseteq Children
    /\ NoChild \notin Children
    /\ ZeroIds \subseteq Packets
    /\ MaxForget \in Nat

VARIABLES
    phase,      \* life cycle: "starting", "running", "failed", "stopping", "stopped"
    at,         \* index of the child that Start or Stop handles next
    started,    \* children whose Start succeeded and Stop has not run
    up,         \* IsConnected of each child
    cb,         \* cb[t]: the state callback t runs, see Callback
    told,       \* the last Connected or Disconnected given to the consumer
    overlapped, \* history: a child has changed while a callback was running
    rx,         \* copies <<c, k>> inside makeChildHandler's closure
    passed,     \* those past the deduplicator
    arrived,    \* history: copies that arrived
    seen,       \* packets the deduplicator has a record of
    forgotten,  \* history: how often the record of a packet went as expired
    delivered,  \* history: how often the consumer got a packet
    snd         \* snd[s]: the SendPacket call of s, see Sending

state == <<up, cb, told, overlapped>>
receive == <<rx, passed, arrived, seen, forgotten, delivered>>
vars == <<phase, at, started, state, receive, snd>>

N == Len(Order)
Events == {"connected", "disconnected", "reconnecting", "error"}

\* scan is the index the callback's loop has reached; steady (history) holds the
\* children that were connected from its start until now.
Callback == [child : Children \cup {NoChild}, event : Events, scan : 1..(N + 1),
             steady : SUBSET Children]
\* targets is the slice connected, todo what is left of it, sent (history) the
\* children that accepted the packet, steady as above.
Sending == [stage : {"idle", "scan", "send"}, scan : 1..(N + 1),
            targets : SUBSET Children, todo : SUBSET Children, sent : SUBSET Children,
            steady : SUBSET Children, result : {"none", "ok", "err"}]

\* The types of the children's states, the callbacks in progress and the senders' locals.
TypeOK ==
    /\ phase \in {"starting", "running", "failed", "stopping", "stopped"}
    /\ at \in 1..(N + 1)
    /\ started \subseteq Children
    /\ up \in [Children -> BOOLEAN]
    /\ cb \in [Threads -> Callback]
    /\ told \in {"connected", "disconnected"}
    /\ overlapped \in BOOLEAN
    /\ rx \subseteq Children \X Packets
    /\ passed \subseteq Children \X Packets
    /\ arrived \subseteq Children \X Packets
    /\ seen \subseteq Packets
    /\ forgotten \in [Packets -> 0..MaxForget]
    /\ delivered \in [Packets -> Nat]
    /\ snd \in [Senders -> Sending]

Idle == [child |-> NoChild, event |-> "error", scan |-> 1, steady |-> {}]
NotSending == [stage |-> "idle", scan |-> 1, targets |-> {}, todo |-> {}, sent |-> {},
               steady |-> {}, result |-> "none"]

Init ==
    /\ phase = "starting" /\ at = 1 /\ started = {}
    /\ up = [c \in Children |-> FALSE]
    /\ cb = [t \in Threads |-> Idle]
    /\ told = "disconnected" /\ overlapped = FALSE
    /\ rx = {} /\ passed = {} /\ arrived = {} /\ seen = {}
    /\ forgotten = [k \in Packets |-> 0]
    /\ delivered = [k \in Packets |-> 0]
    /\ snd = [s \in Senders |-> NotSending]
-----------------------------------------------------------------------------
(***************************************************************************)
(* Start and Stop: one child after the other.  Stopping a child takes it   *)
(* down without an event.                                                  *)
(***************************************************************************)

\* A child that goes down is no longer steady for anyone.
Drop(c) ==
    /\ up' = [up EXCEPT ![c] = FALSE]
    /\ snd' = [s \in Senders |-> [snd[s] EXCEPT !.steady = @ \ {c}]]
Unsteady(c) == [t \in Threads |-> [cb[t] EXCEPT !.steady = @ \ {c}]]

StartChild(ok) ==
    /\ phase = "starting"
    /\ at <= N
    /\ started' = IF ok THEN started \cup {Order[at]} ELSE started
    /\ at' = at + 1
    /\ UNCHANGED <<phase, state, receive, snd>>

Started ==
    /\ phase = "starting"
    /\ at = N + 1
    /\ phase' = IF started # {} THEN "running" ELSE "failed"
    /\ UNCHANGED <<at, started, state, receive, snd>>

Stop ==
    /\ phase = "running"
    /\ phase' = "stopping"
    /\ at' = 1
    /\ UNCHANGED <<started, state, receive, snd>>

StopChild ==
    /\ phase = "stopping"
    /\ at <= N
    /\ started' = started \ {Order[at]}
    /\ Drop(Order[at])
    /\ cb' = Unsteady(Order[at])
    /\ at' = at + 1
    /\ UNCHANGED <<phase, told, overlapped, receive>>

Stopped ==
    /\ phase = "stopping"
    /\ at = N + 1
    /\ phase' = "stopped"
    /\ UNCHANGED <<at, started, state, receive, snd>>
-----------------------------------------------------------------------------
(***************************************************************************)
(* State events.                                                           *)
(***************************************************************************)

Running(t) == cb[t].child # NoChild

\* A child calls its state handler on goroutine t.
MayCall(t, c) ==
    /\ c \in started
    /\ ~Running(t)
    /\ c \in Serial => \A v \in Threads : cb[v].child # c

\* Whether the change overlaps with a callback that is running.
Overlaps == overlapped' = (overlapped \/ \E v \in Threads : Running(v))

Enter(c, e, live) == [child |-> c, event |-> e, scan |-> 1, steady |-> live]

ChildUp(t, c) ==
    /\ MayCall(t, c) /\ ~up[c]
    /\ up' = [up EXCEPT ![c] = TRUE]
    /\ cb' = [cb EXCEPT ![t] = Enter(c, "connected", {d \in Children : up'[d]})]
    /\ Overlaps
    /\ UNCHANGED <<phase, at, started, told, receive, snd>>

ChildDown(t, c) ==
    /\ MayCall(t, c) /\ up[c]
    /\ Drop(c)
    /\ cb' = [Unsteady(c) EXCEPT ![t] = Enter(c, "disconnected", {d \in Children : up'[d]})]
    /\ Overlaps
    /\ UNCHANGED <<phase, at, started, told, receive>>

\* A retry is pending, or setting up failed.  The child need not be down: the
\* MQTT client may report Reconnecting before its connection-lost callback has run.
ChildRetry(t, c, e) ==
    /\ MayCall(t, c)
    /\ e \in {"reconnecting", "error"}
    /\ cb' = [cb EXCEPT ![t] = Enter(c, e, {d \in Children : up[d]})]
    /\ Overlaps
    /\ UNCHANGED <<phase, at, started, up, told, receive, snd>>

\* The loops of makeChildStateHandler: every child is asked about a
\* Disconnected, every other child about a Connected or a Reconnecting, none
\* about the rest.
\* Mutants: the emitting child is asked as well; the last child is not asked.
AsksItself(t) == cb[t].event # "error" /\ cb[t].scan <= N
AsksAllButLast(t) ==
    /\ cb[t].event # "error"
    /\ cb[t].scan <= N - 1
    /\ cb[t].event = "disconnected" \/ Order[cb[t].scan] # cb[t].child
Asks(t) ==
    /\ cb[t].event # "error"
    /\ cb[t].scan <= N
    /\ cb[t].event = "disconnected" \/ Order[cb[t].scan] # cb[t].child

Scan(t) ==
    /\ Running(t)
    /\ cb[t].event # "error" /\ cb[t].scan <= N
    /\ cb' = [cb EXCEPT ![t] =
                IF Asks(t) /\ up[Order[cb[t].scan]] THEN Idle ELSE [cb[t] EXCEPT !.scan = @ + 1]]
    /\ UNCHANGED <<phase, at, started, up, told, overlapped, receive, snd>>

\* The consumer's handler is called.
Emits(t) == Running(t) /\ (cb[t].event = "error" \/ cb[t].scan = N + 1)
Emit(t) ==
    /\ Emits(t)
    /\ told' = IF cb[t].event \in {"connected", "disconnected"} THEN cb[t].event ELSE told
    /\ cb' = [cb EXCEPT ![t] = Idle]
    /\ UNCHANGED <<phase, at, started, up, overlapped, receive, snd>>
-----------------------------------------------------------------------------
(***************************************************************************)
(* Received packets.                                                       *)
(***************************************************************************)

\* A child hands over a copy; recvDelay may pass before the next step.
Arrive(c, k) ==
    /\ up[c]
    /\ <<c, k>> \notin arrived
    /\ arrived' = arrived \cup {<<c, k>>}
    /\ rx' = rx \cup {<<c, k>>}
    /\ UNCHANGED <<phase, at, started, state, passed, seen, forgotten, delivered, snd>>

\* dedup.Seen, bypassed by packets without an ID: a packet without a record is
\* recorded and passes, one with a record within its window is dropped, and one
\* whose record has expired passes while the record is deleted, not renewed.
\* Mutants: the lookup does not record; packets without an ID are dropped.
DedupeLookupOnly(c, k) ==
    /\ <<c, k>> \in rx
    /\ rx' = rx \ {<<c, k>>}
    /\ passed' = IF k \in seen THEN passed ELSE passed \cup {<<c, k>>}
    /\ UNCHANGED <<phase, at, started, state, arrived, seen, forgotten, delivered, snd>>
DedupeDropsZero(c, k) ==
    /\ <<c, k>> \in rx
    /\ rx' = rx \ {<<c, k>>}
    /\ passed' = IF k \in ZeroIds \cup seen THEN passed ELSE passed \cup {<<c, k>>}
    /\ seen' = seen \cup {k}
    /\ UNCHANGED <<phase, at, started, state, arrived, forgotten, delivered, snd>>
Dedupe(c, k) ==
    /\ <<c, k>> \in rx
    /\ rx' = rx \ {<<c, k>>}
    /\ \/ /\ k \notin seen
          /\ passed' = passed \cup {<<c, k>>}
          /\ seen' = seen \cup ({k} \ ZeroIds)
          /\ UNCHANGED forgotten
       \/ /\ k \in seen
          /\ UNCHANGED <<passed, seen, forgotten>>
       \/ /\ k \in seen
          /\ forgotten[k] < MaxForget
          /\ passed' = passed \cup {<<c, k>>}
          /\ seen' = seen \ {k}
          /\ forgotten' = [forgotten EXCEPT ![k] = @ + 1]
    /\ UNCHANGED <<phase, at, started, state, arrived, delivered, snd>>

Deliver(c, k) ==
    /\ <<c, k>> \in passed
    /\ passed' = passed \ {<<c, k>>}
    /\ delivered' = [delivered EXCEPT ![k] = @ + 1]
    /\ UNCHANGED <<phase, at, started, state, rx, arrived, seen, forgotten, snd>>

\* A call of Seen, for whatever packet, purges the records that have expired
\* before it takes the lock for its own lookup.
Purge(k) ==
    /\ \E c \in Children, j \in Packets \ ZeroIds : <<c, j>> \in rx
    /\ k \in seen
    /\ forgotten[k] < MaxForget
    /\ seen' = seen \ {k}
    /\ forgotten' = [forgotten EXCEPT ![k] = @ + 1]
    /\ UNCHANGED <<phase, at, started, state, rx, passed, arrived, delivered, snd>>
-----------------------------------------------------------------------------
(***************************************************************************)
(* SendPacket.                                                             *)
(***************************************************************************)

SendFrame == UNCHANGED <<phase, at, started, state, receive>>

CallSend(s) ==
    /\ phase = "running"
    /\ snd[s].stage = "idle"
    /\ snd' = [snd EXCEPT ![s] = [NotSending EXCEPT !.stage = "scan",
                                    !.steady = {c \in Children : up[c]}]]
    /\ SendFrame

\* The loop that collects the connected children.
Collect(s) ==
    /\ snd[s].stage = "scan" /\ snd[s].scan <= N
    /\ snd' = [snd EXCEPT ![s].scan = @ + 1,
                          ![s].targets = IF up[Order[snd[s].scan]]
                                         THEN @ \cup {Order[snd[s].scan]} ELSE @]
    /\ SendFrame

Collected(s) ==
    /\ snd[s].stage = "scan" /\ snd[s].scan = N + 1
    /\ snd' = IF snd[s].targets = {}
              THEN [snd EXCEPT ![s].stage = "idle", ![s].result = "err"]
              ELSE [snd EXCEPT ![s].stage = "send", ![s].todo = snd[s].targets]
    /\ SendFrame

\* One goroutine per target: sendDelay, then the child's SendPacket, which may
\* fail, also because the child has gone down meanwhile.
SendVia(s, c, ok) ==
    /\ snd[s].stage = "send"
    /\ c \in snd[s].todo
    /\ snd' = [snd EXCEPT ![s].todo = @ \ {c},
                          ![s].sent = IF ok THEN @ \cup {c} ELSE @]
    /\ SendFrame

\* wg.Wait and the verdict.
\* Mutant: one failure fails the call.
SentNeedsAll(s) ==
    /\ snd[s].stage = "send" /\ snd[s].todo = {}
    /\ snd' = [snd EXCEPT ![s].stage = "idle",
                          ![s].result = IF snd[s].sent = snd[s].targets THEN "ok" ELSE "err"]
    /\ SendFrame
Sent(s) ==
    /\ snd[s].stage = "send" /\ snd[s].todo = {}
    /\ snd' = [snd EXCEPT ![s].stage = "idle",
                          ![s].result = IF snd[s].sent # {} THEN "ok" ELSE "err"]
    /\ SendFrame
-----------------------------------------------------------------------------
Lifecycle == (\E ok \in BOOLEAN : StartChild(ok)) \/ Started \/ Stop \/ StopChild \/ Stopped

ChildEvent ==
    \E t \in Threads, c \in Children :
        ChildUp(t, c) \/ ChildDown(t, c) \/ \E e \in Events : ChildRetry(t, c, e)

Handle(c, k) == Dedupe(c, k) \/ Deliver(c, k)

SendStep(s) ==
    \/ Collect(s) \/ Collected(s) \/ Sent(s)
    \/ \E c \in Children, ok \in BOOLEAN : SendVia(s, c, ok)

Next ==
    \/ Lifecycle
    \/ ChildEvent
    \/ \E t \in Threads : Scan(t) \/ Emit(t)
    \/ \E c \in Children, k \in Packets : Arrive(c, k) \/ Handle(c, k)
    \/ \E k \in Packets : Purge(k)
    \/ \E s \in Senders : CallSend(s) \/ SendStep(s)

Spec == Init /\ [][Next]_vars

\* Goroutines that have started are scheduled: the closures only sleep for a
\* fixed delay and take mutexes that are released at once, and children's
\* SendPacket returns.  Children owe nothing.
FairSpec ==
    /\ Spec
    /\ \A t \in Threads : WF_vars(Scan(t) \/ Emit(t))
    /\ \A c \in Children, k \in Packets : WF_vars(Handle(c, k))
    /\ \A s \in Senders : WF_vars(SendStep(s))
-----------------------------------------------------------------------------
(***************************************************************************)
(* Properties.                                                             *)
(***************************************************************************)

\* "Connected is emitted when the first transport connects, Disconnected only
\* when all transports are disconnected", as far as a callback that takes time
\* can tell: no Disconnected passes a child that was connected all along, no
\* Connected or Reconnecting passes another child that was.
EventsWitnessed ==
    [][\A t \in Threads : Emits(t) /\ ~Running(t)' =>
          \/ cb[t].event = "error"
          \/ cb[t].event = "disconnected" /\ cb[t].steady = {}
          \/ cb[t].event \in {"connected", "reconnecting"} /\ cb[t].steady \subseteq {cb[t].child}
      ]_vars

\* No callback is running; what the consumer was last told agrees with the children.
Quiet == phase \in {"starting", "running"} /\ \A t \in Threads : ~Running(t)
Exact == told = "connected" <=> \E c \in Children : up[c]

\* The aggregate is exact whenever no callback is running, as long as no child
\* has changed during a callback: the consumer was last told Connected iff some
\* child is connected.
AggregateExact == Quiet /\ ~overlapped => Exact

\* The same without the proviso, as the comment of SetStateHandler has it;
\* refuted by two children that change at once.
AggregateAlwaysExact == Quiet => Exact

\* "Inbound packets are deduplicated across transports": the consumer gets a
\* packet with an ID once, and at most twice more for every expiry of its record
\* (the copy that finds the expired record, and the next, which is recorded
\* again), however the copies interleave.
DeliveredOnce ==
    \A k \in Packets \ ZeroIds :
        delivered[k] + Cardinality({c \in Children : <<c, k>> \in passed})
            <= 1 + 2 * forgotten[k]

\* No packet is lost to deduplication: one that some child received reaches the
\* consumer.
Delivered ==
    \A k \in Packets : (\E c \in Children : <<c, k>> \in arrived) ~> (delivered[k] > 0)

\* "Returns an error only if all transports fail": nil iff some child accepted the
\* packet, and every child that was connected throughout the call was asked.
SendTruthful ==
    \A s \in Senders : snd[s].stage = "idle" /\ snd[s].result # "none" =>
        /\ snd[s].result = "ok" <=> snd[s].sent # {}
        /\ snd[s].steady \subseteq snd[s].targets

\* SendPacket returns.
SendReturns == \A s \in Senders : (snd[s].stage # "idle") ~> (snd[s].stage = "idle")
=============================================================================
