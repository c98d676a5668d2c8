---------------------------- MODULE MultiProofs ----------------------------
(***************************************************************************)
(* Proofs about MultiTransport, for any set of children, in any order of   *)
(* m.transports, and any number of goroutines: its types, that a send      *)
(* tells the truth, how often a packet is delivered as its dedup records   *)
(* expire, and that the merged state events agree with the children.       *)
(***************************************************************************)
EXTENDS MultiTransport, TLAPS, FiniteSetTheorems

Live == {c \in Children : up[c]}
\* The children the loops have still to ask from index i on.
Rest(i) == {Order[j] : j \in i..N}

\* What SendPacket knows at each stage: a child that has been connected all along is among
\* the targets or still to be asked, and only a child's success makes sent non-empty.
SendProgress(s) ==
    /\ snd[s].steady \subseteq Live
    /\ snd[s].stage = "scan" =>
          /\ snd[s].sent = {} /\ snd[s].result = "none"
          /\ snd[s].steady \subseteq snd[s].targets \cup Rest(snd[s].scan)
    /\ snd[s].stage = "send" => snd[s].steady \subseteq snd[s].targets
    /\ snd[s].stage = "idle" /\ snd[s].result # "none" =>
          /\ snd[s].result = "ok" <=> snd[s].sent # {}
          /\ snd[s].steady \subseteq snd[s].targets

\* A child that has been connected during the whole of a callback is still to be asked, or
\* it is the emitting child and the event is one that does not ask it.
Unasked(t) ==
    /\ cb[t].steady \subseteq Live
    /\ Running(t) /\ cb[t].event # "error" =>
          \A c \in cb[t].steady :
             c \in Rest(cb[t].scan) \/ (cb[t].event # "disconnected" /\ c = cb[t].child)

\* The children, other than the emitting one if it is not asked, that a callback has found
\* to be down.
AskedDown(t) ==
    \A j \in 1..(cb[t].scan - 1) :
        ~up[Order[j]] \/ (cb[t].event # "disconnected" /\ Order[j] = cb[t].child)

\* What a callback that is alone knows of the aggregate before it emits: a Connected and a
\* Disconnected were exact before their child changed, the other events change nothing.
Agrees(t) ==
    CASE cb[t].event = "connected" ->
            /\ up[cb[t].child] /\ AskedDown(t)
            /\ told = "connected" <=> \E d \in Children : d # cb[t].child /\ up[d]
      [] cb[t].event = "disconnected" -> told = "connected" /\ AskedDown(t)
      [] OTHER -> Exact

\* Until a change overlaps a callback, one callback runs at a time.
Alone ==
    ~overlapped /\ phase \in {"starting", "running"} =>
        /\ \A t, v \in Threads : Running(t) /\ Running(v) => t = v
        /\ \A t \in Threads : Running(t) => Agrees(t)
        /\ (\A t \in Threads : ~Running(t)) => Exact

Copies(k) == {c \in Children : <<c, k>> \in passed}
\* A packet the deduplicator has a record of has spent what the expiries allowed, one it
\* has none of may pass once more.
Budget ==
    \A k \in Packets \ ZeroIds :
        delivered[k] + Cardinality(Copies(k)) + (IF k \in seen THEN 0 ELSE 1) <= 1 + 2 * forgotten[k]
-----------------------------------------------------------------------------
\* m.transports lists children, and every child is in it.
LEMMA OrderFacts ==
    /\ N \in Nat \ {0}
    /\ \A i \in 1..N : Order[i] \in Children
    /\ \A c \in Children : \E i \in 1..N : Order[i] = c
    /\ NoChild \notin Children /\ MaxForget \in Nat /\ ZeroIds \subseteq Packets
BY MultiAssumption DEF MultiAssumption, N

\* What is left to ask shrinks by the child just asked, down to nothing.
LEMMA RestFacts ==
    /\ Rest(1) = Children /\ Rest(N + 1) = {}
    /\ \A i \in 1..N : Rest(i) = {Order[i]} \cup Rest(i + 1)
<1>1. Rest(1) = Children
  BY OrderFacts DEF Rest
<1>2. Rest(N + 1) = {}
  BY OrderFacts DEF Rest
<1>3. ASSUME NEW i \in 1..N PROVE Rest(i) = {Order[i]} \cup Rest(i + 1)
  <2>1. i..N = {i} \cup ((i + 1)..N)
    BY OrderFacts
  <2> QED
    BY <2>1 DEF Rest
<1> QED
  BY <1>1, <1>2, <1>3

\* There are finitely many children, as m.transports is a slice.
LEMMA FiniteChildren == IsFiniteSet(Children)
<1> DEFINE f == [i \in 1..N |-> Order[i]]
<1>1. f \in Surjection(1..N, Children)
  BY OrderFacts DEF Surjection
<1>2. IsFiniteSet(1..N)
  BY OrderFacts, FS_Interval
<1> HIDE DEF f
<1> QED
  BY <1>1, <1>2, FS_Surjection

\* The records the actions build are callbacks and sends.
LEMMA CallbackTypes ==
    /\ Idle \in Callback
    /\ \A c \in Children, e \in Events, live \in SUBSET Children : Enter(c, e, live) \in Callback
    /\ \A r \in Callback, c \in Children : [r EXCEPT !.steady = @ \ {c}] \in Callback
    /\ \A r \in Callback : r.scan <= N => [r EXCEPT !.scan = @ + 1] \in Callback
BY OrderFacts DEF Idle, Enter, Callback, Events

\* The records SendPacket goes through have their type.
LEMMA SendingTypes ==
    /\ NotSending \in Sending
    /\ \A live \in SUBSET Children :
          [NotSending EXCEPT !.stage = "scan", !.steady = live] \in Sending
    /\ \A r \in Sending, c \in Children : [r EXCEPT !.steady = @ \ {c}] \in Sending
    /\ \A r \in Sending, T \in SUBSET Children :
          r.scan <= N => [r EXCEPT !.scan = @ + 1, !.targets = T] \in Sending
<1> USE OrderFacts
<1>1. NotSending \in Sending
  BY DEF NotSending, Sending
<1>2. ASSUME NEW live \in SUBSET Children
      PROVE  [NotSending EXCEPT !.stage = "scan", !.steady = live] \in Sending
  BY <1>1 DEF Sending
<1>3. ASSUME NEW r \in Sending, NEW c \in Children PROVE [r EXCEPT !.steady = @ \ {c}] \in Sending
  BY DEF Sending
<1>4. ASSUME NEW r \in Sending, NEW T \in SUBSET Children, r.scan <= N
      PROVE  [r EXCEPT !.scan = @ + 1, !.targets = T] \in Sending
  <2>1. r.scan + 1 \in 1..(N + 1)
    BY <1>4 DEF Sending
  <2> QED
    BY <2>1 DEF Sending
<1> QED
  BY <1>1, <1>2, <1>3, <1>4
-----------------------------------------------------------------------------
\* A child going down keeps the types of the children's flags, the callbacks and the sends.
LEMMA DropTypes ==
    ASSUME TypeOK, NEW c \in Children
    PROVE  /\ Unsteady(c) \in [Threads -> Callback]
           /\ Drop(c) => up' \in [Children -> BOOLEAN] /\ snd' \in [Senders -> Sending]
<1>1. Unsteady(c) \in [Threads -> Callback]
  BY CallbackTypes DEF TypeOK, Unsteady
<1>2. ASSUME Drop(c) PROVE up' \in [Children -> BOOLEAN]
  BY <1>2 DEF TypeOK, Drop
<1>3. ASSUME Drop(c) PROVE snd' \in [Senders -> Sending]
  BY <1>3, SendingTypes DEF TypeOK, Drop
<1> QED
  BY <1>1, <1>2, <1>3

\* Starting and stopping the children keeps the types.
LEMMA LifecycleTypes == TypeOK /\ Lifecycle => TypeOK'
<1> SUFFICES ASSUME TypeOK, Lifecycle PROVE TypeOK'
  OBVIOUS
<1> USE OrderFacts DEF TypeOK, state, receive
<1>1. ASSUME NEW ok \in BOOLEAN, StartChild(ok) PROVE TypeOK'
  BY <1>1 DEF StartChild
<1>2. CASE Started
  BY <1>2 DEF Started
<1>3. CASE Stop
  BY <1>3 DEF Stop
<1>4. CASE StopChild
  <2>1. Order[at] \in Children /\ Drop(Order[at]) /\ cb' = Unsteady(Order[at])
    BY <1>4 DEF StopChild
  <2>2. at' \in 1..(N + 1) /\ started' \subseteq Children
    BY <1>4 DEF StopChild
  <2>3. cb' \in [Threads -> Callback] /\ up' \in [Children -> BOOLEAN] /\ snd' \in [Senders -> Sending]
    BY <2>1, DropTypes
  <2>4. UNCHANGED <<phase, told, overlapped, rx, passed, arrived, seen, forgotten, delivered>>
    BY <1>4 DEF StopChild
  <2> QED
    BY <2>2, <2>3, <2>4
<1>5. CASE Stopped
  BY <1>5 DEF Stopped
<1> QED
  BY <1>1, <1>2, <1>3, <1>4, <1>5 DEF Lifecycle

\* A child's event and the callback it starts keep the types.
LEMMA EventTypes ==
    ASSUME TypeOK, NEW t \in Threads,
           \/ \E c \in Children : ChildUp(t, c) \/ ChildDown(t, c)
                                    \/ \E e \in Events : ChildRetry(t, c, e)
           \/ Scan(t) \/ Emit(t)
    PROVE  TypeOK'
<1> USE DEF receive
<1>1. ASSUME NEW c \in Children, ChildUp(t, c) PROVE TypeOK'
  <2>1. up' \in [Children -> BOOLEAN] /\ overlapped' \in BOOLEAN
    BY <1>1 DEF TypeOK, ChildUp, Overlaps
  <2>2. cb' \in [Threads -> Callback]
    <3>1. {d \in Children : up'[d]} \in SUBSET Children
      OBVIOUS
    <3>2. Enter(c, "connected", {d \in Children : up'[d]}) \in Callback
      BY <3>1, CallbackTypes DEF Events
    <3> QED
      BY <1>1, <3>2 DEF TypeOK, ChildUp
  <2> QED
    BY <1>1, <2>1, <2>2 DEF TypeOK, ChildUp
<1>2. ASSUME NEW c \in Children, ChildDown(t, c) PROVE TypeOK'
  <2>1. overlapped' \in BOOLEAN
    BY <1>2 DEF TypeOK, ChildDown, Overlaps
  <2>2. cb' \in [Threads -> Callback]
    <3>1. {d \in Children : up'[d]} \in SUBSET Children
      OBVIOUS
    <3>2. Enter(c, "disconnected", {d \in Children : up'[d]}) \in Callback
      BY <3>1, CallbackTypes DEF Events
    <3>3. Unsteady(c) \in [Threads -> Callback]
      BY DropTypes
    <3> QED
      BY <1>2, <3>2, <3>3 DEF ChildDown
  <2>3. up' \in [Children -> BOOLEAN] /\ snd' \in [Senders -> Sending]
    BY <1>2, DropTypes DEF ChildDown
  <2> QED
    BY <1>2, <2>1, <2>2, <2>3 DEF TypeOK, ChildDown
<1>3. ASSUME NEW c \in Children, NEW e \in Events, ChildRetry(t, c, e) PROVE TypeOK'
  <2>1. overlapped' \in BOOLEAN
    BY <1>3 DEF TypeOK, ChildRetry, Overlaps
  <2>2. cb' \in [Threads -> Callback]
    <3>1. {d \in Children : up[d]} \in SUBSET Children
      OBVIOUS
    <3>2. Enter(c, e, {d \in Children : up[d]}) \in Callback
      BY <3>1, CallbackTypes
    <3> QED
      BY <1>3, <3>2 DEF TypeOK, ChildRetry
  <2> QED
    BY <1>3, <2>1, <2>2 DEF TypeOK, ChildRetry
<1>4. CASE Scan(t)
  <2>1. cb[t] \in Callback
    BY DEF TypeOK
  <2>2. cb' \in [Threads -> Callback]
    BY <1>4, <2>1, CallbackTypes DEF TypeOK, Scan
  <2> QED
    BY <1>4, <2>2 DEF TypeOK, Scan
<1>5. CASE Emit(t)
  <2>1. cb' \in [Threads -> Callback]
    BY <1>5, CallbackTypes DEF TypeOK, Emit
  <2> QED
    BY <1>5, <2>1 DEF TypeOK, Emit
<1> QED
  BY <1>1, <1>2, <1>3, <1>4, <1>5

\* A packet on its way from a child to the consumer keeps the types.
LEMMA PacketTypes ==
    ASSUME TypeOK, NEW k \in Packets,
           \/ \E c \in Children : Arrive(c, k) \/ Dedupe(c, k) \/ Deliver(c, k)
           \/ Purge(k)
    PROVE  TypeOK'
<1> USE OrderFacts DEF TypeOK, state
<1>1. ASSUME NEW c \in Children, Arrive(c, k) PROVE TypeOK'
  BY <1>1 DEF Arrive
<1>2. ASSUME NEW c \in Children, Dedupe(c, k) PROVE TypeOK'
  BY <1>2 DEF Dedupe
<1>3. ASSUME NEW c \in Children, Deliver(c, k) PROVE TypeOK'
  BY <1>3 DEF Deliver
<1>4. CASE Purge(k)
  BY <1>4 DEF Purge
<1> QED
  BY <1>1, <1>2, <1>3, <1>4

\* A step of SendPacket touches only the record of that call, which keeps its type.
LEMMA SendTypes ==
    ASSUME TypeOK, NEW s \in Senders, CallSend(s) \/ SendStep(s)
    PROVE  TypeOK'
<1>1. snd \in [Senders -> Sending] /\ snd[s] \in Sending
  BY DEF TypeOK
<1>2. snd' \in [Senders -> Sending]
  <2> SUFFICES \E r \in Sending : snd' = [snd EXCEPT ![s] = r]
    BY <1>1
  <2>1. CASE CallSend(s)
    <3> DEFINE r == [NotSending EXCEPT !.stage = "scan", !.steady = {c \in Children : up[c]}]
    <3>1. r \in Sending
      <4> DEFINE live == {c \in Children : up[c]}
      <4>1. live \in SUBSET Children
        OBVIOUS
      <4> HIDE DEF live
      <4>2. [NotSending EXCEPT !.stage = "scan", !.steady = live] \in Sending
        BY <4>1, SendingTypes
      <4> QED
        BY <4>2 DEF live
    <3> QED
      BY <2>1, <3>1 DEF CallSend
  <2>2. CASE Collect(s)
    <3> DEFINE i == snd[s].scan
               T == IF up[Order[i]] THEN snd[s].targets \cup {Order[i]} ELSE snd[s].targets
               r == [snd[s] EXCEPT !.scan = @ + 1, !.targets = T]
    <3>1. i \in 1..N /\ T \in SUBSET Children
      BY <1>1, <2>2, OrderFacts DEF Collect, Sending
    <3>2. snd' = [snd EXCEPT ![s] = r]
      BY <1>1, <2>2 DEF Collect, Sending
    <3> HIDE DEF T
    <3>3. r \in Sending
      <4>1. snd[s].scan <= N
        BY <2>2 DEF Collect
      <4> QED
        BY <1>1, <3>1, <4>1, SendingTypes, Zenon
    <3> QED
      BY <3>2, <3>3
  <2>3. CASE Collected(s)
    <3> DEFINE r1 == [snd[s] EXCEPT !.stage = "idle", !.result = "err"]
               r2 == [snd[s] EXCEPT !.stage = "send", !.todo = snd[s].targets]
    <3>1. r1 \in Sending /\ r2 \in Sending
      BY <1>1 DEF Sending
    <3>2. snd' = [snd EXCEPT ![s] = r1] \/ snd' = [snd EXCEPT ![s] = r2]
      BY <1>1, <2>3 DEF Collected, Sending
    <3> QED
      BY <3>1, <3>2
  <2>4. CASE Sent(s)
    <3> DEFINE r(res) == [snd[s] EXCEPT !.stage = "idle", !.result = res]
    <3>1. r("ok") \in Sending /\ r("err") \in Sending
      BY <1>1 DEF Sending
    <3>2. snd' = [snd EXCEPT ![s] = r("ok")] \/ snd' = [snd EXCEPT ![s] = r("err")]
      BY <1>1, <2>4 DEF Sent, Sending
    <3> QED
      BY <3>1, <3>2
  <2>5. ASSUME NEW c \in Children, NEW ok \in BOOLEAN, SendVia(s, c, ok)
        PROVE  \E r \in Sending : snd' = [snd EXCEPT ![s] = r]
    <3> DEFINE r1 == [snd[s] EXCEPT !.todo = @ \ {c}]
               r2 == [snd[s] EXCEPT !.todo = @ \ {c}, !.sent = @ \cup {c}]
    <3>1. r1 \in Sending /\ r2 \in Sending
      BY <1>1 DEF Sending
    <3>2. snd' = [snd EXCEPT ![s] = r1] \/ snd' = [snd EXCEPT ![s] = r2]
      BY <1>1, <2>5 DEF SendVia, Sending
    <3> QED
      BY <3>1, <3>2
  <2> QED
    BY <2>1, <2>2, <2>3, <2>4, <2>5 DEF SendStep
<1>3. SendFrame
  BY DEF CallSend, SendStep, Collect, Collected, Sent, SendVia
<1> QED
  BY <1>2, <1>3 DEF TypeOK, SendFrame, state, receive

\* The children's flags, the callbacks, the packets in flight and the locals of SendPacket
\* keep their types.
THEOREM TypeCorrect == Spec => []TypeOK
<1>1. Init => TypeOK
  <2> SUFFICES ASSUME Init PROVE TypeOK
    OBVIOUS
  <2>1. cb \in [Threads -> Callback] /\ snd \in [Senders -> Sending]
    BY CallbackTypes, SendingTypes DEF Init
  <2>2. at \in 1..(N + 1) /\ forgotten \in [Packets -> 0..MaxForget]
    BY OrderFacts DEF Init
  <2> QED
    BY <2>1, <2>2 DEF Init, TypeOK
<1>2. TypeOK /\ [Next]_vars => TypeOK'
  <2> SUFFICES ASSUME TypeOK, [Next]_vars PROVE TypeOK'
    OBVIOUS
  <2>1. CASE UNCHANGED vars
    BY <2>1 DEF TypeOK, vars, state, receive
  <2>2. CASE Next
    BY <2>2, LifecycleTypes, EventTypes, PacketTypes, SendTypes DEF Next, ChildEvent, Handle
  <2> QED
    BY <2>1, <2>2
<1> QED
  BY <1>1, <1>2, PTL DEF Spec
-----------------------------------------------------------------------------
(***************************************************************************)
(* SendPacket.                                                             *)
(***************************************************************************)

\* What a step does to the children and the sends: a child comes up or nothing happens, a
\* child goes down, or one send takes a step.
LEMMA SendCases ==
    ASSUME TypeOK, [Next]_vars
    PROVE  \/ snd' = snd /\ Live \subseteq Live'
           \/ \E c \in Children : Drop(c)
           \/ up' = up /\ \E s \in Senders : CallSend(s) \/ SendStep(s)
<1> USE DEF state, Live
<1>1. CASE Lifecycle
  <2>1. CASE StopChild
    BY <2>1, OrderFacts DEF StopChild, TypeOK
  <2> QED
    BY <1>1, <2>1 DEF Lifecycle, StartChild, Started, Stop, Stopped
<1>2. CASE ChildEvent
  <2>1. ASSUME NEW t \in Threads, NEW c \in Children, ChildUp(t, c)
        PROVE  snd' = snd /\ Live \subseteq Live'
    BY <2>1 DEF ChildUp, TypeOK
  <2>2. ASSUME NEW t \in Threads, NEW c \in Children, ChildDown(t, c) PROVE Drop(c)
    BY <2>2 DEF ChildDown
  <2>3. ASSUME NEW t \in Threads, NEW c \in Children, NEW e \in Events, ChildRetry(t, c, e)
        PROVE  snd' = snd /\ Live \subseteq Live'
    BY <2>3 DEF ChildRetry
  <2> QED
    BY <1>2, <2>1, <2>2, <2>3 DEF ChildEvent
<1>3. ASSUME NEW t \in Threads, Scan(t) \/ Emit(t) PROVE snd' = snd /\ Live \subseteq Live'
  BY <1>3 DEF Scan, Emit
<1>4. ASSUME NEW c \in Children, NEW k \in Packets, Arrive(c, k) \/ Handle(c, k)
      PROVE  snd' = snd /\ Live \subseteq Live'
  BY <1>4 DEF Arrive, Handle, Dedupe, Deliver
<1>5. ASSUME NEW k \in Packets, Purge(k) PROVE snd' = snd /\ Live \subseteq Live'
  BY <1>5 DEF Purge
<1>6. ASSUME NEW s \in Senders, CallSend(s) \/ SendStep(s)
      PROVE  up' = up
  BY <1>6 DEF CallSend, SendStep, Collect, Collected, Sent, SendVia, SendFrame
<1>7. CASE UNCHANGED vars
  BY <1>7 DEF vars
<1> QED
  BY <1>1, <1>2, <1>3, <1>4, <1>5, <1>6, <1>7 DEF Next

\* A step of a send keeps what that send knows.
LEMMA SendStepProgress ==
    ASSUME TypeOK, NEW s \in Senders, SendProgress(s), up' = up,
           CallSend(s) \/ SendStep(s)
    PROVE  SendProgress(s)'
<1>1. snd \in [Senders -> Sending] /\ snd[s] \in Sending
  BY DEF TypeOK
<1>2. Live' = Live
  BY DEF Live
<1>3. CASE CallSend(s)
  <2>1. snd'[s] = [NotSending EXCEPT !.stage = "scan", !.steady = Live]
    BY <1>1, <1>3 DEF CallSend, Live
  <2>2. /\ snd'[s].stage = "scan" /\ snd'[s].sent = {} /\ snd'[s].result = "none"
        /\ snd'[s].steady = Live /\ snd'[s].scan = 1
    BY <2>1 DEF NotSending
  <2>3. Live \subseteq Rest(1)
    BY RestFacts DEF Live
  <2> QED
    BY <1>2, <2>2, <2>3 DEF SendProgress
<1>4. CASE Collect(s)
  <2> DEFINE i == snd[s].scan
  <2>1. i \in 1..N
    BY <1>1, <1>4, OrderFacts DEF Collect, Sending
  <2>2. /\ snd'[s].stage = "scan" /\ snd'[s].sent = {} /\ snd'[s].result = "none"
        /\ snd'[s].steady = snd[s].steady /\ snd'[s].scan = i + 1
        /\ snd'[s].targets = IF up[Order[i]] THEN snd[s].targets \cup {Order[i]}
                             ELSE snd[s].targets
    BY <1>1, <1>4 DEF Collect, Sending, SendProgress
  <2>3. Rest(i) = {Order[i]} \cup Rest(i + 1)
    BY <2>1, RestFacts
  <2>4. snd[s].steady \subseteq snd[s].targets \cup Rest(i) /\ snd[s].steady \subseteq Live
    BY <1>4 DEF Collect, SendProgress
  <2> HIDE DEF i
  <2>5. snd'[s].steady \subseteq snd'[s].targets \cup Rest(i + 1)
    BY <2>2, <2>3, <2>4 DEF Live
  <2> QED
    BY <1>2, <2>2, <2>4, <2>5 DEF SendProgress
<1>5. CASE Collected(s)
  <2>1. /\ snd[s].steady \subseteq snd[s].targets /\ snd[s].steady \subseteq Live
        /\ snd[s].sent = {}
    BY <1>5, RestFacts DEF Collected, SendProgress
  <2>2. /\ snd'[s].steady = snd[s].steady /\ snd'[s].targets = snd[s].targets
        /\ snd'[s].sent = snd[s].sent
        /\ snd'[s].stage = "send" \/ (snd'[s].stage = "idle" /\ snd'[s].result = "err")
    BY <1>1, <1>5 DEF Collected, Sending
  <2> QED
    BY <1>2, <2>1, <2>2 DEF SendProgress
<1>6. CASE Sent(s)
  <2>1. snd[s].steady \subseteq snd[s].targets /\ snd[s].steady \subseteq Live
    BY <1>6 DEF Sent, SendProgress
  <2>2. /\ snd'[s].steady = snd[s].steady /\ snd'[s].targets = snd[s].targets
        /\ snd'[s].sent = snd[s].sent /\ snd'[s].stage = "idle"
        /\ snd'[s].result = IF snd[s].sent # {} THEN "ok" ELSE "err"
    BY <1>1, <1>6 DEF Sent, Sending
  <2> QED
    BY <1>2, <2>1, <2>2 DEF SendProgress
<1>7. ASSUME NEW c \in Children, NEW ok \in BOOLEAN, SendVia(s, c, ok)
      PROVE  SendProgress(s)'
  <2>1. snd[s].steady \subseteq snd[s].targets /\ snd[s].steady \subseteq Live
    BY <1>7 DEF SendVia, SendProgress
  <2>2. /\ snd'[s].steady = snd[s].steady /\ snd'[s].targets = snd[s].targets
        /\ snd'[s].stage = "send"
    BY <1>1, <1>7 DEF SendVia, Sending
  <2> QED
    BY <1>2, <2>1, <2>2 DEF SendProgress
<1> QED
  BY <1>3, <1>4, <1>5, <1>6, <1>7 DEF SendStep

\* Every step keeps what every send knows: a child that goes down leaves the steady set of
\* all of them, so the child a loop finds down was not in it.
LEMMA NextSendProgress ==
    TypeOK /\ (\A s \in Senders : SendProgress(s)) /\ [Next]_vars
        => \A s \in Senders : SendProgress(s)'
<1> SUFFICES ASSUME TypeOK, \A s \in Senders : SendProgress(s), [Next]_vars,
                    NEW s \in Senders
             PROVE  SendProgress(s)'
  OBVIOUS
<1>1. snd \in [Senders -> Sending] /\ up \in [Children -> BOOLEAN]
  BY DEF TypeOK
<1>2. CASE snd' = snd /\ Live \subseteq Live'
  BY <1>2 DEF SendProgress
<1>3. ASSUME NEW c \in Children, Drop(c) PROVE SendProgress(s)'
  <2>1. snd[s] \in Sending /\ snd'[s] = [snd[s] EXCEPT !.steady = @ \ {c}]
    BY <1>1, <1>3 DEF Drop
  <2>2. /\ snd'[s].stage = snd[s].stage /\ snd'[s].scan = snd[s].scan
        /\ snd'[s].targets = snd[s].targets /\ snd'[s].sent = snd[s].sent
        /\ snd'[s].result = snd[s].result /\ snd'[s].steady = snd[s].steady \ {c}
    BY <2>1 DEF Sending
  <2>3. Live' = Live \ {c}
    BY <1>1, <1>3 DEF Drop, Live
  <2> QED
    BY <2>2, <2>3 DEF SendProgress
<1>4. ASSUME NEW v \in Senders, up' = up, CallSend(v) \/ SendStep(v) PROVE SendProgress(s)'
  <2>1. CASE v = s
    BY <1>4, <2>1, SendStepProgress
  <2>2. CASE v # s
    <3>1. snd'[s] = snd[s]
      BY <1>1, <1>4, <2>2 DEF CallSend, SendStep, Collect, Collected, Sent, SendVia
    <3> QED
      BY <1>4, <3>1 DEF SendProgress, Live
  <2> QED
    BY <2>1, <2>2
<1> QED
  BY <1>2, <1>3, <1>4, SendCases

\* SendPacket answers nil exactly when a child accepted the packet, and asks every child that
\* is connected for the whole of the call, whatever the children do meanwhile.
THEOREM SendTruthfulAlways == Spec => []SendTruthful
<1>1. Init => \A s \in Senders : SendProgress(s)
  BY DEF Init, NotSending, SendProgress
<1>2. (\A s \in Senders : SendProgress(s)) => SendTruthful
  BY DEF SendProgress, SendTruthful
<1>3. TypeOK /\ (\A s \in Senders : SendProgress(s)) /\ [Next]_vars
        => (\A s \in Senders : SendProgress(s))'
  BY NextSendProgress
<1> QED
  BY <1>1, <1>2, <1>3, TypeCorrect, PTL DEF Spec
-----------------------------------------------------------------------------
(***************************************************************************)
(* Received packets.                                                       *)
(***************************************************************************)

\* A packet that passes the deduplicator spends one of what the expiries allow; an expiry
\* allows two more.
LEMMA NextBudget == TypeOK /\ Budget /\ [Next]_vars => Budget'
<1> SUFFICES ASSUME TypeOK, Budget, [Next]_vars, NEW k \in Packets \ ZeroIds
             PROVE  (delivered[k] + Cardinality(Copies(k)) + (IF k \in seen THEN 0 ELSE 1)
                        <= 1 + 2 * forgotten[k])'
  BY DEF Budget
<1>0. delivered[k] + Cardinality(Copies(k)) + (IF k \in seen THEN 0 ELSE 1) <= 1 + 2 * forgotten[k]
  BY DEF Budget
<1>1. /\ delivered \in [Packets -> Nat] /\ forgotten \in [Packets -> 0..MaxForget]
      /\ delivered[k] \in Nat /\ forgotten[k] \in Nat
  BY OrderFacts DEF TypeOK
<1>2. IsFiniteSet(Copies(k)) /\ Cardinality(Copies(k)) \in Nat
  <2>1. Copies(k) \in SUBSET Children
    BY DEF Copies
  <2> QED
    BY <2>1, FiniteChildren, FS_Subset, FS_CardinalityType
<1>3. CASE UNCHANGED <<passed, seen, forgotten, delivered>>
  <2>1. Copies(k)' = Copies(k)
    BY <1>3 DEF Copies
  <2> QED
    BY <1>0, <1>3, <2>1
<1>4. ASSUME NEW c \in Children, NEW j \in Packets, Dedupe(c, j)
      PROVE  (delivered[k] + Cardinality(Copies(k)) + (IF k \in seen THEN 0 ELSE 1)
                 <= 1 + 2 * forgotten[k])'
  <2>1. delivered' = delivered
    BY <1>4 DEF Dedupe
  <2>2. /\ Cardinality(Copies(k) \cup {c}) \in Nat
        /\ Cardinality(Copies(k) \cup {c}) <= Cardinality(Copies(k)) + 1
    <3>1. Cardinality(Copies(k) \cup {c}) <= Cardinality(Copies(k)) + 1
      BY <1>2, FS_AddElement
    <3>2. Cardinality(Copies(k) \cup {c}) \in Nat
      BY <1>2, FS_AddElement, FS_CardinalityType
    <3> QED
      BY <3>1, <3>2
  <2>3. CASE j # k
    <3>1. Copies(k)' = Copies(k) /\ (k \in seen' <=> k \in seen) /\ forgotten'[k] = forgotten[k]
      BY <1>1, <1>4, <2>3 DEF Copies, Dedupe
    <3> QED
      BY <1>0, <2>1, <3>1
  <2>4. CASE j = k
    <3>1. \/ k \notin seen /\ Copies(k)' = Copies(k) \cup {c} /\ k \in seen' /\ forgotten' = forgotten
          \/ k \in seen /\ UNCHANGED <<passed, seen, forgotten>>
          \/ /\ k \in seen /\ Copies(k)' = Copies(k) \cup {c} /\ k \notin seen'
             /\ forgotten'[k] = forgotten[k] + 1
      BY <1>1, <1>4, <2>4 DEF Copies, Dedupe
    <3>2. CASE k \notin seen /\ Copies(k)' = Copies(k) \cup {c} /\ k \in seen' /\ forgotten' = forgotten
      BY <1>0, <1>1, <1>2, <2>1, <2>2, <3>2
    <3>3. CASE k \in seen /\ UNCHANGED <<passed, seen, forgotten>>
      <4>1. Copies(k)' = Copies(k)
        BY <3>3 DEF Copies
      <4> QED
        BY <1>0, <2>1, <3>3, <4>1
    <3>4. CASE /\ k \in seen /\ Copies(k)' = Copies(k) \cup {c} /\ k \notin seen'
               /\ forgotten'[k] = forgotten[k] + 1
      BY <1>0, <1>1, <1>2, <2>1, <2>2, <3>4
    <3> QED
      BY <3>1, <3>2, <3>3, <3>4
  <2> QED
    BY <2>3, <2>4
<1>5. ASSUME NEW c \in Children, NEW j \in Packets, Deliver(c, j)
      PROVE  (delivered[k] + Cardinality(Copies(k)) + (IF k \in seen THEN 0 ELSE 1)
                 <= 1 + 2 * forgotten[k])'
  <2>1. forgotten' = forgotten /\ seen' = seen
    BY <1>5 DEF Deliver
  <2>2. CASE j # k
    <3>1. Copies(k)' = Copies(k) /\ delivered'[k] = delivered[k]
      BY <1>1, <1>5, <2>2 DEF Copies, Deliver
    <3> QED
      BY <1>0, <2>1, <3>1
  <2>3. CASE j = k
    <3>1. Copies(k)' = Copies(k) \ {c} /\ c \in Copies(k) /\ delivered'[k] = delivered[k] + 1
      BY <1>1, <1>5, <2>3 DEF Copies, Deliver
    <3>2. Cardinality(Copies(k) \ {c}) = Cardinality(Copies(k)) - 1
      BY <1>2, <3>1, FS_RemoveElement
    <3> QED
      BY <1>0, <1>1, <1>2, <2>1, <3>1, <3>2
  <2> QED
    BY <2>2, <2>3
<1>6. ASSUME NEW j \in Packets, Purge(j)
      PROVE  (delivered[k] + Cardinality(Copies(k)) + (IF k \in seen THEN 0 ELSE 1)
                 <= 1 + 2 * forgotten[k])'
  <2>1. Copies(k)' = Copies(k) /\ delivered' = delivered
    BY <1>6 DEF Copies, Purge
  <2>2. IF j = k THEN k \in seen /\ k \notin seen' /\ forgotten'[k] = forgotten[k] + 1
                 ELSE (k \in seen' <=> k \in seen) /\ forgotten'[k] = forgotten[k]
    BY <1>1, <1>6 DEF Purge
  <2> QED
    BY <1>0, <1>1, <1>2, <2>1, <2>2
<1>7. CASE Lifecycle
  BY <1>3, <1>7 DEF Lifecycle, StartChild, Started, Stop, StopChild, Stopped, receive
<1>8. CASE ChildEvent
  BY <1>3, <1>8 DEF ChildEvent, ChildUp, ChildDown, ChildRetry, receive
<1>9. CASE \E t \in Threads : Scan(t) \/ Emit(t)
  BY <1>3, <1>9 DEF Scan, Emit, receive
<1>10. CASE \E c \in Children, j \in Packets : Arrive(c, j)
  BY <1>3, <1>10 DEF Arrive
<1>11. CASE \E s \in Senders : CallSend(s) \/ SendStep(s)
  BY <1>3, <1>11 DEF CallSend, SendStep, Collect, Collected, Sent, SendVia, SendFrame, receive
<1>12. CASE UNCHANGED vars
  BY <1>3, <1>12 DEF vars, receive
<1> QED
  BY <1>4, <1>5, <1>6, <1>7, <1>8, <1>9, <1>10, <1>11, <1>12 DEF Next, Handle

\* The consumer gets a packet with an ID once and at most twice more per expiry of its dedup
\* record, counting the copies that have passed the deduplicator and are about to be handed
\* over, for any number of copies over any children.
THEOREM DeliveredOnceAlways == Spec => []DeliveredOnce
<1>1. Init => Budget
  <2> SUFFICES ASSUME Init, NEW k \in Packets PROVE
        delivered[k] + Cardinality(Copies(k)) + (IF k \in seen THEN 0 ELSE 1) <= 1 + 2 * forgotten[k]
    BY DEF Budget
  <2>1. Copies(k) = {} /\ k \notin seen /\ delivered[k] = 0 /\ forgotten[k] = 0
    BY DEF Init, Copies
  <2> QED
    BY <2>1, FS_EmptySet
<1>2. TypeOK /\ Budget => DeliveredOnce
  <2> SUFFICES ASSUME TypeOK, Budget, NEW k \in Packets \ ZeroIds
               PROVE  delivered[k] + Cardinality(Copies(k)) <= 1 + 2 * forgotten[k]
    BY DEF DeliveredOnce, Copies
  <2>1. delivered[k] \in Nat /\ forgotten[k] \in Nat
    BY OrderFacts DEF TypeOK
  <2>2. Cardinality(Copies(k)) \in Nat
    <3>1. Copies(k) \in SUBSET Children
      BY DEF Copies
    <3> QED
      BY <3>1, FiniteChildren, FS_Subset, FS_CardinalityType
  <2> QED
    BY <2>1, <2>2 DEF Budget
<1> QED
  BY <1>1, <1>2, NextBudget, TypeCorrect, PTL DEF Spec
-----------------------------------------------------------------------------
(***************************************************************************)
(* State events.                                                           *)
(***************************************************************************)

\* The steps that touch the children, the callbacks or what the consumer was told.  No step
\* leads back to starting or running.
LEMMA StateCases ==
    ASSUME [Next]_vars
    PROVE  /\ \/ UNCHANGED state
              \/ StopChild
              \/ \E t \in Threads, c \in Children :
                    ChildUp(t, c) \/ ChildDown(t, c) \/ \E e \in Events : ChildRetry(t, c, e)
              \/ \E t \in Threads : Scan(t) \/ Emit(t)
           /\ phase' \in {"starting", "running"} => phase \in {"starting", "running"}
<1>1. CASE Lifecycle
  BY <1>1 DEF Lifecycle, StartChild, Started, Stop, StopChild, Stopped
<1>2. CASE ChildEvent
  BY <1>2 DEF ChildEvent, ChildUp, ChildDown, ChildRetry
<1>3. CASE \E t \in Threads : Scan(t) \/ Emit(t)
  BY <1>3 DEF Scan, Emit
<1>4. CASE \E c \in Children, k \in Packets : Arrive(c, k) \/ Handle(c, k)
  BY <1>4 DEF Arrive, Handle, Dedupe, Deliver
<1>5. CASE \E k \in Packets : Purge(k)
  BY <1>5 DEF Purge
<1>6. CASE \E s \in Senders : CallSend(s) \/ SendStep(s)
  BY <1>6 DEF CallSend, SendStep, Collect, Collected, Sent, SendVia, SendFrame
<1>7. CASE UNCHANGED vars
  BY <1>7 DEF vars
<1> QED
  BY <1>1, <1>2, <1>3, <1>4, <1>5, <1>6, <1>7 DEF Next

\* A callback that has lost a child from its steady set asks as before.
LEMMA UnsteadyUnasked ==
    ASSUME TypeOK, NEW c \in Children, NEW v \in Threads, Unasked(v), Drop(c),
           cb'[v] = Unsteady(c)[v]
    PROVE  Unasked(v)'
<1>1. cb[v] \in Callback /\ cb'[v] = [cb[v] EXCEPT !.steady = @ \ {c}]
  BY DEF Unsteady, TypeOK
<1>2. /\ cb'[v].child = cb[v].child /\ cb'[v].event = cb[v].event
      /\ cb'[v].scan = cb[v].scan /\ cb'[v].steady = cb[v].steady \ {c}
  BY <1>1 DEF Callback
<1>3. Live' = Live \ {c}
  BY DEF Live, Drop, TypeOK
<1> QED
  BY <1>2, <1>3 DEF Unasked, Running

\* A callback that starts has everybody to ask.
LEMMA EnterUnasked ==
    ASSUME NEW t \in Threads, NEW c, NEW e, cb'[t] = Enter(c, e, Live')
    PROVE  Unasked(t)'
<1>1. cb'[t].scan = 1 /\ cb'[t].steady = Live'
  BY DEF Enter
<1>2. Live' \subseteq Rest(1)
  BY RestFacts DEF Live
<1> QED
  BY <1>1, <1>2 DEF Unasked

\* Every step keeps what every callback has still to ask: a child the loop finds down was not
\* steady.
LEMMA NextUnasked ==
    TypeOK /\ (\A t \in Threads : Unasked(t)) /\ [Next]_vars => \A t \in Threads : Unasked(t)'
<1> SUFFICES ASSUME TypeOK, \A t \in Threads : Unasked(t), [Next]_vars, NEW v \in Threads
             PROVE  Unasked(v)'
  OBVIOUS
<1>1. cb \in [Threads -> Callback] /\ up \in [Children -> BOOLEAN] /\ cb[v] \in Callback
  BY DEF TypeOK
<1>2. CASE UNCHANGED state
  BY <1>2 DEF state, Unasked, Running, Live
<1>3. CASE StopChild
  <2>1. Order[at] \in Children
    BY <1>3, OrderFacts DEF StopChild, TypeOK
  <2> QED
    BY <1>3, <2>1, UnsteadyUnasked DEF StopChild
<1>4. ASSUME NEW t \in Threads, NEW c \in Children, ChildUp(t, c) PROVE Unasked(v)'
  <2>1. Live \subseteq Live'
    BY <1>1, <1>4 DEF ChildUp, Live
  <2>2. CASE v = t
    <3>1. cb'[v] = Enter(c, "connected", Live')
      BY <1>1, <1>4, <2>2 DEF ChildUp, Live
    <3> QED
      BY <3>1, EnterUnasked
  <2>3. CASE v # t
    <3>1. cb'[v] = cb[v]
      BY <1>1, <1>4, <2>3 DEF ChildUp
    <3> QED
      BY <2>1, <3>1 DEF Unasked, Running
  <2> QED
    BY <2>2, <2>3
<1>5. ASSUME NEW t \in Threads, NEW c \in Children, ChildDown(t, c) PROVE Unasked(v)'
  <2>1. Unsteady(c) \in [Threads -> Callback]
    BY DropTypes
  <2>2. CASE v = t
    <3>1. cb'[v] = Enter(c, "disconnected", Live')
      BY <1>5, <2>1, <2>2 DEF ChildDown, Live
    <3> QED
      BY <3>1, EnterUnasked
  <2>3. CASE v # t
    <3>1. cb'[v] = Unsteady(c)[v] /\ Drop(c)
      BY <1>5, <2>1, <2>3 DEF ChildDown
    <3> QED
      BY <3>1, UnsteadyUnasked
  <2> QED
    BY <2>2, <2>3
<1>6. ASSUME NEW t \in Threads, NEW c \in Children, NEW e \in Events, ChildRetry(t, c, e)
      PROVE  Unasked(v)'
  <2>1. Live' = Live
    BY <1>6 DEF ChildRetry, Live
  <2>2. CASE v = t
    <3>1. cb'[v] = Enter(c, e, Live')
      BY <1>1, <1>6, <2>1, <2>2 DEF ChildRetry, Live
    <3> QED
      BY <3>1, EnterUnasked
  <2>3. CASE v # t
    <3>1. cb'[v] = cb[v]
      BY <1>1, <1>6, <2>3 DEF ChildRetry
    <3> QED
      BY <2>1, <3>1 DEF Unasked, Running
  <2> QED
    BY <2>2, <2>3
<1>7. ASSUME NEW t \in Threads, Scan(t) PROVE Unasked(v)'
  <2>1. Live' = Live
    BY <1>7 DEF Scan, Live
  <2>2. CASE v # t
    <3>1. cb'[v] = cb[v]
      BY <1>1, <1>7, <2>2 DEF Scan
    <3> QED
      BY <2>1, <3>1 DEF Unasked, Running
  <2>3. CASE v = t /\ cb'[v] = Idle
    BY <2>3 DEF Unasked, Running, Idle
  <2>4. CASE v = t /\ cb'[v] # Idle
    <3> DEFINE i == cb[v].scan
    <3>1. i \in 1..N /\ Running(v) /\ cb[v].event # "error"
      BY <1>1, <1>7, <2>4, OrderFacts DEF Scan, Callback
    <3>2. ~(Asks(v) /\ up[Order[i]]) /\ cb'[v] = [cb[v] EXCEPT !.scan = @ + 1]
      BY <1>1, <1>7, <2>4 DEF Scan
    <3>3. /\ cb'[v].child = cb[v].child /\ cb'[v].event = cb[v].event
          /\ cb'[v].scan = i + 1 /\ cb'[v].steady = cb[v].steady
      BY <1>1, <3>2 DEF Callback
    <3>4. Rest(i) = {Order[i]} \cup Rest(i + 1)
      BY <3>1, RestFacts
    <3>5. Order[i] \in cb[v].steady => cb[v].event # "disconnected" /\ Order[i] = cb[v].child
      BY <3>1, <3>2, OrderFacts DEF Asks, Unasked, Live
    <3> HIDE DEF i
    <3>6. \A c \in cb[v].steady :
            c \in Rest(i) \/ (cb[v].event # "disconnected" /\ c = cb[v].child)
      BY <3>1 DEF Unasked, i
    <3> QED
      BY <2>1, <3>3, <3>4, <3>5, <3>6 DEF Unasked
  <2> QED
    BY <2>2, <2>3, <2>4
<1>8. ASSUME NEW t \in Threads, Emit(t) PROVE Unasked(v)'
  <2>1. Live' = Live
    BY <1>8 DEF Emit, Live
  <2>2. cb'[v] = IF v = t THEN Idle ELSE cb[v]
    BY <1>1, <1>8 DEF Emit
  <2> QED
    BY <2>1, <2>2 DEF Unasked, Running, Idle
<1> QED
  BY <1>2, <1>3, <1>4, <1>5, <1>6, <1>7, <1>8, StateCases

\* A Disconnected reaches the consumer only if no child was connected for the whole of the
\* callback, a Connected or a Reconnecting only if no other child was.
THEOREM EventsWitnessedAlways == Spec => EventsWitnessed
<1> DEFINE AllUnasked == \A t \in Threads : Unasked(t)
           Witnessed == \A t \in Threads : Emits(t) /\ ~Running(t)' =>
              \/ cb[t].event = "error"
              \/ cb[t].event = "disconnected" /\ cb[t].steady = {}
              \/ cb[t].event \in {"connected", "reconnecting"}
                    /\ cb[t].steady \subseteq {cb[t].child}
<1>1. Init => AllUnasked
  BY DEF Init, Idle, Unasked, Running
<1>2. TypeOK /\ AllUnasked /\ [Next]_vars => AllUnasked'
  BY NextUnasked
<1>3. TypeOK /\ AllUnasked => Witnessed
  <2> SUFFICES ASSUME TypeOK, AllUnasked, NEW t \in Threads, Emits(t), cb[t].event # "error"
               PROVE  \/ cb[t].event = "disconnected" /\ cb[t].steady = {}
                      \/ cb[t].event \in {"connected", "reconnecting"}
                            /\ cb[t].steady \subseteq {cb[t].child}
    OBVIOUS
  <2>1. cb[t].event \in Events
    BY DEF TypeOK, Callback
  <2>2. cb[t].scan = N + 1 /\ Running(t)
    BY DEF Emits
  <2>3. \A c \in cb[t].steady : cb[t].event # "disconnected" /\ c = cb[t].child
    BY <2>2, RestFacts DEF Unasked
  <2> QED
    BY <2>1, <2>3 DEF Events
<1>4. TypeOK /\ AllUnasked /\ [Next]_vars => [Witnessed]_vars
  BY <1>3
<1> HIDE DEF AllUnasked, Witnessed
<1>5. Spec => [][Witnessed]_vars
  BY <1>1, <1>2, <1>4, TypeCorrect, PTL DEF Spec
<1> QED
  BY <1>5, PTL DEF EventsWitnessed, Witnessed
-----------------------------------------------------------------------------
\* A child that changes while no callback runs starts the only one, and what the consumer was
\* told is what its callback needs to know.
LEMMA EnterAlone ==
    ASSUME TypeOK, Alone, NEW t \in Threads, NEW c \in Children,
           ChildUp(t, c) \/ ChildDown(t, c) \/ \E e \in Events : ChildRetry(t, c, e)
    PROVE  Alone'
<1> SUFFICES ASSUME ~overlapped', phase' \in {"starting", "running"}
             PROVE  /\ \A u, v \in Threads : Running(u)' /\ Running(v)' => u = v
                    /\ \A v \in Threads : Running(v)' => Agrees(v)'
                    /\ (\A v \in Threads : ~Running(v)') => Exact'
  BY DEF Alone
<1>1. /\ cb \in [Threads -> Callback] /\ up \in [Children -> BOOLEAN]
      /\ Unsteady(c) \in [Threads -> Callback]
  BY DropTypes DEF TypeOK
<1>2. ~overlapped /\ (\A v \in Threads : ~Running(v)) /\ phase' = phase /\ told' = told
  BY DEF ChildUp, ChildDown, ChildRetry, Overlaps
<1>3. Exact
  BY <1>2 DEF Alone
<1>4. ASSUME NEW v \in Threads, v # t PROVE ~Running(v)'
  <2>1. cb'[v].child = cb[v].child
    <3>1. cb[v] \in Callback /\ Unsteady(c)[v].child = cb[v].child
      BY <1>1 DEF Unsteady, Callback
    <3> QED
      BY <1>1, <1>4, <3>1 DEF ChildUp, ChildDown, ChildRetry
  <2> QED
    BY <1>2, <2>1 DEF Running
<1>5. PICK e \in Events :
        /\ \E live : cb'[t] = Enter(c, e, live)
        /\ \/ e = "connected" /\ ChildUp(t, c)
           \/ e = "disconnected" /\ ChildDown(t, c)
           \/ e \in {"reconnecting", "error"} /\ ChildRetry(t, c, e)
  BY <1>1 DEF ChildUp, ChildDown, ChildRetry, Events
<1>6. /\ cb'[t].child = c /\ cb'[t].event = e /\ cb'[t].scan = 1
      /\ Running(t)' /\ AskedDown(t)'
  BY <1>5, OrderFacts DEF Enter, Running, AskedDown
<1>7. Agrees(t)'
  <2>1. CASE e = "connected"
    <3>1. ~up[c] /\ up' = [up EXCEPT ![c] = TRUE]
      BY <1>5, <2>1 DEF ChildUp
    <3>2. up'[c] /\ \A d \in Children : d # c => up'[d] = up[d]
      BY <1>1, <3>1
    <3>3. told' = "connected" <=> \E d \in Children : d # c /\ up'[d]
      BY <1>2, <1>3, <3>1, <3>2 DEF Exact
    <3> QED
      BY <1>6, <2>1, <3>2, <3>3 DEF Agrees
  <2>2. CASE e = "disconnected"
    <3>1. up[c]
      BY <1>5, <2>2 DEF ChildDown
    <3>2. told' = "connected"
      BY <1>2, <1>3, <3>1 DEF Exact
    <3> QED
      BY <1>6, <2>2, <3>2 DEF Agrees
  <2>3. CASE e \in {"reconnecting", "error"}
    <3>1. up' = up
      BY <1>5, <2>3 DEF ChildRetry
    <3>2. Exact'
      BY <1>2, <1>3, <3>1 DEF Exact
    <3> QED
      BY <1>6, <2>3, <3>2 DEF Agrees
  <2> QED
    BY <1>5, <2>1, <2>2, <2>3
<1> QED
  BY <1>4, <1>6, <1>7

\* A callback that is alone stops asking when it finds a child up, and then what the consumer
\* knows is exact.
LEMMA ScanAlone ==
    ASSUME TypeOK, Alone, NEW t \in Threads, Scan(t)
    PROVE  Alone'
<1> SUFFICES ASSUME ~overlapped', phase' \in {"starting", "running"}
             PROVE  /\ \A u, v \in Threads : Running(u)' /\ Running(v)' => u = v
                    /\ \A v \in Threads : Running(v)' => Agrees(v)'
                    /\ (\A v \in Threads : ~Running(v)') => Exact'
  BY DEF Alone
<1> DEFINE i == cb[t].scan
<1>1. cb \in [Threads -> Callback] /\ up \in [Children -> BOOLEAN] /\ cb[t] \in Callback
  BY DEF TypeOK
<1>2. ~overlapped /\ phase' = phase /\ told' = told /\ up' = up /\ Running(t)
  BY DEF Scan
<1>3. Agrees(t) /\ \A v \in Threads : v # t => ~Running(v)
  BY <1>2 DEF Alone
<1>4. \A v \in Threads : v # t => ~Running(v)'
  BY <1>1, <1>3 DEF Scan, Running
<1>5. i \in 1..N /\ Order[i] \in Children /\ cb[t].event # "error"
  BY <1>1, OrderFacts DEF Scan, Callback
<1>6. CASE Asks(t) /\ up[Order[i]]
  <2>1. ~Running(t)'
    BY <1>1, <1>6 DEF Scan, Running, Idle
  <2>2. Exact
    <3>1. CASE cb[t].event = "connected"
      <4>1. told = "connected"
        BY <1>3, <1>5, <1>6, <3>1 DEF Agrees, Asks
      <4> QED
        BY <4>1, <1>5, <1>6 DEF Exact
    <3>2. CASE cb[t].event = "disconnected"
      BY <1>3, <1>5, <1>6, <3>2 DEF Agrees, Exact
    <3>3. CASE cb[t].event \notin {"connected", "disconnected"}
      BY <1>3, <3>3 DEF Agrees
    <3> QED
      BY <3>1, <3>2, <3>3
  <2>3. Exact'
    BY <1>2, <2>2 DEF Exact
  <2> QED
    BY <1>4, <2>1, <2>3
<1>7. CASE ~(Asks(t) /\ up[Order[i]])
  <2>1. cb'[t] = [cb[t] EXCEPT !.scan = @ + 1]
    BY <1>1, <1>7 DEF Scan
  <2>2. /\ cb'[t].child = cb[t].child /\ cb'[t].event = cb[t].event /\ cb'[t].scan = i + 1
        /\ Running(t)'
    BY <1>1, <1>2, <2>1 DEF Callback, Running
  <2>3. AskedDown(t) => AskedDown(t)'
    <3> SUFFICES ASSUME AskedDown(t), NEW j \in 1..i
                 PROVE  ~up[Order[j]] \/ (cb[t].event # "disconnected" /\ Order[j] = cb[t].child)
      BY <1>2, <1>5, <2>2 DEF AskedDown
    <3>1. CASE j = i
      BY <1>5, <1>7, <3>1 DEF Asks
    <3>2. CASE j # i
      <4>1. j \in 1..(cb[t].scan - 1)
        BY <1>5, <3>2
      <4> QED
        BY <4>1 DEF AskedDown
    <3> QED
      BY <3>1, <3>2
  <2>4. Agrees(t)'
    <3> HIDE DEF i
    <3>1. CASE cb[t].event = "connected"
      BY <1>2, <1>3, <2>2, <2>3, <3>1 DEF Agrees
    <3>2. CASE cb[t].event = "disconnected"
      BY <1>2, <1>3, <2>2, <2>3, <3>2 DEF Agrees
    <3>3. CASE cb[t].event \notin {"connected", "disconnected"}
      BY <1>2, <1>3, <2>2, <3>3 DEF Agrees, Exact
    <3> QED
      BY <3>1, <3>2, <3>3
  <2> QED
    BY <1>4, <2>2, <2>4
<1> QED
  BY <1>6, <1>7

\* A callback that is alone and has asked everybody tells the consumer the exact aggregate.
LEMMA EmitAlone ==
    ASSUME TypeOK, Alone, NEW t \in Threads, Emit(t)
    PROVE  Alone'
<1> SUFFICES ASSUME ~overlapped', phase' \in {"starting", "running"}
             PROVE  /\ \A v \in Threads : ~Running(v)'
                    /\ Exact'
  BY DEF Alone
<1>1. cb \in [Threads -> Callback] /\ cb[t] \in Callback
  BY DEF TypeOK
<1>2. ~overlapped /\ phase' = phase /\ up' = up /\ Running(t)
  BY DEF Emit, Emits
<1>3. Agrees(t) /\ \A v \in Threads : v # t => ~Running(v)
  BY <1>2 DEF Alone
<1>4. \A v \in Threads : ~Running(v)'
  BY <1>1, <1>3 DEF Emit, Running, Idle
<1>5. CASE cb[t].event = "connected"
  <2>1. cb[t].child \in Children /\ up[cb[t].child] /\ told' = "connected"
    BY <1>1, <1>2, <1>3, <1>5 DEF Agrees, Emit, Running, Callback
  <2> QED
    BY <1>2, <1>4, <2>1 DEF Exact
<1>6. CASE cb[t].event = "disconnected"
  <2>1. cb[t].scan = N + 1 /\ told' = "disconnected" /\ AskedDown(t)
    BY <1>3, <1>6 DEF Agrees, Emit, Emits
  <2>2. \A j \in 1..N : ~up[Order[j]]
    BY <1>6, <2>1, OrderFacts DEF AskedDown
  <2>3. \A d \in Children : ~up[d]
    BY <2>2, OrderFacts
  <2> QED
    BY <1>2, <1>4, <2>1, <2>3 DEF Exact
<1>7. CASE cb[t].event \notin {"connected", "disconnected"}
  <2>1. told' = told /\ Exact
    BY <1>3, <1>7 DEF Agrees, Emit
  <2> QED
    BY <1>2, <1>4, <2>1 DEF Exact
<1> QED
  BY <1>5, <1>6, <1>7

\* As long as no child has changed during a callback, the consumer was last told Connected
\* exactly when some child is connected, whenever no callback is running.
THEOREM AggregateExactAlways == Spec => []AggregateExact
<1>1. Init => Alone
  BY DEF Init, Idle, Alone, Running, Exact
<1>2. TypeOK /\ Alone /\ [Next]_vars => Alone'
  <2> SUFFICES ASSUME TypeOK, Alone, [Next]_vars PROVE Alone'
    OBVIOUS
  <2>1. CASE UNCHANGED state
    <3>1. phase' \in {"starting", "running"} => phase \in {"starting", "running"}
      BY StateCases
    <3>2. Exact' = Exact /\ \A t \in Threads : Running(t)' = Running(t) /\ Agrees(t)' = Agrees(t)
      BY <2>1 DEF state, Exact, Running, Agrees, AskedDown
    <3> QED
      BY <2>1, <3>1, <3>2 DEF Alone, state
  <2>2. CASE StopChild
    <3>1. phase' = "stopping"
      BY <2>2 DEF StopChild
    <3> QED
      BY <3>1 DEF Alone
  <2> QED
    BY <2>1, <2>2, StateCases, EnterAlone, ScanAlone, EmitAlone
<1>3. Alone => AggregateExact
  BY DEF Alone, AggregateExact, Quiet
<1> QED
  BY <1>1, <1>2, <1>3, TypeCorrect, PTL DEF Spec
=============================================================================
