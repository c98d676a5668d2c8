---------------------------- MODULE UdpProofs ----------------------------
(***************************************************************************)
(* Proofs about Udp: types, that Stop joins the listener, that a connected *)
(* transport has a socket, and that reconnecting leaks none, for any       *)
(* sockets and any delays.                                                 *)
(***************************************************************************)
EXTENDS Udp, TLAPS, FiniteSetTheorems

\* The steps in which the goroutine holds a socket, when nobody has called Stop.
Holding == {"listen", "connected", "addr", "select", "read", "blocked", "dropped"}

\* Stop has begun whenever the controller is inside it, and a closed stopChan or a goroutine
\* on its way out says the same.
StopOrder ==
    /\ caller # "idle" => ~running
    /\ closed => ~running
    /\ pc = "exit" => ~running

\* The goroutine exists exactly while the transport runs or Stop waits for it, and without a
\* goroutine nobody is connected.
Joined ==
    /\ running => pc # "none"
    /\ caller = "idle" /\ ~running => pc = "none"
    /\ pc = "none" => ~listening

\* While the transport runs, its socket and its listening flag follow the goroutine.
Bound ==
    /\ running /\ pc \in Holding => conn \in open
    /\ running /\ listening => pc \in Holding \cup {"down"}

\* StopJoins alone is not inductive: it takes Joined to know that Start spawns the only
\* goroutine, and StopOrder to know that a goroutine leaves only after Stop has begun.
IInv == TypeOK /\ StopOrder /\ Joined /\ Bound

\* The bounds that Init and Start set the counters to.
LEMMA Bounds == 1 \in 1..MaxReconnectDelay /\ 0 \in 0..MaxStarts
BY UdpAssumption DEF UdpAssumption

\* Nothing runs and no socket is held before the first Start.
LEMMA InitIInv == Init => IInv
BY Bounds DEF Init, IInv, TypeOK, StopOrder, Joined, Bound, Holding, CallerSteps,
    ListenerSteps, Events

\* Every step of Start, of Stop and of the goroutine preserves the invariant.
LEMMA NextIInv == IInv /\ [Next]_vars => IInv'
<1> SUFFICES ASSUME IInv, [Next]_vars PROVE IInv'
  OBVIOUS
<1> USE UdpAssumption DEF IInv, TypeOK, StopOrder, Joined, Bound, Holding, CallerSteps,
    ListenerSteps, Events, control, Goto, UdpAssumption
<1>1. CASE Start
  <2>1. starts' \in 0..MaxStarts /\ delay' \in 1..MaxReconnectDelay
    BY <1>1, Bounds DEF Start
  <2>2. ~listening' /\ pc' = "check" /\ caller' = "idle" /\ ~closed' /\ running'
    BY <1>1 DEF Start
  <2> QED
    BY <1>1, <2>1, <2>2 DEF Start
<1>2. CASE Stop
  BY <1>2 DEF Stop
<1>3. CASE StopListening
  BY <1>3 DEF StopListening
<1>4. CASE CloseStopChan
  BY <1>4 DEF CloseStopChan
<1>5. CASE StopCloseConn
  BY <1>5 DEF StopCloseConn, Closed
<1>6. CASE Wait
  BY <1>6 DEF Wait
<1>7. CASE Check
  BY <1>7 DEF Check
<1>8. CASE SetupSocket
  BY <1>8 DEF SetupSocket
<1>9. CASE SetupFails
  BY <1>9 DEF SetupFails
<1>10. CASE SetupError
  BY <1>10 DEF SetupError, Emit
<1>11. CASE Listen
  BY <1>11 DEF Listen
<1>12. CASE Connected
  BY <1>12 DEF Connected, Emit
<1>13. CASE LocalAddr
  BY <1>13 DEF LocalAddr, Deref
<1>14. CASE Select
  BY <1>14 DEF Select
<1>15. CASE ReadFromUDP
  BY <1>15 DEF ReadFromUDP, Deref
<1>16. CASE Datagram
  BY <1>16 DEF Datagram
<1>17. CASE ReadClosed \/ ReadError
  BY <1>17 DEF ReadClosed, ReadError, ReadEnds
<1>18. CASE DropConn
  BY <1>18 DEF DropConn, Closed
<1>19. CASE Unlisten
  BY <1>19 DEF Unlisten
<1>20. CASE Disconnected
  BY <1>20 DEF Disconnected, Emit
<1>21. CASE Reconnecting
  BY <1>21 DEF Reconnecting, Emit
<1>22. CASE Sleep
  BY <1>22 DEF Sleep, MinDuration
<1>23. CASE Exit
  BY <1>23 DEF Exit
<1>24. CASE UNCHANGED vars
  BY <1>24 DEF vars
<1> QED
  BY <1>1, <1>2, <1>3, <1>4, <1>5, <1>6, <1>7, <1>8, <1>9, <1>10, <1>11, <1>12, <1>13, <1>14,
     <1>15, <1>16, <1>17, <1>18, <1>19, <1>20, <1>21, <1>22, <1>23, <1>24
  DEF Next, Controller, Listener

\* The invariant holds of every behaviour.
LEMMA Invariant == Spec => []IInv
<1> QED
  BY InitIInv, NextIInv, PTL DEF Spec

\* The variables keep their types, and the retry delay its range.
THEOREM TypeCorrect == Spec => []TypeOK
<1>1. IInv => TypeOK
  BY DEF IInv
<1> QED
  BY Invariant, <1>1, PTL

\* When Stop has returned, listenWithReconnect has ended and IsConnected says false.
THEOREM StopJoinsAlways == Spec => []StopJoins
<1>1. IInv => StopJoins
  BY DEF IInv, Joined, StopJoins
<1> QED
  BY Invariant, <1>1, PTL

\* A running transport that says it is connected has a bound socket in t.conn.
THEOREM ConnectedHasSocketAlways == Spec => []ConnectedHasSocket
<1>1. IInv => ConnectedHasSocket
  BY DEF IInv, Bound, ConnectedHasSocket
<1> QED
  BY Invariant, <1>1, PTL
-----------------------------------------------------------------------------
\* The steps in which the goroutine of this Start has no socket yet, or none any more.
Unbound == {"check", "setup", "failed", "retry", "sleep", "down", "lost"}

\* Every Start so far accounts for at most one open socket, and the last one for none while
\* its goroutine is between sockets or t.conn is not an open one.
Accounted ==
    /\ Cardinality(open) <= starts
    /\ pc \in Unbound => Cardinality(open) < starts
    /\ pc \notin {"none", "exit"} /\ conn \notin open => Cardinality(open) < starts

\* A bind opens one more socket; closeConn closes the one in t.conn, if it is open.
LEMMA SocketCount ==
    ASSUME TypeOK
    PROVE  /\ Cardinality(open) \in Nat
           /\ \A s \in Socket \ open : Cardinality(open \cup {s}) = Cardinality(open) + 1
           /\ \A s \in open : Cardinality(open \ {s}) = Cardinality(open) - 1
           /\ \A s : Cardinality(open \ {s}) \in Nat
           /\ \A s : s \notin open => open \ {s} = open
<1>1. IsFiniteSet(open)
  BY UdpAssumption, FS_Subset DEF TypeOK, UdpAssumption
<1>2. Cardinality(open) \in Nat
  BY <1>1, FS_CardinalityType
<1>3. ASSUME NEW s \in Socket \ open PROVE Cardinality(open \cup {s}) = Cardinality(open) + 1
  BY <1>1, FS_AddElement
<1>4. ASSUME NEW s \in open PROVE Cardinality(open \ {s}) = Cardinality(open) - 1
  BY <1>1, FS_RemoveElement
<1>5. ASSUME NEW s PROVE Cardinality(open \ {s}) \in Nat
  BY <1>1, FS_RemoveElement, FS_CardinalityType
<1> QED
  BY <1>2, <1>3, <1>4, <1>5

\* A step that leaves the sockets and t.conn alone and does not move to where the goroutine
\* must be without one.
LEMMA SameSockets ==
    ASSUME Accounted, UNCHANGED <<open, conn, starts>>,
           pc' \in Unbound => pc \in Unbound, pc' \in {"none", "exit"} \/ pc \notin {"none", "exit"}
    PROVE  Accounted'
BY DEF Accounted

\* Binding, closing and dropping a socket keep the account; only a Start adds to it.
LEMMA NextAccounted == IInv /\ Accounted /\ [Next]_vars => Accounted'
<1> SUFFICES ASSUME IInv, Accounted, [Next]_vars PROVE Accounted'
  OBVIOUS
<1>0. /\ TypeOK /\ Joined /\ Cardinality(open) \in Nat /\ starts \in Nat
      /\ NoSocket \notin Socket /\ conn \in Socket \cup {NoSocket} /\ open \subseteq Socket
  BY SocketCount, UdpAssumption DEF IInv, TypeOK, UdpAssumption
<1>1. CASE Start
  BY <1>0, <1>1 DEF Start, Accounted, Unbound
<1>2. CASE StopCloseConn
  <2>1. CASE conn \in open
    BY <1>0, <1>2, <2>1, SocketCount DEF StopCloseConn, Closed, Accounted
  <2>2. CASE conn \notin open
    BY <1>0, <1>2, <2>2, SocketCount DEF StopCloseConn, Closed, Accounted
  <2> QED BY <2>1, <2>2
<1>3. CASE DropConn
  <2>1. pc = "dropped" /\ pc' = "down" /\ starts' = starts /\ open' = open \ {conn}
    BY <1>3 DEF DropConn, Closed, Goto, control
  <2>2. Cardinality(open') < starts
    <3>1. CASE conn \in open
      BY <1>0, <2>1, <3>1, SocketCount DEF Accounted
    <3>2. CASE conn \notin open
      BY <1>0, <2>1, <3>2, SocketCount DEF Accounted
    <3> QED BY <3>1, <3>2
  <2>3. Cardinality(open') \in Nat
    BY <1>0, <2>1, SocketCount
  <2> QED BY <1>0, <2>1, <2>2, <2>3 DEF Accounted
<1>4. CASE SetupSocket
  <2>1. PICK s \in Socket \ open : conn' = s /\ open' = open \cup {s}
    BY <1>4 DEF SetupSocket
  <2>2. pc = "setup" /\ pc' = "listen" /\ starts' = starts
    BY <1>4 DEF SetupSocket, Goto, control
  <2> QED BY <1>0, <2>1, <2>2, SocketCount DEF Accounted, Unbound
<1>5. CASE Stop \/ StopListening \/ CloseStopChan \/ Wait
  BY <1>5, SameSockets DEF Stop, StopListening, CloseStopChan, Wait
<1>6. CASE SetupFails \/ Listen \/ Check \/ Select \/ Datagram
  BY <1>6, SameSockets DEF SetupFails, Listen, Check, Select, Datagram, Goto, control, Unbound
<1>7. CASE SetupError \/ Connected \/ Disconnected \/ Reconnecting
  BY <1>7, SameSockets DEF SetupError, Connected, Disconnected, Reconnecting, Emit, Goto, Unbound
<1>8. CASE LocalAddr \/ ReadFromUDP
  BY <1>8, SameSockets DEF LocalAddr, ReadFromUDP, Deref, control, Unbound
<1>9. CASE ReadClosed \/ ReadError
  BY <1>9, SameSockets DEF ReadClosed, ReadError, ReadEnds, control, Unbound
<1>10. CASE Unlisten \/ Sleep \/ Exit
  BY <1>10, SameSockets DEF Unlisten, Sleep, Exit, Goto, control, Unbound
<1>11. CASE UNCHANGED vars
  BY <1>11, SameSockets DEF vars
<1> QED
  BY <1>1, <1>2, <1>3, <1>4, <1>5, <1>6, <1>7, <1>8, <1>9, <1>10, <1>11
  DEF Next, Controller, Listener

\* However often listenWithReconnect binds again, it holds no more sockets than there were
\* Starts, for any number of failures and any interleaving with Stop.
THEOREM ReconnectsDoNotLeakAlways == Spec => []ReconnectsDoNotLeak
<1>1. Init => Accounted
  BY FS_EmptySet DEF Init, Accounted, Unbound
<1>2. Accounted => ReconnectsDoNotLeak
  BY DEF Accounted, ReconnectsDoNotLeak
<1> QED
  BY Invariant, NextAccounted, <1>1, <1>2, PTL DEF Spec
=============================================================================
