------------------------------- MODULE Udp -------------------------------
(***************************************************************************)
(* The UDP multicast transport (transport/udp/udp.go): one controller that *)
(* calls Start and Stop, and the goroutine listenWithReconnect that Start  *)
(* spawns and Stop joins.                                                  *)
(*                                                                         *)
(* The goroutine and Stop share running and listening (atomics), stopChan  *)
(* and conn.  conn is written under reconnectMux but read without it, so   *)
(* every step of the goroutine that dereferences conn is a step of its     *)
(* own and may find the nil Stop has just stored.                          *)
(***************************************************************************)
EXTENDS Naturals, FiniteSets

CONSTANTS
    Socket,             \* sockets the kernel can hand out
    MaxReconnectDelay,  \* maxReconnectDelay, in units of the first delay
    MaxStarts,          \* bound: calls of Start that do start
    NoSocket            \* the nil *net.UDPConn

ASSUME UdpAssumption ==
    /\ MaxReconnectDelay \in Nat \ {0}
    /\ MaxStarts \in Nat
    /\ IsFiniteSet(Socket)
    /\ NoSocket \notin Socket

VARIABLES
    running,    \* Transport.running
    listening,  \* Transport.listening, what IsConnected returns
    closed,     \* stopChan is closed
    conn,       \* Transport.conn
    open,       \* sockets the kernel holds open for this process
    caller,     \* where the controller is in Stop; "idle" between calls
    pc,         \* where the listener goroutine is; "none" when there is none
    sock,       \* the socket the goroutine is blocked reading
    delay,      \* the goroutine's retry delay
    event,      \* the event the state handler was called with last
    crashed,    \* a nil pointer was dereferenced: the process is gone
    starts      \* Start calls so far

control == <<running, closed, caller, starts>>
vars == <<running, listening, closed, conn, open, caller, pc, sock, delay, event, crashed, starts>>

CallerSteps == {"idle", "unlisten", "closeStop", "closeConn", "wait"}
ListenerSteps == {"none", "check", "setup", "listen", "connected", "addr", "select", "read",
                  "blocked", "failed", "dropped", "down", "lost", "retry", "sleep", "exit"}
Events == {"none", "Connected", "Disconnected", "Reconnecting", "Error"}

Init ==
    /\ running = FALSE /\ listening = FALSE /\ closed = FALSE
    /\ conn = NoSocket /\ open = {} /\ sock = NoSocket
    /\ caller = "idle" /\ pc = "none"
    /\ delay = 1 /\ event = "none" /\ crashed = FALSE /\ starts = 0

-----------------------------------------------------------------------------
(* The controller. *)

\* Start when running is false: a fresh stopChan, and the listener goroutine.  (When running
\* is true Start returns nil and changes nothing.)
Start ==
    /\ caller = "idle" /\ ~running /\ starts < MaxStarts
    /\ running' = TRUE /\ closed' = FALSE /\ starts' = starts + 1
    /\ pc' = "check" /\ delay' = 1
    /\ UNCHANGED <<listening, conn, open, caller, sock, event, crashed>>

\* Stop past its early return: running is cleared first.
Stop ==
    /\ caller = "idle" /\ running
    /\ running' = FALSE /\ caller' = "unlisten"
    /\ UNCHANGED <<listening, closed, conn, open, pc, sock, delay, event, crashed, starts>>

StopListening ==
    /\ caller = "unlisten" /\ caller' = "closeStop"
    /\ listening' = FALSE
    /\ UNCHANGED <<running, closed, conn, open, pc, sock, delay, event, crashed, starts>>

CloseStopChan ==
    /\ caller = "closeStop" /\ caller' = "closeConn"
    /\ closed' = TRUE
    /\ UNCHANGED <<running, listening, conn, open, pc, sock, delay, event, crashed, starts>>

\* closeConn, under reconnectMux: the socket is closed and the pointer becomes nil.
Closed == conn' = NoSocket /\ open' = open \ {conn}

\* Mutant of StopCloseConn: Stop joins a goroutine whose socket is still open.
StopWithoutClose ==
    /\ caller = "closeConn" /\ caller' = "wait"
    /\ UNCHANGED <<running, listening, closed, conn, open, pc, sock, delay, event, crashed, starts>>

StopCloseConn ==
    /\ caller = "closeConn" /\ caller' = "wait"
    /\ Closed
    /\ UNCHANGED <<running, listening, closed, pc, sock, delay, event, crashed, starts>>

\* waitGroup.Wait returns once the goroutine is gone; Stop returns with it.
Wait ==
    /\ caller = "wait" /\ pc = "none"
    /\ caller' = "idle"
    /\ UNCHANGED <<running, listening, closed, conn, open, pc, sock, delay, event, crashed, starts>>

-----------------------------------------------------------------------------
(* The goroutine: listenWithReconnect and listenLoop. *)

Goto(from, to) == pc = from /\ pc' = to

\* emitStateEvent: the state handler is called with e.
Emit(from, e, to) ==
    /\ Goto(from, to) /\ event' = e
    /\ UNCHANGED <<running, listening, closed, conn, open, caller, sock, delay, crashed, starts>>

\* The loop condition.
Check ==
    /\ pc = "check" /\ pc' = IF running THEN "setup" ELSE "exit"
    /\ UNCHANGED <<control, listening, conn, open, sock, delay, event, crashed>>

\* setupSocket, under reconnectMux, whatever running has become since.
SetupSocket ==
    /\ Goto("setup", "listen")
    /\ \E s \in Socket \ open : conn' = s /\ open' = open \cup {s}
    /\ UNCHANGED <<control, listening, sock, delay, event, crashed>>

\* setupSocket fails: not listening, Error, Reconnecting, a longer delay.
SetupFails ==
    /\ Goto("setup", "failed") /\ listening' = FALSE
    /\ UNCHANGED <<control, conn, open, sock, delay, event, crashed>>

SetupError == Emit("failed", "Error", "retry")

Listen ==
    /\ Goto("listen", "connected")
    /\ listening' = TRUE /\ delay' = 1
    /\ UNCHANGED <<control, conn, open, sock, event, crashed>>

Connected == Emit("connected", "Connected", "addr")

\* A dereference of conn without reconnectMux: nil ends the process.
Deref(from, to) ==
    /\ pc = from
    /\ IF conn = NoSocket THEN crashed' = TRUE /\ UNCHANGED <<pc, sock>>
       ELSE pc' = to /\ sock' = conn /\ UNCHANGED crashed
    /\ UNCHANGED <<control, listening, conn, open, delay, event>>

\* The log line evaluates t.conn.LocalAddr().
LocalAddr == Deref("addr", "select")

\* The select of listenLoop: a closed stopChan ends it with nil.
Select ==
    /\ pc = "select" /\ pc' = IF closed THEN "exit" ELSE "read"
    /\ UNCHANGED <<control, listening, conn, open, sock, delay, event, crashed>>

ReadFromUDP == Deref("read", "blocked")

\* A datagram: undecodable ones and the ones sanitizeInbound refuses are dropped, the others
\* go to the packet handler.  Either way the loop goes round.
Datagram ==
    /\ Goto("blocked", "select") /\ sock \in open
    /\ UNCHANGED <<control, listening, conn, open, sock, delay, event, crashed>>

\* Mutant of ReadEnds: every read error ends the goroutine.
ReadGivesUp ==
    /\ pc = "blocked" /\ pc' = "exit"
    /\ UNCHANGED <<control, listening, conn, open, sock, delay, event, crashed>>

\* ReadFromUDP fails because the socket was closed under it, or on an I/O error.  The loop
\* returns nil when the transport has been stopped and the error otherwise.
ReadEnds ==
    /\ pc = "blocked" /\ pc' = IF running THEN "dropped" ELSE "exit"
    /\ UNCHANGED <<control, listening, conn, open, sock, delay, event, crashed>>

ReadClosed == sock \notin open /\ ReadEnds

ReadError == sock \in open /\ ReadEnds

\* Mutant of DropConn: the broken socket is not closed.
DropWithoutClose ==
    /\ Goto("dropped", "down")
    /\ UNCHANGED <<control, listening, conn, open, sock, delay, event, crashed>>

\* The retry path after a read error: closeConn, then listening, then the events.
DropConn ==
    /\ Goto("dropped", "down") /\ Closed
    /\ UNCHANGED <<control, listening, sock, delay, event, crashed>>

Unlisten ==
    /\ Goto("down", "lost")
    /\ listening' = FALSE
    /\ UNCHANGED <<control, conn, open, sock, delay, event, crashed>>

Disconnected == Emit("lost", "Disconnected", "retry")

Reconnecting == Emit("retry", "Reconnecting", "sleep")

\* time.Sleep(delay), then the delay doubles up to maxReconnectDelay.  The sleep watches
\* neither stopChan nor running.
MinDuration(a, b) == IF a < b THEN a ELSE b

Sleep ==
    /\ Goto("sleep", "check")
    /\ delay' = MinDuration(2 * delay, MaxReconnectDelay)
    /\ UNCHANGED <<control, listening, conn, open, sock, event, crashed>>

\* Mutant of Exit: the last store of listening is missing.
ExitSilently ==
    /\ Goto("exit", "none")
    /\ UNCHANGED <<control, listening, conn, open, sock, delay, event, crashed>>

\* The last store, then waitGroup.Done.
Exit ==
    /\ Goto("exit", "none")
    /\ listening' = FALSE
    /\ UNCHANGED <<control, conn, open, sock, delay, event, crashed>>

-----------------------------------------------------------------------------
Controller == Start \/ Stop \/ StopListening \/ CloseStopChan \/ StopCloseConn \/ Wait

Listener ==
    \/ Check \/ SetupSocket \/ SetupFails \/ SetupError \/ Listen \/ Connected \/ LocalAddr
    \/ Select \/ ReadFromUDP \/ Datagram \/ ReadClosed \/ ReadError
    \/ DropConn \/ Unlisten \/ Disconnected \/ Reconnecting \/ Sleep \/ Exit

Next == ~crashed /\ (Controller \/ Listener)

Spec == Init /\ [][Next]_vars

\* A goroutine that can run does run, sleeps end, state handlers return, and a Stop that was
\* called goes on.  Nobody is obliged to call Start or Stop, to send a datagram or to break a
\* socket.  Binding the socket does not fail for ever.
Progress ==
    \/ Check \/ SetupError \/ Listen \/ Connected \/ LocalAddr \/ Select \/ ReadFromUDP
    \/ ReadClosed \/ DropConn \/ Unlisten \/ Disconnected \/ Reconnecting \/ Sleep \/ Exit
    \/ SetupSocket \/ SetupFails

FairSpec ==
    /\ Spec
    /\ WF_vars(~crashed /\ Progress)
    /\ WF_vars(~crashed /\ (StopListening \/ CloseStopChan \/ StopCloseConn \/ Wait))
    /\ SF_vars(~crashed /\ SetupSocket)

-----------------------------------------------------------------------------
(* Properties. *)

\* The types of the variables; the retry delay stays between the first delay and
\* maxReconnectDelay (the minDuration of listenWithReconnect).
TypeOK ==
    /\ running \in BOOLEAN /\ listening \in BOOLEAN /\ closed \in BOOLEAN /\ crashed \in BOOLEAN
    /\ conn \in Socket \cup {NoSocket} /\ sock \in Socket \cup {NoSocket} /\ open \subseteq Socket
    /\ caller \in CallerSteps /\ pc \in ListenerSteps /\ event \in Events
    /\ delay \in 1..MaxReconnectDelay /\ starts \in 0..MaxStarts

\* Once Stop has returned, no goroutine is left that could still call a handler, and
\* IsConnected says false, although the goroutine may have stored TRUE in listening after
\* Stop stored FALSE.
StopJoins == caller = "idle" /\ ~running => pc = "none" /\ ~listening

\* A transport that is up and reports itself connected has a bound socket behind t.conn,
\* except while the goroutine is between closing a broken socket and saying so.
ConnectedHasSocket == running /\ listening /\ pc # "down" => conn \in open

\* However often the listener reconnects, it holds one socket: only a Stop can leave one
\* behind, so there are never more open sockets than there were Starts.
ReconnectsDoNotLeak == Cardinality(open) <= starts

\* Every Stop returns: the socket is closed before the goroutine is joined, so that a
\* goroutine blocked in ReadFromUDP wakes up (the comment in Stop).
StopReturns == caller # "idle" ~> caller = "idle" \/ crashed

\* A running transport that is not connected becomes connected again, unless it is stopped:
\* neither a failed bind nor a read error ends the retries of listenWithReconnect.
Reconnects == running /\ ~listening ~> listening \/ ~running \/ crashed

\* What "Stop gracefully shuts down the transport" (transport/interfaces.go) promises: no
\* call of Stop ends the process by way of a nil t.conn.
NeverCrashes == ~crashed

\* And: once Stop has returned, the transport holds no socket.
StopReleases == caller = "idle" /\ ~running => open = {}
=============================================================================
