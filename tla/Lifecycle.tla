------------------------------ MODULE Lifecycle ------------------------------
(***************************************************************************)
(* Node.Run and BridgeNode.Run with the broadcast scheduler: what is       *)
(* started, in which order, and what is left behind when the context is    *)
(* cancelled.  Every job of the scheduler has a goroutine and a ticker of  *)
(* its own; Scheduler.Start returns on cancellation without joining them.  *)
(***************************************************************************)
EXTENDS Naturals

CONSTANT Jobs     \* broadcasts the scheduler knows: NodeInfo and Position

VARIABLES
    kind,         \* "node" or "bridge"
    enabled,      \* jobs with an interval above zero
    ctx,          \* Run's context: "live" or "cancelled"
    run,          \* where Run is
    transport,    \* "idle", "running" or "stopped"
    scheduler,    \* where Scheduler.Start is
    api,          \* where clientapi's Server.Start is
    job,          \* job[j]: where the goroutine of job j is
    tick          \* tick[j]: its ticker's channel, of capacity one, is full

lifeVars == <<kind, enabled, ctx, run, transport, scheduler, api, job, tick>>

LifeInit ==
    /\ kind \in {"node", "bridge"} /\ enabled \in SUBSET Jobs
    /\ ctx = "live" /\ run = "install" /\ transport = "idle"
    /\ scheduler = "none" /\ api = "none"
    /\ job = [j \in Jobs |-> "none"] /\ tick = [j \in Jobs |-> FALSE]
-----------------------------------------------------------------------------
\* The handlers and the configured channels, all before the transport is started.
Install ==
    /\ run = "install" /\ run' = "start"
    /\ UNCHANGED <<kind, enabled, ctx, transport, scheduler, api, job, tick>>

\* transport.Start succeeds: the node starts its two goroutines and waits for them, the
\* bridge waits for the context.
Started ==
    /\ run = "start" /\ run' = "wait"
    /\ transport' = "running"
    /\ IF kind = "node" THEN scheduler' = "start" /\ api' = "serve"
                        ELSE UNCHANGED <<scheduler, api>>
    /\ UNCHANGED <<kind, enabled, ctx, job, tick>>

StartFails ==
    /\ run = "start" /\ run' = "failed"
    /\ UNCHANGED <<kind, enabled, ctx, transport, scheduler, api, job, tick>>

Cancel ==
    /\ ctx = "live" /\ ctx' = "cancelled"
    /\ UNCHANGED <<kind, enabled, run, transport, scheduler, api, job, tick>>

\* errgroup.Wait: both goroutines have returned; the transport is left as it is.
NodeReturns ==
    /\ run = "wait" /\ kind = "node" /\ scheduler = "returned" /\ api = "returned"
    /\ run' = "done"
    /\ UNCHANGED <<kind, enabled, ctx, transport, scheduler, api, job, tick>>

\* Mutant: the bridge returns as the node does.
BridgeReturnsAtOnce ==
    /\ run = "wait" /\ kind = "bridge" /\ ctx = "cancelled"
    /\ run' = "done"
    /\ UNCHANGED <<kind, enabled, ctx, transport, scheduler, api, job, tick>>

\* "cancelled, then stops the transport before returning".
BridgeReturns ==
    /\ run = "wait" /\ kind = "bridge" /\ ctx = "cancelled"
    /\ run' = "done" /\ transport' = "stopped"
    /\ UNCHANGED <<kind, enabled, ctx, scheduler, api, job, tick>>

\* Server.Start returns once the context is cancelled and its listener is closed.
ApiReturns ==
    /\ api = "serve" /\ ctx = "cancelled" /\ api' = "returned"
    /\ UNCHANGED <<kind, enabled, ctx, run, transport, scheduler, job, tick>>

\* listenTCP cannot listen: the server is gone, the node goes on without it.
ListenFails ==
    /\ api = "serve" /\ api' = "returned"
    /\ UNCHANGED <<kind, enabled, ctx, run, transport, scheduler, job, tick>>
-----------------------------------------------------------------------------
\* Scheduler.Start: one goroutine for every enabled job, each broadcasting at once.
ScheduleJobs ==
    /\ scheduler = "start" /\ scheduler' = "wait"
    /\ job' = [j \in Jobs |-> IF j \in enabled THEN "first" ELSE job[j]]
    /\ UNCHANGED <<kind, enabled, ctx, run, transport, api, tick>>

SchedulerReturns ==
    /\ scheduler = "wait" /\ ctx = "cancelled" /\ scheduler' = "returned"
    /\ UNCHANGED <<kind, enabled, ctx, run, transport, api, job, tick>>

\* The broadcast function returns; an error is logged and changes nothing.  The ticker
\* is created after the first broadcast.
Broadcast(j) ==
    /\ job[j] \in {"first", "again"}
    /\ job' = [job EXCEPT ![j] = "select"]
    /\ UNCHANGED <<kind, enabled, ctx, run, transport, scheduler, api, tick>>

\* External: the interval has passed; a tick nobody has taken is not queued twice.
Tick(j) ==
    /\ job[j] \in {"select", "again"} /\ ~tick[j]
    /\ tick' = [tick EXCEPT ![j] = TRUE]
    /\ UNCHANGED <<kind, enabled, ctx, run, transport, scheduler, api, job>>

\* select takes the tick, also when the context is done: Go picks a ready case at random.
SelectTick(j) ==
    /\ job[j] = "select" /\ tick[j]
    /\ tick' = [tick EXCEPT ![j] = FALSE]
    /\ job' = [job EXCEPT ![j] = "again"]
    /\ UNCHANGED <<kind, enabled, ctx, run, transport, scheduler, api>>

SelectDone(j) ==
    /\ job[j] = "select" /\ ctx = "cancelled"
    /\ job' = [job EXCEPT ![j] = "ended"]
    /\ UNCHANGED <<kind, enabled, ctx, run, transport, scheduler, api, tick>>

LifeNext ==
    \/ Install \/ Started \/ StartFails \/ Cancel
    \/ NodeReturns \/ BridgeReturns \/ ApiReturns \/ ListenFails
    \/ ScheduleJobs \/ SchedulerReturns
    \/ \E j \in Jobs : Broadcast(j) \/ Tick(j) \/ SelectTick(j) \/ SelectDone(j)
-----------------------------------------------------------------------------
\* Once the context is cancelled, at whatever moment, Run returns, every job's goroutine
\* ends although nobody joins it, and a bridge has stopped its transport.
WindsDown ==
    ctx = "cancelled" ~>
        /\ run \in {"done", "failed"}
        /\ \A j \in Jobs : job[j] \in {"none", "ended"}
        /\ kind = "bridge" /\ run = "done" => transport = "stopped"

\* Scheduler.Start "blocks until the context is cancelled", and Run with it; a broadcast
\* may still be going on, or begin, when both have returned.
QuietAfterRun == run = "done" => \A j \in Jobs : job[j] \in {"none", "ended"}
=============================================================================
