---------------------------- MODULE HubShutdown ----------------------------
(***************************************************************************)
(* The life of a hub process: its goroutines, the signal that ends it      *)
(* (hub/main.go), Stop (hub/internal/server/server.go) and what becomes of *)
(* the sessions and the queries meanwhile.  This is also where liveness is *)
(* stated, since a hub that is stopping is what liveness has to survive.   *)
(*                                                                         *)
(* Stop waits four times: for the health monitor, for the queries under    *)
(* way (five seconds at most), for the stream handlers (without a limit)   *)
(* and for the goroutines that serve.  stopPc names what it waits for.     *)
(***************************************************************************)
EXTENDS QueryExchange

VARIABLES
    stopPc,    \* where Stop stands
    running    \* the goroutines Stop waits for that have not returned

stopVars == <<stopPc, running>>
lifeVars == <<vars, stopVars>>

StopStates == {"up", "monitor", "http", "grpc", "wait", "exited"}

\* The monitor has a wait group of its own; the others share the server's.  The
\* server of the metrics page is shut down right after that of the queries, in
\* the same way; "http" stands for both.
Served == {"datadog", "grpc", "http"}
Goroutines == Served \union {"monitor"}

\* The sender of Datadog metrics runs only when an endpoint is configured.
LifeInit ==
    /\ Init
    /\ stopPc = "up"
    /\ running \in {Goroutines, Goroutines \ {"datadog"}}

\* The process runs.
Up == Alive /\ stopPc # "exited"

\* The HTTP server takes new queries until Shutdown closes its listener, and the
\* gRPC server new streams until GracefulStop does.
TakesQueries == stopPc \in {"up", "monitor"}
TakesStreams == stopPc \in {"up", "monitor", "http"}

StopMoves(from, to) ==
    /\ Up
    /\ stopPc = from
    /\ stopPc' = to
    /\ UNCHANGED vars

-----------------------------------------------------------------------------
(* Stop *)

\* SIGTERM or SIGINT.  Stop closes the channels of the metrics sender and of
\* the monitor before it waits for anything.  No other signal is looked at
\* from here on.
Signal == StopMoves("up", "monitor") /\ UNCHANGED running

Returns(goroutine) ==
    /\ goroutine \in running
    /\ running' = running \ {goroutine}
    /\ UNCHANGED <<vars, stopPc>>

\* A slip: the loop listens to the context alone, which Stop cancels later.
MonitorHearsContextOnly == Up /\ stopPc \notin {"up", "monitor"} /\ Returns("monitor")

\* The loop is between two ticks and finds stopCh closed; with a tick that is
\* due as well, select may take that one first.
MonitorLoopReturns == Up /\ stopPc # "up" /\ Returns("monitor")

\* The goroutines with a listener end with it; Serve of the gRPC server returns
\* only when GracefulStop has.
ServeReturns ==
    /\ Up
    /\ \/ stopPc # "up" /\ Returns("datadog")
       \/ stopPc \in {"http", "grpc", "wait"} /\ Returns("http")
       \/ stopPc = "wait" /\ Returns("grpc")

\* The checks the monitor has started are not waited for.
MonitorStopped == "monitor" \notin running /\ StopMoves("monitor", "http") /\ UNCHANGED running

\* Shutdown returns when the requests under way have ended or after five seconds,
\* whichever comes first; requests that are left go on.
HTTPShutdown == StopMoves("http", "grpc") /\ UNCHANGED running

\* A slip: Stop in place of GracefulStop, which does not wait for the handlers.
StopAtOnce == StopMoves("grpc", "wait") /\ UNCHANGED running

\* Waits for every stream handler, and nothing tells the sources to leave.
GracefulStop ==
    /\ \A s \in Streams : pc[s] \in {"idle", "done"}
    /\ StopMoves("grpc", "wait")
    /\ UNCHANGED running

Exit == running \intersect Served = {} /\ StopMoves("wait", "exited") /\ UNCHANGED running

StopNext ==
    \/ Signal \/ MonitorLoopReturns \/ ServeReturns
    \/ MonitorStopped \/ HTTPShutdown \/ GracefulStop \/ Exit

-----------------------------------------------------------------------------
(* The rest of the hub while it is up. *)

Meanwhile(step) == Up /\ step /\ UNCHANGED stopVars

NewQuery(q) ==
    /\ TakesQueries
    /\ Meanwhile(Deny(q) \/ \E label \in Labels, op \in Ops : Route(q, label, op))

NewStream(s) == TakesStreams /\ Meanwhile(OpenStep(s))

\* The loop checks the sources as long as it runs, during Stop as well.
Tick == "monitor" \in running /\ Meanwhile(TickStep)

LiveQuery(q) == Meanwhile(Query(q))
LiveHandler(s) == Meanwhile(HandlerStep(s) \/ LookupPending(s) \/ Deliver(s))
LiveSource(s) == Meanwhile(SourceStep(s) \/ ExecuteOperation(s))
LiveChecker(c) == Meanwhile(CheckerStep(c))

LifeNext ==
    \/ StopNext
    \/ \E q \in Queries : NewQuery(q) \/ LiveQuery(q)
    \/ \E s \in Streams :
          \/ NewStream(s) \/ LiveHandler(s) \/ LiveSource(s)
          \/ Meanwhile(LinkStep(s) \/ ExecuteAndDie(s))
    \/ Tick
    \/ \E c \in Checkers : LiveChecker(c)

LifeSpec == LifeInit /\ [][LifeNext]_lifeVars

\* Every goroutine that can run does, in the end, and a timer fires.  A stream
\* with room again and again lets a waiting send through: flow control serves
\* those who wait in order; and the source's loop, which shares the way to the
\* hub with nobody, gets its turn.  No source has to come, to leave or to
\* report, and nobody has to stop the hub.
Fairness ==
    /\ \A q \in Queries : WF_lifeVars(LiveQuery(q)) /\ SF_lifeVars(Meanwhile(SendQuery(q)))
    /\ \A s \in Streams : WF_lifeVars(LiveHandler(s)) /\ SF_lifeVars(LiveSource(s))
    /\ \A c \in Checkers : WF_lifeVars(LiveChecker(c))
    /\ WF_lifeVars(MonitorLoopReturns)
    /\ WF_lifeVars(ServeReturns)
    /\ WF_lifeVars(MonitorStopped \/ HTTPShutdown \/ GracefulStop \/ Exit)

FairSpec == LifeSpec /\ Fairness

-----------------------------------------------------------------------------

Ended == panicked \/ stopPc = "exited"

\* When the process exits of its own accord, every source has been cleaned up
\* after: every stream handler has returned, the router and the stream table are
\* empty, the gauge of connected sources is back at zero and the goroutines Stop
\* waits for are over.  It does not wait for the queries that are left after
\* five seconds nor for the health checks the monitor has started: those may be
\* cut short wherever they stand.  A check that is left finds the router empty,
\* so its mark, made or not, changes nothing.
ExitDrained ==
    stopPc = "exited" =>
        /\ running = {}
        /\ \A s \in Streams : pc[s] \in {"idle", "done"}
        /\ DOMAIN sources = {}
        /\ DOMAIN activeStreams = {}
        /\ connected = 0

\* A query that has been accepted ends, whether its source answers, is slow,
\* dies or never gets the query, and also while the hub is stopping.
QueryEnds == \A q \in Queries : qpc[q] = "routed" ~> (qpc[q] = "done" \/ Ended)

\* A name whose source has vanished is taken out of the router in the end, so
\* that a source can register under it again.
NameFreed ==
    \A n \in Names :
        (/\ Registered(n)
         /\ \A s \in DOMAIN reg : reg[s].name = n => peer[s] = "closed")
        ~> \/ ~Registered(n)
           \/ Ended
           \/ \E s \in DOMAIN reg : reg[s].name = n /\ PeerOpen(s)

\* Once the sources have gone, Stop returns: whatever the monitor, the checks it
\* has started and the queries are doing at the signal, none of the four waits
\* is for something that does not come.  As long as a source stays it does
\* wait: GracefulStop has no limit, and a source leaves of its own accord only.
StopReturns == stopPc # "up" ~> (Ended \/ \E s \in Streams : PeerOpen(s))

=============================================================================
