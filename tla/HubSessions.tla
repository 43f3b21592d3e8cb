---------------------------- MODULE HubSessions ----------------------------
(***************************************************************************)
(* The hub's side of the source connections: one ConnectSource handler per *)
(* gRPC stream (hub/internal/server/grpc.go), the goroutines of the health *)
(* monitor (hub/internal/health/health.go), the router they share, and the *)
(* sources at the other end of the streams.                                *)
(*                                                                         *)
(* A handler is a goroutine; its steps are cut where it takes a mutex, so  *)
(* every interleaving of two handlers over activeStreams and the router is *)
(* a behaviour.  A stream is used once: a source that reconnects opens     *)
(* another one, whether or not the hub has noticed the end of the first.   *)
(*                                                                         *)
(* gRPC is external: a stream is a pair of queues, in order and lossless   *)
(* while both ends are up; MaxInFlight bounds them, as flow control does.  *)
(***************************************************************************)
EXTENDS Router

CONSTANTS
    Streams,      \* the streams opened during a run
    Slots,        \* concurrent health checks of one source
    MaxInFlight,  \* messages a stream holds in one direction
    QueryIds,     \* the ids of the queries the streams carry, and their results
    Exclusive     \* TRUE: a source never has two open streams at a time

ASSUME SessionsAssumption ==
    /\ IsFiniteSet(Streams)
    /\ MaxInFlight \in Nat \ {0}
    /\ Exclusive \in BOOLEAN

VARIABLES
    pc,             \* where the handler of each stream stands
    reg,            \* stream -> its registration message
    wasHealthy,     \* the local of cleanup with that name
    activeStreams,  \* source name -> stream
    connected,      \* gauge SourcesConnected
    healthyGauge,   \* gauge SourcesHealthy
    check,          \* the goroutines of the health monitor
    peer,           \* the source's end of each stream
    toSource,       \* stream -> messages under way to the source
    toHub           \* stream -> messages under way to the hub

handlerVars == <<pc, reg, wasHealthy>>
gauges == <<connected, healthyGauge>>
wire == <<peer, toSource, toHub>>
sessionVars == <<pc, reg, wasHealthy, activeStreams, connected, healthyGauge,
                 check, peer, toSource, toHub>>
hubVars == <<sources, labels, robin, pc, reg, wasHealthy, activeStreams,
             connected, healthyGauge, check, peer, toSource, toHub>>

\* The handler's position, named for what it has done last.
HandlerStates ==
    {"idle", "receiving", "placed", "duplicate", "registered", "counted",
     "serving", "delivering", "closing", "dropped", "read", "unregistered", "done"}

\* The handler's name is in the router because the handler put it there.
Owning == {"registered", "counted", "serving", "delivering", "closing", "dropped", "read"}

\* The handler is included in the gauges.
Counted == {"counted", "serving", "delivering", "closing", "dropped", "read", "unregistered"}

\* Its stream may be the one in activeStreams.
Placed == {"placed", "duplicate", "registered", "counted", "serving", "delivering", "closing"}

PeerStates == {"idle", "connecting", "serving", "closed"}

\* What the two directions of a stream carry.  A query and its result are their
\* id here; QueryExchange has the steps that send and handle them.
Reports == {"healthy", "unhealthy", "error"}
Controls == {"ack", "check"}
SourceMessages == Reports \union QueryIds
HubMessages == Controls \union QueryIds

\* A message says of what kind it is.
ASSUME KindsAssumption == QueryIds \intersect (Reports \union Controls) = {}

Checkers == Names \X Slots
IdleCheck == [state |-> "idle", stream |-> {}]

SessionsInit ==
    /\ RouterInit
    /\ pc = [s \in Streams |-> "idle"]
    /\ reg = EmptyMap
    /\ wasHealthy = [s \in Streams |-> FALSE]
    /\ activeStreams = EmptyMap
    /\ connected = 0
    /\ healthyGauge = 0
    /\ check = [c \in Checkers |-> IdleCheck]
    /\ peer = [s \in Streams |-> "idle"]
    /\ toSource = [s \in Streams |-> <<>>]
    /\ toHub = [s \in Streams |-> <<>>]

At(s, state) == pc[s] = state
Goto(s, state) == pc' = [pc EXCEPT ![s] = state]

PeerOpen(s) == peer[s] \in {"connecting", "serving"}

\* stream.Send of the hub succeeds.  The transport may take a message for a
\* peer that has already gone; the message is then lost.
SendSucceeds(s, message) ==
    /\ pc[s] # "done"
    /\ IF PeerOpen(s)
       THEN /\ Len(toSource[s]) < MaxInFlight
            /\ toSource' = [toSource EXCEPT ![s] = Append(@, message)]
       ELSE UNCHANGED toSource

\* stream.Send of the hub returns an error.
SendFails(s) == peer[s] = "closed" \/ pc[s] = "done"

-----------------------------------------------------------------------------
(* ConnectSource *)

\* The first message is no registration, carries a wrong token or never comes.
RejectStream(s) ==
    /\ At(s, "receiving")
    /\ ~reg[s].auth \/ ~PeerOpen(s)
    /\ Goto(s, "done")
    /\ UNCHANGED <<routerVars, reg, wasHealthy, activeStreams, gauges, check, wire>>

\* The registration is accepted and the stream replaces the one under its name.
PlaceStream(s) ==
    /\ At(s, "receiving")
    /\ reg[s].auth
    /\ activeStreams' = Put(activeStreams, reg[s].name, s)
    /\ Goto(s, "placed")
    /\ UNCHANGED <<routerVars, reg, wasHealthy, gauges, check, wire>>

RegisterStream(s) ==
    /\ At(s, "placed")
    /\ RegisterSource(reg[s].name, reg[s].label, Ops)
    /\ Goto(s, "registered")
    /\ UNCHANGED <<reg, wasHealthy, activeStreams, gauges, check, wire>>

\* A slip: the error is logged and the handler goes on.
RegisterErrorIgnored(s) ==
    /\ At(s, "placed")
    /\ Registered(reg[s].name)
    /\ Goto(s, "registered")
    /\ UNCHANGED <<routerVars, reg, wasHealthy, activeStreams, gauges, check, wire>>

RegisterFails(s) ==
    /\ At(s, "placed")
    /\ Registered(reg[s].name)
    /\ Goto(s, "duplicate")
    /\ UNCHANGED <<routerVars, reg, wasHealthy, activeStreams, gauges, check, wire>>

\* The entry under the name goes, whichever stream it holds.
DropDuplicate(s) ==
    /\ At(s, "duplicate")
    /\ activeStreams' = Delete(activeStreams, reg[s].name)
    /\ Goto(s, "done")
    /\ UNCHANGED <<routerVars, reg, wasHealthy, gauges, check, wire>>

\* The two gauges are atomic counters; nothing reads one against the other.
CountSource(s) ==
    /\ At(s, "registered")
    /\ connected' = connected + 1
    /\ healthyGauge' = healthyGauge + 1
    /\ Goto(s, "counted")
    /\ UNCHANGED <<routerVars, reg, wasHealthy, activeStreams, check, wire>>

SendAck(s) ==
    /\ At(s, "counted")
    /\ \/ SendSucceeds(s, "ack") /\ Goto(s, "serving")
       \/ SendFails(s) /\ Goto(s, "closing") /\ UNCHANGED toSource
    /\ UNCHANGED <<routerVars, reg, wasHealthy, activeStreams, gauges, check, peer, toHub>>

\* handleHealthStatus and handleSourceError.
HandleMessage(s, message) ==
    IF message = "healthy" THEN MarkHealthy(reg[s].name) ELSE MarkUnhealthy(reg[s].name)

Receive(s) ==
    /\ At(s, "serving")
    /\ toHub[s] # <<>>
    /\ Head(toHub[s]) \in Reports
    /\ HandleMessage(s, Head(toHub[s]))
    /\ toHub' = [toHub EXCEPT ![s] = Tail(@)]
    /\ UNCHANGED <<handlerVars, activeStreams, gauges, check, peer, toSource>>

\* The stream ended; messages not read yet may be lost with it.
ReceiveFails(s) ==
    /\ At(s, "serving")
    /\ peer[s] = "closed"
    /\ Goto(s, "closing")
    /\ toHub' = [toHub EXCEPT ![s] = <<>>]
    /\ UNCHANGED <<routerVars, reg, wasHealthy, activeStreams, gauges, check, peer, toSource>>

(* cleanup *)

\* A slip: the stream is forgotten in activeStreams.
StreamNotDropped(s) ==
    /\ At(s, "closing")
    /\ Goto(s, "dropped")
    /\ UNCHANGED <<routerVars, reg, wasHealthy, activeStreams, gauges, check, wire>>

\* The entry under the name goes, whichever stream it holds.
DropStream(s) ==
    /\ At(s, "closing")
    /\ activeStreams' = Delete(activeStreams, reg[s].name)
    /\ Goto(s, "dropped")
    /\ UNCHANGED <<routerVars, reg, wasHealthy, gauges, check, wire>>

ReadHealth(s) ==
    /\ At(s, "dropped")
    /\ wasHealthy' = [wasHealthy EXCEPT ![s] = Healthy(reg[s].name)]
    /\ Goto(s, "read")
    /\ UNCHANGED <<routerVars, reg, activeStreams, gauges, check, wire>>

\* A slip: the source is left in the router.
SourceNotUnregistered(s) ==
    /\ At(s, "read")
    /\ Goto(s, "unregistered")
    /\ UNCHANGED <<routerVars, reg, wasHealthy, activeStreams, gauges, check, wire>>

UnregisterStream(s) ==
    /\ At(s, "read")
    /\ UnregisterSource(reg[s].name)
    /\ Goto(s, "unregistered")
    /\ UNCHANGED <<reg, wasHealthy, activeStreams, gauges, check, wire>>

\* A slip: both gauges are decremented for a healthy source alone.
UncountHealthyOnly(s) ==
    /\ At(s, "unregistered")
    /\ connected' = IF wasHealthy[s] THEN connected - 1 ELSE connected
    /\ healthyGauge' = IF wasHealthy[s] THEN healthyGauge - 1 ELSE healthyGauge
    /\ Goto(s, "done")
    /\ UNCHANGED <<routerVars, reg, wasHealthy, activeStreams, check, wire>>

UncountSource(s) ==
    /\ At(s, "unregistered")
    /\ connected' = connected - 1
    /\ healthyGauge' = IF wasHealthy[s] THEN healthyGauge - 1 ELSE healthyGauge
    /\ Goto(s, "done")
    /\ UNCHANGED <<routerVars, reg, wasHealthy, activeStreams, check, wire>>

Handler(s) ==
    \/ RejectStream(s) \/ PlaceStream(s) \/ RegisterStream(s) \/ RegisterFails(s)
    \/ DropDuplicate(s) \/ CountSource(s) \/ SendAck(s) \/ Receive(s)
    \/ ReceiveFails(s) \/ DropStream(s) \/ ReadHealth(s) \/ UnregisterStream(s)
    \/ UncountSource(s)

-----------------------------------------------------------------------------
(* The health monitor *)

\* A tick starts one goroutine for every source registered at that moment.
\* Bound: it waits while some source has all its slots in use.
CheckAllSources ==
    LET free(n) == {k \in Slots : check[<<n, k>>] = IdleCheck} IN
    /\ DOMAIN sources # {}
    /\ \A n \in DOMAIN sources : free(n) # {}
    /\ \E slot \in [DOMAIN sources -> Slots] :
          /\ \A n \in DOMAIN sources : slot[n] \in free(n)
          /\ check' = [c \in Checkers |->
                          IF c[1] \in DOMAIN sources /\ slot[c[1]] = c[2]
                          THEN [IdleCheck EXCEPT !.state = "started"]
                          ELSE check[c]]
    /\ UNCHANGED <<routerVars, handlerVars, activeStreams, gauges, wire>>

\* SendHealthCheck looks the stream up under the lock and lets go of it.
LookupStream(c) ==
    /\ check[c].state = "started"
    /\ check' = [check EXCEPT ![c] =
                    IF c[1] \in DOMAIN activeStreams
                    THEN [state |-> "sending", stream |-> {activeStreams[c[1]]}]
                    ELSE [state |-> "failed", stream |-> {}]]
    /\ UNCHANGED <<routerVars, handlerVars, activeStreams, gauges, wire>>

SendCheck(c) ==
    /\ check[c].state = "sending"
    /\ \E s \in check[c].stream :
          \/ /\ SendSucceeds(s, "check")
             /\ check' = [check EXCEPT ![c] = [state |-> "sent", stream |-> {}]]
          \/ /\ SendFails(s)
             /\ check' = [check EXCEPT ![c] = [state |-> "failed", stream |-> {}]]
             /\ UNCHANGED toSource
    /\ UNCHANGED <<routerVars, handlerVars, activeStreams, gauges, peer, toHub>>

\* A check that could be sent counts as passed; the answer is not waited for.
MarkChecked(c) ==
    /\ \/ check[c].state = "sent" /\ MarkHealthy(c[1])
       \/ check[c].state = "failed" /\ MarkUnhealthy(c[1])
    /\ check' = [check EXCEPT ![c] = IdleCheck]
    /\ UNCHANGED <<handlerVars, activeStreams, gauges, wire>>

Checker(c) == LookupStream(c) \/ SendCheck(c) \/ MarkChecked(c)

-----------------------------------------------------------------------------
(* The sources *)

\* A source dials the hub, opens a stream and sends its registration.
OpenStream(s, name, label, auth) ==
    /\ peer[s] = "idle"
    /\ Exclusive => \A t \in DOMAIN reg : reg[t].name = name => peer[t] = "closed"
    /\ reg' = Put(reg, s, [name |-> name, label |-> label, auth |-> auth])
    /\ peer' = [peer EXCEPT ![s] = "connecting"]
    /\ Goto(s, "receiving")
    /\ UNCHANGED <<routerVars, wasHealthy, activeStreams, gauges, check, toSource, toHub>>

Close(s) ==
    /\ peer' = [peer EXCEPT ![s] = "closed"]
    /\ toSource' = [toSource EXCEPT ![s] = <<>>]

\* Connect takes the first message for the acknowledgment or gives up.
ReceiveAck(s) ==
    /\ peer[s] = "connecting"
    /\ toSource[s] # <<>>
    /\ IF Head(toSource[s]) = "ack"
       THEN /\ peer' = [peer EXCEPT ![s] = "serving"]
            /\ toSource' = [toSource EXCEPT ![s] = Tail(@)]
       ELSE Close(s)
    /\ UNCHANGED <<routerVars, handlerVars, activeStreams, gauges, check, toHub>>

\* A connected source answers a health check with the state of its backends
\* and ignores a further acknowledgment.
AnswerCheck(s) ==
    /\ peer[s] = "serving"
    /\ toSource[s] # <<>>
    /\ Head(toSource[s]) \in Controls
    /\ toSource' = [toSource EXCEPT ![s] = Tail(@)]
    /\ IF Head(toSource[s]) = "check"
       THEN /\ Len(toHub[s]) < MaxInFlight
            /\ \E health \in {"healthy", "unhealthy"} :
                  toHub' = [toHub EXCEPT ![s] = Append(@, health)]
       ELSE UNCHANGED toHub
    /\ UNCHANGED <<routerVars, handlerVars, activeStreams, gauges, check, peer>>

\* The protocol lets a source report an error of its own accord.
ReportError(s) ==
    /\ peer[s] = "serving"
    /\ Len(toHub[s]) < MaxInFlight
    /\ toHub' = [toHub EXCEPT ![s] = Append(@, "error")]
    /\ UNCHANGED <<routerVars, handlerVars, activeStreams, gauges, check, peer, toSource>>

\* The source stops, crashes or loses the connection.
Disconnect(s) ==
    /\ PeerOpen(s)
    /\ Close(s)
    /\ UNCHANGED <<routerVars, handlerVars, activeStreams, gauges, check, toHub>>

\* The handler returned, which ends the stream for the source.
StreamEnded(s) ==
    /\ PeerOpen(s)
    /\ pc[s] = "done"
    /\ Close(s)
    /\ UNCHANGED <<routerVars, handlerVars, activeStreams, gauges, check, toHub>>

SourceNext(s) == ReceiveAck(s) \/ AnswerCheck(s) \/ StreamEnded(s)

SessionsNext ==
    \/ \E s \in Streams : Handler(s) \/ SourceNext(s) \/ ReportError(s) \/ Disconnect(s)
    \/ \E s \in Streams, name \in Names, label \in Labels, auth \in BOOLEAN :
          OpenStream(s, name, label, auth)
    \/ CheckAllSources
    \/ \E c \in Checkers : Checker(c)

SessionsSpec == SessionsInit /\ [][SessionsNext]_hubVars

-----------------------------------------------------------------------------

Registration == [name: Names, label: Labels, auth: BOOLEAN]

\* The shape of the hub's state.
SessionsTypeOK ==
    /\ RouterTypeOK
    /\ pc \in [Streams -> HandlerStates]
    /\ DOMAIN reg \subseteq Streams
    /\ \A s \in DOMAIN reg : reg[s] \in Registration
    /\ wasHealthy \in [Streams -> BOOLEAN]
    /\ DOMAIN activeStreams \subseteq Names
    /\ \A n \in DOMAIN activeStreams : activeStreams[n] \in Streams
    /\ connected \in Int
    /\ healthyGauge \in Int
    /\ check \in [Checkers -> [state: {"idle", "started", "sending", "sent", "failed"},
                               stream: SUBSET Streams]]
    /\ peer \in [Streams -> PeerStates]
    /\ toSource \in [Streams -> Seq(HubMessages)]
    /\ toHub \in [Streams -> Seq(SourceMessages)]

Owns(s, n) == pc[s] \in Owning /\ reg[s].name = n

\* Every name in the router belongs to exactly one handler that has not yet
\* cleaned up, and is listed under the label of that handler's registration;
\* every such handler's name is there.  cleanup unregisters by name: were two
\* handlers to own one name, the end of one would take the other's source away.
OneOwner ==
    /\ \A s \in Streams : pc[s] \in Owning =>
          Registered(reg[s].name) /\ sources[reg[s].name].label = reg[s].label
    /\ \A n \in DOMAIN sources : \E s \in Streams : Owns(s, n)
    /\ \A s, t \in Streams : pc[s] \in Owning /\ pc[t] \in Owning /\ reg[s].name = reg[t].name
          => s = t

\* A stream found in activeStreams is one of that name whose handler is still
\* running, so a query is never sent on the stream of a finished handler just
\* because cleanup or a failed registration forgot its entry.
ActiveStreamsLive ==
    \A n \in DOMAIN activeStreams :
        /\ pc[activeStreams[n]] \in Placed
        /\ reg[activeStreams[n]].name = n

\* The gauge of connected sources counts the handlers between their Inc and
\* their Dec, whatever way each of them ended.
ConnectedGauge == connected = Cardinality({s \in Streams : pc[s] \in Counted})

-----------------------------------------------------------------------------
(* What the documentation or a comment says and the code does not do. *)

\* A source the hub has registered and selects for queries is a connected one
\* (router.go:16): once no other handler of its name is under way, the stream of
\* its handler is the one queries and health checks for that name are sent on.
RegisteredReachable ==
    \A s \in Streams :
        /\ pc[s] = "serving" /\ peer[s] = "serving"
        /\ \A t \in DOMAIN reg \ {s} : reg[t].name = reg[s].name => pc[t] = "done"
        => reg[s].name \in DOMAIN activeStreams /\ activeStreams[reg[s].name] = s

\* The acknowledgment is the first message of a stream; a source that finds
\* something else in its place drops the connection.
AckFirst ==
    \A s \in Streams : peer[s] = "connecting" /\ toSource[s] # <<>> =>
        Head(toSource[s]) = "ack"

=============================================================================
