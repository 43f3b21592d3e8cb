--------------------------- MODULE QueryExchange ---------------------------
(***************************************************************************)
(* Queries through the hub: the goroutine of each HTTP request, which runs *)
(* handleQuery (hub/internal/server/server.go) and ExecuteQuery            *)
(* (hub/internal/server/grpc.go), the stream handlers that hand it its     *)
(* result, and the source that executes the query in between.              *)
(*                                                                         *)
(* As in HubSessions, a step ends where the code takes or lets go of a     *)
(* mutex or uses a channel.  A query's response channel is the buffer      *)
(* named answer, of capacity one, and its place in closed.  The payload of *)
(* a query and of its result, success or failure, is left out: a result is *)
(* the id of the query it answers.                                         *)
(***************************************************************************)
EXTENDS HubSessions

CONSTANT Queries   \* the HTTP requests made during a run

VARIABLES
    qpc,             \* where ExecuteQuery stands for each query
    request,         \* query -> its id and the source selected for it
    via,             \* query -> the stream it is sent on
    pendingQueries,  \* query id -> query that owns the response channel
    answer,          \* query -> results in its response channel
    closed,          \* queries whose response channel is closed
    held,            \* handler -> the result it is about to hand over
    outcome,         \* query -> what ExecuteQuery returns
    runs,            \* history: how often a source has executed each id
    panicked         \* the hub process has died

queryVars == <<qpc, request, via, pendingQueries, answer, closed, held, outcome, runs,
               panicked>>
vars == <<hubVars, queryVars>>

QueryStates == {"idle", "routed", "found", "sending", "waiting", "leaving", "closing", "done"}
Outcomes == {"refused", "answered", "failed"}

Init ==
    /\ SessionsInit
    /\ qpc = [q \in Queries |-> "idle"]
    /\ request = EmptyMap
    /\ via = EmptyMap
    /\ pendingQueries = EmptyMap
    /\ answer = EmptyMap
    /\ closed = {}
    /\ held = EmptyMap
    /\ outcome = EmptyMap
    /\ runs = [i \in QueryIds |-> 0]
    /\ panicked = FALSE

\* A panic ends the process, and with it everything this specification is about.
Alive == ~panicked

Move(q, from, to) ==
    /\ Alive
    /\ qpc[q] = from
    /\ qpc' = [qpc EXCEPT ![q] = to]

Return(q, result) == outcome' = Put(outcome, q, result)

-----------------------------------------------------------------------------
(* ExecuteQuery *)

\* A slip: the counter is not advanced.
AnyId == QueryIds

\* The ids nextQueryID has not handed out yet.
FreshIds == QueryIds \ {request[q].id : q \in DOMAIN request}

\* Wrong token or operation not permitted, or no source for the query.
Deny(q) ==
    /\ Move(q, "idle", "done")
    /\ Return(q, "refused")
    /\ UNCHANGED <<hubVars, request, via, pendingQueries, answer, closed, held, runs, panicked>>

Route(q, label, op) ==
    /\ Move(q, "idle", "routed")
    /\ SelectSource(label, op)
    /\ \E id \in FreshIds :
          request' = Put(request, q, [id |-> id, source |-> Selected(label, op)])
    /\ UNCHANGED <<sessionVars, via, pendingQueries, answer, closed, held, outcome, runs,
                   panicked>>

FindStream(q) ==
    /\ Move(q, "routed", "found")
    /\ request[q].source \in DOMAIN activeStreams
    /\ via' = Put(via, q, activeStreams[request[q].source])
    /\ UNCHANGED <<hubVars, request, pendingQueries, answer, closed, held, outcome, runs,
                   panicked>>

\* A slip: the stream is used without looking whether it was found.
NilStream(q) ==
    /\ Move(q, "routed", "found")
    /\ request[q].source \notin DOMAIN activeStreams
    /\ via' = Put(via, q, "nil")
    /\ UNCHANGED <<hubVars, request, pendingQueries, answer, closed, held, outcome, runs,
                   panicked>>

NoStream(q) ==
    /\ Move(q, "routed", "done")
    /\ request[q].source \notin DOMAIN activeStreams
    /\ Return(q, "refused")
    /\ UNCHANGED <<hubVars, request, via, pendingQueries, answer, closed, held, runs, panicked>>

AddPending(q) ==
    /\ Move(q, "found", "sending")
    /\ answer' = Put(answer, q, <<>>)
    /\ pendingQueries' = Put(pendingQueries, request[q].id, q)
    /\ UNCHANGED <<hubVars, request, via, closed, held, outcome, runs, panicked>>

\* A slip: the query goes out on the stream its source has by now.
SendOnCurrentStream(q) ==
    /\ Move(q, "sending", "waiting")
    /\ request[q].source \in DOMAIN activeStreams
    /\ SendSucceeds(activeStreams[request[q].source], request[q].id)
    /\ UNCHANGED <<routerVars, handlerVars, activeStreams, gauges, check, peer, toHub,
                   request, via, pendingQueries, answer, closed, held, outcome, runs, panicked>>

\* The send has no deadline of its own: it waits while the stream is full.
SendQuery(q) ==
    /\ Move(q, "sending", "waiting")
    /\ SendSucceeds(via[q], request[q].id)
    /\ UNCHANGED <<routerVars, handlerVars, activeStreams, gauges, check, peer, toHub,
                   request, via, pendingQueries, answer, closed, held, outcome, runs, panicked>>

\* A slip: an early return before the deferred function is set up.
SendFailureLeaks(q) ==
    /\ Move(q, "sending", "done")
    /\ SendFails(via[q])
    /\ Return(q, "failed")
    /\ UNCHANGED <<hubVars, request, via, pendingQueries, answer, closed, held, runs, panicked>>

SendQueryFails(q) ==
    /\ Move(q, "sending", "leaving")
    /\ SendFails(via[q])
    /\ Return(q, "failed")
    /\ UNCHANGED <<hubVars, request, via, pendingQueries, answer, closed, held, runs, panicked>>

TakeResult(q) ==
    /\ Move(q, "waiting", "leaving")
    /\ answer[q] # <<>>
    /\ answer' = [answer EXCEPT ![q] = Tail(@)]
    /\ Return(q, "answered")
    /\ UNCHANGED <<hubVars, request, via, pendingQueries, closed, held, runs, panicked>>

\* A slip: the query is sent again when its time is over.
SendAgain(q) ==
    /\ Move(q, "waiting", "sending")
    /\ UNCHANGED <<hubVars, request, via, pendingQueries, answer, closed, held, outcome, runs,
                   panicked>>

\* A slip: the result is waited for without a timeout.
WaitForEver(q) ==
    /\ Move(q, "waiting", "waiting")
    /\ UNCHANGED <<hubVars, request, via, pendingQueries, answer, closed, held, outcome, runs,
                   panicked>>

\* The thirty seconds are over, or the caller has gone; select may choose this
\* branch even when a result is there.
GiveUp(q) ==
    /\ Move(q, "waiting", "leaving")
    /\ Return(q, "failed")
    /\ UNCHANGED <<hubVars, request, via, pendingQueries, answer, closed, held, runs, panicked>>

\* The deferred function: the entry goes under the lock, then the channel is closed.
RemovePending(q) ==
    /\ Move(q, "leaving", "closing")
    /\ pendingQueries' = Delete(pendingQueries, request[q].id)
    /\ UNCHANGED <<hubVars, request, via, answer, closed, held, outcome, runs, panicked>>

CloseChannel(q) ==
    /\ Move(q, "closing", "done")
    /\ closed' = closed \union {q}
    /\ UNCHANGED <<hubVars, request, via, pendingQueries, answer, held, outcome, runs, panicked>>

Query(q) ==
    \/ FindStream(q) \/ NoStream(q) \/ AddPending(q) \/ SendQuery(q) \/ SendQueryFails(q)
    \/ TakeResult(q) \/ GiveUp(q) \/ RemovePending(q) \/ CloseChannel(q)

-----------------------------------------------------------------------------
(* handleQueryResult, in the handler of the stream the result came on *)

\* The lookup under the read lock.  Nobody waits for a result that is not found.
LookupPending(s) ==
    LET id == Head(toHub[s]) IN
    /\ Alive
    /\ At(s, "serving")
    /\ toHub[s] # <<>>
    /\ id \in QueryIds
    /\ toHub' = [toHub EXCEPT ![s] = Tail(@)]
    /\ IF id \in DOMAIN pendingQueries
       THEN /\ Goto(s, "delivering")
            /\ held' = Put(held, s, [query |-> pendingQueries[id], result |-> id])
       ELSE UNCHANGED <<pc, held>>
    /\ UNCHANGED <<routerVars, reg, wasHealthy, activeStreams, gauges, check, peer, toSource,
                   qpc, request, via, pendingQueries, answer, closed, outcome, runs, panicked>>

\* The send on the channel, outside the lock: a closed channel is a panic, and
\* a result the channel has no room for is dropped.
Deliver(s) ==
    LET q == held[s].query IN
    /\ Alive
    /\ At(s, "delivering")
    /\ Goto(s, "serving")
    /\ held' = Delete(held, s)
    /\ panicked' = (q \in closed)
    /\ answer' = IF q \notin closed /\ answer[q] = <<>>
                 THEN [answer EXCEPT ![q] = <<held[s].result>>]
                 ELSE answer
    /\ UNCHANGED <<routerVars, reg, wasHealthy, activeStreams, gauges, check, wire,
                   qpc, request, via, pendingQueries, closed, outcome, runs>>

-----------------------------------------------------------------------------
(* handleQueryExecution of the source *)

\* The source executes one query at a time, in its receive loop, and sends the
\* result, an error included, before it reads on.
ExecuteOperation(s) ==
    LET id == Head(toSource[s]) IN
    /\ Alive
    /\ peer[s] = "serving"
    /\ toSource[s] # <<>>
    /\ id \in QueryIds
    /\ Len(toHub[s]) < MaxInFlight
    /\ runs' = [runs EXCEPT ![id] = @ + 1]
    /\ toSource' = [toSource EXCEPT ![s] = Tail(@)]
    /\ toHub' = [toHub EXCEPT ![s] = Append(@, id)]
    /\ UNCHANGED <<routerVars, handlerVars, activeStreams, gauges, check, peer,
                   qpc, request, via, pendingQueries, answer, closed, held, outcome, panicked>>

\* The source dies while it executes: the query has run and nobody answers it.
ExecuteAndDie(s) ==
    LET id == Head(toSource[s]) IN
    /\ Alive
    /\ peer[s] = "serving"
    /\ toSource[s] # <<>>
    /\ id \in QueryIds
    /\ runs' = [runs EXCEPT ![id] = @ + 1]
    /\ Close(s)
    /\ UNCHANGED <<routerVars, handlerVars, activeStreams, gauges, check, toHub,
                   qpc, request, via, pendingQueries, answer, closed, held, outcome, panicked>>

\* A step of HubSessions, which leaves the queries alone.
HandlerStep(s) == Alive /\ Handler(s) /\ UNCHANGED queryVars

CheckerStep(c) == Alive /\ Checker(c) /\ UNCHANGED queryVars

TickStep == Alive /\ CheckAllSources /\ UNCHANGED queryVars

SourceStep(s) == Alive /\ SourceNext(s) /\ UNCHANGED queryVars

LinkStep(s) == Alive /\ (ReportError(s) \/ Disconnect(s)) /\ UNCHANGED queryVars

OpenStep(s) ==
    /\ Alive
    /\ \E name \in Names, label \in Labels, auth \in BOOLEAN : OpenStream(s, name, label, auth)
    /\ UNCHANGED queryVars

\* Without room for checks the monitor has no ticks.
Next ==
    \/ \E q \in Queries : Deny(q) \/ Query(q)
    \/ \E q \in Queries, label \in Labels, op \in Ops : Route(q, label, op)
    \/ \E s \in Streams :
          \/ LookupPending(s) \/ Deliver(s) \/ ExecuteOperation(s) \/ ExecuteAndDie(s)
          \/ HandlerStep(s) \/ SourceStep(s) \/ LinkStep(s) \/ OpenStep(s)
    \/ \E c \in Checkers : TickStep \/ CheckerStep(c)

Spec == Init /\ [][Next]_vars

-----------------------------------------------------------------------------

Request == [id: QueryIds, source: Names]
Result == [query: Queries, result: QueryIds]

\* The shape of the state of the queries.
QueriesTypeOK ==
    /\ qpc \in [Queries -> QueryStates]
    /\ DOMAIN request \subseteq Queries /\ \A q \in DOMAIN request : request[q] \in Request
    /\ DOMAIN via \subseteq Queries /\ \A q \in DOMAIN via : via[q] \in Streams
    /\ DOMAIN pendingQueries \subseteq QueryIds
    /\ \A i \in DOMAIN pendingQueries : pendingQueries[i] \in Queries
    /\ DOMAIN answer \subseteq Queries /\ \A q \in DOMAIN answer : answer[q] \in Seq(QueryIds)
    /\ closed \subseteq Queries
    /\ DOMAIN held \subseteq Streams /\ \A s \in DOMAIN held : held[s] \in Result
    /\ DOMAIN outcome \subseteq Queries /\ \A q \in DOMAIN outcome : outcome[q] \in Outcomes
    /\ runs \in [QueryIds -> Nat]
    /\ panicked \in BOOLEAN

\* pendingQueries holds the queries between their insertion and their deferred
\* delete, each under its own id, and nothing else: no way out of ExecuteQuery
\* leaks an entry, and no query takes the entry of another away.
PendingQueriesExact ==
    /\ \A q \in Queries : qpc[q] \in {"sending", "waiting", "leaving"} =>
          request[q].id \in DOMAIN pendingQueries /\ pendingQueries[request[q].id] = q
    /\ \A i \in DOMAIN pendingQueries :
          /\ qpc[pendingQueries[i]] \in {"sending", "waiting", "leaving"}
          /\ request[pendingQueries[i]].id = i

\* A handler that has found the channel of a query hands over the result of
\* that query, and finds room for it: the branch that drops a result because the
\* channel is full is never taken.
ResultFits ==
    \A s \in DOMAIN held :
        /\ held[s].result = request[held[s].query].id
        /\ answer[held[s].query] = <<>>

\* A query travels on the stream it was sent on and nowhere else, and that stream
\* belongs to the source SelectSource chose: with sources that come back under
\* their name, the result still comes from the source the trace names.
OnSelectedSource ==
    \A q \in DOMAIN via :
        /\ reg[via[q]].name = request[q].source
        /\ \A s \in Streams \ {via[q]} :
              \A queue \in {toSource[s], toHub[s]} :
                  \A i \in DOMAIN queue : queue[i] # request[q].id

\* The exchange implements the service: a query is executed at most once, an
\* answered one has been executed, and one refused for want of a source or of a
\* permission never is, not even later by a source that comes back.
Service == INSTANCE QueryService WITH
    status <- [q \in Queries |-> IF q \in DOMAIN outcome THEN outcome[q]
                                 ELSE IF q \in DOMAIN request THEN "open" ELSE "new"],
    runs <- [q \in Queries |-> IF q \in DOMAIN request THEN runs[request[q].id] ELSE 0]

ImplementsService == Service!ServiceSpec

-----------------------------------------------------------------------------
(* What the code says of itself and does not do. *)

\* A result that nobody waits for any more costs a warning, "query_result_dropped"
\* (grpc.go:334), and the hub goes on.
LateResultHarmless == ~panicked

=============================================================================
