# A TLA+ verification of agents-datahub

The data hub connects *exposers*, which offer data over HTTP, with *sources*,
which hold it. Sources dial the hub, register under a name and a label and keep
one bidirectional gRPC stream open; exposers send queries for a label and an
operation; the hub chooses a source of that label, sends it the query on its
stream and returns the result. The repository has no tests. Almost everything
that can go wrong in it is in the hub, where one goroutine per stream, one per
query and one per health check share four maps and a few channels under
different mutexes, and in the reconnect loop of the source.

All paths below are relative to `src/`.

## Inventory

| Part | State | Operations | Talks to |
|---|---|---|---|
| Router, `hub/internal/router/router.go` | `sources`, `labels`, `robin`, under one mutex | RegisterSource, UnregisterSource, SelectSource, MarkHealthy, MarkUnhealthy, getters | called by all of the hub |
| Source sessions, `hub/internal/server/grpc.go` | `activeStreams` under `streamsMu`; two gauges; one goroutine per stream | ConnectSource and its receive loop, cleanup, SendHealthCheck | router, sources |
| Query exchange, `grpc.go`, `server.go` | `pendingQueries` under `queriesMu`, a response channel per query | handleQuery, ExecuteQuery, handleQueryResult | router, sessions, sources, exposers |
| Health monitor, `hub/internal/health/health.go` | a ticker; one goroutine per source and tick | checkAllSources, checkSource, Stop | sessions, router |
| Hub server, `hub/internal/server/server.go`, `hub/main.go` | servers, context, wait group | Start, Stop, ReloadTokens, statistics | all of the hub |
| Authorizer and tokens, `hub/internal/auth/auth.go`, `common/token/token.go` | token maps, permission rules | Authenticate*, AuthorizeOperation, Reload | environment |
| Source client, `source/internal/client/*.go` | `grpcClient`, `connected`, context | connectionLoop, connect, processMessages, Stop, handlers of the hub's messages | hub, operations |
| Source operations, `source/internal/operations`, `postgres`, `restapi` | none of its own | dispatch, paging, HTTP calls | database, REST service |
| Exposer, `exposer/internal/server`, `client` | client tokens, metrics | authMiddleware, handleDataRequest, ExecuteQuery, HealthCheck | hub over HTTP |
| Metrics, logging, configuration, protocol | counters, histogram | Observe, Export | Datadog, Prometheus |

What is hard about it:

- **Three tables, three locks.** A session enters `activeStreams`, then the
  router, then the gauges, and leaves them in another order; another session of
  the same name may run between any two steps.
- **Channels outside the lock.** The result of a query is looked up under a lock
  and sent on the channel after it; the query closes the channel when it returns.
- **Selection and use are apart.** The router chooses a source; its stream is
  looked up by name later.
- **Health is written by four callers** in no particular order: the answers of
  the source, its errors, and both outcomes of a check that could or could not
  be sent.
- **Stopping the hub** waits for four kinds of goroutine in turn, each of which
  must have been told to end, while sessions and queries go on.
- **The exposer's handlers** share counters and a ring buffer with a metrics page
  that reads them one by one, and any call may fail after the hub has acted on it.
- **Two goroutines of the source client** share one field, and the connection's
  context is not derived from the client's.

What makes each part correct: the router's three maps agree and its choice is
fair; a name in the router has exactly one session that will remove it; the
stream table holds live streams of the right name; a query is executed at most
once, gets its own answer, is refused only if it is never executed, and ends; the
source has one connection at a time, and none after Stop; Stop of the hub returns
once its sources have gone, with no registration, stream entry or handler left;
the exposer passes the hub's promise on to its clients, runs nothing the rules do not grant, and accounts
for every request.

`PROJECT.json` lists every hazard at the line where it bites, with the
properties that cover it.

## Modules

| Module | What it is |
|---|---|
| `GoMaps` | the three map operations of Go the hub uses |
| `Router` | the router; one action per method, each atomic because each holds the mutex |
| `RoundRobin` | `Router` with a history of what was selected, and of what was reported of each source |
| `HubSessions` | extends `Router`: the ConnectSource handlers, the health checks, the sources' ends of the streams |
| `QueryService` | the abstract specification: what an exposer may rely on |
| `QueryExchange` | extends `HubSessions`: the queries; implements `QueryService` |
| `HubShutdown` | extends `QueryExchange`: the process, its goroutines and Stop; the liveness of the hub |
| `Permissions` | the rules of the authorizer, and what they stand for |
| `SlidingWindow` | the abstract specification of a histogram: the latest observations |
| `Histogram` | the ring buffer of the metrics and its quantiles; implements `SlidingWindow` |
| `ExposerServer` | extends `Histogram` and `Permissions`: the handlers of an exposer over `QueryService`, the metrics page and Stop; implements `QueryService` for the clients |
| `SourceClient` | the source's reconnect loop and Stop |
| `Listing` | getUsersByFilter, called page by page while others write to the table |
| `TokenRotation` | the tokens of the exposers, reload and restart, and the documented rotation |
| `RouterProofs`, `RoundRobinProofs`, `HubSessionsProofs`, `SourceClientProofs`, `ListingProofs`, `TokenRotationProofs` | theorems and their proofs about the module of that name |
| `QueryExchangeProofs` | theorems about `QueryExchange` and `HubShutdown` |
| `ExposerProofs` | theorems about `Histogram`, `Permissions` and `ExposerServer` |
| `MCRoundRobin`, `MCHubSessions`, `MCQueryExchange`, `MCExposerServer` | symmetry sets, and the rules of the exposer's run, for TLC |

The operators called *a slip* are variations of the definition that follows them.
They are used by no specification; each is a bug one could write in that place,
and with it in place of the definition a property of the runs fails
(`PROJECT.json`, "mutants").

### Router

A Go map is a function whose domain is the set of keys present. `sources`,
`labels` and `robin` are the maps of the code. FailureCount saturates at the
threshold and the round-robin index is kept modulo `RobinCycle`, a common
multiple of the sizes it is reduced by: neither changes any comparison or
remainder. Timestamps and the counters only the statistics show are left out.
SelectSource's loop over the list reads `sources[n]` of each listed name as the
code does; `LabelIndex` is what makes that safe.

`RoundRobin` adds two histories that no action reads to decide anything. `window`
counts what was selected since membership, health, label or operation last
changed. `record` follows what was reported of each source, success or failure,
since it registered, and judges it by the documented thresholds instead of by the
fields `Healthy` and `FailureCount`: a source is `in`, goes `out` with the third
failure in a row, and is `returning` after its first success and `in` again after
the second. `SelectableSources` compares what SelectSource would choose with that
record. It says nothing of a source that is `returning`, because there the code and
the document part (see below). What it takes for a success is what the code
reports as one, a check that could be sent included.

### HubSessions

`pc[s]` is where the goroutine of stream `s` stands. Its states are the points
between two critical sections of ConnectSource and cleanup: `receiving` (line
60), `placed` (after 90), `registered` (after 92) or `duplicate` (in 93),
`counted` (after 102), `serving` (130), `delivering` (in handleQueryResult),
`closing` (380), `dropped` (after 383), `read` (after 387), `unregistered` (after
389), `done`. A health check is a goroutine too: `started`, then `sending` with
the stream it has looked up, then `sent` or `failed`, then idle again.

A stream is used once, and the sources open streams as they like: with
`Exclusive` FALSE several streams may claim one name at a time (a source that
reconnects while the hub has not noticed, or a second process configured with
the same name); with `Exclusive` TRUE the previous stream of a name is closed at
the source's side first, which is what `SourceClient` proves of one process
(`OneConnection`). The hub notices a closed stream when its Recv fails, at any
time later.

gRPC is external. A stream is a queue in each direction, at most `MaxInFlight`
long; a send waits while the queue is full, fails once the stream is over, and
may also succeed and be lost when the peer has just gone. Messages the hub has
not read when its Recv fails are lost. A source answers health checks as it
likes, and may report errors, which the protocol has a message for.

Every source is given all operations in `Ops`; the router run varies them. The
read of `source.Healthy` in cleanup is outside the router's mutex, like the
read of the map entry it follows; it is taken at one moment, in `ReadHealth`.

### QueryExchange

`qpc[q]` is where ExecuteQuery stands: `routed` (after SelectSource), `found`
(after the stream lookup), `sending` (after the entry in `pendingQueries`),
`waiting` (in the select), `leaving` (in the deferred function), `closing`
(after the delete), `done` (after the close). A response channel is a buffer
`answer[q]` of capacity one and membership in `closed`. A result is the id of
the query it answers; payloads, success or failure, and metrics are left out.
`held[s]` is what handleQueryResult has found under the lock and not yet sent.
A send on a closed channel is a panic; nothing recovers it, so the process ends,
which is `panicked` and stops the specification. Authentication and
authorization are a choice (`Deny`). The ids are those of nextQueryID, each
handed out once; the caller-supplied ids of the gRPC entry point have no caller in
the repository.

`runs` is a history: how often a source has executed each id. It is what the
refinement of `QueryService` is about, together with the outcome.

### HubShutdown

`stopPc` names what main and Stop are at: `up` (the signal loop of main), then
waiting for the health monitor (server.go:164), for the HTTP servers (173, 179),
for the gRPC server (184), for the wait group (188), and `exited`. `running` is
the set of goroutines Stop waits for. The monitor is in a wait group of its own,
and returns because its channel is closed; its context is cancelled only after
it has been waited for. `HTTPShutdown` may happen at any time: Shutdown ends when
the requests have, or after five seconds. `GracefulStop` needs every
ConnectSource handler to have returned. What a stopping hub refuses is in the
guards `TakesQueries` and `TakesStreams`; everything else of `QueryExchange` goes
on until the process exits (`Meanwhile`), the checks of the monitor included, which nothing
waits for (health.go:97). The exit may cut short what Stop does not wait for:
queries beyond the five seconds, and checks. `ExitDrained` says what is certain
nevertheless: every handler and goroutine that serves is over, and the router, the
table of streams and the gauge are empty, so that a check left over finds no
source to mark and no stream to be sent on. A
metrics page has a server and a goroutine like those of the queries and is not
told apart from them. Signals after the first are not looked at: main is in Stop.

### ExposerServer, Permissions, Histogram

`rpc[r]` is where the handler of request `r` stands: `admitted` after the
middleware and the count (server.go:277), `asking` while HubClient.ExecuteQuery
runs, `returned` when it has and the duration is observed (327); it ends
`refused` (401, 405, a preflight), `bad` (400), `done` (200 or 503) or `cut` by
the end of the process. The hub is an instance of `QueryService` whose status is
`hubStatus`, restricted by AuthorizeOperation; the exposer reads the HTTP status
when the hub has concluded (`HubAnswers`, `HubReturnsStatus`), or loses the call
at any time (`CallFails`), whatever the hub does with it afterwards. `Known` is
what a client can tell of its request, and the mapping under which the exposer
implements `QueryService`.

`counter` holds QueriesSuccess, QueriesFailed and ClientRequests; QueriesTotal is
never incremented in an exposer. `RequestsAccounted` ties each to the requests
that ended that way: a success is a request that is done and whose call returned a
result, a failure one that is done and whose call did not. A metrics page reads them in the order of
Export, one per step. Which data an answer carries, and whether it is a success,
is not in the model, since the exposer does the same with both.

Observe and Quantile hold the histogram's lock and are one step each. Durations
are natural numbers; the index of a quantile is computed with integers, which for
50, 90 and 99 percent and up to 10000 values agrees with the code's arithmetic.
The page asks for 50, 90 and 99 percent; `Shares` is a constant so that a run with
two values in the buffer can tell the ranks apart: its shares of 0 and 100 ask for
the smallest and the largest. `QuantileRank` does not repeat the index. It says how
many of the latest observations may be smaller than the value shown, and how many
must not be greater.
`Recent` maps the ring buffer to the observations in their order.

`Permissions` has AuthorizeOperation as the code has it, first match over the
rules, and `Granted` as what the rules mean. The two are compared for every
rule set (`AuthorizedExactly`).

### SourceClient

`loop` is where connectionLoop stands, `mine` its local variable for the
connection, `grpcClient` the field of Client, `open` the connections not closed.
Connect has an action for each step that may block or fail, and one for each of its
ways out: before there is a connection (`ClientFails`), and at the stream, at the
registration, at the acknowledgment and at what it says (`StreamFails`,
`RegistrationFails`, `AckFails`, `RegistrationRefused`), each of which closes the
connection by a statement of its own (grpc.go:68, 77, 85, 92, 98).
Stop closes the connection in the field, cancels the context and waits. The hub
may stop and start at any time (`HubChanges`), which breaks the connection
(`linked`). The set `Conns` only names connections: a name is used again once its
connection is closed.

### Listing

`Listing` is a call of GetUsersByFilter in two reads: `SelectPage` (the
statement of line 188 with its limit and offset) and `CountUsers` (line 240),
with `hasMore` computed from both. Other processes write to the table in between,
and the caller, who is external, goes on at offset plus what it received. `table`
gives each user that matches the filter its key, the value of the column it is
sorted by. Keys need not differ, and nothing else orders the users
(postgres.go:181): `Sorted` is the set of orders the statement allows, and every
page is cut from one of them, chosen anew. A write adds a user, removes one or
changes its key (`AddUser`, `RemoveUser`, `MoveUser`).

The properties speak of what the code can promise under that. Histories say when:
`unsteady` has the users that left, moved or shared a key with another at some
moment; `pushed` and `pulled` record that a user came to stand, or ceased to
stand, among those already read, which are the two ways a listing by offset goes
wrong. `NothingMissed` and `NothingRepeated` are about the users that are not
unsteady. `TiesTradePlaces` is about the others, in a table nobody writes to.

### TokenRotation

`settings` is what the operator has written for the next start of the hub,
`environ` the environment of the process that runs. `announced` is what the hub
was last told to accept, the guard of an operator who follows the document and
moves an exposer only after the reload. Token values are sets of model values;
splitting `[a,b]` is not modelled, a value without tokens is the empty set, and
its name is then absent.

## Runs

| Run | Configuration | Distinct states | Shows |
|---|---|---|---|
| `router` | 3 names, 1 label, 2 operations | 592,579 | `LabelIndex`, `SelectableSources`, `FairShare` |
| `sessions` | 3 streams, 1 name, 2 labels, 1 slot for checks, not exclusive | 1,228,774 | `LabelIndex`, `OneOwner`, `ActiveStreamsLive`, `ConnectedGauge` |
| `queries` | 2 queries, 2 streams, 1 name, 2 messages in flight | 565,986 | `PendingQueriesExact`, `ResultFits`, `OnSelectedSource`, `ImplementsService` |
| `queries_live` | 1 query, 1 stream, health checks, a stop at any time | 95,888 | `ExitDrained`, `QueryEnds`, `NameFreed`, `StopReturns` |
| `source_client` | at most 3 attempts | 804 | `OneConnection`, `StoppedClean`, `GivesUpOnlyWhenExhausted`, `StopReturnsWithoutHub` |
| `listing` | 3 users, 3 keys, pages of 1 and 2, 2 writes, 1 failure | 711,677 | `NothingMissed`, `NothingRepeated`, `TiesTradePlaces`, `ListingEnds` |
| `exposer` | 3 requests, 2 labels, 2 operations, 2 rules, a histogram of 2 | 341,722 | `RequestsAccounted`, `PageConsistent`, `OnlyGranted`, `QuantileRank`, `WindowExact`, `ImplementsService` |

Deadlock is not checked where the system may stop: the streams and queries of a
run are finite in number, and a client, an exposer or a hub that has stopped stays
stopped.

Why the bounds are enough. One name is the case that matters in the sessions:
sessions of different names share no entry of any table but the lists of a
label, and those are covered by the router run with three names. Three streams
give an old session, its successor and a third that is refused, all on one name;
two labels make a successor register elsewhere. One slot lets a health check
outlive the session it was started for. Two queries are enough for one to take
the other's entry or result, and two streams for a result to arrive on a stream
that has been replaced; a queue of two lets queries and results overtake the
other actors. Health checks are left out of `queries`, where they would only fill
the streams, and compete for the stream in `queries_live`. `MaxWindow` = 5 goes
once around three sources from any index and into the second round. Three users on
three keys give tables with and without ties, and room to move before, between and
behind the others; a page of at most two cuts the listing into several, between
users of one key too; two writes remove a user already read and add or move
another, or change the table between a page and its count. Three requests fill a
histogram of two and wrap it around, where the shares of 0 and 100 percent ask for
different values, and let a page see one
request that has ended, one that is under way and one that begins; the two rules
of the exposer's run use both wildcards and together name every label and every
operation, but not the pair of one of the requests.

Other bounds: a tick of the monitor waits while some source has all `Slots` in
use; a stream is opened once, so a run has as many connections as `Streams`, and
as many queries as `Queries`.

### Where the code and its documentation part

Each of these runs checks one statement of a comment or a document, and TLC
shows a behaviour of the code against it.

| Run | Statement | What happens |
|---|---|---|
| `unreachable` | router.go:16 "a connected source" | the cleanup of the old stream, or a refused registration, deletes the entry of the stream that serves; the source stays registered and every query to it fails |
| `ack_first` | client/grpc.go:90 "Wait for registration ack" | a health check overtakes the acknowledgment and the source gives the connection up |
| `closed_channel` | grpc.go:334 "query_result_dropped" | a result that arrives while its query returns is sent on a closed channel, and the hub panics |
| `token_rotation` | README.md:56 "Zero-downtime token updates with SIGHUP" | a reload reads the environment the hub was started with; the exposer moved to the new token is refused |
| `stop_hangs` | client.go:104 "to unblock processMessages" | a connection that is being made when Stop looks is not closed; Stop waits for ever |

`ack_first` and `unreachable` happen with `Exclusive` TRUE: one source that merely
reconnects is enough.

More disagreements are plain from the code and have no run. GetUsersByFilter
returns its users in a Go slice that structpb.NewStruct cannot convert (in the
pinned `google.golang.org/protobuf` v1.36.10); the error is dropped
(client/grpc.go:223) and the client gets a success with `"data": null`, where
spec.md:455 shows users. The hub names the message of a failed execution
`error` (server.go:380), the exposer looks for `error_message` (client.go:57): it
never reaches the client. An exposer's `exposer_queries_total` stays 0, though
its README lists it (deployment/exposer/README.md:212). SendMetrics sends totals
as DogStatsD counts, which an agent adds up every ten seconds
(datadog.go:114). Stop of the hub does not return while a source stays
connected: GracefulStop waits, and the sources are not told (server.go:184);
`StopReturns` is conditional on their leaving. SourcesHealthy
is incremented at every registration and decremented only for a source that is
healthy when it leaves (grpc.go:391), though MarkUnhealthy does not touch it: it
drifts upwards. The round-robin index is reduced modulo the number of healthy
sources of the moment (router.go:141), so a change of that number may select the
same source twice in a row. A health check that could be sent marks its source
healthy before the answer is there (health.go:121), so that three unhealthy
answers in a row need not add up to the threshold.

The thresholds of the health checks are configured, documented and not used.
spec.md:598 has `unhealthy_threshold: 3    # Failed checks before marking
unhealthy`, spec.md:599 `recovery_threshold: 2     # Successful checks before marking
healthy`; so have config/hub-config.yaml:9 and deployment/hub/hub-config.yaml:9, and
config.go:110-115 of the hub fills in the same values. NewMonitor stores them
(health.go:23-24), and nothing but a line in the log reads them (health.go:61-62).
The router has the 3 written into MarkUnhealthy (router.go:210), whatever is
configured, and one MarkHealthy brings a source back (router.go:195-199), where two
successes are promised. `SelectableSources` claims what is common to both: out after
three failures in a row, in again after two successes in a row. There is no run for
the difference, since the counterexample would be that assignment and nothing else:
three failures and one success.

The order of a listing is not total: `ORDER BY` has the one column the caller asks
for, `created_at`, `name` or `status` as a rule, and no tie-breaker (postgres.go:181).
Two pages of an unchanged table may show one of two users with the same value twice
and the other never. No document of the repository promises otherwise;
`TiesTradePlaces` bounds what it costs.

### Fairness

The safety runs assume none. `queries_live` (`Fairness` of `HubShutdown`)
assumes that a goroutine of the hub that can run does, that timers fire, and
that a source that is up reads on: each of its handlers has a deadline (30 s for
a query, 5 s for a check). The two steps that wait for room in a stream, a
query's send and the source's answers, have strong fairness, since room comes
and goes as others send; gRPC's flow control serves the waiting. Each wait of
Stop ends when what it waits for has happened. No fairness makes a source
connect, disconnect or report an error, makes the monitor tick, or stops the
hub.
`listing` assumes that a call goes on and that the caller goes on after an answer;
no write and no failure is fair. `source_client` and `stop_hangs` assume that both
goroutines run, that a hub that is up takes a stream and answers the registration,
and that a step of an attempt, or a wait for a message, on a connection whose hub
is gone, or that is closed, yields an error. Nothing makes a hub end a stream.

## Proofs

For every value of the constants, from the named assumptions alone:

- `RouterInvariant`, `RouterLabelIndex`, `RouterHealth`: `RouterInv` is
  inductive as the conjunction of the type invariant, `LabelIndex` and
  `HealthMatchesFailures`. The first two need each other: removing a name from
  its list empties it exactly when it was the only one, because a list has no
  duplicates. The lemmas say what appending a fresh element and removing the
  first occurrence of an element do to an injective sequence. `SelectedRegistered`:
  what SelectSource returns is registered, of the label asked for, able and
  healthy. `Among` is the loop of SelectSource as a recursive function; that the
  recursion has a solution, and what it collects, is an induction over the list,
  done as the search for a least prefix that goes wrong (`LeastElement`).
- `RoundRobinSelectable`: `record` and the router's own fields go together
  (`RecordMatches`): the streak of failures is the count, and a source in good
  standing has fewer than three; with `HealthMatchesFailures`, a part of
  `RouterInv`, the count decides health. What follows for SelectSource is `CandidatesAre`: the list
  it chooses from has the healthy, able sources of the label, each once.
- `RoundRobinInvariant`, `RoundRobinType`, `RoundRobinFair`: while nothing changes,
  the candidates of a window have been chosen equally often, and once more are
  those the index has passed since the window opened, in the cyclic order of the
  list (`Turns`). Fairness alone is not inductive: the next one chosen must be
  known to be behind. The arithmetic (`NextIndex`) is that an index kept modulo a
  common multiple of the sizes moves on by one place in each of them.
- `SessionsInvariant` and its consequences `SessionsType`, `SessionsLabelIndex`,
  `SessionsOneOwner`, `SessionsActiveStreams`. The invariant adds to the router's
  that a handler that has started has a registration (`StreamsOpened`), that the
  names in the router and the handlers that will unregister them correspond one
  to one (`OneOwner`), and `ActiveStreamsLive`. `OneOwner` alone shows why cleanup
  may unregister by name: a handler in its cleanup is the only owner.
  `ActiveStreamsLive` survives only because a deletion by name may take away too
  much, never too little; that it does take away too much is `unreachable`.
- `SessionsConnectedGauge`: the gauge changes exactly with the set of counted
  handlers, whose cardinality it equals.
- `QueriesInvariant` and its consequences `QueriesType`, `QueriesPendingExact`,
  `QueriesResultFits`, `QueriesOnSelectedSource`. The four properties are not
  inductive by themselves: that a handler finds room in the channel of a query
  rests on there being one result. `QueriesInv` says where a query can be. Its id is
  in one place at most (on the way to its source, on the way back, in the hands
  of a handler, in its channel), each of them on the stream it was sent on, and
  it has run once from the second place on (`OnTheWay`, `OnTheWayBack`,
  `InHand`, `InChannel`, `RunsOfSent`); how far ExecuteQuery has come decides
  which maps know the query (`Stages`); ids are handed out once (`IdsDistinct`). The
  invariant of the sessions is a part of it: a step of a session loses messages
  of a queue but neither adds one nor moves it (`QueuesLose`), and a step of a
  query leaves the sessions alone.
- `QueriesImplementService`: every step of the exchange is a step of
  `QueryService` or a stutter, with streams and sources that come and go meanwhile.
  A query refused was never sent and an answered one has run (`OutcomesTrue`).
- `LifeInvariant`, `LifeExitDrained`, `LifeImplementsService`: the same with the
  process around it. A step of the hub's life is a step of the exchange or one of
  main and Stop that leaves the exchange alone, so `QueriesInv` carries over;
  `StopInv` adds what each wait of Stop has established and what stays true after
  it: a handler that is over stays over, since the guards of a stopping hub take no
  stream. At the exit, `OneOwner` makes the router empty, `ActiveStreamsLive` the
  table of streams, and `ConnectedGauge` the gauge. None of it uses fairness.
- `ClientInvariant`, `ClientType`, `ClientOneConnection`, `ClientStoppedClean`: the
  open connection is the loop's own, at the points of the loop that work with one,
  and Stop can only take it away. `ClientGivesUp`: the counter of attempts never
  passes `MaxAttempts`, and a loop that dials has attempts left (`Counting`).
- `ListingInvariant`, `ListingType`, `ListingNothingMissed`,
  `ListingNothingRepeated`, `ListingTiesTradePlaces`, for any number of users, keys
  and limits and any order among ties. A steady user stands, in every order the
  statement allows, right behind those with smaller keys (`SortedPlace`). While
  nothing was pulled, every steady user with fewer of them than were read has been
  received; while nothing was pushed, every steady user received has that few. The
  lemmas count: what a page cut from a sorted order contains, and that a write
  behind the reading position leaves the ranks before it alone. In a table nobody
  writes to, the list goes on like a sorted order, though not one and the same
  (`ListSorted`): each key fills as many places as it has users, so that one who is
  missed leaves two places to another (`MissedForRepeated`, by the pigeonhole
  principle).
- `HistogramType`, `HistogramExact`: the ring buffer implements the sliding window
  for any capacity. The cases are those of Observe: the buffer not yet full,
  filling up with this value, and full, where the oldest value is the one at the
  position.
- `ExposerQuantiles`: the quantiles on the page stand at their ranks in the latest
  observations, for any share and any number of them. The buffer is a rotation of
  those (`SnapshotRotates`), a list of naturals can be sorted at all (`Sortable`:
  selection sort, one more place per round, and no least round that cannot be
  done), and what stands at a rank of the sorted list divides it there, in whatever
  order it is counted (`AtRank`, `DividesAtShare`).
- `AuthorizedExactly`: the first-match loop decides exactly what the rules stand
  for, wildcards included, for labels and operations other than `*` itself.
- `ExposerInvariant` and its consequences `ExposerType`, `ExposerAccounted`,
  `ExposerPage`, `ExposerOnlyGranted`, `ExposerWindow`. The invariant ties the two
  sides of a request together (the hub knows nothing of a request it was not
  asked, what the exposer has taken for an answer is one), counts the handlers
  behind each counter, and bounds each value read for a page by the counter, so
  that the page holds because the requests are read last and only grow.
- `ExposerServes`: every step of the exposer is a step of `QueryService` under
  `Known`, or a stutter: `QueryService` is implemented over itself, across calls
  that fail in any state and a process that ends in any state.
- `RotationByRestart`: the procedure of the document is right in itself; with a
  restart of the hub wherever it says reload no exposer is refused.

The assumptions: the sets of names and streams are finite (`NamesAssumption`,
`SessionsAssumption`), the id of a query is not another kind of message
(`KindsAssumption`), `RobinCycle` is a common multiple of the sizes
(`RobinAssumption`), a window is a natural number long (`WindowAssumption`),
`NoConn` is no connection and the attempts are limited to a number or, below
zero, not at all (`ConnsAssumption`), the
limits are positive, the users finite in number and the keys integers
(`ListingAssumption`), a histogram has room for a value, observes natural numbers and
is asked for shares of 0 to 100 percent (`HistogramAssumption`), the requests are
finite in number (`ExposerAssumption`), and no label or operation is called `*`
(`PermissionsAssumption`).

Every invariant and every refinement that a passing run checks is proved; the runs
remain, since they are what finds the behaviours against a property and shows
that the cases of the proofs happen.

Model-checked only: all liveness (`QueryEnds`, `NameFreed`, `StopReturns`,
`ListingEnds`, `StopReturnsWithoutHub`), which needs fairness and `ENABLED` and is
out of the prover's reach. The library's rules of induction are out of its reach
too, since they take an operator; where an induction over a list was needed
(`Among`, `Sortable`) it is done with the least number of the set of
counterexamples, which `NatLessThanWellFounded` and `WFMin` provide.
That the index of a quantile, which the code computes with floating point, is the
integer of the model for up to 10000 values is outside the model.

## Plan

Done: `Router`, `RoundRobin`, `HubSessions`, `QueryExchange` with `QueryService`,
`HubShutdown`, `SourceClient`, `Listing`, `TokenRotation`, `Permissions`,
`Histogram` with `SlidingWindow`, `ExposerServer`; and the proofs above.

Left:

1. What holds instead of the statements the code does not keep, as theorems:
   that a registered source is reachable as long as no two streams of its name
   overlap at the hub, and that no result meets a closed channel as long as
   results come before their query returns.
2. The gauge of healthy sources (grpc.go:391): that it never falls below the number
   of healthy sources, and by how much it drifts.
3. The ids a gRPC caller supplies (grpc.go:203), with two queries under one id.

Not modelled, and not planned: logging, configuration, the datagrams to Datadog
and the text of the metrics pages (formatting and I/O), the generated protocol
code, the health and statistics pages (read-only copies of the state),
getUserById and getUserPayments (one read each, no state), the start of the
processes beyond their initial states, deployment files, examples.
