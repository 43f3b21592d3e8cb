------------------------ MODULE QueryExchangeProofs ------------------------
(***************************************************************************)
(* For any number of queries, streams and names: the entries of            *)
(* pendingQueries are exactly the queries under way, a result reaches the  *)
(* query it answers and finds room, a query travels on the stream of the   *)
(* source selected and nowhere else, and the exchange implements the       *)
(* service QueryService describes.  A hub that has stopped of its own      *)
(* accord leaves nothing behind.                                           *)
(***************************************************************************)
EXTENDS HubShutdown, HubSessionsProofs

-----------------------------------------------------------------------------
(* The inductive invariant: where a query can be, and that it is in one place *)
(* at a time.                                                                *)

Started == {"routed", "found", "sending", "waiting", "leaving", "closing"}
Located == {"found", "sending", "waiting", "leaving", "closing"}
Entered == {"sending", "waiting", "leaving", "closing"}
Pending == {"sending", "waiting", "leaving"}
Sent == {"waiting", "leaving", "closing", "done"}
Over == {"leaving", "closing", "done"}

\* How far ExecuteQuery has come, and which maps know the query by then.
Stages ==
    \A q \in Queries :
        /\ qpc[q] = "idle" => q \notin DOMAIN request
        /\ qpc[q] \in Started => q \in DOMAIN request
        /\ qpc[q] \in Located => q \in DOMAIN via
        /\ q \in DOMAIN via => q \in DOMAIN request /\ qpc[q] \in Located \union {"done"}
        /\ qpc[q] \in Entered => q \in DOMAIN answer
        /\ q \in DOMAIN answer => q \in DOMAIN via /\ qpc[q] \in Entered \union {"done"}
        /\ q \in DOMAIN outcome <=> qpc[q] \in Over
        /\ q \in closed => qpc[q] = "done"

\* nextQueryID hands out every id once.
IdsDistinct == \A p, q \in DOMAIN request : request[p].id = request[q].id => p = q

\* A stream found for a query is one of the source selected, and stays so.
StreamsFound ==
    \A q \in DOMAIN via : pc[via[q]] # "idle" /\ reg[via[q]].name = request[q].source

\* Query q has been sent on s under id i, or was about to be when the stream failed.
SentOn(q, s, i) ==
    /\ q \in DOMAIN answer
    /\ via[q] = s
    /\ request[q].id = i
    /\ qpc[q] \in Sent

Carries(queue, i) == \E k \in DOMAIN queue : queue[k] = i

\* An id is in the queue once at most.
Single(queue) ==
    \A j, k \in DOMAIN queue : queue[j] = queue[k] /\ queue[j] \in QueryIds => j = k

NoDuplicates == \A s \in Streams : Single(toSource[s]) /\ Single(toHub[s])

\* A query is under way to its source, its result is under way back, in the hands
\* of a handler, or in the channel: one of the four at most, and from the second
\* on the query has run, once.
OnTheWay ==
    \A s \in Streams : \A i \in QueryIds : Carries(toSource[s], i) =>
        runs[i] = 0 /\ \E q \in Queries : SentOn(q, s, i)

OnTheWayBack ==
    \A s \in Streams : \A i \in QueryIds : Carries(toHub[s], i) =>
        runs[i] = 1 /\ \E q \in Queries : SentOn(q, s, i) /\ answer[q] = <<>>

InHand ==
    /\ \A s \in Streams : s \in DOMAIN held <=> pc[s] = "delivering"
    /\ \A s \in DOMAIN held :
          /\ SentOn(held[s].query, s, held[s].result)
          /\ runs[held[s].result] = 1
          /\ answer[held[s].query] = <<>>
          /\ ~Carries(toHub[s], held[s].result)

InChannel == \A q \in DOMAIN answer : answer[q] # <<>> => runs[request[q].id] = 1

\* What has run was sent.
RunsOfSent ==
    \A i \in QueryIds :
        /\ runs[i] \in {0, 1}
        /\ runs[i] = 1 => \E q \in Queries, s \in Streams : SentOn(q, s, i)

\* A refused query was never sent, and an answered one has run.
OutcomesTrue ==
    \A q \in DOMAIN outcome :
        /\ outcome[q] = "refused" => q \notin DOMAIN via
        /\ outcome[q] = "answered" => q \in DOMAIN request /\ runs[request[q].id] = 1

ExchangeInv ==
    /\ Stages /\ IdsDistinct /\ StreamsFound
    /\ NoDuplicates /\ OnTheWay /\ OnTheWayBack /\ InHand /\ InChannel
    /\ RunsOfSent /\ OutcomesTrue

QueriesInv ==
    /\ SessionsInv
    /\ QueriesTypeOK
    /\ PendingQueriesExact
    /\ ExchangeInv

-----------------------------------------------------------------------------
(* Queues. *)

LEMMA AppendCarries ==
    ASSUME NEW M, NEW u \in Seq(M), NEW m
    PROVE  /\ \A i : Carries(Append(u, m), i) <=> (Carries(u, i) \/ i = m)
           /\ Single(u) /\ (m \in QueryIds => ~Carries(u, m)) => Single(Append(u, m))
<1> DEFINE v == Append(u, m)
<1>1. /\ DOMAIN u = 1..Len(u) /\ Len(u) \in Nat
      /\ DOMAIN v = 1..(Len(u) + 1)
      /\ \A k \in 1..Len(u) : v[k] = u[k]
      /\ v[Len(u) + 1] = m
  OBVIOUS
<1> HIDE DEF v
<1>2. ASSUME NEW i PROVE Carries(v, i) <=> (Carries(u, i) \/ i = m)
  BY <1>1 DEF Carries
<1>3. ASSUME Single(u), m \in QueryIds => ~Carries(u, m), NEW j \in DOMAIN v, NEW k \in DOMAIN v,
             v[j] = v[k], v[j] \in QueryIds
      PROVE  j = k
  <2>1. CASE j \in 1..Len(u) /\ k \in 1..Len(u)
    BY <1>1, <1>3, <2>1 DEF Single
  <2>2. CASE j = Len(u) + 1 /\ k \in 1..Len(u)
    BY <1>1, <1>3, <2>2 DEF Carries
  <2>3. CASE k = Len(u) + 1 /\ j \in 1..Len(u)
    BY <1>1, <1>3, <2>3 DEF Carries
  <2>4. CASE k = Len(u) + 1 /\ j = Len(u) + 1
    BY <2>4
  <2> QED BY <1>1, <2>1, <2>2, <2>3, <2>4
<1> QED BY <1>2, <1>3 DEF v, Single

LEMMA TailCarries ==
    ASSUME NEW M, NEW u \in Seq(M), u # <<>>
    PROVE  /\ Carries(u, Head(u))
           /\ \A i : Carries(Tail(u), i) => Carries(u, i)
           /\ Single(u) => Single(Tail(u))
           /\ Single(u) /\ Head(u) \in QueryIds => ~Carries(Tail(u), Head(u))
<1> DEFINE v == Tail(u)
<1>1. /\ Len(u) \in Nat \ {0}
      /\ DOMAIN u = 1..Len(u)
      /\ DOMAIN v = 1..(Len(u) - 1)
      /\ \A k \in 1..(Len(u) - 1) : v[k] = u[k + 1]
      /\ Head(u) = u[1]
  OBVIOUS
<1> HIDE DEF v
<1>2. \A k \in DOMAIN v : k + 1 \in DOMAIN u /\ k + 1 # 1 /\ v[k] = u[k + 1]
  BY <1>1
<1>3. Carries(u, Head(u))
  BY <1>1 DEF Carries
<1>4. ASSUME NEW i, Carries(v, i) PROVE Carries(u, i)
  BY <1>2, <1>4 DEF Carries
<1>5. ASSUME Single(u), NEW j \in DOMAIN v, NEW k \in DOMAIN v, v[j] = v[k], v[j] \in QueryIds
      PROVE  j = k
  <2>1. j + 1 = k + 1
    BY <1>2, <1>5 DEF Single
  <2> QED BY <1>1, <2>1
<1>6. ASSUME Single(u), Head(u) \in QueryIds, NEW k \in DOMAIN v, v[k] = Head(u)
      PROVE  FALSE
  <2>1. 1 \in DOMAIN u /\ u[1] = u[k + 1]
    BY <1>1, <1>2, <1>6
  <2> QED BY <1>1, <1>2, <1>6, <2>1 DEF Single
<1> QED BY <1>3, <1>4, <1>5, <1>6 DEF v, Single, Carries

LEMMA EmptyCarries == Single(<<>>) /\ \A i : ~Carries(<<>>, i)
  BY DEF Single, Carries

\* What happens to a queue when a message is read or lost, or one that is no query
\* and no result is added.
Loses(u, v) ==
    /\ \A i \in QueryIds : Carries(v, i) => Carries(u, i)
    /\ Single(u) => Single(v)

LEMMA LosesCases ==
    ASSUME NEW M, NEW u \in Seq(M)
    PROVE  /\ Loses(u, u)
           /\ Loses(u, <<>>)
           /\ u # <<>> => Loses(u, Tail(u))
           /\ \A m \in Reports \union Controls : Loses(u, Append(u, m))
<1>1. ASSUME NEW m \in Reports \union Controls PROVE Loses(u, Append(u, m))
  <2>1. m \notin QueryIds
    BY KindsAssumption
  <2> QED BY <2>1, AppendCarries DEF Loses
<1>2. u # <<>> => Loses(u, Tail(u))
  BY TailCarries DEF Loses
<1>3. Loses(u, u) /\ Loses(u, <<>>)
  BY EmptyCarries DEF Loses
<1> QED BY <1>1, <1>2, <1>3

\* The same for the queues of all streams, one of which changes.
LEMMA QueuesLose ==
    ASSUME NEW M, NEW u \in [Streams -> Seq(M)], NEW v, NEW s \in Streams,
           \/ v = u
           \/ v = [u EXCEPT ![s] = <<>>]
           \/ u[s] # <<>> /\ v = [u EXCEPT ![s] = Tail(@)]
           \/ \E m \in Reports \union Controls : v = [u EXCEPT ![s] = Append(@, m)]
    PROVE  \A t \in Streams : Loses(u[t], v[t])
<1>1. \A t \in Streams : t # s => v[t] = u[t]
  OBVIOUS
<1>2. \A t \in Streams : Loses(u[t], u[t])
  BY LosesCases
<1>3. Loses(u[s], v[s])
  <2>1. u[s] \in Seq(M)
    OBVIOUS
  <2>2. CASE v = u
    BY <1>2, <2>2
  <2>3. CASE v = [u EXCEPT ![s] = <<>>]
    BY <2>1, <2>3, LosesCases
  <2>4. CASE u[s] # <<>> /\ v = [u EXCEPT ![s] = Tail(@)]
    BY <2>1, <2>4, LosesCases
  <2>5. CASE \E m \in Reports \union Controls : v = [u EXCEPT ![s] = Append(@, m)]
    <3>1. PICK m \in Reports \union Controls : v = [u EXCEPT ![s] = Append(@, m)]
      BY <2>5
    <3>2. v[s] = Append(u[s], m)
      BY <3>1
    <3> QED BY <2>1, <3>2, LosesCases
  <2> QED BY <2>2, <2>3, <2>4, <2>5
<1> QED BY <1>1, <1>2, <1>3

\* The steps of HubSessions neither add a query or a result to a queue, nor double one.
LEMMA SessionsQueues ==
    ASSUME SessionsInv, [SessionsNext]_hubVars
    PROVE  \A t \in Streams : Loses(toSource[t], toSource'[t]) /\ Loses(toHub[t], toHub'[t])
<1>1. toSource \in [Streams -> Seq(HubMessages)] /\ toHub \in [Streams -> Seq(SourceMessages)]
  BY DEF SessionsInv, SessionsTypeOK
<1>2. CASE UNCHANGED <<toSource, toHub>>
  BY <1>1, <1>2, QueuesLose
<1>3. ASSUME NEW s \in Streams, NEW m \in Controls, SendSucceeds(s, m), UNCHANGED toHub
      PROVE  \A t \in Streams : Loses(toSource[t], toSource'[t]) /\ Loses(toHub[t], toHub'[t])
  <2>1. toSource' = toSource \/ toSource' = [toSource EXCEPT ![s] = Append(@, m)]
    BY <1>3 DEF SendSucceeds
  <2>2. \A t \in Streams : Loses(toSource[t], toSource'[t])
    BY <1>1, <2>1, QueuesLose
  <2>3. \A t \in Streams : Loses(toHub[t], toHub'[t])
    BY <1>1, <1>3, QueuesLose
  <2> QED BY <2>2, <2>3
<1>4. ASSUME NEW s \in Streams,
             \/ toSource' = toSource
             \/ toSource' = [toSource EXCEPT ![s] = <<>>]
             \/ toSource[s] # <<>> /\ toSource' = [toSource EXCEPT ![s] = Tail(@)],
             \/ toHub' = toHub
             \/ toHub' = [toHub EXCEPT ![s] = <<>>]
             \/ toHub[s] # <<>> /\ toHub' = [toHub EXCEPT ![s] = Tail(@)]
             \/ \E m \in Reports : toHub' = [toHub EXCEPT ![s] = Append(@, m)]
      PROVE  \A t \in Streams : Loses(toSource[t], toSource'[t]) /\ Loses(toHub[t], toHub'[t])
  <2>1. \A t \in Streams : Loses(toSource[t], toSource'[t])
    BY <1>1, <1>4, QueuesLose
  <2>2. \A t \in Streams : Loses(toHub[t], toHub'[t])
    BY <1>1, <1>4, QueuesLose
  <2> QED BY <2>1, <2>2
<1>5. ASSUME NEW s \in Streams, Handler(s)
      PROVE  \A t \in Streams : Loses(toSource[t], toSource'[t]) /\ Loses(toHub[t], toHub'[t])
  <2>1. CASE SendAck(s)
    BY <1>2, <1>3, <2>1 DEF SendAck, Controls
  <2>2. CASE Receive(s) \/ ReceiveFails(s)
    BY <1>4, <2>2 DEF Receive, ReceiveFails
  <2>3. CASE UNCHANGED wire
    BY <1>2, <2>3 DEF wire
  <2> QED
    BY <1>5, <2>1, <2>2, <2>3
       DEF Handler, RejectStream, PlaceStream, RegisterStream, RegisterFails, DropDuplicate,
           CountSource, DropStream, ReadHealth, UnregisterStream, UncountSource
<1>6. ASSUME NEW c \in Checkers, Checker(c)
      PROVE  \A t \in Streams : Loses(toSource[t], toSource'[t]) /\ Loses(toHub[t], toHub'[t])
  <2>1. CASE SendCheck(c)
    <3>1. check[c].stream \subseteq Streams
      BY DEF SessionsInv, SessionsTypeOK
    <3> QED BY <1>2, <1>3, <2>1, <3>1 DEF SendCheck, Controls
  <2>2. CASE UNCHANGED wire
    BY <1>2, <2>2 DEF wire
  <2> QED BY <1>6, <2>1, <2>2 DEF Checker, LookupStream, MarkChecked
<1>7. ASSUME NEW s \in Streams, SourceNext(s) \/ ReportError(s) \/ Disconnect(s)
      PROVE  \A t \in Streams : Loses(toSource[t], toSource'[t]) /\ Loses(toHub[t], toHub'[t])
  BY <1>4, <1>7
     DEF SourceNext, ReceiveAck, AnswerCheck, StreamEnded, ReportError, Disconnect, Close,
         Reports
<1> QED
  BY <1>2, <1>5, <1>6, <1>7 DEF SessionsNext, CheckAllSources, OpenStream, wire, hubVars

\* They leave alone what the queries rely on: whose stream it is, and who delivers.
LEMMA SessionsHandlers ==
    ASSUME SessionsInv, [SessionsNext]_hubVars
    PROVE  \A t \in Streams :
              /\ pc[t] # "idle" => pc'[t] # "idle" /\ reg'[t] = reg[t]
              /\ pc'[t] = "delivering" <=> pc[t] = "delivering"
<1>1. SessionsTypeOK /\ StreamsOpened
  BY DEF SessionsInv
<1>2. ASSUME NEW s \in Streams, Handler(s)
      PROVE  /\ UNCHANGED reg
             /\ pc[s] # "delivering"
             /\ pc' = pc \/ \E v \in HandlerStates \ {"idle", "delivering"} :
                               pc' = [pc EXCEPT ![s] = v]
  BY <1>2
     DEF Handler, RejectStream, PlaceStream, RegisterStream, RegisterFails, DropDuplicate,
         CountSource, SendAck, Receive, ReceiveFails, DropStream, ReadHealth,
         UnregisterStream, UncountSource, At, Goto, handlerVars, HandlerStates
<1>3. ASSUME NEW s \in Streams, Handler(s), NEW t \in Streams
      PROVE  /\ pc[t] # "idle" => pc'[t] # "idle" /\ reg'[t] = reg[t]
             /\ pc'[t] = "delivering" <=> pc[t] = "delivering"
  BY <1>1, <1>2, <1>3 DEF SessionsTypeOK
<1>4. ASSUME NEW s \in Streams, NEW name \in Names, NEW label \in Labels,
             NEW auth \in BOOLEAN, OpenStream(s, name, label, auth), NEW t \in Streams
      PROVE  /\ pc[t] # "idle" => pc'[t] # "idle" /\ reg'[t] = reg[t]
             /\ pc'[t] = "delivering" <=> pc[t] = "delivering"
  <2>1. /\ pc[s] = "idle" /\ pc' = [pc EXCEPT ![s] = "receiving"]
        /\ \A u \in DOMAIN reg : u # s => reg'[u] = reg[u]
    BY <1>1, <1>4 DEF OpenStream, Goto, Put, StreamsOpened
  <2> QED BY <1>1, <2>1 DEF StreamsOpened, SessionsTypeOK
<1>5. CASE UNCHANGED <<pc, reg>>
  BY <1>5
<1> QED
  BY <1>3, <1>4, <1>5
     DEF SessionsNext, SourceNext, ReceiveAck, AnswerCheck, StreamEnded, ReportError,
         Disconnect, CheckAllSources, Checker, LookupStream, SendCheck, MarkChecked,
         hubVars, handlerVars

-----------------------------------------------------------------------------
(* The steps of the stream handlers, the monitor and the sources. *)

\* Where no query moves, the queues may lose messages and handlers come and go.
LEMMA ExchangeKept ==
    ASSUME QueriesTypeOK, PendingQueriesExact, ExchangeInv, UNCHANGED queryVars,
           \A t \in Streams : Loses(toSource[t], toSource'[t]) /\ Loses(toHub[t], toHub'[t]),
           \A t \in Streams :
              /\ pc[t] # "idle" => pc'[t] # "idle" /\ reg'[t] = reg[t]
              /\ pc'[t] = "delivering" <=> pc[t] = "delivering"
    PROVE  QueriesTypeOK' /\ PendingQueriesExact' /\ ExchangeInv'
<1>1. QueriesTypeOK' /\ PendingQueriesExact' /\ Stages' /\ IdsDistinct' /\ InChannel' /\ OutcomesTrue'
  BY DEF ExchangeInv, queryVars, QueriesTypeOK, PendingQueriesExact, Stages, IdsDistinct,
         InChannel, OutcomesTrue
<1>2. StreamsFound'
  BY DEF ExchangeInv, queryVars, QueriesTypeOK, StreamsFound
<1>3. \A q, s, i : SentOn(q, s, i)' <=> SentOn(q, s, i)
  BY DEF queryVars, SentOn
<1>4. NoDuplicates'
  BY DEF ExchangeInv, NoDuplicates, Loses
<1>5. OnTheWay' /\ OnTheWayBack'
  BY <1>3 DEF ExchangeInv, queryVars, OnTheWay, OnTheWayBack, Loses
<1>6. InHand'
  BY <1>3 DEF ExchangeInv, queryVars, InHand, QueriesTypeOK, Result, Loses
<1>7. RunsOfSent'
  BY <1>3 DEF ExchangeInv, queryVars, RunsOfSent
<1> QED BY <1>1, <1>2, <1>4, <1>5, <1>6, <1>7 DEF ExchangeInv

LEMMA SessionsStep ==
    ASSUME QueriesInv, [SessionsNext]_hubVars, UNCHANGED queryVars
    PROVE  QueriesInv'
<1>1. SessionsInv'
  BY RouterInvStep, TypeStep, OwnersStep, ActiveStreamsStep DEF QueriesInv, SessionsInv
<1>2. QueriesTypeOK' /\ PendingQueriesExact' /\ ExchangeInv'
  BY ExchangeKept, SessionsQueues, SessionsHandlers DEF QueriesInv
<1> QED BY <1>1, <1>2 DEF QueriesInv

-----------------------------------------------------------------------------
(* ExecuteQuery *)

\* Steps of ExecuteQuery that put nothing on a stream and nothing into a channel.
LEMMA SentStay ==
    ASSUME QueriesTypeOK, ExchangeInv, UNCHANGED <<toSource, toHub, pc, held, runs>>,
           \A p \in Queries, s \in Streams, i \in QueryIds : SentOn(p, s, i) => SentOn(p, s, i)',
           \A p \in DOMAIN answer : answer[p] = <<>> => answer'[p] = <<>>
    PROVE  NoDuplicates' /\ OnTheWay' /\ OnTheWayBack' /\ InHand' /\ RunsOfSent'
<1>1. NoDuplicates'
  BY DEF ExchangeInv, NoDuplicates
<1>2. OnTheWay'
  BY DEF ExchangeInv, OnTheWay
<1>3. OnTheWayBack'
  <2>1. \A p \in Queries, s \in Streams, i \in QueryIds :
            SentOn(p, s, i) /\ answer[p] = <<>> => SentOn(p, s, i)' /\ answer'[p] = <<>>
    BY DEF SentOn
  <2> QED BY <2>1 DEF ExchangeInv, OnTheWayBack
<1>4. InHand'
  <2>1. \A s \in DOMAIN held : held[s].query \in Queries /\ held[s].result \in QueryIds /\ s \in Streams
    BY DEF QueriesTypeOK, Result
  <2>2. \A s \in DOMAIN held : held[s].query \in DOMAIN answer
    BY DEF ExchangeInv, InHand, SentOn
  <2> QED BY <2>1, <2>2 DEF ExchangeInv, InHand
<1>5. RunsOfSent'
  BY DEF ExchangeInv, RunsOfSent
<1> QED BY <1>1, <1>2, <1>3, <1>4, <1>5

LEMMA MoveEffect ==
    ASSUME QueriesTypeOK, NEW q \in Queries, NEW from, NEW to \in QueryStates, Move(q, from, to)
    PROVE  /\ qpc[q] = from
           /\ qpc' \in [Queries -> QueryStates]
           /\ qpc'[q] = to
           /\ \A p \in Queries : p # q => qpc'[p] = qpc[p]
  BY DEF QueriesTypeOK, Move

\* The steps that only move a query on and say what it returns.
LEMMA ReturnStep ==
    ASSUME QueriesInv, NEW q \in Queries,
           Deny(q) \/ NoStream(q) \/ SendQueryFails(q) \/ GiveUp(q)
    PROVE  QueriesTypeOK' /\ PendingQueriesExact' /\ ExchangeInv'
<1>1. QueriesTypeOK /\ PendingQueriesExact /\ ExchangeInv
  BY DEF QueriesInv
<1>2. UNCHANGED <<hubVars, request, via, pendingQueries, answer, closed, held, runs, panicked>>
  BY DEF Deny, NoStream, SendQueryFails, GiveUp
<1>3. PICK from \in QueryStates, to \in QueryStates, result \in Outcomes :
          /\ Move(q, from, to) /\ Return(q, result)
          /\ \/ from \in {"idle", "routed"} /\ to = "done" /\ result = "refused"
             \/ from \in {"sending", "waiting"} /\ to = "leaving" /\ result = "failed"
  BY DEF Deny, NoStream, SendQueryFails, GiveUp, QueryStates, Outcomes
<1>4. /\ qpc[q] = from /\ qpc' \in [Queries -> QueryStates] /\ qpc'[q] = to
      /\ \A p \in Queries : p # q => qpc'[p] = qpc[p]
  BY <1>1, <1>3, MoveEffect
<1>5. /\ DOMAIN outcome' = DOMAIN outcome \union {q}
      /\ outcome'[q] = result
      /\ \A p \in DOMAIN outcome : p # q => outcome'[p] = outcome[p]
  BY <1>3 DEF Return, Put
<1>6. QueriesTypeOK'
  BY <1>1, <1>2, <1>3, <1>4, <1>5 DEF QueriesTypeOK
<1>7. PendingQueriesExact'
  <2>1. \A p \in Queries : qpc[p] \in Pending <=> qpc'[p] \in Pending
    BY <1>3, <1>4 DEF Pending
  <2> QED BY <1>1, <1>2, <2>1 DEF PendingQueriesExact, Pending, QueriesTypeOK
<1>8. Stages'
  BY <1>1, <1>2, <1>3, <1>4, <1>5
     DEF ExchangeInv, Stages, Started, Located, Entered, Over
<1>9. IdsDistinct' /\ StreamsFound' /\ InChannel'
  BY <1>1, <1>2 DEF ExchangeInv, IdsDistinct, StreamsFound, InChannel, hubVars
<1>10. OutcomesTrue'
  <2>1. result = "refused" => q \notin DOMAIN via
    BY <1>1, <1>3, <1>4 DEF ExchangeInv, Stages, Located
  <2> QED BY <1>1, <1>2, <1>3, <1>5, <2>1 DEF ExchangeInv, OutcomesTrue
<1>11. NoDuplicates' /\ OnTheWay' /\ OnTheWayBack' /\ InHand' /\ RunsOfSent'
  <2>1. \A p \in Queries, s \in Streams, i \in QueryIds : SentOn(p, s, i) => SentOn(p, s, i)'
    BY <1>2, <1>3, <1>4 DEF SentOn, Sent
  <2>2. UNCHANGED <<toSource, toHub, pc, held, runs, answer>>
    BY <1>2 DEF hubVars
  <2> QED BY <1>1, <2>1, <2>2, SentStay
<1> QED BY <1>6, <1>7, <1>8, <1>9, <1>10, <1>11 DEF ExchangeInv

\* A query is given an id of its own and a registered source.
LEMMA RouteStep ==
    ASSUME QueriesInv, NEW q \in Queries, NEW label \in Labels, NEW op \in Ops,
           Route(q, label, op)
    PROVE  QueriesTypeOK' /\ PendingQueriesExact' /\ ExchangeInv'
<1>1. QueriesTypeOK /\ PendingQueriesExact /\ ExchangeInv /\ RouterInv
  BY DEF QueriesInv, SessionsInv
<1>2. UNCHANGED <<sessionVars, via, pendingQueries, answer, closed, held, outcome, runs, panicked>>
  BY DEF Route
<1>3. /\ qpc[q] = "idle" /\ qpc' \in [Queries -> QueryStates] /\ qpc'[q] = "routed"
      /\ \A p \in Queries : p # q => qpc'[p] = qpc[p]
  BY <1>1, MoveEffect DEF Route, QueryStates
<1>4. PICK id \in FreshIds :
          request' = Put(request, q, [id |-> id, source |-> Selected(label, op)])
  BY DEF Route
<1>5. Selected(label, op) \in Names
  BY <1>1, SelectedRegistered DEF Route, SelectSource, RouterInv, RouterTypeOK
<1>6. /\ q \notin DOMAIN request
      /\ DOMAIN request' = DOMAIN request \union {q}
      /\ request'[q] = [id |-> id, source |-> Selected(label, op)]
      /\ \A p \in DOMAIN request : request'[p] = request[p]
  BY <1>1, <1>3, <1>4 DEF ExchangeInv, Stages, Put
<1>7. id \in QueryIds /\ \A p \in DOMAIN request : request[p].id # id
  BY DEF FreshIds
<1>8. QueriesTypeOK'
  <2>1. request'[q] \in Request
    BY <1>5, <1>6, <1>7 DEF Request
  <2> QED BY <1>1, <1>2, <1>3, <1>6, <2>1 DEF QueriesTypeOK
<1>9. PendingQueriesExact'
  <2>1. \A p \in Queries : (qpc[p] \in Pending <=> qpc'[p] \in Pending)
                             /\ (qpc[p] \in Pending => p \in DOMAIN request)
    BY <1>1, <1>3 DEF ExchangeInv, Stages, Pending, Started
  <2> QED BY <1>1, <1>2, <1>6, <2>1 DEF PendingQueriesExact, Pending, QueriesTypeOK
<1>10. Stages'
  BY <1>1, <1>2, <1>3, <1>6 DEF ExchangeInv, Stages, Started, Located, Entered, Over
<1>11. IdsDistinct'
  BY <1>1, <1>6, <1>7 DEF ExchangeInv, IdsDistinct
<1>12. \A p \in Queries : p \in DOMAIN via => p \in DOMAIN request /\ request'[p] = request[p]
  BY <1>1, <1>6 DEF ExchangeInv, Stages
<1>13. StreamsFound' /\ InChannel' /\ OutcomesTrue'
  <2>1. DOMAIN via \subseteq Queries /\ DOMAIN answer \subseteq Queries
    BY <1>1 DEF QueriesTypeOK
  <2>2. \A p \in DOMAIN answer : p \in DOMAIN via
    BY <1>1, <2>1 DEF ExchangeInv, Stages
  <2> QED BY <1>1, <1>2, <1>6, <1>12, <2>1, <2>2
          DEF ExchangeInv, StreamsFound, InChannel, OutcomesTrue, sessionVars
<1>14. NoDuplicates' /\ OnTheWay' /\ OnTheWayBack' /\ InHand' /\ RunsOfSent'
  <2>1. \A p \in Queries, s \in Streams, i \in QueryIds : SentOn(p, s, i) => SentOn(p, s, i)'
    BY <1>1, <1>2, <1>3, <1>12 DEF ExchangeInv, Stages, SentOn, Sent
  <2>2. UNCHANGED <<toSource, toHub, pc, held, runs, answer>>
    BY <1>2 DEF sessionVars
  <2> QED BY <1>1, <2>1, <2>2, SentStay
<1> QED BY <1>8, <1>9, <1>10, <1>11, <1>13, <1>14 DEF ExchangeInv

\* The stream found under the name of the source is one of that source.
LEMMA FindStreamStep ==
    ASSUME QueriesInv, NEW q \in Queries, FindStream(q)
    PROVE  QueriesTypeOK' /\ PendingQueriesExact' /\ ExchangeInv'
<1>1. QueriesTypeOK /\ PendingQueriesExact /\ ExchangeInv /\ SessionsTypeOK /\ ActiveStreamsLive
  BY DEF QueriesInv, SessionsInv
<1>2. UNCHANGED <<hubVars, request, pendingQueries, answer, closed, held, outcome, runs, panicked>>
  BY DEF FindStream
<1>3. /\ qpc[q] = "routed" /\ qpc' \in [Queries -> QueryStates] /\ qpc'[q] = "found"
      /\ \A p \in Queries : p # q => qpc'[p] = qpc[p]
  BY <1>1, MoveEffect DEF FindStream, QueryStates
<1> DEFINE s == activeStreams[request[q].source]
<1>4. /\ q \notin DOMAIN via
      /\ q \in DOMAIN request
      /\ DOMAIN via' = DOMAIN via \union {q}
      /\ via'[q] = s
      /\ \A p \in DOMAIN via : via'[p] = via[p]
  <2>1. q \notin DOMAIN via /\ q \in DOMAIN request
    BY <1>1, <1>3 DEF ExchangeInv, Stages, Located, Started
  <2>2. via' = Put(via, q, s)
    BY DEF FindStream
  <2> HIDE DEF s
  <2> QED BY <2>1, <2>2 DEF Put
<1>5. s \in Streams /\ pc[s] # "idle" /\ reg[s].name = request[q].source
  BY <1>1 DEF FindStream, ActiveStreamsLive, SessionsTypeOK, Placed
<1> HIDE DEF s
<1>6. QueriesTypeOK'
  BY <1>1, <1>2, <1>3, <1>4, <1>5 DEF QueriesTypeOK
<1>7. PendingQueriesExact'
  <2>1. \A p \in Queries : qpc[p] \in Pending <=> qpc'[p] \in Pending
    BY <1>3 DEF Pending
  <2> QED BY <1>1, <1>2, <2>1 DEF PendingQueriesExact, Pending, QueriesTypeOK
<1>8. Stages'
  BY <1>1, <1>2, <1>3, <1>4 DEF ExchangeInv, Stages, Started, Located, Entered, Over
<1>9. IdsDistinct' /\ InChannel'
  BY <1>1, <1>2 DEF ExchangeInv, IdsDistinct, InChannel
<1>10. StreamsFound'
  BY <1>1, <1>2, <1>4, <1>5 DEF ExchangeInv, StreamsFound, hubVars
<1>11. OutcomesTrue'
  <2>1. q \notin DOMAIN outcome
    BY <1>1, <1>3 DEF ExchangeInv, Stages, Over
  <2> QED BY <1>1, <1>2, <1>4, <2>1 DEF ExchangeInv, OutcomesTrue
<1>12. NoDuplicates' /\ OnTheWay' /\ OnTheWayBack' /\ InHand' /\ RunsOfSent'
  <2>1. \A p \in DOMAIN answer : p \in DOMAIN via
    BY <1>1 DEF ExchangeInv, Stages, QueriesTypeOK
  <2>2. \A p \in Queries, t \in Streams, i \in QueryIds : SentOn(p, t, i) => SentOn(p, t, i)'
    BY <1>2, <1>3, <1>4, <2>1 DEF SentOn, Sent
  <2>3. UNCHANGED <<toSource, toHub, pc, held, runs, answer>>
    BY <1>2 DEF hubVars
  <2> QED BY <1>1, <2>2, <2>3, SentStay
<1> QED BY <1>6, <1>7, <1>8, <1>9, <1>10, <1>11, <1>12 DEF ExchangeInv

\* The entry is made under an id no other query has.
LEMMA AddPendingStep ==
    ASSUME QueriesInv, NEW q \in Queries, AddPending(q)
    PROVE  QueriesTypeOK' /\ PendingQueriesExact' /\ ExchangeInv'
<1>1. QueriesTypeOK /\ PendingQueriesExact /\ ExchangeInv
  BY DEF QueriesInv
<1>2. UNCHANGED <<hubVars, request, via, closed, held, outcome, runs, panicked>>
  BY DEF AddPending
<1>3. /\ qpc[q] = "found" /\ qpc' \in [Queries -> QueryStates] /\ qpc'[q] = "sending"
      /\ \A p \in Queries : p # q => qpc'[p] = qpc[p]
  BY <1>1, MoveEffect DEF AddPending, QueryStates
<1> DEFINE id == request[q].id
<1>4. q \in DOMAIN request /\ q \in DOMAIN via /\ q \notin DOMAIN answer /\ id \in QueryIds
  BY <1>1, <1>3 DEF ExchangeInv, Stages, Started, Located, Entered, QueriesTypeOK, Request
<1>5. /\ DOMAIN answer' = DOMAIN answer \union {q}
      /\ answer'[q] = <<>>
      /\ \A p \in DOMAIN answer : answer'[p] = answer[p]
  BY <1>4 DEF AddPending, Put
<1>6. /\ DOMAIN pendingQueries' = DOMAIN pendingQueries \union {id}
      /\ pendingQueries'[id] = q
      /\ \A i \in DOMAIN pendingQueries : i # id => pendingQueries'[i] = pendingQueries[i]
  BY DEF AddPending, Put
<1>7. QueriesTypeOK'
  <2>1. <<>> \in Seq(QueryIds)
    OBVIOUS
  <2>2. \A p \in DOMAIN answer' : p \in Queries /\ answer'[p] \in Seq(QueryIds)
    BY <1>1, <1>5, <2>1 DEF QueriesTypeOK
  <2>3. \A i \in DOMAIN pendingQueries' : i \in QueryIds /\ pendingQueries'[i] \in Queries
    BY <1>1, <1>4, <1>6 DEF QueriesTypeOK
  <2> QED BY <1>1, <1>2, <1>3, <2>2, <2>3 DEF QueriesTypeOK
<1>8. PendingQueriesExact'
  <2>1. \A p \in Queries : qpc'[p] \in Pending <=> (p = q \/ qpc[p] \in Pending)
    BY <1>3 DEF Pending
  <2>2. \A p \in Queries : p # q /\ qpc[p] \in Pending => request[p].id # id
    BY <1>1, <1>4 DEF ExchangeInv, Stages, IdsDistinct, Started, Pending
  <2> HIDE DEF id
  <2>3. ASSUME NEW p \in Queries, qpc'[p] \in Pending
        PROVE  request[p].id \in DOMAIN pendingQueries' /\ pendingQueries'[request[p].id] = p
    <3>1. CASE p = q
      BY <1>6, <3>1 DEF id
    <3>2. CASE p # q
      BY <1>1, <1>6, <2>1, <2>2, <2>3, <3>2 DEF PendingQueriesExact, Pending
    <3> QED BY <3>1, <3>2
  <2>4. ASSUME NEW i \in DOMAIN pendingQueries'
        PROVE  qpc'[pendingQueries'[i]] \in Pending /\ request[pendingQueries'[i]].id = i
    <3>1. CASE i = id
      BY <1>6, <2>1, <3>1 DEF id
    <3>2. CASE i # id
      BY <1>1, <1>6, <2>1, <3>2 DEF PendingQueriesExact, Pending, QueriesTypeOK
    <3> QED BY <3>1, <3>2
  <2> QED BY <1>2, <2>3, <2>4 DEF PendingQueriesExact, Pending
<1>9. Stages'
  BY <1>1, <1>2, <1>3, <1>4, <1>5 DEF ExchangeInv, Stages, Started, Located, Entered, Over
<1>10. IdsDistinct' /\ StreamsFound' /\ InChannel' /\ OutcomesTrue'
  BY <1>1, <1>2, <1>5
     DEF ExchangeInv, IdsDistinct, StreamsFound, InChannel, OutcomesTrue, hubVars
<1>11. NoDuplicates' /\ OnTheWay' /\ OnTheWayBack' /\ InHand' /\ RunsOfSent'
  <2>1. \A p \in Queries, s \in Streams, i \in QueryIds : SentOn(p, s, i) => SentOn(p, s, i)'
    BY <1>2, <1>3, <1>4, <1>5 DEF SentOn, Sent
  <2>2. UNCHANGED <<toSource, toHub, pc, held, runs>>
    BY <1>2 DEF hubVars
  <2>3. \A p \in DOMAIN answer : answer[p] = <<>> => answer'[p] = <<>>
    BY <1>5
  <2> QED BY <1>1, <2>1, <2>2, <2>3, SentStay
<1> QED BY <1>7, <1>8, <1>9, <1>10, <1>11 DEF ExchangeInv

\* A result in the channel has come from a source that ran the query.
LEMMA TakeResultStep ==
    ASSUME QueriesInv, NEW q \in Queries, TakeResult(q)
    PROVE  QueriesTypeOK' /\ PendingQueriesExact' /\ ExchangeInv'
<1>1. QueriesTypeOK /\ PendingQueriesExact /\ ExchangeInv
  BY DEF QueriesInv
<1>2. UNCHANGED <<hubVars, request, via, pendingQueries, closed, held, runs, panicked>>
  BY DEF TakeResult
<1>3. /\ qpc[q] = "waiting" /\ qpc' \in [Queries -> QueryStates] /\ qpc'[q] = "leaving"
      /\ \A p \in Queries : p # q => qpc'[p] = qpc[p]
  BY <1>1, MoveEffect DEF TakeResult, QueryStates
<1>4. q \in DOMAIN answer /\ q \in DOMAIN request /\ answer[q] # <<>>
  BY <1>1, <1>3 DEF ExchangeInv, Stages, Started, Entered, TakeResult
<1>5. /\ DOMAIN answer' = DOMAIN answer
      /\ \A p \in DOMAIN answer : answer'[p] \in Seq(QueryIds)
      /\ \A p \in DOMAIN answer : p # q => answer'[p] = answer[p]
  <2>1. answer' = [answer EXCEPT ![q] = Tail(answer[q])]
    BY DEF TakeResult
  <2>2. \A p \in DOMAIN answer : answer[p] \in Seq(QueryIds)
    BY <1>1 DEF QueriesTypeOK
  <2>3. answer'[q] = Tail(answer[q]) /\ Tail(answer[q]) \in Seq(QueryIds)
    BY <1>4, <2>1, <2>2
  <2> QED BY <2>1, <2>2, <2>3
<1>6. /\ DOMAIN outcome' = DOMAIN outcome \union {q}
      /\ outcome'[q] = "answered"
      /\ \A p \in DOMAIN outcome : p # q => outcome'[p] = outcome[p]
  BY DEF TakeResult, Return, Put
<1>7. QueriesTypeOK'
  BY <1>1, <1>2, <1>3, <1>5, <1>6 DEF QueriesTypeOK, Outcomes
<1>8. PendingQueriesExact'
  <2>1. \A p \in Queries : qpc[p] \in Pending <=> qpc'[p] \in Pending
    BY <1>3 DEF Pending
  <2> QED BY <1>1, <1>2, <2>1 DEF PendingQueriesExact, Pending, QueriesTypeOK
<1>9. Stages'
  BY <1>1, <1>2, <1>3, <1>5, <1>6 DEF ExchangeInv, Stages, Started, Located, Entered, Over
<1>10. IdsDistinct' /\ StreamsFound'
  BY <1>1, <1>2 DEF ExchangeInv, IdsDistinct, StreamsFound, hubVars
<1>11. runs[request[q].id] = 1
  BY <1>1, <1>4 DEF ExchangeInv, InChannel
<1>12. InChannel' /\ OutcomesTrue'
  BY <1>1, <1>2, <1>4, <1>5, <1>6, <1>11 DEF ExchangeInv, InChannel, OutcomesTrue
<1>13. NoDuplicates' /\ OnTheWay' /\ OnTheWayBack' /\ InHand' /\ RunsOfSent'
  <2>1. \A p \in Queries, s \in Streams, i \in QueryIds : SentOn(p, s, i) => SentOn(p, s, i)'
    BY <1>2, <1>3, <1>5 DEF SentOn, Sent
  <2>2. UNCHANGED <<toSource, toHub, pc, held, runs>>
    BY <1>2 DEF hubVars
  <2>3. \A p \in DOMAIN answer : answer[p] = <<>> => answer'[p] = <<>>
    BY <1>4, <1>5
  <2> QED BY <1>1, <2>1, <2>2, <2>3, SentStay
<1> QED BY <1>7, <1>8, <1>9, <1>10, <1>12, <1>13 DEF ExchangeInv

\* The deferred function takes the query's own entry away.
LEMMA RemovePendingStep ==
    ASSUME QueriesInv, NEW q \in Queries, RemovePending(q)
    PROVE  QueriesTypeOK' /\ PendingQueriesExact' /\ ExchangeInv'
<1>1. QueriesTypeOK /\ PendingQueriesExact /\ ExchangeInv
  BY DEF QueriesInv
<1>2. UNCHANGED <<hubVars, request, via, answer, closed, held, outcome, runs, panicked>>
  BY DEF RemovePending
<1>3. /\ qpc[q] = "leaving" /\ qpc' \in [Queries -> QueryStates] /\ qpc'[q] = "closing"
      /\ \A p \in Queries : p # q => qpc'[p] = qpc[p]
  BY <1>1, MoveEffect DEF RemovePending, QueryStates
<1> DEFINE id == request[q].id
<1>4. /\ DOMAIN pendingQueries' = DOMAIN pendingQueries \ {id}
      /\ \A i \in DOMAIN pendingQueries' : pendingQueries'[i] = pendingQueries[i]
  BY DEF RemovePending, Delete, Restrict
<1>5. QueriesTypeOK'
  BY <1>1, <1>2, <1>3, <1>4 DEF QueriesTypeOK
<1>6. PendingQueriesExact'
  <2>1. \A p \in Queries : qpc'[p] \in Pending <=> (p # q /\ qpc[p] \in Pending)
    BY <1>3 DEF Pending
  <2>2. pendingQueries[id] = q
    BY <1>1, <1>3 DEF PendingQueriesExact
  <2>3. \A p \in Queries : p # q /\ qpc[p] \in Pending => request[p].id # id
    BY <1>1, <2>2 DEF PendingQueriesExact, Pending
  <2> HIDE DEF id
  <2>4. ASSUME NEW p \in Queries, qpc'[p] \in Pending
        PROVE  request[p].id \in DOMAIN pendingQueries' /\ pendingQueries'[request[p].id] = p
    BY <1>1, <1>4, <2>1, <2>3, <2>4 DEF PendingQueriesExact, Pending
  <2>5. ASSUME NEW i \in DOMAIN pendingQueries'
        PROVE  qpc'[pendingQueries'[i]] \in Pending /\ request[pendingQueries'[i]].id = i
    <3>1. pendingQueries[i] # q
      BY <1>1, <1>4 DEF PendingQueriesExact, id
    <3> QED BY <1>1, <1>4, <2>1, <3>1 DEF PendingQueriesExact, Pending, QueriesTypeOK
  <2> QED BY <1>2, <2>4, <2>5 DEF PendingQueriesExact, Pending
<1>7. Stages'
  BY <1>1, <1>2, <1>3 DEF ExchangeInv, Stages, Started, Located, Entered, Over
<1>8. IdsDistinct' /\ StreamsFound' /\ InChannel' /\ OutcomesTrue'
  BY <1>1, <1>2
     DEF ExchangeInv, IdsDistinct, StreamsFound, InChannel, OutcomesTrue, hubVars
<1>9. NoDuplicates' /\ OnTheWay' /\ OnTheWayBack' /\ InHand' /\ RunsOfSent'
  <2>1. \A p \in Queries, s \in Streams, i \in QueryIds : SentOn(p, s, i) => SentOn(p, s, i)'
    BY <1>2, <1>3 DEF SentOn, Sent
  <2>2. UNCHANGED <<toSource, toHub, pc, held, runs, answer>>
    BY <1>2 DEF hubVars
  <2> QED BY <1>1, <2>1, <2>2, SentStay
<1> QED BY <1>5, <1>6, <1>7, <1>8, <1>9 DEF ExchangeInv

LEMMA CloseChannelStep ==
    ASSUME QueriesInv, NEW q \in Queries, CloseChannel(q)
    PROVE  QueriesTypeOK' /\ PendingQueriesExact' /\ ExchangeInv'
<1>1. QueriesTypeOK /\ PendingQueriesExact /\ ExchangeInv
  BY DEF QueriesInv
<1>2. /\ UNCHANGED <<hubVars, request, via, pendingQueries, answer, held, outcome, runs, panicked>>
      /\ closed' = closed \union {q}
  BY DEF CloseChannel
<1>3. /\ qpc[q] = "closing" /\ qpc' \in [Queries -> QueryStates] /\ qpc'[q] = "done"
      /\ \A p \in Queries : p # q => qpc'[p] = qpc[p]
  BY <1>1, MoveEffect DEF CloseChannel, QueryStates
<1>4. QueriesTypeOK'
  BY <1>1, <1>2, <1>3 DEF QueriesTypeOK
<1>5. PendingQueriesExact'
  <2>1. \A p \in Queries : qpc[p] \in Pending <=> qpc'[p] \in Pending
    BY <1>3 DEF Pending
  <2> QED BY <1>1, <1>2, <2>1 DEF PendingQueriesExact, Pending, QueriesTypeOK
<1>6. Stages'
  BY <1>1, <1>2, <1>3 DEF ExchangeInv, Stages, Started, Located, Entered, Over
<1>7. IdsDistinct' /\ StreamsFound' /\ InChannel' /\ OutcomesTrue'
  BY <1>1, <1>2
     DEF ExchangeInv, IdsDistinct, StreamsFound, InChannel, OutcomesTrue, hubVars
<1>8. NoDuplicates' /\ OnTheWay' /\ OnTheWayBack' /\ InHand' /\ RunsOfSent'
  <2>1. \A p \in Queries, s \in Streams, i \in QueryIds : SentOn(p, s, i) => SentOn(p, s, i)'
    BY <1>2, <1>3 DEF SentOn, Sent
  <2>2. UNCHANGED <<toSource, toHub, pc, held, runs, answer>>
    BY <1>2 DEF hubVars
  <2> QED BY <1>1, <2>1, <2>2, SentStay
<1> QED BY <1>4, <1>5, <1>6, <1>7, <1>8 DEF ExchangeInv

\* An id was sent for one query, on one stream.
LEMMA OneSender ==
    ASSUME QueriesTypeOK, ExchangeInv, NEW p \in Queries, NEW s, NEW i, SentOn(p, s, i)
    PROVE  /\ p \in DOMAIN request /\ p \in DOMAIN via
           /\ \A q \in DOMAIN request : request[q].id = i => q = p
           /\ \A q \in Queries : \A t : SentOn(q, t, i) => q = p /\ t = s
<1>1. p \in DOMAIN request /\ p \in DOMAIN via /\ request[p].id = i /\ via[p] = s
  BY DEF ExchangeInv, Stages, SentOn
<1>2. \A q \in DOMAIN request : request[q].id = i => q = p
  BY <1>1 DEF ExchangeInv, IdsDistinct
<1>3. ASSUME NEW q \in Queries, NEW t, SentOn(q, t, i) PROVE q = p /\ t = s
  <2>1. q \in DOMAIN request /\ request[q].id = i /\ via[q] = t
    BY <1>3 DEF ExchangeInv, Stages, SentOn
  <2> QED BY <1>1, <1>2, <2>1
<1> QED BY <1>1, <1>2, <1>3

\* A query that is sent is nowhere yet and has not run.
LEMMA SendQueryStep ==
    ASSUME QueriesInv, NEW q \in Queries, SendQuery(q)
    PROVE  QueriesTypeOK' /\ PendingQueriesExact' /\ ExchangeInv'
<1>1. QueriesTypeOK /\ PendingQueriesExact /\ ExchangeInv /\ SessionsTypeOK
  BY DEF QueriesInv, SessionsInv
<1>2. UNCHANGED <<pc, reg, peer, toHub, request, via, pendingQueries, answer, closed, held,
                  outcome, runs, panicked>>
  BY DEF SendQuery, handlerVars
<1>3. /\ qpc[q] = "sending" /\ qpc' \in [Queries -> QueryStates] /\ qpc'[q] = "waiting"
      /\ \A p \in Queries : p # q => qpc'[p] = qpc[p]
  BY <1>1, MoveEffect DEF SendQuery, QueryStates
<1>4. PICK s \in Streams, i \in QueryIds :
          /\ q \in DOMAIN request /\ q \in DOMAIN via /\ q \in DOMAIN answer
          /\ s = via[q] /\ i = request[q].id
  BY <1>1, <1>3
     DEF ExchangeInv, Stages, Started, Located, Entered, QueriesTypeOK, Request
<1>5. \A p \in Queries, t \in Streams : ~SentOn(p, t, i)
  <2> SUFFICES ASSUME NEW p \in Queries, NEW t \in Streams, SentOn(p, t, i) PROVE FALSE
    OBVIOUS
  <2>1. p = q
    BY <1>1, <1>4, OneSender
  <2> QED BY <1>3, <2>1 DEF SentOn, Sent
<1>6. runs[i] = 0 /\ \A t \in Streams : ~Carries(toSource[t], i)
  BY <1>1, <1>4, <1>5 DEF ExchangeInv, OnTheWay, RunsOfSent
<1>7. toSource' = toSource \/ toSource' = [toSource EXCEPT ![s] = Append(@, i)]
  BY <1>4 DEF SendQuery, SendSucceeds
<1>8. /\ \A t \in Streams : Single(toSource'[t])
      /\ \A t \in Streams, j \in QueryIds :
            Carries(toSource'[t], j) => Carries(toSource[t], j) \/ (t = s /\ j = i)
  <2>1. toSource \in [Streams -> Seq(HubMessages)] /\ \A t \in Streams : Single(toSource[t])
    BY <1>1 DEF SessionsTypeOK, ExchangeInv, NoDuplicates
  <2>2. CASE toSource' = toSource
    BY <2>1, <2>2
  <2>3. CASE toSource' = [toSource EXCEPT ![s] = Append(@, i)]
    <3>1. toSource'[s] = Append(toSource[s], i) /\ \A t \in Streams : t # s => toSource'[t] = toSource[t]
      BY <1>4, <2>1, <2>3
    <3>2. toSource[s] \in Seq(HubMessages)
      BY <1>4, <2>1
    <3>3. Single(toSource'[s]) /\ \A j : Carries(toSource'[s], j) <=> (Carries(toSource[s], j) \/ j = i)
      BY <1>4, <1>6, <2>1, <3>1, <3>2, AppendCarries
    <3> QED BY <2>1, <3>1, <3>3
  <2> QED BY <1>7, <2>2, <2>3
<1>9. QueriesTypeOK'
  BY <1>1, <1>2, <1>3 DEF QueriesTypeOK
<1>10. PendingQueriesExact'
  <2>1. \A p \in Queries : qpc[p] \in Pending <=> qpc'[p] \in Pending
    BY <1>3 DEF Pending
  <2> QED BY <1>1, <1>2, <2>1 DEF PendingQueriesExact, Pending, QueriesTypeOK
<1>11. Stages'
  BY <1>1, <1>2, <1>3 DEF ExchangeInv, Stages, Started, Located, Entered, Over
<1>12. IdsDistinct' /\ StreamsFound' /\ InChannel' /\ OutcomesTrue'
  BY <1>1, <1>2 DEF ExchangeInv, IdsDistinct, StreamsFound, InChannel, OutcomesTrue
<1>13. \A p \in Queries : \A t, j : SentOn(p, t, j) => SentOn(p, t, j)'
  BY <1>2, <1>3 DEF SentOn, Sent
<1>14. SentOn(q, s, i)'
  BY <1>2, <1>3, <1>4 DEF SentOn, Sent
<1>15. NoDuplicates'
  BY <1>1, <1>2, <1>8 DEF ExchangeInv, NoDuplicates
<1>16. OnTheWay'
  BY <1>1, <1>2, <1>6, <1>8, <1>13, <1>14 DEF ExchangeInv, OnTheWay
<1>17. OnTheWayBack' /\ RunsOfSent'
  BY <1>1, <1>2, <1>13 DEF ExchangeInv, OnTheWayBack, RunsOfSent
<1>18. InHand'
  <2>1. \A t \in DOMAIN held : held[t].query \in Queries
    BY <1>1 DEF QueriesTypeOK, Result
  <2> QED BY <1>1, <1>2, <1>13, <2>1 DEF ExchangeInv, InHand
<1> QED BY <1>9, <1>10, <1>11, <1>12, <1>15, <1>16, <1>17, <1>18 DEF ExchangeInv

-----------------------------------------------------------------------------
(* handleQueryResult *)

\* The entry found under an id is the query's the result answers.
LEMMA LookupPendingStep ==
    ASSUME QueriesInv, NEW s \in Streams, LookupPending(s)
    PROVE  QueriesTypeOK' /\ PendingQueriesExact' /\ ExchangeInv'
<1>1. QueriesTypeOK /\ PendingQueriesExact /\ ExchangeInv /\ SessionsTypeOK
  BY DEF QueriesInv, SessionsInv
<1> DEFINE id == Head(toHub[s])
<1>2. /\ UNCHANGED <<reg, toSource, qpc, request, via, pendingQueries, answer, closed, outcome,
                     runs, panicked>>
      /\ id \in QueryIds /\ toHub[s] # <<>> /\ pc[s] = "serving"
      /\ toHub' = [toHub EXCEPT ![s] = Tail(@)]
  BY DEF LookupPending, At
<1>3. /\ Carries(toHub[s], id)
      /\ ~Carries(toHub'[s], id)
      /\ \A t \in Streams : Loses(toHub[t], toHub'[t])
  <2>1. toHub \in [Streams -> Seq(SourceMessages)] /\ Single(toHub[s])
    BY <1>1 DEF SessionsTypeOK, ExchangeInv, NoDuplicates
  <2>2. toHub[s] \in Seq(SourceMessages) /\ toHub'[s] = Tail(toHub[s])
    BY <1>2, <2>1
  <2>3. \A t \in Streams : Loses(toHub[t], toHub'[t])
    BY <1>2, <2>1, QueuesLose
  <2>4. Carries(toHub[s], id) /\ ~Carries(Tail(toHub[s]), id)
    BY <1>2, <2>1, <2>2, TailCarries
  <2> QED BY <2>2, <2>3, <2>4
<1>4. PICK p \in Queries : SentOn(p, s, id) /\ answer[p] = <<>> /\ runs[id] = 1
  BY <1>1, <1>2, <1>3 DEF ExchangeInv, OnTheWayBack
<1> HIDE DEF id
<1>5. CASE id \notin DOMAIN pendingQueries
  <2>1. UNCHANGED <<pc, held>>
    BY <1>5 DEF LookupPending, id
  <2> QED
    <3>1. UNCHANGED queryVars
      BY <1>2, <2>1 DEF queryVars
    <3>2. \A t \in Streams : Loses(toSource[t], toSource'[t])
      BY <1>2 DEF Loses
    <3> QED BY <1>1, <1>2, <1>3, <2>1, <3>1, <3>2, ExchangeKept
<1>6. CASE id \in DOMAIN pendingQueries
  <2>1. pendingQueries[id] = p
    <3>1. pendingQueries[id] \in Queries /\ qpc[pendingQueries[id]] \in Pending
            /\ request[pendingQueries[id]].id = id
      BY <1>1, <1>6 DEF QueriesTypeOK, PendingQueriesExact, Pending
    <3>2. pendingQueries[id] \in DOMAIN request
      BY <1>1, <3>1 DEF ExchangeInv, Stages, Pending, Started
    <3> QED BY <1>1, <1>4, <3>1, <3>2, OneSender
  <2>2. /\ pc' = [pc EXCEPT ![s] = "delivering"]
        /\ held' = Put(held, s, [query |-> p, result |-> id])
    BY <1>6, <2>1 DEF LookupPending, Goto, id
  <2>3. /\ DOMAIN held' = DOMAIN held \union {s}
        /\ held'[s] = [query |-> p, result |-> id]
        /\ \A t \in DOMAIN held : t # s => held'[t] = held[t]
    BY <2>2 DEF Put
  <2>4. /\ pc'[s] = "delivering"
        /\ \A t \in Streams : t # s => pc'[t] = pc[t]
    BY <1>1, <2>2 DEF SessionsTypeOK
  <2>5. QueriesTypeOK'
    <3>1. held'[s] \in Result
      BY <1>2, <2>3 DEF Result
    <3> QED BY <1>1, <1>2, <2>3, <3>1 DEF QueriesTypeOK
  <2>6. PendingQueriesExact' /\ Stages' /\ IdsDistinct' /\ InChannel' /\ OutcomesTrue' /\ RunsOfSent'
    BY <1>1, <1>2
       DEF ExchangeInv, PendingQueriesExact, Stages, IdsDistinct, InChannel, OutcomesTrue,
           RunsOfSent, SentOn
  <2>7. StreamsFound'
    BY <1>1, <1>2, <2>4 DEF ExchangeInv, StreamsFound, QueriesTypeOK
  <2>8. \A q, t, i : SentOn(q, t, i)' <=> SentOn(q, t, i)
    BY <1>2 DEF SentOn
  <2>9. NoDuplicates' /\ OnTheWay' /\ OnTheWayBack'
    BY <1>1, <1>2, <1>3, <2>8 DEF ExchangeInv, NoDuplicates, OnTheWay, OnTheWayBack, Loses
  <2>10. InHand'
    <3>1. \A t \in Streams : t \in DOMAIN held' <=> pc'[t] = "delivering"
      BY <1>1, <2>3, <2>4 DEF ExchangeInv, InHand
    <3>2. ASSUME NEW t \in DOMAIN held'
          PROVE  /\ SentOn(held'[t].query, t, held'[t].result)
                 /\ runs[held'[t].result] = 1
                 /\ answer[held'[t].query] = <<>>
                 /\ ~Carries(toHub'[t], held'[t].result)
      <4>1. CASE t = s
        BY <1>3, <1>4, <2>3, <4>1
      <4>2. CASE t # s
        <5>1. t \in DOMAIN held /\ held'[t] = held[t] /\ t \in Streams /\ held[t].result \in QueryIds
          BY <1>1, <2>3, <4>2 DEF QueriesTypeOK, Result
        <5> QED BY <1>1, <1>3, <5>1 DEF ExchangeInv, InHand, Loses
      <4> QED BY <4>1, <4>2
    <3> QED BY <1>2, <2>8, <3>1, <3>2 DEF InHand
  <2> QED BY <2>5, <2>6, <2>7, <2>9, <2>10 DEF ExchangeInv
<1> QED BY <1>5, <1>6

\* What a handler hands over is the only trace of the query left.
LEMMA DeliverStep ==
    ASSUME QueriesInv, NEW s \in Streams, Deliver(s)
    PROVE  QueriesTypeOK' /\ PendingQueriesExact' /\ ExchangeInv'
<1>1. QueriesTypeOK /\ PendingQueriesExact /\ ExchangeInv /\ SessionsTypeOK
  BY DEF QueriesInv, SessionsInv
<1> DEFINE q == held[s].query
           i == held[s].result
<1>2. /\ UNCHANGED <<reg, toSource, toHub, qpc, request, via, pendingQueries, closed, outcome, runs>>
      /\ pc[s] = "delivering" /\ pc' = [pc EXCEPT ![s] = "serving"]
      /\ held' = Delete(held, s)
      /\ panicked' \in BOOLEAN
      /\ answer' = answer \/ answer' = [answer EXCEPT ![q] = <<i>>]
  BY DEF Deliver, At, Goto, wire
<1>3. /\ s \in DOMAIN held /\ q \in Queries /\ i \in QueryIds
      /\ SentOn(q, s, i)
      /\ runs[i] = 1
      /\ ~Carries(toHub[s], i)
  BY <1>1, <1>2 DEF ExchangeInv, InHand, QueriesTypeOK, Result
<1>4. q \in DOMAIN answer /\ request[q].id = i
  BY <1>3 DEF SentOn
<1> HIDE DEF q, i
<1>5. /\ DOMAIN held' = DOMAIN held \ {s}
      /\ \A t \in DOMAIN held' : held'[t] = held[t]
  BY <1>2 DEF Delete, Restrict
<1>6. /\ pc'[s] = "serving"
      /\ \A t \in Streams : t # s => pc'[t] = pc[t]
  BY <1>1, <1>2 DEF SessionsTypeOK
<1>7. /\ DOMAIN answer' = DOMAIN answer
      /\ answer'[q] = answer[q] \/ answer'[q] = <<i>>
      /\ \A p \in DOMAIN answer : p # q => answer'[p] = answer[p]
  BY <1>2, <1>4
<1>8. QueriesTypeOK'
  <2>1. <<i>> \in Seq(QueryIds)
    BY <1>3
  <2>2. \A p \in DOMAIN answer' : p \in Queries /\ answer'[p] \in Seq(QueryIds)
    BY <1>1, <1>7, <2>1 DEF QueriesTypeOK
  <2> QED BY <1>1, <1>2, <1>5, <2>2 DEF QueriesTypeOK
<1>9. PendingQueriesExact' /\ Stages' /\ IdsDistinct' /\ OutcomesTrue'
  BY <1>1, <1>2, <1>7
     DEF ExchangeInv, PendingQueriesExact, Stages, IdsDistinct, OutcomesTrue
<1>10. StreamsFound'
  BY <1>1, <1>2, <1>6 DEF ExchangeInv, StreamsFound, QueriesTypeOK
<1>11. InChannel'
  BY <1>1, <1>2, <1>3, <1>4, <1>7 DEF ExchangeInv, InChannel
<1>12. \A p, t, j : SentOn(p, t, j)' <=> SentOn(p, t, j)
  BY <1>2, <1>7 DEF SentOn
<1>13. NoDuplicates' /\ OnTheWay' /\ RunsOfSent'
  BY <1>1, <1>2, <1>12 DEF ExchangeInv, NoDuplicates, OnTheWay, RunsOfSent
<1>14. OnTheWayBack'
  <2> SUFFICES ASSUME NEW t \in Streams, NEW j \in QueryIds, Carries(toHub[t], j)
               PROVE  runs[j] = 1 /\ \E p \in Queries : SentOn(p, t, j) /\ answer'[p] = <<>>
    BY <1>2, <1>12 DEF OnTheWayBack
  <2>1. PICK p \in Queries : SentOn(p, t, j) /\ answer[p] = <<>> /\ runs[j] = 1
    BY <1>1 DEF ExchangeInv, OnTheWayBack
  <2>2. p # q
    <3> SUFFICES ASSUME p = q PROVE FALSE
      OBVIOUS
    <3>1. j = i /\ t = s
      BY <1>3, <2>1 DEF SentOn
    <3> QED BY <1>3, <3>1
  <2> QED BY <1>7, <2>1, <2>2 DEF SentOn
<1>15. InHand'
  <2>1. \A t \in Streams : t \in DOMAIN held' <=> pc'[t] = "delivering"
    BY <1>1, <1>5, <1>6 DEF ExchangeInv, InHand
  <2>2. ASSUME NEW t \in DOMAIN held'
        PROVE  /\ SentOn(held[t].query, t, held[t].result)
               /\ runs[held[t].result] = 1
               /\ answer'[held[t].query] = <<>>
               /\ ~Carries(toHub[t], held[t].result)
    <3>1. t \in DOMAIN held /\ t # s
      BY <1>5
    <3>2. /\ SentOn(held[t].query, t, held[t].result)
          /\ runs[held[t].result] = 1
          /\ answer[held[t].query] = <<>>
          /\ ~Carries(toHub[t], held[t].result)
      BY <1>1, <3>1 DEF ExchangeInv, InHand
    <3>3. held[t].query # q
      BY <1>3, <3>1, <3>2 DEF SentOn
    <3> QED BY <1>7, <3>2, <3>3 DEF SentOn
  <2> QED BY <1>2, <1>5, <1>12, <2>1, <2>2 DEF InHand
<1> QED BY <1>8, <1>9, <1>10, <1>11, <1>13, <1>14, <1>15 DEF ExchangeInv

-----------------------------------------------------------------------------
(* handleQueryExecution *)

\* A query that is executed was under way, and its result may be now.
LEMMA RunStep ==
    ASSUME QueriesInv, NEW s \in Streams, ExecuteOperation(s) \/ ExecuteAndDie(s)
    PROVE  QueriesTypeOK' /\ PendingQueriesExact' /\ ExchangeInv'
<1>1. QueriesTypeOK /\ PendingQueriesExact /\ ExchangeInv /\ SessionsTypeOK
  BY DEF QueriesInv, SessionsInv
<1>2. PICK i \in QueryIds : i = Head(toSource[s])
  BY DEF ExecuteOperation, ExecuteAndDie
<1>3. /\ UNCHANGED <<pc, reg, qpc, request, via, pendingQueries, answer, closed, held, outcome, panicked>>
      /\ toSource[s] # <<>>
      /\ runs' = [runs EXCEPT ![i] = @ + 1]
      /\ \/ toSource' = [toSource EXCEPT ![s] = Tail(@)]
         \/ toSource' = [toSource EXCEPT ![s] = <<>>]
      /\ toHub' = toHub \/ toHub' = [toHub EXCEPT ![s] = Append(@, i)]
  BY <1>2 DEF ExecuteOperation, ExecuteAndDie, Close, handlerVars
<1>4. /\ Carries(toSource[s], i)
      /\ ~Carries(toSource'[s], i)
      /\ \A t \in Streams : Loses(toSource[t], toSource'[t])
  <2>1. toSource \in [Streams -> Seq(HubMessages)] /\ Single(toSource[s])
    BY <1>1 DEF SessionsTypeOK, ExchangeInv, NoDuplicates
  <2>2. toSource[s] \in Seq(HubMessages)
          /\ (toSource'[s] = Tail(toSource[s]) \/ toSource'[s] = <<>>)
    BY <1>3, <2>1
  <2>3. \A t \in Streams : Loses(toSource[t], toSource'[t])
    BY <1>3, <2>1, QueuesLose
  <2>4. Carries(toSource[s], i) /\ ~Carries(Tail(toSource[s]), i)
    BY <1>2, <1>3, <2>1, <2>2, TailCarries
  <2> QED BY <2>2, <2>3, <2>4, EmptyCarries
<1>5. PICK q \in Queries : SentOn(q, s, i) /\ runs[i] = 0
  BY <1>1, <1>4 DEF ExchangeInv, OnTheWay
<1>6. /\ runs'[i] = 1
      /\ \A j \in QueryIds : j # i => runs'[j] = runs[j]
      /\ runs' \in [QueryIds -> Nat]
  BY <1>1, <1>3, <1>5 DEF QueriesTypeOK
<1>7. \A t \in Streams : ~Carries(toHub[t], i) /\ (Carries(toSource[t], i) => t = s)
  <2>1. \A t \in Streams : ~Carries(toHub[t], i)
    BY <1>1, <1>5 DEF ExchangeInv, OnTheWayBack
  <2>2. \A t \in Streams : Carries(toSource[t], i) => \E p \in Queries : SentOn(p, t, i)
    BY <1>1 DEF ExchangeInv, OnTheWay
  <2> QED BY <1>1, <1>5, <2>1, <2>2, OneSender
<1>8. /\ \A t \in Streams : Single(toHub'[t])
      /\ \A t \in Streams, j \in QueryIds :
            Carries(toHub'[t], j) => Carries(toHub[t], j) \/ (t = s /\ j = i)
  <2>1. toHub \in [Streams -> Seq(SourceMessages)] /\ \A t \in Streams : Single(toHub[t])
    BY <1>1 DEF SessionsTypeOK, ExchangeInv, NoDuplicates
  <2>2. CASE toHub' = toHub
    BY <2>1, <2>2
  <2>3. CASE toHub' = [toHub EXCEPT ![s] = Append(@, i)]
    <3>1. /\ toHub[s] \in Seq(SourceMessages) /\ toHub'[s] = Append(toHub[s], i)
          /\ \A t \in Streams : t # s => toHub'[t] = toHub[t]
      BY <2>1, <2>3
    <3>2. Single(toHub'[s]) /\ \A j : Carries(toHub'[s], j) <=> (Carries(toHub[s], j) \/ j = i)
      BY <1>7, <2>1, <3>1, AppendCarries
    <3> QED BY <2>1, <3>1, <3>2
  <2> QED BY <1>3, <2>2, <2>3
<1>9. answer[q] = <<>>
  BY <1>1, <1>5 DEF ExchangeInv, InChannel, SentOn
<1>10. QueriesTypeOK'
  BY <1>1, <1>3, <1>6 DEF QueriesTypeOK
<1>11. PendingQueriesExact' /\ Stages' /\ IdsDistinct' /\ StreamsFound'
  BY <1>1, <1>3 DEF ExchangeInv, PendingQueriesExact, Stages, IdsDistinct, StreamsFound
<1>12. \A p, t, j : SentOn(p, t, j)' <=> SentOn(p, t, j)
  BY <1>3 DEF SentOn
<1>13. NoDuplicates'
  BY <1>1, <1>4, <1>8 DEF ExchangeInv, NoDuplicates, Loses
<1>14. OnTheWay'
  <2> SUFFICES ASSUME NEW t \in Streams, NEW j \in QueryIds, Carries(toSource'[t], j)
               PROVE  runs'[j] = 0 /\ \E p \in Queries : SentOn(p, t, j)
    BY <1>12 DEF OnTheWay
  <2>1. Carries(toSource[t], j) /\ j # i
    BY <1>4, <1>7 DEF Loses
  <2> QED BY <1>1, <1>6, <2>1 DEF ExchangeInv, OnTheWay
<1>15. OnTheWayBack'
  <2> SUFFICES ASSUME NEW t \in Streams, NEW j \in QueryIds, Carries(toHub'[t], j)
               PROVE  runs'[j] = 1 /\ \E p \in Queries : SentOn(p, t, j) /\ answer[p] = <<>>
    BY <1>3, <1>12 DEF OnTheWayBack
  <2>1. CASE t = s /\ j = i
    BY <1>5, <1>6, <1>9, <2>1
  <2>2. CASE Carries(toHub[t], j)
    BY <1>1, <1>6, <1>7, <2>2 DEF ExchangeInv, OnTheWayBack
  <2> QED BY <1>8, <2>1, <2>2
<1>16. InHand'
  <2>1. ASSUME NEW t \in DOMAIN held
        PROVE  /\ SentOn(held[t].query, t, held[t].result)
               /\ runs'[held[t].result] = 1
               /\ answer[held[t].query] = <<>>
               /\ ~Carries(toHub'[t], held[t].result)
    <3>1. /\ SentOn(held[t].query, t, held[t].result)
          /\ runs[held[t].result] = 1
          /\ answer[held[t].query] = <<>>
          /\ ~Carries(toHub[t], held[t].result)
      BY <1>1 DEF ExchangeInv, InHand
    <3>2. t \in Streams /\ held[t].result \in QueryIds /\ held[t].result # i
      BY <1>1, <1>5, <3>1 DEF QueriesTypeOK, Result
    <3> QED BY <1>6, <1>8, <3>1, <3>2
  <2> QED BY <1>1, <1>3, <1>12, <2>1 DEF ExchangeInv, InHand
<1>17. \A p \in DOMAIN request : request[p].id \in QueryIds
  BY <1>1 DEF QueriesTypeOK, Request
<1>18. InChannel' /\ OutcomesTrue'
  <2>1. \A j \in QueryIds : runs[j] = 1 => runs'[j] = 1
    BY <1>5, <1>6
  <2>2. \A p \in DOMAIN answer : p \in DOMAIN request
    BY <1>1 DEF ExchangeInv, Stages, QueriesTypeOK
  <2> QED BY <1>1, <1>3, <1>17, <2>1, <2>2 DEF ExchangeInv, InChannel, OutcomesTrue
<1>19. RunsOfSent'
  <2> SUFFICES ASSUME NEW j \in QueryIds
               PROVE  /\ runs'[j] \in {0, 1}
                      /\ runs'[j] = 1 => \E p \in Queries, t \in Streams : SentOn(p, t, j)
    BY <1>12 DEF RunsOfSent
  <2>1. CASE j = i
    BY <1>5, <1>6, <2>1
  <2>2. CASE j # i
    BY <1>1, <1>6, <2>2 DEF ExchangeInv, RunsOfSent
  <2> QED BY <2>1, <2>2
<1> QED BY <1>10, <1>11, <1>13, <1>14, <1>15, <1>16, <1>18, <1>19 DEF ExchangeInv

-----------------------------------------------------------------------------
(* The sessions, under the steps HubSessions does not have. *)

LEMMA SessionsKept ==
    ASSUME SessionsInv, RouterInv', UNCHANGED <<reg, activeStreams>>, SessionsTypeOK',
           DOMAIN sources' = DOMAIN sources,
           \A n \in DOMAIN sources : sources'[n].label = sources[n].label,
           \A t \in Streams : peer'[t] = "idle" => peer[t] = "idle",
           \A t \in Streams :
              pc'[t] = pc[t] \/ {pc[t], pc'[t]} = {"serving", "delivering"}
    PROVE  SessionsInv'
<1>1. \A t \in Streams : /\ pc'[t] \in Owning <=> pc[t] \in Owning
                         /\ pc'[t] \in Placed <=> pc[t] \in Placed
                         /\ pc'[t] = "idle" <=> pc[t] = "idle"
  BY DEF Owning, Placed
<1>2. StreamsOpened'
  BY <1>1 DEF SessionsInv, StreamsOpened
<1>3. OneOwner'
  BY <1>1, SameOwners DEF SessionsInv
<1>4. ActiveStreamsLive'
  BY <1>1 DEF SessionsInv, ActiveStreamsLive, SessionsTypeOK
<1> QED BY <1>2, <1>3, <1>4 DEF SessionsInv

LEMMA ExchangeKeepsSessions ==
    ASSUME QueriesInv, NEW s \in Streams,
           \/ \E q \in Queries : SendQuery(q)
           \/ LookupPending(s) \/ Deliver(s) \/ ExecuteOperation(s) \/ ExecuteAndDie(s)
    PROVE  SessionsInv'
<1>1. SessionsInv /\ SessionsTypeOK /\ RouterInv /\ QueriesTypeOK
  BY DEF QueriesInv, SessionsInv
<1>2. /\ UNCHANGED <<reg, activeStreams, wasHealthy, check, connected, healthyGauge>>
      /\ UNCHANGED routerVars
  BY DEF SendQuery, LookupPending, Deliver, ExecuteOperation, ExecuteAndDie, gauges,
         handlerVars
<1>3. RouterInv' /\ UNCHANGED sources
  BY <1>1, <1>2, RouterUnchanged DEF routerVars
<1>4. toSource' \in [Streams -> Seq(HubMessages)]
  <2>1. toSource \in [Streams -> Seq(HubMessages)]
    BY <1>1 DEF SessionsTypeOK
  <2>2. ASSUME NEW q \in Queries, SendQuery(q) PROVE toSource' \in [Streams -> Seq(HubMessages)]
    <3>1. q \in DOMAIN via /\ q \in DOMAIN request
      <4>1. qpc[q] = "sending"
        BY <2>2 DEF SendQuery, Move
      <4> QED BY <4>1 DEF QueriesInv, ExchangeInv, Stages, Located, Started
    <3>2. via[q] \in Streams /\ request[q].id \in HubMessages
      BY <1>1, <3>1 DEF QueriesTypeOK, Request, HubMessages
    <3> QED BY <1>1, <2>2, <3>2, SendType DEF SendQuery
  <2>3. CASE ExecuteOperation(s)
    BY <2>1, <2>3, QueueTypes DEF ExecuteOperation
  <2>4. CASE ExecuteAndDie(s)
    BY <2>1, <2>4, QueueTypes DEF ExecuteAndDie, Close
  <2>5. CASE UNCHANGED toSource
    BY <2>1, <2>5
  <2> QED BY <2>2, <2>3, <2>4, <2>5 DEF LookupPending, Deliver, wire
<1>5. toHub' \in [Streams -> Seq(SourceMessages)]
  <2>1. toHub \in [Streams -> Seq(SourceMessages)]
    BY <1>1 DEF SessionsTypeOK
  <2>2. CASE LookupPending(s)
    BY <2>1, <2>2, QueueTypes DEF LookupPending
  <2>3. CASE ExecuteOperation(s)
    BY <2>1, <2>3, QueueTypes DEF ExecuteOperation, SourceMessages
  <2>4. CASE UNCHANGED toHub
    BY <2>1, <2>4
  <2> QED BY <2>2, <2>3, <2>4 DEF SendQuery, Deliver, ExecuteAndDie, wire
<1>6. /\ peer' \in [Streams -> PeerStates]
      /\ \A t \in Streams : peer'[t] = "idle" => peer[t] = "idle"
  <2>1. peer' = peer \/ peer' = [peer EXCEPT ![s] = "closed"]
    BY DEF SendQuery, LookupPending, Deliver, ExecuteOperation, ExecuteAndDie, Close, wire
  <2> QED BY <1>1, <2>1 DEF SessionsTypeOK, PeerStates
<1>7. /\ pc' \in [Streams -> HandlerStates]
      /\ \A t \in Streams : pc'[t] = pc[t] \/ {pc[t], pc'[t]} = {"serving", "delivering"}
  <2>1. \/ pc' = pc
        \/ pc[s] = "serving" /\ pc' = [pc EXCEPT ![s] = "delivering"]
        \/ pc[s] = "delivering" /\ pc' = [pc EXCEPT ![s] = "serving"]
    BY DEF SendQuery, LookupPending, Deliver, ExecuteOperation, ExecuteAndDie, At, Goto,
           handlerVars
  <2> QED BY <1>1, <2>1 DEF SessionsTypeOK, HandlerStates
<1>8. SessionsTypeOK'
  BY <1>1, <1>2, <1>3, <1>4, <1>5, <1>6, <1>7 DEF SessionsTypeOK, RouterInv
<1> QED BY <1>1, <1>2, <1>3, <1>6, <1>7, <1>8, SessionsKept

LEMMA RouteKeepsSessions ==
    ASSUME QueriesInv, NEW q \in Queries, NEW label \in Labels, NEW op \in Ops,
           Route(q, label, op)
    PROVE  SessionsInv'
<1>1. SessionsInv /\ SessionsTypeOK /\ RouterInv
  BY DEF QueriesInv, SessionsInv
<1>2. UNCHANGED sessionVars /\ UNCHANGED sources
  BY DEF Route, SelectSource
<1>3. RouterInv'
  BY <1>1, SelectInv DEF Route
<1>4. SessionsTypeOK'
  BY <1>1, <1>2, <1>3 DEF SessionsTypeOK, RouterInv, sessionVars
<1> QED BY <1>1, <1>2, <1>3, <1>4, SessionsKept DEF sessionVars

-----------------------------------------------------------------------------
(* The invariant. *)

LEMMA QueriesInitInv == Init => QueriesInv
<1> SUFFICES ASSUME Init PROVE QueriesInv
  OBVIOUS
<1>1. SessionsInv
  BY SessionsInitInv DEF Init
<1>2. DOMAIN request = {} /\ DOMAIN via = {} /\ DOMAIN pendingQueries = {}
        /\ DOMAIN answer = {} /\ DOMAIN held = {} /\ DOMAIN outcome = {}
  BY DEF Init, EmptyMap
<1>3. QueriesTypeOK
  BY <1>2 DEF Init, QueriesTypeOK, QueryStates
<1>4. PendingQueriesExact
  BY <1>2 DEF Init, PendingQueriesExact
<1>5. Stages /\ IdsDistinct /\ StreamsFound /\ InChannel /\ OutcomesTrue
  BY <1>2 DEF Init, Stages, Started, Located, Entered, Over, IdsDistinct, StreamsFound,
              InChannel, OutcomesTrue
<1>6. NoDuplicates /\ OnTheWay /\ OnTheWayBack
  <2>1. \A s \in Streams : toSource[s] = <<>> /\ toHub[s] = <<>>
    BY DEF Init, SessionsInit
  <2> QED BY <2>1, EmptyCarries DEF NoDuplicates, OnTheWay, OnTheWayBack
<1>7. InHand /\ RunsOfSent
  BY <1>2 DEF Init, SessionsInit, InHand, RunsOfSent
<1> QED BY <1>1, <1>3, <1>4, <1>5, <1>6, <1>7 DEF QueriesInv, ExchangeInv

LEMMA QueryKeepsInv ==
    ASSUME QueriesInv, NEW q \in Queries, Deny(q) \/ Query(q)
    PROVE  QueriesInv'
<1>1. QueriesTypeOK' /\ PendingQueriesExact' /\ ExchangeInv'
  BY ReturnStep, FindStreamStep, AddPendingStep, SendQueryStep, TakeResultStep,
     RemovePendingStep, CloseChannelStep
     DEF Query
<1>2. SessionsInv'
  <2>1. CASE SendQuery(q)
    <3>1. \E s : s \in Streams
      <4>1. q \in DOMAIN via
        BY <2>1 DEF SendQuery, Move, QueriesInv, ExchangeInv, Stages, Located
      <4> QED BY <4>1 DEF QueriesInv, QueriesTypeOK
    <3> QED BY <2>1, <3>1, ExchangeKeepsSessions
  <2>2. CASE UNCHANGED hubVars
    BY <2>2, RouterInvStep, TypeStep, OwnersStep, ActiveStreamsStep DEF QueriesInv, SessionsInv
  <2> QED
    BY <2>1, <2>2
       DEF Query, Deny, FindStream, NoStream, AddPending, SendQueryFails, TakeResult, GiveUp,
           RemovePending, CloseChannel
<1> QED BY <1>1, <1>2 DEF QueriesInv

LEMMA QueriesStepInv == QueriesInv /\ [Next]_vars => QueriesInv'
<1> SUFFICES ASSUME QueriesInv, [Next]_vars PROVE QueriesInv'
  OBVIOUS
<1>1. ASSUME NEW q \in Queries, Deny(q) \/ Query(q) PROVE QueriesInv'
  BY <1>1, QueryKeepsInv
<1>2. ASSUME NEW q \in Queries, NEW label \in Labels, NEW op \in Ops, Route(q, label, op)
      PROVE  QueriesInv'
  BY <1>2, RouteStep, RouteKeepsSessions DEF QueriesInv
<1>3. ASSUME NEW s \in Streams, LookupPending(s) \/ Deliver(s) PROVE QueriesInv'
  BY <1>3, LookupPendingStep, DeliverStep, ExchangeKeepsSessions DEF QueriesInv
<1>4. ASSUME NEW s \in Streams, ExecuteOperation(s) \/ ExecuteAndDie(s) PROVE QueriesInv'
  BY <1>4, RunStep, ExchangeKeepsSessions DEF QueriesInv
<1>5. ASSUME NEW s \in Streams,
             HandlerStep(s) \/ SourceStep(s) \/ LinkStep(s) \/ OpenStep(s)
      PROVE  QueriesInv'
  <2>1. SessionsNext /\ UNCHANGED queryVars
    BY <1>5 DEF HandlerStep, SourceStep, LinkStep, OpenStep, SessionsNext
  <2> QED BY <2>1, SessionsStep
<1>6. ASSUME NEW c \in Checkers, TickStep \/ CheckerStep(c) PROVE QueriesInv'
  <2>1. SessionsNext /\ UNCHANGED queryVars
    BY <1>6 DEF TickStep, CheckerStep, SessionsNext
  <2> QED BY <2>1, SessionsStep
<1>7. CASE UNCHANGED vars
  BY <1>7, SessionsStep DEF vars
<1> QED BY <1>1, <1>2, <1>3, <1>4, <1>5, <1>6, <1>7 DEF Next

\* The inductive invariant holds in every state of the exchange.
THEOREM QueriesInvariant == Spec => []QueriesInv
  BY QueriesInitInv, QueriesStepInv, PTL DEF Spec

\* The maps of the query exchange stay well formed.
THEOREM QueriesType == Spec => []QueriesTypeOK
  BY QueriesInvariant, PTL DEF QueriesInv

\* pendingQueries holds exactly the queries between their insertion and their
\* deferred delete, each under its own id: no way out of ExecuteQuery leaks one.
THEOREM QueriesPendingExact == Spec => []PendingQueriesExact
  BY QueriesInvariant, PTL DEF QueriesInv

\* The result a handler holds is that of the query whose channel it has found,
\* and the channel has room: the branch that drops it is dead code.
THEOREM QueriesResultFits == Spec => []ResultFits
<1>1. QueriesInv => ResultFits
  BY DEF QueriesInv, ExchangeInv, InHand, SentOn, ResultFits
<1> QED BY <1>1, QueriesInvariant, PTL

\* A query and its result travel on one stream, and that stream is one of the
\* source SelectSource chose.
THEOREM QueriesOnSelectedSource == Spec => []OnSelectedSource
<1>1. QueriesInv => OnSelectedSource
  <2> SUFFICES ASSUME QueriesInv, NEW q \in DOMAIN via
               PROVE  /\ reg[via[q]].name = request[q].source
                      /\ \A s \in Streams \ {via[q]} :
                            ~Carries(toSource[s], request[q].id) /\ ~Carries(toHub[s], request[q].id)
    BY DEF OnSelectedSource, Carries
  <2>1. QueriesTypeOK /\ ExchangeInv
    BY DEF QueriesInv
  <2>2. q \in Queries /\ q \in DOMAIN request /\ request[q].id \in QueryIds
    BY <2>1 DEF QueriesTypeOK, ExchangeInv, Stages, Request
  <2>3. \A p \in Queries, s \in Streams : SentOn(p, s, request[q].id) => s = via[q]
    <3>1. ASSUME NEW p \in Queries, NEW s \in Streams, SentOn(p, s, request[q].id)
          PROVE  s = via[q]
      <4>1. q = p
        BY <2>1, <2>2, <3>1, OneSender
      <4> QED BY <3>1, <4>1 DEF SentOn
    <3> QED BY <3>1
  <2>4. reg[via[q]].name = request[q].source
    BY <2>1 DEF ExchangeInv, StreamsFound
  <2> QED BY <2>1, <2>2, <2>3, <2>4 DEF ExchangeInv, OnTheWay, OnTheWayBack
<1> QED BY <1>1, QueriesInvariant, PTL

-----------------------------------------------------------------------------
(* The exchange implements the service. *)

\* What QueryService sees of the state, the substitution of Service.
Status == [q \in Queries |-> IF q \in DOMAIN outcome THEN outcome[q]
                             ELSE IF q \in DOMAIN request THEN "open" ELSE "new"]

Ran == [q \in Queries |-> IF q \in DOMAIN request THEN runs[request[q].id] ELSE 0]

\* A query ends as Return says, and nothing has run meanwhile.
LEMMA Concludes ==
    ASSUME NEW q \in Queries, NEW result, UNCHANGED <<request, runs>>,
           outcome' = Put(outcome, q, result)
    PROVE  /\ Status' = [Status EXCEPT ![q] = result]
           /\ Ran' = Ran
<1>1. /\ DOMAIN outcome' = DOMAIN outcome \union {q}
      /\ outcome'[q] = result
      /\ \A p \in DOMAIN outcome : p # q => outcome'[p] = outcome[p]
  BY DEF Put
<1> QED BY <1>1 DEF Status, Ran

LEMMA QueryServes ==
    ASSUME QueriesInv, NEW q \in Queries, Deny(q) \/ Query(q)
    PROVE  \/ Service!Refuse(q) \/ Service!Answer(q) \/ Service!Fail(q)
           \/ UNCHANGED <<Status, Ran>>
<1>1. QueriesTypeOK /\ ExchangeInv
  BY DEF QueriesInv
<1>2. CASE Deny(q)
  <2>1. qpc[q] = "idle"
    BY <1>2 DEF Deny, Move
  <2>2. Status[q] = "new" /\ Ran[q] = 0
    BY <1>1, <2>1 DEF ExchangeInv, Stages, Over, Status, Ran
  <2>3. Status' = [Status EXCEPT ![q] = "refused"] /\ Ran' = Ran
    BY <1>2, Concludes DEF Deny, Return
  <2> QED BY <2>2, <2>3 DEF Service!Refuse, Service!Conclude, Status, Ran
<1>3. CASE NoStream(q)
  <2>1. qpc[q] = "routed"
    BY <1>3 DEF NoStream, Move
  <2>2. Status[q] = "open"
    BY <1>1, <2>1 DEF ExchangeInv, Stages, Over, Started, Status
  <2>3. Ran[q] = 0
    <3>1. q \in DOMAIN request /\ request[q].id \in QueryIds
      BY <1>1, <2>1 DEF ExchangeInv, Stages, Started, QueriesTypeOK, Request
    <3>2. \A p \in Queries, s \in Streams : ~SentOn(p, s, request[q].id)
      <4> SUFFICES ASSUME NEW p \in Queries, NEW s \in Streams, SentOn(p, s, request[q].id)
                   PROVE  FALSE
        OBVIOUS
      <4>1. p = q
        BY <1>1, <3>1, OneSender
      <4> QED BY <2>1, <4>1 DEF SentOn, Sent
    <3>3. runs[request[q].id] = 0
      BY <1>1, <3>1, <3>2 DEF ExchangeInv, RunsOfSent
    <3> QED BY <3>1, <3>3 DEF Ran
  <2>4. Status' = [Status EXCEPT ![q] = "refused"] /\ Ran' = Ran
    BY <1>3, Concludes DEF NoStream, Return
  <2> QED BY <2>2, <2>3, <2>4 DEF Service!Refuse, Service!Conclude, Status, Ran
<1>4. CASE SendQueryFails(q) \/ GiveUp(q)
  <2>1. qpc[q] \in {"sending", "waiting"}
    BY <1>4 DEF SendQueryFails, GiveUp, Move
  <2>2. Status[q] = "open"
    BY <1>1, <2>1 DEF ExchangeInv, Stages, Over, Started, Status
  <2>3. Status' = [Status EXCEPT ![q] = "failed"] /\ Ran' = Ran
    BY <1>4, Concludes DEF SendQueryFails, GiveUp, Return
  <2> QED BY <2>2, <2>3 DEF Service!Fail, Service!Conclude, Status, Ran
<1>5. CASE TakeResult(q)
  <2>1. qpc[q] = "waiting" /\ answer[q] # <<>>
    BY <1>5 DEF TakeResult, Move
  <2>2. Status[q] = "open"
    BY <1>1, <2>1 DEF ExchangeInv, Stages, Over, Started, Status
  <2>3. Ran[q] = 1
    BY <1>1, <2>1 DEF ExchangeInv, Stages, Started, Entered, InChannel, Ran
  <2>4. Status' = [Status EXCEPT ![q] = "answered"] /\ Ran' = Ran
    BY <1>5, Concludes DEF TakeResult, Return
  <2> QED BY <2>2, <2>3, <2>4 DEF Service!Answer, Service!Conclude, Status, Ran
<1>6. CASE UNCHANGED <<request, outcome, runs>>
  BY <1>6 DEF Status, Ran
<1> QED
  BY <1>2, <1>3, <1>4, <1>5, <1>6
     DEF Query, FindStream, AddPending, SendQuery, RemovePending, CloseChannel

LEMMA RouteServes ==
    ASSUME QueriesInv, NEW q \in Queries, NEW label \in Labels, NEW op \in Ops,
           Route(q, label, op)
    PROVE  Service!Accept(q)
<1>1. QueriesTypeOK /\ ExchangeInv
  BY DEF QueriesInv
<1>2. qpc[q] = "idle" /\ UNCHANGED <<outcome, runs>>
  BY DEF Route, Move
<1>3. PICK id \in FreshIds :
          request' = Put(request, q, [id |-> id, source |-> Selected(label, op)])
  BY DEF Route
<1>4. q \notin DOMAIN request /\ q \notin DOMAIN outcome
  BY <1>1, <1>2 DEF ExchangeInv, Stages, Over
<1>5. /\ DOMAIN request' = DOMAIN request \union {q}
      /\ request'[q].id = id
      /\ \A p \in DOMAIN request : request'[p] = request[p]
  BY <1>3, <1>4 DEF Put
<1>6. id \in QueryIds /\ \A p \in DOMAIN request : request[p].id # id
  BY DEF FreshIds
<1>7. runs[id] = 0
  <2>1. \A p \in Queries, s \in Streams : ~SentOn(p, s, id)
    BY <1>1, <1>6 DEF ExchangeInv, Stages, SentOn
  <2> QED BY <1>1, <1>6, <2>1 DEF ExchangeInv, RunsOfSent
<1>8. Status[q] = "new" /\ Status' = [Status EXCEPT ![q] = "open"]
  BY <1>2, <1>4, <1>5 DEF Status
<1>9. Ran' = Ran
  BY <1>2, <1>4, <1>5, <1>7 DEF Ran
<1> QED BY <1>8, <1>9 DEF Service!Accept, Service!Conclude, Status, Ran

LEMMA ExecutionServes ==
    ASSUME QueriesInv, NEW s \in Streams, ExecuteOperation(s) \/ ExecuteAndDie(s)
    PROVE  \E q \in Queries : Service!Run(q)
<1>1. QueriesTypeOK /\ ExchangeInv /\ SessionsTypeOK
  BY DEF QueriesInv, SessionsInv
<1>2. PICK i \in QueryIds : i = Head(toSource[s])
  BY DEF ExecuteOperation, ExecuteAndDie
<1>3. /\ UNCHANGED <<request, outcome>>
      /\ toSource[s] # <<>>
      /\ runs' = [runs EXCEPT ![i] = @ + 1]
  BY <1>2 DEF ExecuteOperation, ExecuteAndDie
<1>4. Carries(toSource[s], i)
  <2>1. toSource[s] \in Seq(HubMessages)
    BY <1>1 DEF SessionsTypeOK
  <2> QED BY <1>2, <1>3, <2>1, TailCarries
<1>5. PICK q \in Queries : SentOn(q, s, i) /\ runs[i] = 0
  BY <1>1, <1>4 DEF ExchangeInv, OnTheWay
<1>6. q \in DOMAIN request /\ q \in DOMAIN via /\ request[q].id = i
        /\ \A p \in DOMAIN request : request[p].id = i => p = q
  BY <1>1, <1>5, OneSender DEF SentOn
<1>7. Status[q] \in {"open", "failed"}
  <2>1. q \in DOMAIN outcome => outcome[q] = "failed"
    BY <1>1, <1>5, <1>6 DEF ExchangeInv, OutcomesTrue, QueriesTypeOK, Outcomes
  <2> QED BY <1>6, <2>1 DEF Status
<1>8. Ran[q] = 0 /\ Ran' = [Ran EXCEPT ![q] = 1]
  <2>1. runs'[i] = 1 /\ \A j \in QueryIds : j # i => runs'[j] = runs[j]
    BY <1>1, <1>3, <1>5 DEF QueriesTypeOK
  <2>2. \A p \in DOMAIN request : request[p].id \in QueryIds
    BY <1>1 DEF QueriesTypeOK, Request
  <2> QED BY <1>3, <1>5, <1>6, <2>1, <2>2 DEF Ran
<1>9. Status' = Status
  BY <1>3 DEF Status
<1>10. Service!Run(q)
  BY <1>7, <1>8, <1>9 DEF Service!Run, Status, Ran
<1> QED BY <1>10

LEMMA StepServes ==
    ASSUME QueriesInv, [Next]_vars
    PROVE  [Service!ServiceNext]_<<Status, Ran>>
<1>1. ASSUME NEW q \in Queries, Deny(q) \/ Query(q)
      PROVE  [Service!ServiceNext]_<<Status, Ran>>
  BY <1>1, QueryServes DEF Service!ServiceNext
<1>2. ASSUME NEW q \in Queries, NEW label \in Labels, NEW op \in Ops, Route(q, label, op)
      PROVE  Service!ServiceNext
  BY <1>2, RouteServes DEF Service!ServiceNext
<1>3. ASSUME NEW s \in Streams, ExecuteOperation(s) \/ ExecuteAndDie(s)
      PROVE  Service!ServiceNext
  BY <1>3, ExecutionServes DEF Service!ServiceNext
<1>4. CASE UNCHANGED <<request, outcome, runs>>
  BY <1>4 DEF Status, Ran
<1> QED
  BY <1>1, <1>2, <1>3, <1>4
     DEF Next, LookupPending, Deliver, HandlerStep, SourceStep, LinkStep, OpenStep,
         TickStep, CheckerStep, vars, queryVars

\* The exchange implements the service: whatever the sources and the streams do, a
\* query runs at most once, an answered one has run, a refused one never does.
THEOREM QueriesImplementService == Spec => ImplementsService
<1>1. Init => Service!ServiceInit
  BY DEF Init, EmptyMap, Service!ServiceInit
<1>2. QueriesInv /\ [Next]_vars => [Service!ServiceNext]_(Service!serviceVars)
  BY StepServes DEF Service!serviceVars, Status, Ran
<1> QED
  BY <1>1, <1>2, QueriesInvariant, PTL DEF Spec, ImplementsService, Service!ServiceSpec

-----------------------------------------------------------------------------
(* The end of the hub.  What an exited hub leaves behind follows from what   *)
(* the sessions keep, once every handler is over; Stop's waits see to that.  *)

HandlersOver == \A s \in Streams : pc[s] \in {"idle", "done"}

StopInv ==
    /\ stopPc \in StopStates
    /\ running \subseteq Goroutines
    /\ stopPc \in {"http", "grpc", "wait", "exited"} => "monitor" \notin running
    /\ stopPc \in {"wait", "exited"} => HandlersOver
    /\ stopPc = "exited" => running \intersect Served = {}

LifeInv == QueriesInv /\ ConnectedGauge /\ StopInv

\* Stop itself touches neither sessions nor queries.
LEMMA StopLeavesExchange ==
    ASSUME StopNext
    PROVE  Up /\ UNCHANGED vars
  BY DEF StopNext, Signal, MonitorLoopReturns, ServeReturns, MonitorStopped, HTTPShutdown,
         GracefulStop, Exit, StopMoves, Returns

\* The monitor ticks only while it has a source to check.
LEMMA TickIsStep ==
    ASSUME QueriesInv, TickStep
    PROVE  Next
<1>1. PICK n \in DOMAIN sources : {k \in Slots : check[<<n, k>>] = IdleCheck} # {}
  BY DEF TickStep, CheckAllSources
<1>2. PICK k \in Slots : TRUE
  BY <1>1
<1>3. n \in Names
  BY DEF QueriesInv, SessionsInv, SessionsTypeOK, RouterTypeOK
<1>4. <<n, k>> \in Checkers
  BY <1>2, <1>3 DEF Checkers
<1> QED BY <1>4 DEF Next

\* Every step of the life of the hub is one of the exchange, or leaves it alone.
LEMMA LifeIsExchange ==
    ASSUME QueriesInv, [LifeNext]_lifeVars
    PROVE  [Next]_vars
<1>1. ASSUME NEW q \in Queries, NewQuery(q) \/ LiveQuery(q) PROVE Next
  BY <1>1 DEF NewQuery, LiveQuery, Meanwhile, Next
<1>2. ASSUME NEW s \in Streams, \/ NewStream(s) \/ LiveHandler(s) \/ LiveSource(s)
                                \/ Meanwhile(LinkStep(s) \/ ExecuteAndDie(s))
      PROVE  Next
  BY <1>2 DEF NewStream, LiveHandler, LiveSource, Meanwhile, Next
<1>3. CASE Tick
  BY <1>3, TickIsStep DEF Tick, Meanwhile
<1>4. ASSUME NEW c \in Checkers, LiveChecker(c) PROVE Next
  BY <1>4 DEF LiveChecker, Meanwhile, Next
<1>5. CASE StopNext
  BY <1>5, StopLeavesExchange
<1>6. CASE UNCHANGED lifeVars
  BY <1>6 DEF lifeVars
<1> QED BY <1>1, <1>2, <1>3, <1>4, <1>5, <1>6 DEF LifeNext

\* The steps of the queries change neither the gauge nor who is counted in it.
LEMMA ExchangeKeepsGauge ==
    ASSUME QueriesInv, ConnectedGauge, [Next]_vars
    PROVE  ConnectedGauge'
<1>1. SessionsInv /\ SessionsTypeOK
  BY DEF QueriesInv, SessionsInv
<1>2. CASE [SessionsNext]_hubVars
  BY <1>1, <1>2, GaugeStep
<1>3. ASSUME NEW s \in Streams, LookupPending(s) \/ Deliver(s) PROVE ConnectedGauge'
  <2>1. connected' = connected
    BY <1>3 DEF LookupPending, Deliver, gauges
  <2>2. \A t \in Streams : pc'[t] \in Counted <=> pc[t] \in Counted
    BY <1>1, <1>3 DEF LookupPending, Deliver, At, Goto, Counted, SessionsTypeOK
  <2> QED BY <2>1, <2>2, GaugeKept
<1>4. CASE UNCHANGED <<pc, connected>>
  BY <1>4, GaugeKept
<1>5. ASSUME NEW s \in Streams,
             HandlerStep(s) \/ SourceStep(s) \/ LinkStep(s) \/ OpenStep(s)
      PROVE  SessionsNext
  BY <1>5 DEF HandlerStep, SourceStep, LinkStep, OpenStep, SessionsNext
<1>6. ASSUME NEW c \in Checkers, TickStep \/ CheckerStep(c) PROVE SessionsNext
  BY <1>6 DEF TickStep, CheckerStep, SessionsNext
<1>7. ASSUME NEW q \in Queries, Deny(q) \/ Query(q) PROVE UNCHANGED <<pc, connected>>
  BY <1>7
     DEF Deny, Query, FindStream, NoStream, AddPending, SendQuery, SendQueryFails, TakeResult,
         GiveUp, RemovePending, CloseChannel, hubVars, handlerVars, gauges
<1>8. ASSUME NEW q \in Queries, NEW label \in Labels, NEW op \in Ops, Route(q, label, op)
      PROVE  UNCHANGED <<pc, connected>>
  BY <1>8 DEF Route, sessionVars
<1>9. ASSUME NEW s \in Streams, ExecuteOperation(s) \/ ExecuteAndDie(s)
      PROVE  UNCHANGED <<pc, connected>>
  BY <1>9 DEF ExecuteOperation, ExecuteAndDie, handlerVars, gauges
<1>10. CASE UNCHANGED vars
  BY <1>4, <1>10 DEF vars, hubVars
<1> QED BY <1>2, <1>3, <1>4, <1>5, <1>6, <1>7, <1>8, <1>9, <1>10 DEF Next

\* Where no new stream is taken, a handler that is over stays over.
LEMMA HandlersStayOver ==
    ASSUME SessionsTypeOK, HandlersOver, ~TakesStreams, [LifeNext]_lifeVars
    PROVE  HandlersOver'
<1>1. ASSUME NEW s \in Streams, Handler(s) PROVE FALSE
  BY <1>1
     DEF HandlersOver, Handler, RejectStream, PlaceStream, RegisterStream, RegisterFails,
         DropDuplicate, CountSource, SendAck, Receive, ReceiveFails, DropStream, ReadHealth,
         UnregisterStream, UncountSource, At
<1>2. ASSUME NEW s \in Streams, LookupPending(s) \/ Deliver(s) PROVE FALSE
  BY <1>2 DEF HandlersOver, LookupPending, Deliver, At
<1>3. CASE UNCHANGED pc
  BY <1>3 DEF HandlersOver
<1>4. ASSUME NEW q \in Queries, NewQuery(q) \/ LiveQuery(q) PROVE UNCHANGED pc
  BY <1>4
     DEF NewQuery, LiveQuery, Meanwhile, Deny, Route, Query, FindStream, NoStream, AddPending,
         SendQuery, SendQueryFails, TakeResult, GiveUp, RemovePending, CloseChannel, hubVars,
         handlerVars, sessionVars
<1>5. ASSUME NEW s \in Streams, NewStream(s) \/ LiveHandler(s) PROVE FALSE
  BY <1>1, <1>2, <1>5 DEF NewStream, LiveHandler, Meanwhile, HandlerStep
<1>6. ASSUME NEW s \in Streams, LiveSource(s) \/ Meanwhile(LinkStep(s) \/ ExecuteAndDie(s))
      PROVE  UNCHANGED pc
  BY <1>6
     DEF LiveSource, Meanwhile, SourceStep, SourceNext, ReceiveAck, AnswerCheck, StreamEnded,
         LinkStep, ReportError, Disconnect, ExecuteOperation, ExecuteAndDie, handlerVars
<1>7. CASE Tick
  BY <1>3, <1>7 DEF Tick, Meanwhile, TickStep, CheckAllSources, handlerVars
<1>8. ASSUME NEW c \in Checkers, LiveChecker(c) PROVE UNCHANGED pc
  BY <1>8
     DEF LiveChecker, Meanwhile, CheckerStep, Checker, LookupStream, SendCheck, MarkChecked,
         handlerVars
<1>9. CASE StopNext
  BY <1>3, <1>9, StopLeavesExchange DEF vars, hubVars
<1>10. CASE UNCHANGED lifeVars
  BY <1>3, <1>10 DEF lifeVars, vars, hubVars
<1> QED BY <1>3, <1>4, <1>5, <1>6, <1>7, <1>8, <1>9, <1>10 DEF LifeNext

LEMMA StopKeepsInv ==
    ASSUME SessionsTypeOK, StopInv, [LifeNext]_lifeVars
    PROVE  StopInv'
<1>1. CASE StopNext
  <2> USE DEF StopInv, StopStates, Goroutines, Served
  <2>1. Up /\ HandlersOver' = HandlersOver
    BY <1>1, StopLeavesExchange DEF HandlersOver, vars, hubVars
  <2>2. CASE Signal
    BY <2>1, <2>2 DEF Signal, StopMoves
  <2>3. CASE MonitorLoopReturns \/ ServeReturns
    BY <2>1, <2>3 DEF MonitorLoopReturns, ServeReturns, Returns
  <2>4. CASE MonitorStopped
    BY <2>1, <2>4 DEF MonitorStopped, StopMoves
  <2>5. CASE HTTPShutdown
    BY <2>1, <2>5 DEF HTTPShutdown, StopMoves
  <2>6. CASE GracefulStop
    BY <2>1, <2>6 DEF GracefulStop, StopMoves, HandlersOver
  <2>7. CASE Exit
    BY <2>1, <2>7 DEF Exit, StopMoves
  <2> QED BY <1>1, <2>2, <2>3, <2>4, <2>5, <2>6, <2>7 DEF StopNext
<1>2. CASE UNCHANGED stopVars
  <2>1. stopPc \in {"wait", "exited"} => HandlersOver'
    BY HandlersStayOver DEF StopInv, TakesStreams
  <2> QED BY <1>2, <2>1 DEF StopInv, stopVars
<1>3. \/ StopNext \/ UNCHANGED stopVars
  BY DEF LifeNext, NewQuery, LiveQuery, NewStream, LiveHandler, LiveSource, Tick, LiveChecker,
         Meanwhile, lifeVars
<1> QED BY <1>1, <1>2, <1>3

LEMMA LifeInitInv == LifeInit => LifeInv
<1> SUFFICES ASSUME LifeInit PROVE LifeInv
  OBVIOUS
<1>1. QueriesInv
  BY QueriesInitInv DEF LifeInit
<1>2. ConnectedGauge
  BY GaugeInit DEF LifeInit, Init
<1>3. StopInv
  BY DEF LifeInit, StopInv, StopStates, Goroutines, Served
<1> QED BY <1>1, <1>2, <1>3 DEF LifeInv

\* Throughout the life of a hub process the exchange keeps its invariant, the
\* gauge counts the handlers, and Stop is no further than its waits allow.
THEOREM LifeInvariant == LifeSpec => []LifeInv
<1>1. LifeInv /\ [LifeNext]_lifeVars => LifeInv'
  <2> SUFFICES ASSUME LifeInv, [LifeNext]_lifeVars PROVE LifeInv'
    OBVIOUS
  <2>1. [Next]_vars
    BY LifeIsExchange DEF LifeInv
  <2>2. QueriesInv' /\ ConnectedGauge'
    BY <2>1, QueriesStepInv, ExchangeKeepsGauge DEF LifeInv
  <2>3. StopInv'
    BY StopKeepsInv DEF LifeInv, QueriesInv, SessionsInv
  <2> QED BY <2>2, <2>3 DEF LifeInv
<1> QED BY LifeInitInv, <1>1, PTL DEF LifeSpec

\* server.go, Stop: a hub that exits of its own accord has cleaned up after every
\* source, and nothing of it still serves.
THEOREM LifeExitDrained == LifeSpec => []ExitDrained
<1>1. LifeInv => ExitDrained
  <2> SUFFICES ASSUME LifeInv, stopPc = "exited" PROVE ExitDrained
    BY DEF ExitDrained
  <2>1. HandlersOver /\ running = {}
    BY DEF LifeInv, StopInv, Goroutines
  <2>2. OneOwner /\ ActiveStreamsLive /\ SessionsTypeOK
    BY DEF LifeInv, QueriesInv, SessionsInv
  <2>3. DOMAIN sources = {}
    BY <2>1, <2>2 DEF HandlersOver, OneOwner, Owns, Owning
  <2>4. DOMAIN activeStreams = {}
    BY <2>1, <2>2 DEF HandlersOver, ActiveStreamsLive, SessionsTypeOK, Placed
  <2>5. connected = 0
    <3>1. {s \in Streams : pc[s] \in Counted} = {}
      BY <2>1 DEF HandlersOver, Counted
    <3> QED BY <3>1, FS_EmptySet DEF LifeInv, ConnectedGauge
  <2> QED BY <2>1, <2>3, <2>4, <2>5 DEF HandlersOver, ExitDrained
<1> QED BY <1>1, LifeInvariant, PTL

\* While the hub lives and stops, its exchange is still the service: a stop may
\* cut a query short, but never makes one run twice or after a refusal.
THEOREM LifeImplementsService == LifeSpec => ImplementsService
<1>1. LifeInit => Service!ServiceInit
  BY DEF LifeInit, Init, EmptyMap, Service!ServiceInit
<1>2. LifeInv /\ [LifeNext]_lifeVars => [Service!ServiceNext]_(Service!serviceVars)
  BY LifeIsExchange, StepServes DEF LifeInv, Service!serviceVars, Status, Ran
<1> QED
  BY <1>1, <1>2, LifeInvariant, PTL DEF LifeSpec, ImplementsService, Service!ServiceSpec

=============================================================================
