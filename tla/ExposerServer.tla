--------------------------- MODULE ExposerServer ---------------------------
(***************************************************************************)
(* An exposer: the requests of its clients, each handled by a goroutine    *)
(* that runs the middleware and handleDataRequest                          *)
(* (exposer/internal/server/server.go), the HTTP call to the hub           *)
(* (exposer/internal/client/client.go), the metrics the handlers share     *)
(* with the metrics page, and Stop.                                        *)
(*                                                                         *)
(* The hub is taken at its word: it does what QueryService allows, and     *)
(* nothing for an operation its permissions do not grant.  That its        *)
(* implementation keeps the word is checked in QueryExchange.              *)
(***************************************************************************)
EXTENDS GoMaps, Histogram, Permissions

CONSTANTS
    Requests,   \* the requests of the clients during a run
    Wants,      \* the <<label, operation>> pairs they ask for
    exposer     \* the name of this exposer

ASSUME ExposerAssumption == IsFiniteSet(Requests) /\ Wants \subseteq Labels \X Ops

VARIABLES
    rpc,          \* where the handler of each request stands
    want,         \* request -> what it asks for, once it is admitted
    asked,        \* requests that have been sent to the hub
    reply,        \* request -> what HubClient.ExecuteQuery has returned
    hubStatus,    \* what has become of the query at the hub
    runs,         \* how often a source has run it
    counter,      \* the counters of the exposer's metrics
    page,         \* counters read so far for a metrics page
    life          \* the exposer process

handling == <<rpc, want, asked, reply>>
hubSide == <<hubStatus, runs>>
vars == <<handling, hubSide, counter, page, life, histogramVars>>

Hub == INSTANCE QueryService WITH Queries <- Requests, status <- hubStatus

\* A handler ends in one of the last four.
HandlerStates ==
    {"new", "admitted", "asking", "returned", "refused", "bad", "done", "cut"}
UnderWay == {"admitted", "asking", "returned"}

\* The hub has answered, with a success or an error of the source, which nothing
\* here tells apart, or the call has failed.
Replies == {"none", "answered", "failed"}

Counters == {"success", "failed", "requests"}
NoCounts == [c \in Counters |-> 0]

Init ==
    /\ rpc = [r \in Requests |-> "new"]
    /\ want = [r \in Requests |-> {}]
    /\ asked = {}
    /\ reply = [r \in Requests |-> "none"]
    /\ Hub!ServiceInit
    /\ counter = NoCounts
    /\ page = EmptyMap
    /\ life = "up"
    /\ HistogramInit

Inc(c) == counter' = [counter EXCEPT ![c] = @ + 1]

Move(r, from, to) ==
    /\ life = "up"
    /\ rpc[r] = from
    /\ rpc' = [rpc EXCEPT ![r] = to]

-----------------------------------------------------------------------------
(* authMiddleware and handleDataRequest *)

\* No bearer token, one that is none of any client's, or a method other than
\* POST, a preflight included.  ClientRequestsFailed, which counts the second
\* of these alone, is left out.
TurnAway(r) ==
    /\ Move(r, "new", "refused")
    /\ UNCHANGED <<want, asked, reply, hubSide, counter, page, life, histogramVars>>

Admit(r, w) ==
    /\ Move(r, "new", "admitted")
    /\ Inc("requests")
    /\ want' = [want EXCEPT ![r] = {w}]
    /\ UNCHANGED <<asked, reply, hubSide, page, life, histogramVars>>

\* The path or the body cannot be parsed.
BadRequest(r) ==
    /\ Move(r, "admitted", "bad")
    /\ UNCHANGED <<want, asked, reply, hubSide, counter, page, life, histogramVars>>

AskHub(r) ==
    /\ Move(r, "admitted", "asking")
    /\ asked' = asked \union {r}
    /\ UNCHANGED <<want, reply, hubSide, counter, page, life, histogramVars>>

\* The duration is observed before the outcome is counted, and in any case; that
\* takes the lock of the histogram, which nothing below reads.
CallReturns(r, result) ==
    /\ Move(r, "asking", "returned")
    /\ reply' = [reply EXCEPT ![r] = result]
    /\ \E d \in Durations : Observe(d)
    /\ UNCHANGED <<want, asked, hubSide, counter, page, life>>

\* Status 200; whether the operation succeeded is in the body.
HubAnswers(r) == hubStatus[r] = "answered" /\ CallReturns(r, "answered")

\* A slip: the status is not looked at, and the body parsed all the same.
StatusIgnored(r) == hubStatus[r] \in {"refused", "failed"} /\ CallReturns(r, "answered")

\* Any other status.
HubReturnsStatus(r) == hubStatus[r] \in {"refused", "failed"} /\ CallReturns(r, "failed")

\* The timeout of the HTTP client, a connection that breaks, or a client of the
\* exposer that has gone: whatever the hub is doing, or has done.
CallFails(r) == CallReturns(r, "failed")

\* A slip: the outcome is not looked at before it is counted.
ConcludeAsSuccess(r) ==
    /\ Move(r, "returned", "done")
    /\ Inc("success")
    /\ UNCHANGED <<want, asked, reply, hubSide, page, life, histogramVars>>

\* 503 when the call failed, 200 otherwise.  An operation that failed at its
\* source counts as a success, and its message is lost: the hub calls it
\* "error", the exposer looks for "error_message".
Conclude(r) ==
    /\ Move(r, "returned", "done")
    /\ Inc(IF reply[r] = "failed" THEN "failed" ELSE "success")
    /\ UNCHANGED <<want, asked, reply, hubSide, page, life, histogramVars>>

Handler(r) ==
    \/ TurnAway(r) \/ (\E w \in Wants : Admit(r, w)) \/ BadRequest(r)
    \/ AskHub(r) \/ HubAnswers(r) \/ HubReturnsStatus(r) \/ CallFails(r)
    \/ Conclude(r)

-----------------------------------------------------------------------------
(* The hub, and the source behind it *)

AtHub(r) ==
    /\ r \in asked
    /\ UNCHANGED <<handling, counter, page, life, histogramVars>>

Authorized(r) == \E w \in want[r] : AuthorizeOperation(exposer, w[1], w[2])

HubAccepts(r) == AtHub(r) /\ Authorized(r) /\ Hub!Accept(r)

\* Also for want of a source, before or after the query was accepted.
HubRefuses(r) == AtHub(r) /\ Hub!Refuse(r)

\* Also when the caller has gone.
HubFails(r) == AtHub(r) /\ Hub!Fail(r)

\* A success of getUsersByFilter reaches the client without its data: the list
\* cannot be converted, and the error of the conversion is dropped.
SourceRuns(r) == AtHub(r) /\ Hub!Run(r)

HubConcludes(r) == AtHub(r) /\ Hub!Answer(r)

HubSteps(r) ==
    HubAccepts(r) \/ HubRefuses(r) \/ HubFails(r) \/ SourceRuns(r) \/ HubConcludes(r)

-----------------------------------------------------------------------------
(* The metrics page, and Stop *)

\* A slip: the requests are read first.
RequestsFirst == <<"requests", "success", "failed">>

\* Export reads the counters one after the other, without a lock.
ExportOrder == <<"success", "failed", "requests">>

\* The handler of a page, one page at a time.
Scrape ==
    /\ life = "up"
    /\ IF DOMAIN page = {ExportOrder[k] : k \in DOMAIN ExportOrder}
       THEN page' = EmptyMap
       ELSE LET c == ExportOrder[1 + Cardinality(DOMAIN page)] IN page' = Put(page, c, counter[c])
    /\ UNCHANGED <<handling, hubSide, counter, life, histogramVars>>

\* Stop, or a crash.  Shutdown waits for the requests under way, but only five
\* seconds; that it takes no new ones meanwhile is a behaviour in which none come.
Exit ==
    /\ life = "up"
    /\ life' = "exited"
    /\ page' = EmptyMap
    /\ counter' = NoCounts
    /\ UNCHANGED <<handling, hubSide, histogramVars>>

\* What is still under way when the process exits ends without a response, and
\* what the handler knew is gone.
CutOff(r) ==
    /\ life = "exited"
    /\ rpc[r] \in UnderWay
    /\ rpc' = [rpc EXCEPT ![r] = "cut"]
    /\ reply' = [reply EXCEPT ![r] = "none"]
    /\ UNCHANGED <<want, asked, hubSide, counter, page, life, histogramVars>>

Next ==
    \/ \E r \in Requests : Handler(r) \/ HubSteps(r) \/ CutOff(r)
    \/ Scrape \/ Exit

Spec == Init /\ [][Next]_vars

-----------------------------------------------------------------------------

\* The shape of the exposer's state.
ExposerTypeOK ==
    /\ HistogramTypeOK
    /\ rpc \in [Requests -> HandlerStates]
    /\ \A r \in Requests : want[r] \subseteq Wants /\ Cardinality(want[r]) <= 1
    /\ asked \subseteq Requests
    /\ reply \in [Requests -> Replies]
    /\ counter \in [Counters -> 0 .. Cardinality(Requests)]
    /\ DOMAIN page \subseteq Counters
    /\ life \in {"up", "exited"}

\* What the client knows of its request.
Known(r) ==
    CASE rpc[r] = "new" -> "new"
      [] rpc[r] \in UnderWay -> "open"
      [] rpc[r] \in {"refused", "bad"} -> "refused"
      [] rpc[r] = "done" /\ reply[r] # "failed" -> "answered"
      [] OTHER -> "failed"

\* To a client, the exposer is the same service as the hub: an operation runs at
\* most once for a request, a request that is refused never has it run, and one
\* that is answered has had it run, whatever call failed or process stopped on
\* the way.
Client == INSTANCE QueryService WITH Queries <- Requests, status <- [r \in Requests |-> Known(r)]

ImplementsService == Client!ServiceSpec

\* Every admitted request is counted once, and every call to the hub once more, as
\* what it was to the client: a success when the hub answered it, a failure when it
\* refused, failed or could not be reached, whatever the query did after that.  The
\* difference is what is under way or was unreadable.
RequestsAccounted ==
    LET admitted == {r \in Requests : rpc[r] \notin {"new", "refused"}}
        concluded(result) == {r \in Requests : rpc[r] = "done" /\ reply[r] = result}
    IN  life = "up" =>
        /\ counter["requests"] = Cardinality(admitted)
        /\ counter["success"] = Cardinality(concluded("answered"))
        /\ counter["failed"] = Cardinality(concluded("failed"))

\* Although a page is put together while requests come and end, it never shows
\* more of them ended than begun.
PageConsistent ==
    DOMAIN page = {"success", "failed", "requests"} =>
        page["success"] + page["failed"] <= page["requests"]

\* No source runs for this exposer what the rules of the hub, taken together, do
\* not grant it.
OnlyGranted == \A r \in Requests : runs[r] > 0 => want[r] \subseteq Granted(exposer)

=============================================================================
