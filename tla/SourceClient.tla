---------------------------- MODULE SourceClient ----------------------------
(***************************************************************************)
(* The source's side of its connection: connectionLoop and Stop            *)
(* (source/internal/client/client.go) over the gRPC client of one          *)
(* connection (source/internal/client/grpc.go).  The loop and the caller   *)
(* of Stop are two goroutines that share grpcClient, under a mutex, and    *)
(* the client's context.                                                   *)
(*                                                                         *)
(* The context of a connection derives from context.Background, so only    *)
(* Close cancels it.  A connection that is closed is never used again and  *)
(* its name is free for a later one.  What the loop does with the messages *)
(* it receives is the subject of QueryExchange.                            *)
(***************************************************************************)
EXTENDS Integers, FiniteSets

CONSTANTS
    Conns,        \* names for connections
    NoConn,       \* the nil *GRPCClient
    MaxAttempts   \* max_reconnect_attempts; none when it is negative
                  \* (the configuration replaces zero by its default)

ASSUME ConnsAssumption == NoConn \notin Conns /\ MaxAttempts \in Int \ {0}

VARIABLES
    loop,        \* where connectionLoop stands
    mine,        \* the connection the loop works with, its local grpcClient
    attempts,    \* failed attempts in a row
    grpcClient,  \* the field of Client both goroutines see
    open,        \* connections not closed yet
    cancelled,   \* the context of Client is done
    stop,        \* where Stop stands
    hubUp,       \* the hub is there
    linked       \* the hub that took the loop's stream is still there

vars == <<loop, mine, attempts, grpcClient, open, cancelled, stop, hubUp, linked>>
stopVars == <<cancelled, stop>>
hub == <<hubUp, linked>>

LoopStates == {"top", "dialing", "streaming", "registering", "acked", "attached", "processing", "ended", "closed",
               "waiting", "returned"}

Init ==
    /\ loop = "top" /\ mine = NoConn /\ attempts = 0
    /\ grpcClient = NoConn /\ open = {}
    /\ cancelled = FALSE /\ stop = "running"
    /\ hubUp = TRUE /\ linked = FALSE

Move(from, to) == loop = from /\ loop' = to

Exhausted == MaxAttempts > 0 /\ attempts >= MaxAttempts

-----------------------------------------------------------------------------
(* connectionLoop *)

\* A slip: the loop does not look at the context.
LoopIgnoresContext ==
    /\ Move("top", "returned")
    /\ Exhausted
    /\ UNCHANGED <<mine, attempts, grpcClient, open, stopVars, hub>>

LoopReturns ==
    /\ Move("top", "returned")
    /\ cancelled \/ Exhausted
    /\ UNCHANGED <<mine, attempts, grpcClient, open, stopVars, hub>>

\* connect goes ahead.
Tries == ~cancelled /\ ~Exhausted

\* Without a limit nothing reads attempts.
CountFailure == attempts' = IF MaxAttempts > 0 THEN attempts + 1 ELSE attempts

\* The CA file cannot be read, or the endpoint is no address: Connect has nothing
\* to close yet.
ClientFails ==
    /\ Move("top", "waiting")
    /\ Tries
    /\ CountFailure
    /\ UNCHANGED <<mine, grpcClient, open, stopVars, hub>>

Dial ==
    /\ Move("top", "dialing")
    /\ Tries
    /\ \E c \in Conns \ (open \union {grpcClient}) : mine' = c /\ open' = open \union {c}
    /\ UNCHANGED <<attempts, grpcClient, stopVars, hub>>

OpenStream ==
    /\ Move("dialing", "streaming")
    /\ hubUp
    /\ linked' = TRUE
    /\ UNCHANGED <<mine, attempts, grpcClient, open, stopVars, hubUp>>

\* Send may well return without an error on a stream that is about to break.
SendRegistration ==
    /\ Move("streaming", "registering")
    /\ UNCHANGED <<mine, attempts, grpcClient, open, stopVars, hub>>

DialSucceeds ==
    /\ Move("registering", "acked")
    /\ linked
    /\ UNCHANGED <<mine, attempts, grpcClient, open, stopVars, hub>>

\* Each way out of Connect with an error closes the connection by itself.
FailsAt(point) ==
    /\ Move(point, "waiting")
    /\ CountFailure
    /\ UNCHANGED <<mine, grpcClient, stopVars, hub>>

CloseOnFailure == open' = open \ {mine}

\* No hub, or one that does not take the stream.
StreamFails == FailsAt("dialing") /\ CloseOnFailure

\* A slip: this one way out leaves the connection open.
RegistrationFailureLeaks == FailsAt("streaming") /\ UNCHANGED open

RegistrationFails == FailsAt("streaming") /\ CloseOnFailure

\* The stream ends in place of an answer.
AckFails == FailsAt("registering") /\ CloseOnFailure

\* The first message refuses the source, or is no acknowledgment at all.
RegistrationRefused == linked /\ FailsAt("registering") /\ CloseOnFailure

ConnectFails ==
    ClientFails \/ StreamFails \/ RegistrationFails \/ AckFails \/ RegistrationRefused

Attach ==
    /\ Move("acked", "attached")
    /\ grpcClient' = mine
    /\ UNCHANGED <<mine, attempts, open, stopVars, hub>>

\* A slip: attempts is not reset, or counted down.
ProcessKeepsAttempts ==
    /\ Move("attached", IF grpcClient = NoConn THEN "top" ELSE "processing")
    /\ mine' = grpcClient
    /\ UNCHANGED <<attempts, grpcClient, open, stopVars, hub>>

ProcessCountsDown ==
    /\ Move("attached", IF grpcClient = NoConn THEN "top" ELSE "processing")
    /\ attempts' = attempts - 1
    /\ mine' = grpcClient
    /\ UNCHANGED <<grpcClient, open, stopVars, hub>>

\* attempts starts over, and processMessages takes the client from the field.
Process ==
    /\ Move("attached", IF grpcClient = NoConn THEN "top" ELSE "processing")
    /\ attempts' = 0
    /\ mine' = grpcClient
    /\ UNCHANGED <<grpcClient, open, stopVars, hub>>

\* Recv returns an error: the stream broke, or the connection was closed here.
ReceiveFails ==
    /\ Move("processing", "ended")
    /\ UNCHANGED <<mine, attempts, grpcClient, open, stopVars, hub>>

CloseConn ==
    /\ Move("ended", "closed")
    /\ open' = open \ {mine}
    /\ UNCHANGED <<mine, attempts, grpcClient, stopVars, hub>>

Detach ==
    /\ Move("closed", "top")
    /\ grpcClient' = NoConn
    /\ UNCHANGED <<mine, attempts, open, stopVars, hub>>

\* The reconnect interval is over, or the context is done first.
Wait ==
    /\ Move("waiting", "top") \/ (cancelled /\ Move("waiting", "returned"))
    /\ UNCHANGED <<mine, attempts, grpcClient, open, stopVars, hub>>

-----------------------------------------------------------------------------
(* Stop *)

CallStop ==
    /\ stop = "running"
    /\ stop' = "called"
    /\ UNCHANGED <<loop, mine, attempts, grpcClient, open, cancelled, hub>>

StopCloses ==
    /\ stop = "called"
    /\ stop' = "closed"
    /\ open' = open \ {grpcClient}
    /\ UNCHANGED <<loop, mine, attempts, grpcClient, cancelled, hub>>

StopCancels ==
    /\ stop = "closed"
    /\ stop' = "cancelled"
    /\ cancelled' = TRUE
    /\ UNCHANGED <<loop, mine, attempts, grpcClient, open, hub>>

\* A slip: Stop does not wait for the loop.
StopDoesNotWait ==
    /\ stop = "cancelled"
    /\ stop' = "returned"
    /\ UNCHANGED <<loop, mine, attempts, grpcClient, open, cancelled, hub>>

StopReturns ==
    /\ stop = "cancelled"
    /\ loop = "returned"
    /\ stop' = "returned"
    /\ UNCHANGED <<loop, mine, attempts, grpcClient, open, cancelled, hub>>

\* The hub stops or crashes, which breaks its connections; another one starts.
HubChanges ==
    /\ hubUp' = ~hubUp
    /\ linked' = FALSE
    /\ UNCHANGED <<loop, mine, attempts, grpcClient, open, stopVars>>

Loop ==
    \/ LoopReturns \/ Dial \/ OpenStream \/ SendRegistration \/ DialSucceeds \/ Attach
    \/ Process \/ CloseConn \/ Detach \/ Wait

Stop == StopCloses \/ StopCancels \/ StopReturns

Next == Loop \/ ConnectFails \/ ReceiveFails \/ CallStop \/ Stop \/ HubChanges

Spec == Init /\ [][Next]_vars

\* Both goroutines run when they can.  A step of an attempt, or a wait for a
\* message, on a connection that is closed or whose hub has gone ends.  A hub that
\* is up takes the stream and answers the registration; nothing obliges it to end
\* a stream.
Broken ==
    \/ loop = "dialing" /\ ~hubUp
    \/ loop \in {"streaming", "registering", "processing"} /\ ~linked
    \/ mine \notin open

Fairness ==
    /\ WF_vars(Loop \/ (Broken /\ (ConnectFails \/ ReceiveFails)))
    /\ WF_vars(Stop)

FairSpec == Spec /\ Fairness

-----------------------------------------------------------------------------

\* The shape of the state.
ClientTypeOK ==
    /\ loop \in LoopStates
    /\ mine \in Conns \union {NoConn} /\ grpcClient \in Conns \union {NoConn}
    /\ attempts \in Nat
    /\ open \subseteq Conns
    /\ cancelled \in BOOLEAN /\ hubUp \in BOOLEAN /\ linked \in BOOLEAN
    /\ stop \in {"running", "called", "closed", "cancelled", "returned"}

\* A source has one connection to the hub at a time: whichever way an attempt or a
\* session ends, on any of the exits of Connect or in processMessages, its
\* connection is closed before the next one is dialled.  The
\* hub accepts one source under a name, so a forgotten one would lock it out.
OneConnection ==
    /\ Cardinality(open) <= 1
    /\ loop \in {"top", "closed", "waiting", "returned"} => open = {}

\* Once Stop has returned the loop is over and no connection is left open, even
\* if Stop found none to close because one was just being made.
StoppedClean == stop = "returned" => loop = "returned" /\ open = {}

\* The loop gives up by itself only after MaxAttempts failures in a row: no
\* acknowledgment came since the counter started.
GivesUpOnlyWhenExhausted ==
    /\ loop = "returned" /\ ~cancelled => MaxAttempts > 0 /\ attempts = MaxAttempts
    /\ loop \in {"processing", "ended", "closed"} => attempts = 0

\* When the hub has gone for good, Stop returns.
StopReturnsWithoutHub == (stop = "called" /\ [](~hubUp)) ~> (stop = "returned")

-----------------------------------------------------------------------------
(* What a comment says and the code does not do. *)

\* "Close active gRPC connection to unblock processMessages" (client.go:104): Stop
\* stops the client, whatever the loop is doing and whatever the hub does.
StopEnds == stop = "called" ~> stop = "returned"

=============================================================================
