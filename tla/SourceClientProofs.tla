------------------------- MODULE SourceClientProofs -------------------------
(***************************************************************************)
(* A source never has two connections, and leaves none behind.  The        *)
(* inductive invariant says which connection may be open at each point of  *)
(* the loop: the one it works with, or none.  StopCloses, the only step of *)
(* the other goroutine on a connection, can only take one away.  And it    *)
(* gives up by itself after exactly the failures it is allowed.            *)
(***************************************************************************)
EXTENDS SourceClient, FiniteSetTheorems, TLAPS

\* The points of the loop at which it works with a connection.
Working ==
    {"dialing", "streaming", "registering", "acked", "attached", "processing", "ended"}

OpenIsMine ==
    /\ open \subseteq {mine}
    /\ loop \notin Working => open = {}
    /\ loop \in Working => mine # NoConn

FieldIsMine ==
    /\ loop \in {"attached", "processing", "ended"} => grpcClient = mine
    /\ loop \notin {"attached", "processing", "ended", "closed"} => grpcClient = NoConn

Returned == stop = "returned" => loop = "returned"

ClientInv == ClientTypeOK /\ OpenIsMine /\ FieldIsMine /\ Returned

LEMMA ClientInitInv == Init => ClientInv
<1> SUFFICES ASSUME Init PROVE ClientInv
  OBVIOUS
<1>1. ClientTypeOK
  BY DEF Init, ClientTypeOK, LoopStates
<1>2. OpenIsMine /\ FieldIsMine /\ Returned
  BY DEF Init, OpenIsMine, FieldIsMine, Returned, Working
<1> QED BY <1>1, <1>2 DEF ClientInv

\* Each step of the loop keeps the invariant.
LEMMA LoopKeepsInv ==
    ASSUME ClientInv, Loop \/ ConnectFails \/ ReceiveFails
    PROVE  ClientInv'
<1> USE DEF ClientInv, ClientTypeOK, OpenIsMine, FieldIsMine, Returned, LoopStates, Working,
            Move, stopVars, hub
<1>1. CASE LoopReturns
  BY <1>1 DEF LoopReturns
<1>2. CASE Dial
  <2>1. PICK c \in Conns : mine' = c /\ open' = open \union {c}
    BY <1>2 DEF Dial
  <2>2. open = {} /\ c # NoConn
    BY <1>2, ConnsAssumption DEF Dial
  <2> QED BY <1>2, <2>1, <2>2 DEF Dial
<1>3. CASE OpenStream \/ SendRegistration \/ DialSucceeds
  BY <1>3 DEF OpenStream, SendRegistration, DialSucceeds
<1>4. CASE Attach
  BY <1>4 DEF Attach
<1>5. CASE Process
  BY <1>5 DEF Process
<1>6. CASE CloseConn
  BY <1>6 DEF CloseConn
<1>7. CASE Detach
  BY <1>7 DEF Detach
<1>8. CASE Wait
  BY <1>8 DEF Wait
<1>9. CASE ConnectFails
  <2> USE DEF CountFailure
  <2>1. CASE ClientFails
    BY <2>1, ConnsAssumption DEF ClientFails, Tries
  <2>2. ASSUME NEW point \in {"dialing", "streaming", "registering"},
               FailsAt(point), CloseOnFailure
        PROVE  ClientInv'
    BY <2>2, ConnsAssumption DEF FailsAt, CloseOnFailure
  <2> QED BY <1>9, <2>1, <2>2
          DEF ConnectFails, StreamFails, RegistrationFails, AckFails, RegistrationRefused
<1>10. CASE ReceiveFails
  BY <1>10 DEF ReceiveFails
<1> QED
  BY <1>1, <1>2, <1>3, <1>4, <1>5, <1>6, <1>7, <1>8, <1>9, <1>10 DEF Loop

\* So does each step of Stop and of the hub.
LEMMA OthersKeepInv ==
    ASSUME ClientInv, CallStop \/ Stop \/ HubChanges
    PROVE  ClientInv'
<1> USE DEF ClientInv, ClientTypeOK, OpenIsMine, FieldIsMine, Returned, LoopStates, Working,
            stopVars, hub
<1>1. CASE CallStop
  BY <1>1 DEF CallStop
<1>2. CASE StopCloses
  BY <1>2 DEF StopCloses
<1>3. CASE StopCancels
  BY <1>3 DEF StopCancels
<1>4. CASE StopReturns
  BY <1>4 DEF StopReturns
<1>5. CASE HubChanges
  BY <1>5 DEF HubChanges
<1> QED BY <1>1, <1>2, <1>3, <1>4, <1>5 DEF Stop

THEOREM ClientInvariant == Spec => []ClientInv
<1>1. ClientInv /\ [Next]_vars => ClientInv'
  <2> SUFFICES ASSUME ClientInv, [Next]_vars PROVE ClientInv'
    OBVIOUS
  <2>1. CASE UNCHANGED vars
    BY <2>1 DEF vars, ClientInv, ClientTypeOK, OpenIsMine, FieldIsMine, Returned
  <2>2. CASE Next
    BY <2>2, LoopKeepsInv, OthersKeepInv DEF Next
  <2> QED BY <2>1, <2>2
<1> QED BY ClientInitInv, <1>1, PTL DEF Spec

\* client.go: whichever way an attempt or a session ends, at most one connection
\* of the source is open, and none between two attempts.
THEOREM ClientOneConnection == Spec => []OneConnection
<1>1. ClientInv => OneConnection
  <2> SUFFICES ASSUME ClientInv PROVE OneConnection
    OBVIOUS
  <2>1. IsFiniteSet({mine}) /\ Cardinality({mine}) = 1
    BY FS_Singleton
  <2>2. Cardinality(open) <= 1
    BY <2>1, FS_Subset DEF ClientInv, OpenIsMine
  <2> QED BY <2>2 DEF ClientInv, OpenIsMine, Working, OneConnection
<1> QED BY <1>1, ClientInvariant, PTL

\* client.go: when Stop has returned the loop has ended and every connection is
\* closed.
THEOREM ClientStoppedClean == Spec => []StoppedClean
<1>1. ClientInv => StoppedClean
  BY DEF ClientInv, OpenIsMine, Returned, Working, StoppedClean
<1> QED BY <1>1, ClientInvariant, PTL

\* The state of the source's connection keeps its shape.
THEOREM ClientType == Spec => []ClientTypeOK
  BY ClientInvariant, PTL DEF ClientInv

-----------------------------------------------------------------------------
(* The limit of attempts: a connection is dialled only below it. *)

Counting ==
    /\ MaxAttempts < 0 => attempts = 0
    /\ MaxAttempts > 0 => attempts <= MaxAttempts
    /\ loop \in {"dialing", "streaming", "registering", "acked", "attached"} => ~Exhausted
    /\ GivesUpOnlyWhenExhausted

LEMMA CountingStep ==
    ASSUME ClientTypeOK, Counting, [Next]_vars
    PROVE  Counting'
<1> USE ConnsAssumption DEF ClientTypeOK, Counting, GivesUpOnlyWhenExhausted, Exhausted, Move,
        stopVars, hub
<1>1. CASE LoopReturns \/ Dial
  BY <1>1 DEF LoopReturns, Dial, Tries
<1>2. CASE ConnectFails
  BY <1>2 DEF ConnectFails, ClientFails, StreamFails, RegistrationFails, AckFails,
              RegistrationRefused, FailsAt, Tries, CountFailure
<1>3. CASE OpenStream \/ SendRegistration \/ DialSucceeds \/ Attach
  BY <1>3 DEF OpenStream, SendRegistration, DialSucceeds, Attach
<1>4. CASE Process
  BY <1>4 DEF Process
<1>5. CASE ReceiveFails \/ CloseConn \/ Detach
  BY <1>5 DEF ReceiveFails, CloseConn, Detach
<1>6. CASE Wait
  BY <1>6 DEF Wait
<1>7. CASE CallStop \/ Stop \/ HubChanges
  BY <1>7 DEF CallStop, Stop, StopCloses, StopCancels, StopReturns, HubChanges
<1>8. CASE UNCHANGED vars
  BY <1>8 DEF vars
<1> QED BY <1>1, <1>2, <1>3, <1>4, <1>5, <1>6, <1>7, <1>8 DEF Next, Loop

\* client.go, connectionLoop: as long as nobody stops the client, the loop returns
\* only when max_reconnect_attempts attempts in a row have failed, no fewer and no
\* more, and an acknowledgment starts the count over.
THEOREM ClientGivesUp == Spec => []GivesUpOnlyWhenExhausted
<1>1. Init => Counting
  BY ConnsAssumption DEF Init, Counting, GivesUpOnlyWhenExhausted
<1>2. ClientTypeOK /\ Counting /\ [Next]_vars => Counting'
  BY CountingStep
<1>3. Counting => GivesUpOnlyWhenExhausted
  BY DEF Counting
<1> QED BY <1>1, <1>2, <1>3, ClientType, PTL DEF Spec

=============================================================================
