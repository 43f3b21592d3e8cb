------------------------- MODULE HubSessionsProofs -------------------------
(***************************************************************************)
(* For any number of streams, names and concurrent health checks: the maps *)
(* of the hub stay well formed, every registered name has exactly one      *)
(* owner, activeStreams holds no stream of a finished handler, and the     *)
(* gauge of connected sources counts the handlers that are there.          *)
(***************************************************************************)
EXTENDS HubSessions, RouterProofs, FiniteSetTheorems

\* A handler that has started has its registration at hand, and only a stream
\* nobody has opened can be opened.
StreamsOpened ==
    \A s \in Streams :
        /\ pc[s] # "idle" => s \in DOMAIN reg
        /\ peer[s] = "idle" => pc[s] = "idle"

\* Ownership is what cleanup relies on; it needs the router's own invariant,
\* and the handlers need their registrations.
SessionsInv ==
    /\ RouterInv
    /\ SessionsTypeOK
    /\ StreamsOpened
    /\ OneOwner
    /\ ActiveStreamsLive

LEMMA SessionsInitInv == SessionsInit => SessionsInv
<1> SUFFICES ASSUME SessionsInit PROVE SessionsInv
  OBVIOUS
<1>1. RouterInv
  BY RouterInitInv DEF SessionsInit
<1>2. SessionsTypeOK
  <2>1. RouterTypeOK
    BY <1>1 DEF RouterInv
  <2>2. check \in [Checkers -> [state: {"idle", "started", "sending", "sent", "failed"},
                                stream: SUBSET Streams]]
    BY DEF SessionsInit, IdleCheck
  <2>3. <<>> \in Seq(HubMessages) /\ <<>> \in Seq(SourceMessages)
    OBVIOUS
  <2> QED BY <2>1, <2>2, <2>3 DEF SessionsInit, SessionsTypeOK, EmptyMap, HandlerStates, PeerStates
<1>3. StreamsOpened /\ OneOwner /\ ActiveStreamsLive
  BY DEF SessionsInit, RouterInit, EmptyMap, StreamsOpened, OneOwner, ActiveStreamsLive, Owning
<1> QED BY <1>1, <1>2, <1>3 DEF SessionsInv

-----------------------------------------------------------------------------
(* The router's invariant is kept by every step. *)

\* A health mark of any name, present or not, is one of the router's methods.
LEMMA RegistrationsKnown ==
    ASSUME SessionsInv, NEW s \in Streams, pc[s] # "idle"
    PROVE  s \in DOMAIN reg /\ reg[s].name \in Names /\ reg[s].label \in Labels
  BY DEF SessionsInv, StreamsOpened, SessionsTypeOK, Registration

LEMMA RouterUnchanged ==
    ASSUME RouterInv, UNCHANGED routerVars
    PROVE  RouterInv'
  BY DEF routerVars, RouterInv, RouterTypeOK, LabelIndex, HealthMatchesFailures

LEMMA HandlerKeepsRouterInv ==
    ASSUME SessionsInv, NEW s \in Streams, Handler(s)
    PROVE  RouterInv'
<1>1. RouterInv
  BY DEF SessionsInv
<1>2. CASE RegisterStream(s)
  BY <1>1, <1>2, RegistrationsKnown, RegisterInv DEF RegisterStream, At
<1>3. CASE Receive(s)
  BY <1>1, <1>3, RegistrationsKnown, MarkInv DEF Receive, HandleMessage, At
<1>4. CASE UnregisterStream(s)
  BY <1>1, <1>4, RegistrationsKnown, UnregisterInv DEF UnregisterStream, At
<1>5. CASE UNCHANGED routerVars
  BY <1>1, <1>5, RouterUnchanged
<1> QED
  BY <1>2, <1>3, <1>4, <1>5
     DEF Handler, RejectStream, PlaceStream, RegisterFails, DropDuplicate, CountSource,
         SendAck, ReceiveFails, DropStream, ReadHealth, UncountSource

LEMMA RouterInvStep ==
    ASSUME SessionsInv, [SessionsNext]_hubVars
    PROVE  RouterInv'
<1>1. RouterInv
  BY DEF SessionsInv
<1>2. ASSUME NEW s \in Streams, Handler(s) PROVE RouterInv'
  BY <1>2, HandlerKeepsRouterInv
<1>3. ASSUME NEW c \in Checkers, Checker(c) PROVE RouterInv'
  <2>1. c[1] \in Names
    BY DEF Checkers
  <2>2. CASE MarkChecked(c)
    BY <1>1, <2>1, <2>2, MarkInv DEF MarkChecked
  <2>3. CASE UNCHANGED routerVars
    BY <1>1, <2>3, RouterUnchanged
  <2> QED BY <1>3, <2>2, <2>3 DEF Checker, LookupStream, SendCheck
<1>4. CASE UNCHANGED routerVars
  BY <1>1, <1>4, RouterUnchanged
<1> QED
  BY <1>2, <1>3, <1>4
     DEF SessionsNext, SourceNext, ReportError, Disconnect, OpenStream, CheckAllSources,
         ReceiveAck, AnswerCheck, StreamEnded, hubVars, routerVars

-----------------------------------------------------------------------------
(* Well-formed maps, and registrations at hand. *)

\* What the two ends of a stream do to its queues.
LEMMA QueueTypes ==
    ASSUME NEW M, NEW q \in [Streams -> Seq(M)], NEW s \in Streams
    PROVE  /\ \A m \in M : [q EXCEPT ![s] = Append(@, m)] \in [Streams -> Seq(M)]
           /\ q[s] # <<>> => /\ Head(q[s]) \in M
                             /\ [q EXCEPT ![s] = Tail(@)] \in [Streams -> Seq(M)]
           /\ [q EXCEPT ![s] = <<>>] \in [Streams -> Seq(M)]
<1>1. q[s] \in Seq(M)
  OBVIOUS
<1>2. /\ \A m \in M : Append(q[s], m) \in Seq(M)
      /\ q[s] # <<>> => Head(q[s]) \in M /\ Tail(q[s]) \in Seq(M)
      /\ <<>> \in Seq(M)
  BY <1>1
<1>3. \A v \in Seq(M) : [q EXCEPT ![s] = v] \in [Streams -> Seq(M)]
  OBVIOUS
<1> QED BY <1>2, <1>3

LEMMA SendType ==
    ASSUME SessionsTypeOK, NEW s \in Streams, NEW message \in HubMessages,
           SendSucceeds(s, message)
    PROVE  toSource' \in [Streams -> Seq(HubMessages)]
<1>1. toSource \in [Streams -> Seq(HubMessages)]
  BY DEF SessionsTypeOK
<1>2. CASE UNCHANGED toSource
  BY <1>1, <1>2
<1>3. CASE toSource' = [toSource EXCEPT ![s] = Append(@, message)]
  BY <1>1, <1>3, QueueTypes
<1> QED BY <1>2, <1>3 DEF SendSucceeds

LEMMA HandlerKeepsType ==
    ASSUME SessionsInv, NEW s \in Streams, Handler(s)
    PROVE  SessionsTypeOK'
<1>1. RouterTypeOK'
  BY HandlerKeepsRouterInv DEF RouterInv
<1>2. SessionsTypeOK
  BY DEF SessionsInv
<1>3. pc[s] # "idle" /\ s \in DOMAIN reg /\ reg[s].name \in Names
  BY RegistrationsKnown
     DEF Handler, RejectStream, PlaceStream, RegisterStream, RegisterFails, DropDuplicate,
         CountSource, SendAck, Receive, ReceiveFails, DropStream, ReadHealth,
         UnregisterStream, UncountSource, At
<1>4. /\ UNCHANGED <<reg, check, peer>>
      /\ pc' \in [Streams -> HandlerStates]
  BY <1>2
     DEF Handler, RejectStream, PlaceStream, RegisterStream, RegisterFails, DropDuplicate,
         CountSource, SendAck, Receive, ReceiveFails, DropStream, ReadHealth,
         UnregisterStream, UncountSource, Goto, HandlerStates, SessionsTypeOK,
         handlerVars, wire
<1>5. wasHealthy' \in [Streams -> BOOLEAN]
  <2>1. CASE ReadHealth(s)
    <3>1. Healthy(reg[s].name) \in BOOLEAN
      BY DEF Healthy, Registered
    <3> QED BY <1>2, <2>1, <3>1 DEF ReadHealth, SessionsTypeOK
  <2>2. CASE UNCHANGED wasHealthy
    BY <1>2, <2>2 DEF SessionsTypeOK
  <2> QED
    BY <2>1, <2>2
       DEF Handler, RejectStream, PlaceStream, RegisterStream, RegisterFails, DropDuplicate,
           CountSource, SendAck, Receive, ReceiveFails, DropStream, UnregisterStream,
           UncountSource, handlerVars
<1>6. /\ DOMAIN activeStreams' \subseteq Names
      /\ \A n \in DOMAIN activeStreams' : activeStreams'[n] \in Streams
  <2>1. CASE PlaceStream(s)
    BY <1>2, <1>3, <2>1 DEF PlaceStream, Put, SessionsTypeOK
  <2>2. CASE DropDuplicate(s) \/ DropStream(s)
    BY <1>2, <2>2 DEF DropDuplicate, DropStream, Delete, Restrict, SessionsTypeOK
  <2>3. CASE UNCHANGED activeStreams
    BY <1>2, <2>3 DEF SessionsTypeOK
  <2> QED
    BY <2>1, <2>2, <2>3
       DEF Handler, RejectStream, RegisterStream, RegisterFails, CountSource, SendAck,
           Receive, ReceiveFails, ReadHealth, UnregisterStream, UncountSource
<1>7. connected' \in Int /\ healthyGauge' \in Int
  BY <1>2
     DEF Handler, RejectStream, PlaceStream, RegisterStream, RegisterFails, DropDuplicate,
         CountSource, SendAck, Receive, ReceiveFails, DropStream, ReadHealth,
         UnregisterStream, UncountSource, SessionsTypeOK, gauges
<1>8. toSource' \in [Streams -> Seq(HubMessages)]
  <2>1. CASE SendAck(s)
    BY <1>2, <2>1, SendType DEF SendAck, SessionsTypeOK, HubMessages, Controls
  <2>2. CASE UNCHANGED toSource
    BY <1>2, <2>2 DEF SessionsTypeOK
  <2> QED
    BY <2>1, <2>2
       DEF Handler, RejectStream, PlaceStream, RegisterStream, RegisterFails, DropDuplicate,
           CountSource, Receive, ReceiveFails, DropStream, ReadHealth, UnregisterStream,
           UncountSource, wire
<1>9. toHub' \in [Streams -> Seq(SourceMessages)]
  <2>1. CASE Receive(s)
    BY <1>2, <2>1 DEF Receive, SessionsTypeOK
  <2>2. CASE ReceiveFails(s)
    BY <1>2, <2>2 DEF ReceiveFails, SessionsTypeOK
  <2>3. CASE UNCHANGED toHub
    BY <1>2, <2>3 DEF SessionsTypeOK
  <2> QED
    BY <2>1, <2>2, <2>3
       DEF Handler, RejectStream, PlaceStream, RegisterStream, RegisterFails, DropDuplicate,
           CountSource, SendAck, DropStream, ReadHealth, UnregisterStream,
           UncountSource, wire
<1> QED BY <1>1, <1>2, <1>4, <1>5, <1>6, <1>7, <1>8, <1>9 DEF SessionsTypeOK

LEMMA CheckerKeepsType ==
    ASSUME SessionsInv, NEW c \in Checkers, Checker(c)
    PROVE  SessionsTypeOK'
<1> DEFINE CheckType == [state: {"idle", "started", "sending", "sent", "failed"},
                         stream: SUBSET Streams]
<1>1. RouterTypeOK'
  BY RouterInvStep DEF SessionsNext, RouterInv
<1>2. SessionsTypeOK
  BY DEF SessionsInv
<1>3. UNCHANGED <<handlerVars, activeStreams, gauges, peer, toHub>>
  BY DEF Checker, LookupStream, SendCheck, MarkChecked, wire
<1>4. toSource' \in [Streams -> Seq(HubMessages)]
  <2>1. CASE SendCheck(c)
    <3>1. check[c].stream \subseteq Streams
      BY <1>2 DEF SessionsTypeOK
    <3>2. ASSUME NEW s \in Streams, SendSucceeds(s, "check")
          PROVE  toSource' \in [Streams -> Seq(HubMessages)]
      BY <1>2, <3>2, SendType DEF HubMessages, Controls
    <3> QED BY <1>2, <2>1, <3>1, <3>2 DEF SendCheck, SessionsTypeOK
  <2>2. CASE UNCHANGED toSource
    BY <1>2, <2>2 DEF SessionsTypeOK
  <2> QED BY <2>1, <2>2 DEF Checker, LookupStream, MarkChecked, wire
<1>5. check' \in [Checkers -> CheckType]
  <2>1. \E r \in CheckType : check' = [check EXCEPT ![c] = r]
    <3>1. CASE LookupStream(c)
      BY <1>2, <3>1 DEF LookupStream, SessionsTypeOK
    <3>2. CASE SendCheck(c)
      BY <3>2 DEF SendCheck
    <3>3. CASE MarkChecked(c)
      BY <3>3 DEF MarkChecked, IdleCheck
    <3> QED BY <3>1, <3>2, <3>3 DEF Checker
  <2> QED BY <1>2, <2>1 DEF SessionsTypeOK
<1> QED BY <1>1, <1>2, <1>3, <1>4, <1>5 DEF SessionsTypeOK, handlerVars, gauges

LEMMA SourceKeepsType ==
    ASSUME SessionsInv, NEW s \in Streams,
           SourceNext(s) \/ ReportError(s) \/ Disconnect(s)
    PROVE  SessionsTypeOK'
<1>1. RouterTypeOK'
  BY RouterInvStep DEF SessionsNext, RouterInv
<1>2. SessionsTypeOK
  BY DEF SessionsInv
<1>3. UNCHANGED <<handlerVars, activeStreams, gauges, check>>
  BY DEF SourceNext, ReceiveAck, AnswerCheck, StreamEnded, ReportError, Disconnect
<1>4. peer' \in [Streams -> PeerStates]
  BY <1>2 DEF SourceNext, ReceiveAck, AnswerCheck, StreamEnded, ReportError, Disconnect,
              Close, SessionsTypeOK, PeerStates
<1>5. toSource' \in [Streams -> Seq(HubMessages)]
  <2>1. toSource \in [Streams -> Seq(HubMessages)]
    BY <1>2 DEF SessionsTypeOK
  <2>2. CASE UNCHANGED toSource
    BY <2>1, <2>2
  <2>3. CASE toSource[s] # <<>> /\ toSource' = [toSource EXCEPT ![s] = Tail(@)]
    BY <2>1, <2>3, QueueTypes
  <2>4. CASE toSource' = [toSource EXCEPT ![s] = <<>>]
    BY <2>1, <2>4, QueueTypes
  <2> QED
    BY <2>2, <2>3, <2>4
       DEF SourceNext, ReceiveAck, AnswerCheck, StreamEnded, ReportError, Disconnect, Close
<1>6. toHub' \in [Streams -> Seq(SourceMessages)]
  <2>1. toHub \in [Streams -> Seq(SourceMessages)]
    BY <1>2 DEF SessionsTypeOK
  <2>2. CASE UNCHANGED toHub
    BY <2>1, <2>2
  <2>3. CASE \E m \in SourceMessages :
                toHub' = [toHub EXCEPT ![s] = Append(@, m)]
    BY <2>1, <2>3, QueueTypes
  <2> QED
    BY <2>2, <2>3
       DEF SourceNext, ReceiveAck, AnswerCheck, StreamEnded, ReportError, Disconnect,
           SourceMessages, Reports
<1> QED BY <1>1, <1>2, <1>3, <1>4, <1>5, <1>6 DEF SessionsTypeOK, handlerVars, gauges

LEMMA TypeStep ==
    ASSUME SessionsInv, [SessionsNext]_hubVars
    PROVE  SessionsTypeOK' /\ StreamsOpened'
<1>1. SessionsTypeOK /\ StreamsOpened
  BY DEF SessionsInv
<1>2. RouterTypeOK'
  BY RouterInvStep DEF RouterInv
<1>3. SessionsTypeOK'
  <2>1. ASSUME NEW s \in Streams, Handler(s) PROVE SessionsTypeOK'
    BY <2>1, HandlerKeepsType
  <2>2. ASSUME NEW s \in Streams, SourceNext(s) \/ ReportError(s) \/ Disconnect(s)
        PROVE  SessionsTypeOK'
    BY <2>2, SourceKeepsType
  <2>3. ASSUME NEW s \in Streams, NEW name \in Names, NEW label \in Labels,
               NEW auth \in BOOLEAN, OpenStream(s, name, label, auth)
        PROVE  SessionsTypeOK'
    BY <1>1, <1>2, <2>3
       DEF OpenStream, SessionsTypeOK, Goto, Put, Registration, PeerStates, HandlerStates,
           gauges
  <2>4. CASE CheckAllSources
    <3>1. check' \in [Checkers -> [state: {"idle", "started", "sending", "sent", "failed"},
                                   stream: SUBSET Streams]]
      <4> DEFINE CheckType == [state: {"idle", "started", "sending", "sent", "failed"},
                               stream: SUBSET Streams]
                 started == [IdleCheck EXCEPT !.state = "started"]
      <4>1. started \in CheckType
        BY DEF IdleCheck
      <4>2. check \in [Checkers -> CheckType]
        BY <1>1 DEF SessionsTypeOK
      <4>3. PICK slot \in [DOMAIN sources -> Slots] :
                check' = [c \in Checkers |->
                             IF c[1] \in DOMAIN sources /\ slot[c[1]] = c[2]
                             THEN started ELSE check[c]]
        BY <2>4 DEF CheckAllSources
      <4> HIDE DEF CheckType, started
      <4>4. check' \in [Checkers -> CheckType]
        BY <4>1, <4>2, <4>3
      <4> QED BY <4>4 DEF CheckType
    <3> QED BY <1>1, <1>2, <2>4, <3>1
            DEF CheckAllSources, SessionsTypeOK, handlerVars, gauges, wire
  <2>5. ASSUME NEW c \in Checkers, Checker(c) PROVE SessionsTypeOK'
    BY <2>5, CheckerKeepsType
  <2>6. CASE UNCHANGED hubVars
    BY <1>1, <1>2, <2>6 DEF hubVars, SessionsTypeOK
  <2> QED BY <2>1, <2>2, <2>3, <2>4, <2>5, <2>6 DEF SessionsNext
<1>4. StreamsOpened'
  <2>1. ASSUME NEW s \in Streams, Handler(s) PROVE StreamsOpened'
    <3>1. /\ pc[s] # "idle"
          /\ UNCHANGED <<reg, peer>>
          /\ \A t \in Streams : t # s => pc'[t] = pc[t]
      BY <1>1, <2>1
         DEF Handler, RejectStream, PlaceStream, RegisterStream, RegisterFails,
             DropDuplicate, CountSource, SendAck, Receive, ReceiveFails, DropStream,
             ReadHealth, UnregisterStream, UncountSource, At, Goto, handlerVars, wire,
             SessionsTypeOK
    <3> QED BY <1>1, <3>1 DEF StreamsOpened
  <2>2. ASSUME NEW s \in Streams, SourceNext(s) \/ ReportError(s) \/ Disconnect(s)
        PROVE  StreamsOpened'
    <3>1. /\ UNCHANGED handlerVars
          /\ \A t \in Streams : peer'[t] = "idle" => peer[t] = "idle"
      BY <1>1, <2>2
         DEF SourceNext, ReceiveAck, AnswerCheck, StreamEnded, ReportError, Disconnect,
             Close, PeerOpen, SessionsTypeOK
    <3> QED BY <1>1, <3>1 DEF StreamsOpened, handlerVars
  <2>3. ASSUME NEW s \in Streams, NEW name \in Names, NEW label \in Labels,
               NEW auth \in BOOLEAN, OpenStream(s, name, label, auth)
        PROVE  StreamsOpened'
    BY <1>1, <2>3 DEF OpenStream, Goto, Put, StreamsOpened, SessionsTypeOK
  <2>4. CASE UNCHANGED <<pc, reg, peer>>
    BY <1>1, <2>4 DEF StreamsOpened
  <2> QED
    BY <2>1, <2>2, <2>3, <2>4
       DEF SessionsNext, CheckAllSources, Checker, LookupStream, SendCheck, MarkChecked,
           hubVars, handlerVars, wire
<1> QED BY <1>3, <1>4

-----------------------------------------------------------------------------
(* Ownership of names. *)

\* Steps that neither add nor remove an owner, or a name, or change a label.
LEMMA SameOwners ==
    ASSUME OneOwner,
           DOMAIN sources' = DOMAIN sources,
           \A n \in DOMAIN sources : sources'[n].label = sources[n].label,
           \A t \in Streams : pc'[t] \in Owning <=> pc[t] \in Owning,
           \A t \in Streams : pc[t] \in Owning => reg'[t] = reg[t]
    PROVE  OneOwner'
  BY DEF OneOwner, Owns, Registered

\* The router's marks leave names and labels alone.
LEMMA MarksKeepLabels ==
    ASSUME RouterTypeOK, NEW name, MarkHealthy(name) \/ MarkUnhealthy(name)
    PROVE  /\ DOMAIN sources' = DOMAIN sources
           /\ \A n \in DOMAIN sources : sources'[n].label = sources[n].label
<1>1. \A n \in DOMAIN sources : sources[n] \in SourceConnection
  BY DEF RouterTypeOK
<1>2. CASE MarkHealthy(name)
  BY <1>1, <1>2 DEF MarkHealthy, SourceConnection
<1>3. CASE MarkUnhealthy(name)
  BY <1>1, <1>3 DEF MarkUnhealthy, SourceConnection
<1> QED BY <1>2, <1>3

LEMMA HandlerKeepsOwners ==
    ASSUME SessionsInv, NEW s \in Streams, Handler(s)
    PROVE  OneOwner'
<1>1. OneOwner /\ SessionsTypeOK
  BY DEF SessionsInv
<1>2. UNCHANGED reg
  BY DEF Handler, RejectStream, PlaceStream, RegisterStream, RegisterFails, DropDuplicate,
         CountSource, SendAck, Receive, ReceiveFails, DropStream, ReadHealth,
         UnregisterStream, UncountSource, handlerVars
<1>3. CASE RegisterStream(s)
  <2>1. /\ ~Registered(reg[s].name)
        /\ sources' = Put(sources, reg[s].name,
                          [label |-> reg[s].label, operations |-> Ops,
                           healthy |-> TRUE, failures |-> 0])
        /\ pc[s] = "placed" /\ pc' = [pc EXCEPT ![s] = "registered"]
    BY <1>3 DEF RegisterStream, RegisterSource, At, Goto
  <2>2. /\ DOMAIN sources' = DOMAIN sources \union {reg[s].name}
        /\ sources'[reg[s].name].label = reg[s].label
        /\ \A n \in DOMAIN sources : sources'[n] = sources[n]
    BY <2>1 DEF Registered, Put
  <2>3. \A t \in Streams : pc'[t] \in Owning <=> (t = s \/ pc[t] \in Owning)
    BY <1>1, <2>1 DEF Owning, SessionsTypeOK
  <2>4. \A t \in Streams : pc[t] \in Owning => reg[t].name # reg[s].name
    BY <1>1, <2>1 DEF OneOwner
  <2> QED BY <1>1, <1>2, <2>2, <2>3, <2>4 DEF OneOwner, Owns, Registered
<1>4. CASE UnregisterStream(s)
  <2>1. pc[s] = "read" /\ pc' = [pc EXCEPT ![s] = "unregistered"]
    BY <1>4 DEF UnregisterStream, At, Goto
  <2>2. Registered(reg[s].name)
    BY <1>1, <2>1 DEF OneOwner, Owning
  <2>3. /\ DOMAIN sources' = DOMAIN sources \ {reg[s].name}
        /\ \A n \in DOMAIN sources' : sources'[n] = sources[n]
    BY <1>4, <2>2 DEF UnregisterStream, UnregisterSource, UnregisterPresent, Delete, Restrict
  <2>4. \A t \in Streams : pc'[t] \in Owning <=> (t # s /\ pc[t] \in Owning)
    BY <1>1, <2>1 DEF Owning, SessionsTypeOK
  <2>5. \A t \in Streams : t # s /\ pc[t] \in Owning => reg[t].name # reg[s].name
    BY <1>1, <2>1 DEF OneOwner, Owning
  <2> QED BY <1>1, <1>2, <2>3, <2>4, <2>5 DEF OneOwner, Owns, Registered
<1>5. CASE ~RegisterStream(s) /\ ~UnregisterStream(s)
  <2>1. \A t \in Streams : pc'[t] \in Owning <=> pc[t] \in Owning
    BY <1>1, <1>5
       DEF Handler, RejectStream, PlaceStream, RegisterFails, DropDuplicate, CountSource,
           SendAck, Receive, ReceiveFails, DropStream, ReadHealth, UncountSource, At, Goto,
           handlerVars, Owning, SessionsTypeOK
  <2>2. /\ DOMAIN sources' = DOMAIN sources
        /\ \A n \in DOMAIN sources : sources'[n].label = sources[n].label
    <3>1. CASE Receive(s)
      BY <1>1, <3>1, MarksKeepLabels DEF Receive, HandleMessage, SessionsTypeOK
    <3>2. CASE UNCHANGED routerVars
      BY <3>2 DEF routerVars
    <3> QED
      BY <1>5, <3>1, <3>2
         DEF Handler, RejectStream, PlaceStream, RegisterFails, DropDuplicate, CountSource,
             SendAck, ReceiveFails, DropStream, ReadHealth, UncountSource
  <2> QED BY <1>1, <1>2, <2>1, <2>2, SameOwners
<1> QED BY <1>3, <1>4, <1>5

LEMMA OwnersStep ==
    ASSUME SessionsInv, [SessionsNext]_hubVars
    PROVE  OneOwner'
<1>1. OneOwner /\ SessionsTypeOK /\ StreamsOpened
  BY DEF SessionsInv
<1>2. ASSUME NEW s \in Streams, Handler(s) PROVE OneOwner'
  BY <1>2, HandlerKeepsOwners
<1>3. ASSUME NEW c \in Checkers, Checker(c) PROVE OneOwner'
  <2>1. UNCHANGED <<pc, reg>>
    BY <1>3 DEF Checker, LookupStream, SendCheck, MarkChecked, handlerVars
  <2>2. /\ DOMAIN sources' = DOMAIN sources
        /\ \A n \in DOMAIN sources : sources'[n].label = sources[n].label
    <3>1. CASE MarkChecked(c)
      BY <1>1, <3>1, MarksKeepLabels DEF MarkChecked, SessionsTypeOK
    <3>2. CASE UNCHANGED routerVars
      BY <3>2 DEF routerVars
    <3> QED BY <1>3, <3>1, <3>2 DEF Checker, LookupStream, SendCheck
  <2> QED BY <1>1, <2>1, <2>2, SameOwners
<1>4. ASSUME NEW s \in Streams, NEW name \in Names, NEW label \in Labels,
             NEW auth \in BOOLEAN, OpenStream(s, name, label, auth)
      PROVE  OneOwner'
  <2>1. /\ pc[s] = "idle" /\ pc' = [pc EXCEPT ![s] = "receiving"]
        /\ \A t \in DOMAIN reg : t # s => reg'[t] = reg[t]
        /\ UNCHANGED sources
    BY <1>1, <1>4 DEF OpenStream, Goto, Put, StreamsOpened, routerVars
  <2>2. \A t \in Streams : pc'[t] \in Owning <=> pc[t] \in Owning
    BY <1>1, <2>1 DEF Owning, SessionsTypeOK
  <2>3. \A t \in Streams : pc[t] \in Owning => reg'[t] = reg[t]
    BY <1>1, <2>1 DEF Owning, StreamsOpened
  <2> QED BY <1>1, <2>1, <2>2, <2>3, SameOwners
<1>5. CASE UNCHANGED <<sources, pc, reg>>
  BY <1>1, <1>5, SameOwners
<1> QED
  BY <1>2, <1>3, <1>4, <1>5
     DEF SessionsNext, SourceNext, ReceiveAck, AnswerCheck, StreamEnded, ReportError,
         Disconnect, CheckAllSources, hubVars, handlerVars, routerVars

-----------------------------------------------------------------------------
(* activeStreams *)

LEMMA ActiveStreamsStep ==
    ASSUME SessionsInv, [SessionsNext]_hubVars
    PROVE  ActiveStreamsLive'
<1>1. ActiveStreamsLive /\ SessionsTypeOK /\ StreamsOpened
  BY DEF SessionsInv
<1>2. ASSUME UNCHANGED activeStreams,
             \A t \in Streams : pc[t] \in Placed => pc'[t] \in Placed /\ reg'[t] = reg[t]
      PROVE  ActiveStreamsLive'
  BY <1>1, <1>2 DEF ActiveStreamsLive, SessionsTypeOK
<1>3. ASSUME NEW s \in Streams, PlaceStream(s) PROVE ActiveStreamsLive'
  <2>1. /\ pc[s] = "receiving" /\ pc' = [pc EXCEPT ![s] = "placed"]
        /\ reg' = reg
        /\ activeStreams' = Put(activeStreams, reg[s].name, s)
    BY <1>3 DEF PlaceStream, At, Goto
  <2>2. \A t \in Streams : pc[t] \in Placed => pc'[t] \in Placed
    BY <1>1, <2>1 DEF Placed, SessionsTypeOK
  <2>3. pc'[s] \in Placed
    BY <1>1, <2>1 DEF Placed, SessionsTypeOK
  <2> QED BY <1>1, <2>1, <2>2, <2>3 DEF ActiveStreamsLive, SessionsTypeOK, Put
<1>4. ASSUME NEW s \in Streams, DropDuplicate(s) \/ DropStream(s) PROVE ActiveStreamsLive'
  <2>1. /\ \A t \in Streams : t # s => pc'[t] = pc[t]
        /\ reg' = reg
        /\ activeStreams' = Delete(activeStreams, reg[s].name)
    BY <1>1, <1>4 DEF DropDuplicate, DropStream, Goto, SessionsTypeOK
  <2>2. \A n \in DOMAIN activeStreams' :
            n \in DOMAIN activeStreams /\ activeStreams'[n] = activeStreams[n] /\ activeStreams[n] # s
    BY <1>1, <2>1 DEF Delete, Restrict, ActiveStreamsLive
  <2> QED BY <1>1, <2>1, <2>2 DEF ActiveStreamsLive, SessionsTypeOK
<1>5. ASSUME NEW s \in Streams, Handler(s), ~PlaceStream(s), ~DropDuplicate(s), ~DropStream(s)
      PROVE  ActiveStreamsLive'
  <2>1. UNCHANGED <<activeStreams, reg>>
    BY <1>5 DEF Handler, RejectStream, RegisterStream, RegisterFails, CountSource, SendAck,
                Receive, ReceiveFails, ReadHealth, UnregisterStream, UncountSource, handlerVars
  <2>2. \A t \in Streams : pc[t] \in Placed => pc'[t] \in Placed
    BY <1>1, <1>5
       DEF Handler, RejectStream, RegisterStream, RegisterFails, CountSource, SendAck,
           Receive, ReceiveFails, ReadHealth, UnregisterStream, UncountSource, At, Goto,
           handlerVars, Placed, SessionsTypeOK
  <2> QED BY <1>2, <2>1, <2>2
<1>6. ASSUME NEW s \in Streams, NEW name \in Names, NEW label \in Labels,
             NEW auth \in BOOLEAN, OpenStream(s, name, label, auth)
      PROVE  ActiveStreamsLive'
  <2>1. /\ pc[s] = "idle" /\ pc' = [pc EXCEPT ![s] = "receiving"]
        /\ \A t \in DOMAIN reg : t # s => reg'[t] = reg[t]
        /\ UNCHANGED activeStreams
    BY <1>1, <1>6 DEF OpenStream, Goto, Put, StreamsOpened
  <2>2. \A t \in Streams : pc[t] \in Placed => pc'[t] \in Placed /\ reg'[t] = reg[t]
    BY <1>1, <2>1 DEF Placed, StreamsOpened, SessionsTypeOK
  <2> QED BY <1>2, <2>1, <2>2
<1>7. CASE UNCHANGED <<activeStreams, pc, reg>>
  BY <1>2, <1>7
<1> QED
  BY <1>3, <1>4, <1>5, <1>6, <1>7
     DEF SessionsNext, SourceNext, ReceiveAck, AnswerCheck, StreamEnded, ReportError,
         Disconnect, CheckAllSources, Checker, LookupStream, SendCheck, MarkChecked,
         hubVars, handlerVars

-----------------------------------------------------------------------------
(* The gauge of connected sources *)

InGauge == {s \in Streams : pc[s] \in Counted}

LEMMA GaugeInit == SessionsInit => ConnectedGauge
<1> SUFFICES ASSUME SessionsInit PROVE InGauge = {}
  BY FS_EmptySet DEF SessionsInit, ConnectedGauge, InGauge
<1> QED BY DEF SessionsInit, Counted, InGauge

LEMMA GaugeKept ==
    ASSUME ConnectedGauge, UNCHANGED connected,
           \A t \in Streams : pc'[t] \in Counted <=> pc[t] \in Counted
    PROVE  ConnectedGauge'
<1>1. InGauge' = InGauge
  BY DEF InGauge
<1> QED BY <1>1 DEF ConnectedGauge, InGauge

LEMMA GaugeStep ==
    ASSUME SessionsInv, ConnectedGauge, [SessionsNext]_hubVars
    PROVE  ConnectedGauge'
<1>1. SessionsTypeOK /\ StreamsOpened
  BY DEF SessionsInv
<1>2. IsFiniteSet(InGauge)
  BY SessionsAssumption, FS_Subset DEF InGauge
<1>3. ASSUME NEW s \in Streams, CountSource(s) PROVE ConnectedGauge'
  <2>1. /\ pc[s] = "registered" /\ pc' = [pc EXCEPT ![s] = "counted"]
        /\ connected' = connected + 1
    BY <1>3 DEF CountSource, At, Goto
  <2>2. InGauge' = InGauge \union {s} /\ s \notin InGauge
    BY <1>1, <2>1 DEF InGauge, Counted, SessionsTypeOK
  <2>3. Cardinality(InGauge \union {s}) = Cardinality(InGauge) + 1
    BY <1>2, <2>2, FS_AddElement
  <2> QED BY <2>1, <2>2, <2>3 DEF ConnectedGauge, InGauge
<1>4. ASSUME NEW s \in Streams, UncountSource(s) PROVE ConnectedGauge'
  <2>1. /\ pc[s] = "unregistered" /\ pc' = [pc EXCEPT ![s] = "done"]
        /\ connected' = connected - 1
    BY <1>4 DEF UncountSource, At, Goto
  <2>2. InGauge' = InGauge \ {s} /\ s \in InGauge
    BY <1>1, <2>1 DEF InGauge, Counted, SessionsTypeOK
  <2>3. Cardinality(InGauge \ {s}) = Cardinality(InGauge) - 1
    BY <1>2, <2>2, FS_RemoveElement
  <2> QED BY <2>1, <2>2, <2>3 DEF ConnectedGauge, InGauge
<1>5. ASSUME NEW s \in Streams, Handler(s), ~CountSource(s), ~UncountSource(s)
      PROVE  ConnectedGauge'
  <2>1. UNCHANGED connected
    BY <1>5 DEF Handler, RejectStream, PlaceStream, RegisterStream, RegisterFails,
                DropDuplicate, SendAck, Receive, ReceiveFails, DropStream, ReadHealth,
                UnregisterStream, gauges
  <2>2. \A t \in Streams : pc'[t] \in Counted <=> pc[t] \in Counted
    BY <1>1, <1>5
       DEF Handler, RejectStream, PlaceStream, RegisterStream, RegisterFails,
           DropDuplicate, SendAck, Receive, ReceiveFails, DropStream, ReadHealth,
           UnregisterStream, At, Goto, handlerVars, Counted, SessionsTypeOK
  <2> QED BY <2>1, <2>2, GaugeKept
<1>6. ASSUME NEW s \in Streams, NEW name \in Names, NEW label \in Labels,
             NEW auth \in BOOLEAN, OpenStream(s, name, label, auth)
      PROVE  ConnectedGauge'
  <2>1. /\ pc[s] = "idle" /\ pc' = [pc EXCEPT ![s] = "receiving"]
        /\ UNCHANGED connected
    BY <1>1, <1>6 DEF OpenStream, Goto, StreamsOpened, gauges
  <2>2. \A t \in Streams : pc'[t] \in Counted <=> pc[t] \in Counted
    BY <1>1, <2>1 DEF Counted, SessionsTypeOK
  <2> QED BY <2>1, <2>2, GaugeKept
<1>7. CASE UNCHANGED <<connected, pc>>
  BY <1>7, GaugeKept
<1> QED
  BY <1>3, <1>4, <1>5, <1>6, <1>7
     DEF SessionsNext, SourceNext, ReceiveAck, AnswerCheck, StreamEnded, ReportError,
         Disconnect, CheckAllSources, Checker, LookupStream, SendCheck, MarkChecked,
         hubVars, handlerVars, gauges

-----------------------------------------------------------------------------

\* The inductive invariant holds in every state the hub can reach.
THEOREM SessionsInvariant == SessionsSpec => []SessionsInv
<1>1. SessionsInit => SessionsInv
  BY SessionsInitInv
<1>2. SessionsInv /\ [SessionsNext]_hubVars => SessionsInv'
  BY RouterInvStep, TypeStep, OwnersStep, ActiveStreamsStep DEF SessionsInv
<1> QED BY <1>1, <1>2, PTL DEF SessionsSpec

\* The hub's maps stay well formed whatever the handlers, the health monitor and
\* the sources do.
THEOREM SessionsType == SessionsSpec => []SessionsTypeOK
  BY SessionsInvariant, PTL DEF SessionsInv

\* Under concurrent registrations and cleanups of one name the router's index
\* still agrees with its table.
THEOREM SessionsLabelIndex == SessionsSpec => []LabelIndex
  BY SessionsInvariant, PTL DEF SessionsInv, RouterInv

\* Each registered name belongs to one handler, and cleanup takes away its own.
THEOREM SessionsOneOwner == SessionsSpec => []OneOwner
  BY SessionsInvariant, PTL DEF SessionsInv

\* The gauge of connected sources is the number of handlers between Inc and Dec.
THEOREM SessionsConnectedGauge == SessionsSpec => []ConnectedGauge
<1>1. SessionsInit => ConnectedGauge
  BY GaugeInit
<1>2. SessionsInv /\ ConnectedGauge /\ [SessionsNext]_hubVars => ConnectedGauge'
  BY GaugeStep
<1> QED BY <1>1, <1>2, SessionsInvariant, PTL DEF SessionsSpec

\* No stream of a finished handler is left in activeStreams.
THEOREM SessionsActiveStreams == SessionsSpec => []ActiveStreamsLive
  BY SessionsInvariant, PTL DEF SessionsInv

=============================================================================
