-------------------------- MODULE RoundRobinProofs --------------------------
(***************************************************************************)
(* Round robin is fair for any number of sources, labels and operations,   *)
(* and for windows of any length, wherever the index of the label stood    *)
(* when the window opened; and who can be selected follows from what was   *)
(* reported of each source.                                                *)
(***************************************************************************)
EXTENDS RoundRobin, RouterProofs, FiniteSetTheorems

-----------------------------------------------------------------------------
(* Arithmetic of the index *)

\* Division with remainder.
LEMMA Division ==
    ASSUME NEW r \in Nat, NEW m \in Nat \ {0}
    PROVE  \E k \in Nat, d \in 0..(m - 1) : r = (k * m) + d /\ r % m = d
<1>1. r % m \in 0..(m - 1) /\ r \div m \in Nat /\ r = (m * (r \div m)) + (r % m)
  OBVIOUS
<1>2. m * (r \div m) = (r \div m) * m
  BY <1>1
<1> QED BY <1>1, <1>2

LEMMA Remainder ==
    ASSUME NEW m \in Nat \ {0}, NEW k \in Nat, NEW d \in 0..(m - 1)
    PROVE  ((k * m) + d) % m = d
  OBVIOUS

\* The index of the next source: one further, or back at the start; the modulus the
\* index is kept in makes no difference.
LEMMA NextIndex ==
    ASSUME NEW m \in Nat \ {0}, NEW C \in Nat \ {0}, C % m = 0, NEW r \in 0..(C - 1)
    PROVE  ((r + 1) % C) % m = IF r % m = m - 1 THEN 0 ELSE (r % m) + 1
<1>1. PICK k \in Nat, d \in 0..(m - 1) : r = (k * m) + d /\ r % m = d
  BY Division
<1>2. (r + 1) % m = IF d = m - 1 THEN 0 ELSE d + 1
  <2>1. CASE d = m - 1
    <3>1. r + 1 = ((k + 1) * m) + 0
      BY <1>1, <2>1
    <3>2. (((k + 1) * m) + 0) % m = 0
      <4>1. k + 1 \in Nat /\ 0 \in 0..(m - 1)
        OBVIOUS
      <4> QED BY <4>1, Remainder
    <3> QED BY <2>1, <3>1, <3>2
  <2>2. CASE d # m - 1
    <3>1. r + 1 = (k * m) + (d + 1)
      BY <1>1
    <3>2. ((k * m) + (d + 1)) % m = d + 1
      <4>1. d + 1 \in 0..(m - 1)
        BY <2>2
      <4> QED BY <4>1, Remainder
    <3> QED BY <2>2, <3>1, <3>2
  <2> QED BY <2>1, <2>2
<1>3. (r + 1) % C = IF r + 1 = C THEN 0 ELSE r + 1
  <2>1. CASE r + 1 = C
    BY <2>1
  <2>2. CASE r + 1 < C
    BY <2>2
  <2> QED BY <2>1, <2>2
<1>4. 0 % m = 0
  OBVIOUS
<1>5. CASE r + 1 = C
  BY <1>1, <1>2, <1>3, <1>4, <1>5
<1>6. CASE r + 1 # C
  BY <1>1, <1>2, <1>3, <1>6
<1> QED BY <1>5, <1>6

-----------------------------------------------------------------------------
(* The candidates *)

\* The candidates of a selection are sources, each of them once, and no more
\* than RobinCycle provides for.
LEMMA Candidates ==
    ASSUME RouterInv, NEW label \in Labels, NEW op \in Ops
    PROVE  LET healthy == HealthySources(label, op) IN
           /\ healthy \in Seq(Names)
           /\ IsInjective(healthy)
           /\ healthy # <<>> => /\ label \in DOMAIN robin
                                /\ RobinCycle % Len(healthy) = 0
<1> DEFINE list == Listed(label)
           fit == {n \in ToSet(list) : sources[n].healthy /\ op \in sources[n].operations}
           healthy == HealthySources(label, op)
<1>1. list \in Seq(Names) /\ IsInjective(list)
  BY DEF RouterInv, RouterTypeOK, LabelIndex, Listed, IsInjective
<1>2. Sifts(Names, list, fit, healthy)
  <2> HIDE DEF list, fit
  <2>1. Sifts(Names, list, fit, Among(list, fit))
    BY <1>1, AmongProperties
  <2> QED BY <2>1 DEF HealthySources, list, fit
<1> HIDE DEF healthy, list, fit
<1>3. healthy \in Seq(Names) /\ IsInjective(healthy)
  BY <1>2 DEF Sifts
<1>4. ASSUME healthy # <<>>
      PROVE  label \in DOMAIN robin
  <2>1. 1 \in DOMAIN healthy
    BY <1>3, <1>4
  <2>2. \E i \in DOMAIN list : list[i] = healthy[1]
    BY <1>2, <2>1 DEF Sifts
  <2>3. label \in DOMAIN labels
    BY <2>2 DEF list, Listed
  <2> QED BY <2>3 DEF RouterInv, LabelIndex
<1>5. ASSUME healthy # <<>>
      PROVE  RobinCycle % Len(healthy) = 0
  <2>1. Len(healthy) \in Nat \ {0}
    BY <1>3, <1>5
  <2>2. healthy \in Injection(1..Len(healthy), Names)
    BY <1>3, <2>1 DEF Injection, IsInjective
  <2>3. Len(healthy) <= Cardinality(Names) /\ Cardinality(Names) \in Nat
    <3>1. Cardinality(1..Len(healthy)) <= Cardinality(Names)
      BY <2>2, NamesAssumption, FS_Injection
    <3>2. Cardinality(1..Len(healthy)) = Len(healthy)
      BY <2>1, FS_Interval
    <3> QED BY <3>1, <3>2, NamesAssumption, FS_CardinalityType
  <2>4. Len(healthy) \in 1..Cardinality(Names)
    BY <2>1, <2>3
  <2> QED BY <2>4, RobinAssumption
<1> QED BY <1>3, <1>4, <1>5 DEF healthy

-----------------------------------------------------------------------------
(* The invariant: in the circle of candidates, those from where the window    *)
(* started up to the next one have been chosen once more than the others.    *)

Ahead(first, next, i) ==
    IF first <= next THEN first <= i /\ i < next ELSE first <= i \/ i < next

\* How often each of the candidates has been chosen.
Shared(healthy, count, next) ==
    \E rounds \in Nat, first \in 0..(Len(healthy) - 1) :
        \A i \in 0..(Len(healthy) - 1) :
            count[healthy[i + 1]] = IF Ahead(first, next, i) THEN rounds + 1 ELSE rounds

WindowShape ==
    /\ window.for \subseteq Labels \X Ops
    /\ window.count \in [Names -> Nat]
    /\ window.total \in 0..MaxWindow
    /\ \A n \in Names : window.count[n] <= window.total
    /\ window = [for |-> window.for, count |-> window.count, total |-> window.total]

Turns ==
    \A label \in Labels, op \in Ops :
        <<label, op>> \in window.for =>
            LET healthy == HealthySources(label, op) IN
            /\ healthy # <<>>
            /\ Shared(healthy, window.count, robin[label] % Len(healthy))

\* The code's FailureCount is the failures in a row of the record, and who is in
\* good standing has fewer than the threshold.
RecordMatches ==
    /\ record \in [Names -> [streak: 0..FailureThreshold, standing: Standings]]
    /\ \A n \in DOMAIN sources :
          /\ sources[n].failures = record[n].streak
          /\ record[n].standing = "in" => record[n].streak < FailureThreshold

RoundRobinInv == RouterInv /\ WindowShape /\ Turns /\ RecordMatches

\* Nobody has been chosen yet.
LEMMA NobodyAhead ==
    ASSUME NEW healthy \in Seq(Names), healthy # <<>>, NEW next \in 0..(Len(healthy) - 1)
    PROVE  Shared(healthy, EmptyWindow.count, next)
<1>1. \A i \in 0..(Len(healthy) - 1) : healthy[i + 1] \in Names /\ ~Ahead(next, next, i)
  BY DEF Ahead
<1>2. \A i \in 0..(Len(healthy) - 1) :
          EmptyWindow.count[healthy[i + 1]] = IF Ahead(next, next, i) THEN 0 + 1 ELSE 0
  BY <1>1 DEF EmptyWindow
<1> QED BY <1>2 DEF Shared

\* Choosing the next one and going one further leaves the shares equal up to one.
LEMMA TurnShared ==
    ASSUME NEW healthy \in Seq(Names), healthy # <<>>, IsInjective(healthy),
           NEW next \in 0..(Len(healthy) - 1), NEW count \in [Names -> Nat],
           Shared(healthy, count, next)
    PROVE  Shared(healthy, [count EXCEPT ![healthy[next + 1]] = @ + 1],
                  IF next = Len(healthy) - 1 THEN 0 ELSE next + 1)
<1> DEFINE last == Len(healthy) - 1
           after == IF next = last THEN 0 ELSE next + 1
           more == [count EXCEPT ![healthy[next + 1]] = @ + 1]
<1>1. PICK rounds \in Nat, first \in 0..last :
          \A i \in 0..last :
              count[healthy[i + 1]] = IF Ahead(first, next, i) THEN rounds + 1 ELSE rounds
  BY DEF Shared
<1>2. last \in Nat /\ next \in 0..last
  OBVIOUS
<1>3. \A i \in 0..last : more[healthy[i + 1]] = IF i = next THEN count[healthy[i + 1]] + 1
                                                 ELSE count[healthy[i + 1]]
  <2>1. \A i \in 0..last : /\ i + 1 \in DOMAIN healthy
                           /\ healthy[i + 1] \in Names
                           /\ i # next => healthy[i + 1] # healthy[next + 1]
    BY DEF IsInjective
  <2> QED BY <1>2, <2>1
<1> HIDE DEF last, more
<1>4. ~Ahead(first, next, next)
  BY <1>2 DEF Ahead
<1>5. CASE after = first
  \* The round is complete.
  <2>1. \A i \in 0..last : i = next \/ Ahead(first, next, i)
    BY <1>2, <1>5 DEF Ahead
  <2>2. \A i \in 0..last : ~Ahead(first, after, i)
    BY <1>2, <1>5 DEF Ahead
  <2>3. \A i \in 0..last : more[healthy[i + 1]] =
            IF Ahead(first, after, i) THEN (rounds + 1) + 1 ELSE rounds + 1
    BY <1>1, <1>3, <1>4, <2>1, <2>2
  <2>4. rounds + 1 \in Nat
    OBVIOUS
  <2> QED BY <2>3, <2>4 DEF Shared, last, more
<1>6. CASE after # first
  <2>1. \A i \in 0..last : Ahead(first, after, i) <=> (i = next \/ Ahead(first, next, i))
    BY <1>2, <1>6 DEF Ahead
  <2>2. \A i \in 0..last : more[healthy[i + 1]] =
            IF Ahead(first, after, i) THEN rounds + 1 ELSE rounds
    BY <1>1, <1>3, <1>4, <2>1
  <2> QED BY <2>2 DEF Shared, last, more
<1> QED BY <1>5, <1>6

-----------------------------------------------------------------------------

LEMMA JoinKeepsRecord ==
    ASSUME RouterInv, RecordMatches, Join
    PROVE  RecordMatches'
<1>1. PICK name \in Names, label \in Labels, ops \in (SUBSET Ops) \ {{}} :
          RegisterSource(name, label, ops) /\ record' = [record EXCEPT ![name] = Fresh]
  BY DEF Join
<1>2. /\ DOMAIN sources' = DOMAIN sources \union {name}
      /\ sources'[name].failures = 0
      /\ \A n \in DOMAIN sources : n # name => sources'[n] = sources[n]
  <2> DEFINE new == [label |-> label, operations |-> ops, healthy |-> TRUE, failures |-> 0]
  <2>1. sources' = Put(sources, name, new) /\ new.failures = 0
    BY <1>1 DEF RegisterSource
  <2> HIDE DEF new
  <2> QED BY <2>1 DEF Put
<1>3. DOMAIN sources \subseteq Names
  BY DEF RouterInv, RouterTypeOK
<1> QED BY <1>1, <1>2, <1>3 DEF RecordMatches, Fresh, Standings, FailureThreshold

LEMMA LeaveKeepsRecord ==
    ASSUME RouterInv, RecordMatches, Leave
    PROVE  RecordMatches'
<1>1. PICK name \in Names :
          UnregisterSource(name) /\ record' = [record EXCEPT ![name] = Fresh]
  BY DEF Leave
<1>2. /\ DOMAIN sources' = DOMAIN sources \ {name}
      /\ \A n \in DOMAIN sources' : sources'[n] = sources[n]
  <2>1. CASE Registered(name)
    <3>1. sources' = Delete(sources, name)
      BY <1>1, <2>1 DEF UnregisterSource, UnregisterPresent
    <3> QED BY <3>1 DEF Delete, Restrict
  <2>2. CASE ~Registered(name)
    <3>1. sources' = sources
      BY <1>1, <2>2 DEF UnregisterSource, UnregisterPresent, routerVars
    <3> QED BY <2>2, <3>1 DEF Registered
  <2> QED BY <2>1, <2>2
<1>3. DOMAIN sources \subseteq Names
  BY DEF RouterInv, RouterTypeOK
<1> QED BY <1>1, <1>2, <1>3 DEF RecordMatches, Fresh, Standings, FailureThreshold

LEMMA HealthKeepsRecord ==
    ASSUME RouterInv, RecordMatches, HealthChange
    PROVE  RecordMatches'
<1>1. PICK name \in Names :
          \/ MarkHealthy(name) /\ Report(name, AfterSuccess(record[name]))
          \/ MarkUnhealthy(name) /\ Report(name, AfterFailure(record[name]))
  BY DEF HealthChange
<1>2. /\ record \in [Names -> [streak: 0..3, standing: Standings]]
      /\ DOMAIN sources \subseteq Names
      /\ \A n \in DOMAIN sources :
            /\ sources[n] \in SourceConnection
            /\ sources[n].failures = record[n].streak
            /\ record[n].standing = "in" => record[n].streak < 3
  BY DEF RouterInv, RouterTypeOK, RecordMatches, FailureThreshold
<1>3. CASE ~Registered(name)
  BY <1>1, <1>2, <1>3 DEF MarkHealthy, MarkUnhealthy, Report, RecordMatches, FailureThreshold
<1>4. ASSUME Registered(name), MarkHealthy(name), Report(name, AfterSuccess(record[name]))
      PROVE  RecordMatches'
  <2>1. /\ DOMAIN sources' = DOMAIN sources
        /\ sources'[name].failures = 0
        /\ \A n \in DOMAIN sources : n # name => sources'[n] = sources[n]
    <3>1. sources' = [sources EXCEPT ![name].healthy = TRUE, ![name].failures = 0]
      BY <1>4 DEF MarkHealthy
    <3>2. \A c \in SourceConnection :
              [[c EXCEPT !.healthy = TRUE] EXCEPT !.failures = 0].failures = 0
      BY DEF SourceConnection
    <3>3. name \in DOMAIN sources
      BY <1>4 DEF Registered
    <3>4. sources[name] \in SourceConnection
      BY <1>2, <3>3
    <3>5. sources'[name] = [[sources[name] EXCEPT !.healthy = TRUE] EXCEPT !.failures = 0]
      BY <3>1, <3>3
    <3>6. DOMAIN sources' = DOMAIN sources
          /\ \A n \in DOMAIN sources : n # name => sources'[n] = sources[n]
      BY <3>1
    <3> QED BY <3>2, <3>4, <3>5, <3>6
  <2>2. /\ record' = [record EXCEPT ![name] = AfterSuccess(record[name])]
        /\ AfterSuccess(record[name]) \in [streak: 0..3, standing: Standings]
        /\ AfterSuccess(record[name]).streak = 0
    BY <1>4 DEF Report, AfterSuccess, Standings
  <2> QED BY <1>2, <2>1, <2>2 DEF RecordMatches, FailureThreshold
<1>5. ASSUME Registered(name), MarkUnhealthy(name), Report(name, AfterFailure(record[name]))
      PROVE  RecordMatches'
  <2>1. /\ DOMAIN sources' = DOMAIN sources
        /\ sources'[name].failures = LongerStreak(record[name])
        /\ \A n \in DOMAIN sources : n # name => sources'[n] = sources[n]
    <3>1. sources' = [sources EXCEPT
                        ![name].failures = Failures(name),
                        ![name].healthy =
                           IF Failures(name) >= FailureThreshold THEN FALSE ELSE @]
      BY <1>5 DEF MarkUnhealthy
    <3>2. /\ name \in DOMAIN sources
          /\ sources[name] \in SourceConnection
          /\ sources[name].failures = record[name].streak
      <4>1. name \in DOMAIN sources
        BY <1>5 DEF Registered
      <4> QED BY <1>2, <4>1
    <3>3. Failures(name) = LongerStreak(record[name])
      BY <3>2 DEF Failures, LongerStreak
    <3>4. sources'[name].failures = Failures(name)
      BY <3>1, <3>2 DEF SourceConnection
    <3>5. DOMAIN sources' = DOMAIN sources
          /\ \A n \in DOMAIN sources : n # name => sources'[n] = sources[n]
      BY <3>1
    <3> QED BY <3>3, <3>4, <3>5
  <2>2. LongerStreak(record[name]) \in 0..3
    BY <1>2, <1>5 DEF Registered, LongerStreak, FailureThreshold
  <2>3. /\ record' = [record EXCEPT ![name] = AfterFailure(record[name])]
        /\ AfterFailure(record[name]) \in [streak: 0..3, standing: Standings]
        /\ AfterFailure(record[name]).streak = LongerStreak(record[name])
        /\ AfterFailure(record[name]).standing = "in" => LongerStreak(record[name]) # 3
    BY <1>5, <2>2 DEF Report, AfterFailure, Standings, FailureThreshold
  <2> QED BY <1>2, <2>1, <2>2, <2>3 DEF RecordMatches, FailureThreshold
<1> QED BY <1>1, <1>3, <1>4, <1>5

LEMMA EmptyWindowInv ==
    ASSUME RouterInv, RecordMatches, window = EmptyWindow
    PROVE  RoundRobinInv
<1>1. WindowShape
  BY WindowAssumption DEF EmptyWindow, WindowShape
<1>2. Turns
  BY DEF EmptyWindow, Turns
<1> QED BY <1>1, <1>2 DEF RoundRobinInv

\* One selection, in a window that goes on or in a new one.
LEMMA SelectKeepsTurns ==
    ASSUME RoundRobinInv, NEW label \in Labels, NEW op \in Ops, Select(label, op)
    PROVE  RoundRobinInv'
<1> DEFINE healthy == HealthySources(label, op)
           next == robin[label] % Len(healthy)
           before == IF window.for = {<<label, op>>} THEN window ELSE EmptyWindow
<1>1. RouterInv /\ WindowShape /\ Turns /\ RecordMatches
  BY DEF RoundRobinInv
<1>2. SelectSource(label, op)
  BY DEF Select
<1>3. RouterInv'
  BY <1>1, <1>2, SelectInv
<1>4. /\ healthy \in Seq(Names)
      /\ IsInjective(healthy)
      /\ healthy # <<>>
      /\ label \in DOMAIN robin
      /\ RobinCycle % Len(healthy) = 0
  BY <1>1, <1>2, Candidates DEF SelectSource
<1>5. HealthySources(label, op)' = healthy
  BY <1>2 DEF SelectSource, HealthySources, Listed
<1> HIDE DEF healthy
<1>6. Len(healthy) \in Nat \ {0}
  BY <1>4
<1>7. robin[label] \in 0..(RobinCycle - 1)
  BY <1>1, <1>4 DEF RouterInv, RouterTypeOK
<1>8. next \in 0..(Len(healthy) - 1)
  BY <1>6, <1>7, RobinAssumption, Division
<1>9. robin'[label] % Len(healthy) = IF next = Len(healthy) - 1 THEN 0 ELSE next + 1
  <2>1. robin'[label] = (robin[label] + 1) % RobinCycle
    BY <1>2, <1>4 DEF SelectSource
  <2>2. ((robin[label] + 1) % RobinCycle) % Len(healthy) =
            IF robin[label] % Len(healthy) = Len(healthy) - 1 THEN 0
            ELSE (robin[label] % Len(healthy)) + 1
    BY <1>4, <1>6, <1>7, RobinAssumption, NextIndex
  <2> QED BY <2>1, <2>2
<1> HIDE DEF next
<1>10. /\ before.total \in 0..MaxWindow
       /\ before.count \in [Names -> Nat]
       /\ \A n \in Names : before.count[n] <= before.total
       /\ Shared(healthy, before.count, next)
  <2>1. CASE window.for = {<<label, op>>}
    <3>1. Shared(healthy, window.count, next)
      BY <1>1, <2>1 DEF Turns, healthy, next
    <3> QED BY <1>1, <2>1, <3>1 DEF WindowShape
  <2>2. CASE window.for # {<<label, op>>}
    <3>1. Shared(healthy, EmptyWindow.count, next)
      BY <1>4, <1>8, NobodyAhead
    <3> QED BY <2>2, <3>1, WindowAssumption DEF EmptyWindow
  <2> QED BY <2>1, <2>2
<1>11. /\ before.total < MaxWindow
       /\ window' = [for |-> {<<label, op>>},
                     count |-> [before.count EXCEPT ![healthy[next + 1]] = @ + 1],
                     total |-> before.total + 1]
  BY DEF Select, Selected, healthy, next
<1> HIDE DEF before
<1>12. WindowShape'
  <2>1. healthy[next + 1] \in Names
    BY <1>4, <1>8
  <2>2. /\ window'.for = {<<label, op>>}
        /\ window'.count = [before.count EXCEPT ![healthy[next + 1]] = @ + 1]
        /\ window'.total = before.total + 1
    BY <1>11
  <2>3. window'.total \in 0..MaxWindow
    BY <1>10, <1>11, <2>2, WindowAssumption
  <2>4. /\ window'.count \in [Names -> Nat]
        /\ \A n \in Names : window'.count[n] <= window'.total
    BY <1>10, <2>1, <2>2, WindowAssumption
  <2> QED BY <1>11, <2>2, <2>3, <2>4 DEF WindowShape
<1>13. Turns'
  <2>1. Shared(healthy, window'.count, robin'[label] % Len(healthy))
    BY <1>4, <1>8, <1>9, <1>10, <1>11, TurnShared
  <2>2. \A l \in Labels, o \in Ops : <<l, o>> \in window'.for => l = label /\ o = op
    BY <1>11
  <2> SUFFICES ASSUME NEW l \in Labels, NEW o \in Ops, <<l, o>> \in window'.for
               PROVE  /\ HealthySources(l, o)' # <<>>
                      /\ Shared(HealthySources(l, o)', window'.count,
                                robin'[l] % Len(HealthySources(l, o)'))
    BY DEF Turns, Shared
  <2> QED BY <1>4, <1>5, <2>1, <2>2
<1>14. RecordMatches'
  BY <1>1, <1>2 DEF Select, SelectSource, RecordMatches
<1> QED BY <1>3, <1>12, <1>13, <1>14 DEF RoundRobinInv

THEOREM RoundRobinInvariant == Spec => []RoundRobinInv
<1>1. Init => RoundRobinInv
  <2> SUFFICES ASSUME Init PROVE RoundRobinInv
    OBVIOUS
  <2>1. RouterInv /\ window = EmptyWindow
    BY RouterInitInv DEF Init
  <2>2. RecordMatches
    BY DEF Init, RouterInit, EmptyMap, RecordMatches, Fresh, Standings, FailureThreshold
  <2> QED BY <2>1, <2>2, EmptyWindowInv
<1>2. RoundRobinInv /\ [Next]_roundRobinVars => RoundRobinInv'
  <2> SUFFICES ASSUME RoundRobinInv, [Next]_roundRobinVars PROVE RoundRobinInv'
    OBVIOUS
  <2>1. RouterInv /\ RecordMatches
    BY DEF RoundRobinInv
  <2>2. ASSUME RouterInv', RecordMatches', window' = EmptyWindow PROVE RoundRobinInv'
    BY <2>2, WindowAssumption DEF EmptyWindow, WindowShape, Turns, RoundRobinInv
  <2>3. CASE Join
    <3>1. RouterInv' /\ window' = EmptyWindow
      BY <2>1, <2>3, RegisterInv DEF Join
    <3> QED BY <2>1, <2>2, <2>3, <3>1, JoinKeepsRecord
  <2>4. CASE Leave
    <3>1. RouterInv' /\ window' = EmptyWindow
      BY <2>1, <2>4, UnregisterInv DEF Leave
    <3> QED BY <2>1, <2>2, <2>4, <3>1, LeaveKeepsRecord
  <2>5. CASE HealthChange
    <3>1. RouterInv' /\ window' = EmptyWindow
      BY <2>1, <2>5, MarkInv DEF HealthChange
    <3> QED BY <2>1, <2>2, <2>5, <3>1, HealthKeepsRecord
  <2>6. ASSUME NEW label \in Labels, NEW op \in Ops, Select(label, op)
        PROVE  RoundRobinInv'
    BY <2>6, SelectKeepsTurns
  <2>7. CASE UNCHANGED roundRobinVars
    <3>1. /\ RouterInv' = RouterInv
          /\ WindowShape' = WindowShape
          /\ Turns' = Turns
          /\ RecordMatches' = RecordMatches
      BY <2>7
         DEF roundRobinVars, RouterInv, RouterTypeOK, LabelIndex, HealthMatchesFailures,
             WindowShape, Turns, HealthySources, Listed, RecordMatches
    <3> QED BY <3>1 DEF RoundRobinInv
  <2> QED BY <2>3, <2>4, <2>5, <2>6, <2>7 DEF Next
<1> QED BY <1>1, <1>2, PTL DEF Spec

\* The router's maps and the history of a window are well formed.
THEOREM RoundRobinType == Spec => []TypeOK
<1>1. RoundRobinInv => TypeOK
  <2> SUFFICES ASSUME RoundRobinInv PROVE TypeOK
    OBVIOUS
  <2>1. WindowShape /\ RouterTypeOK /\ RecordMatches
    BY DEF RoundRobinInv, RouterInv
  <2>2. window.count \in [Names -> 0..MaxWindow]
    BY <2>1, WindowAssumption DEF WindowShape
  <2>3. window \in [for: SUBSET (Labels \X Ops), count: [Names -> 0..MaxWindow],
                    total: 0..MaxWindow]
    BY <2>1, <2>2 DEF WindowShape
  <2> QED BY <2>1, <2>3 DEF TypeOK, RecordMatches
<1> QED BY <1>1, RoundRobinInvariant, PTL

\* router.go, SelectSource: while membership, health, label and operation stay the
\* same, the numbers of times two candidates have been chosen differ by one at most.
THEOREM RoundRobinFair == Spec => []FairShare
<1>1. RoundRobinInv => FairShare
  <2> SUFFICES ASSUME RoundRobinInv, NEW label \in Labels, NEW op \in Ops,
                      <<label, op>> \in window.for,
                      NEW m \in ToSet(HealthySources(label, op)),
                      NEW n \in ToSet(HealthySources(label, op))
               PROVE  window.count[m] <= window.count[n] + 1
    BY DEF FairShare
  <2> DEFINE healthy == HealthySources(label, op)
  <2>1. healthy \in Seq(Names)
    BY Candidates DEF RoundRobinInv
  <2>2. Shared(healthy, window.count, robin[label] % Len(healthy))
    BY DEF RoundRobinInv, Turns
  <2>3. PICK i, j \in 1..Len(healthy) : m = healthy[i] /\ n = healthy[j]
    BY <2>1 DEF ToSet
  <2> HIDE DEF healthy
  <2>4. PICK rounds \in Nat : \A k \in 0..(Len(healthy) - 1) :
            window.count[healthy[k + 1]] \in {rounds, rounds + 1}
    BY <2>2 DEF Shared
  <2>5. \A k \in 1..Len(healthy) : window.count[healthy[k]] \in {rounds, rounds + 1}
    <3>1. ASSUME NEW k \in 1..Len(healthy)
          PROVE  window.count[healthy[k]] \in {rounds, rounds + 1}
      <4>1. Len(healthy) \in Nat
        BY <2>1
      <4>2. k - 1 \in 0..(Len(healthy) - 1) /\ (k - 1) + 1 = k
        BY <4>1
      <4> QED BY <2>4, <4>2
    <3> QED BY <3>1
  <2> QED BY <2>3, <2>5
<1> QED BY <1>1, RoundRobinInvariant, PTL

\* Whom HealthySources lists: the registered sources of the label that support the
\* operation and are marked healthy, each once.
LEMMA CandidatesAre ==
    ASSUME RouterInv, NEW label \in Labels, NEW op \in Ops
    PROVE  /\ IsInjective(HealthySources(label, op))
           /\ ToSet(HealthySources(label, op)) =
                 {n \in DOMAIN sources : /\ sources[n].label = label
                                         /\ op \in sources[n].operations
                                         /\ sources[n].healthy}
<1> DEFINE list == Listed(label)
           fit == {n \in ToSet(list) : sources[n].healthy /\ op \in sources[n].operations}
           candidates == HealthySources(label, op)
<1>1. list \in Seq(Names) /\ IsInjective(list)
  BY DEF RouterInv, RouterTypeOK, LabelIndex, Listed, IsInjective
<1>2. \A n : n \in ToSet(list) <=> n \in DOMAIN sources /\ sources[n].label = label
  <2>1. ASSUME NEW n \in ToSet(list) PROVE n \in DOMAIN sources /\ sources[n].label = label
    <3>1. CASE label \in DOMAIN labels
      BY <2>1, <3>1 DEF RouterInv, LabelIndex, Listed, ToSet
    <3>2. CASE label \notin DOMAIN labels
      <4>1. list = <<>>
        BY <3>2 DEF Listed
      <4> HIDE DEF list
      <4> QED BY <2>1, <4>1 DEF ToSet
    <3> QED BY <3>1, <3>2
  <2>2. ASSUME NEW n \in DOMAIN sources, sources[n].label = label PROVE n \in ToSet(list)
    BY <2>2 DEF RouterInv, LabelIndex, Listed, ToSet
  <2> QED BY <2>1, <2>2
<1>3. Sifts(Names, list, fit, candidates)
  <2> HIDE DEF list, fit
  <2>1. Sifts(Names, list, fit, Among(list, fit))
    BY <1>1, AmongProperties
  <2> QED BY <2>1 DEF HealthySources, list, fit
<1> HIDE DEF candidates, list
<1>4. \A n : n \in ToSet(candidates) <=> n \in fit
  BY <1>3 DEF Sifts, ToSet
<1>5. IsInjective(candidates)
  BY <1>3 DEF Sifts
<1> QED BY <1>2, <1>4, <1>5 DEF candidates

\* router.go, SelectSource, MarkHealthy and MarkUnhealthy: a source with three
\* failures in a row is no candidate, one in good standing always is, and nobody is
\* a candidate twice, whatever the order of registrations, departures and reports.
THEOREM RoundRobinSelectable == Spec => []SelectableSources
<1>1. RoundRobinInv => SelectableSources
  <2> SUFFICES ASSUME RoundRobinInv, NEW label \in Labels, NEW op \in Ops
               PROVE  LET able == {n \in DOMAIN sources : sources[n].label = label
                                             /\ op \in sources[n].operations}
                          candidates == ToSet(HealthySources(label, op))
                      IN  /\ IsInjective(HealthySources(label, op))
                          /\ candidates \subseteq
                                {n \in able : record[n].streak < FailureThreshold}
                          /\ {n \in able : record[n].standing = "in"} \subseteq candidates
    BY DEF SelectableSources
  <2>1. \A n \in DOMAIN sources :
            /\ sources[n].healthy <=> record[n].streak < FailureThreshold
            /\ record[n].standing = "in" => sources[n].healthy
    BY DEF RoundRobinInv, RouterInv, HealthMatchesFailures, RecordMatches
  <2> QED BY <2>1, CandidatesAre DEF RoundRobinInv
<1> QED BY <1>1, RoundRobinInvariant, PTL

=============================================================================
