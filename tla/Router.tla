------------------------------- MODULE Router -------------------------------
(***************************************************************************)
(* The hub's registry of source connections and its round-robin choice     *)
(* among them (hub/internal/router/router.go).  Every exported method of   *)
(* the Go type runs under the router's mutex, so each is one action.       *)
(*                                                                         *)
(* Two counters of the code are unbounded there and exact here:            *)
(*  - FailureCount is only ever compared with the threshold and reset to   *)
(*    zero, so it saturates at the threshold;                              *)
(*  - the round-robin index is only ever used modulo the number of healthy *)
(*    sources, so it is kept modulo RobinCycle, a common multiple of every *)
(*    such number.                                                         *)
(* The timestamps, SuccessCount and QueryCount are read by nothing but the *)
(* statistics pages and are left out.                                      *)
(***************************************************************************)
EXTENDS Integers, SequencesExt, GoMaps

CONSTANTS
    Names,       \* source names
    Labels,      \* labels sources register under
    Ops,         \* operation names
    RobinCycle   \* modulus that keeps the round-robin index finite

ASSUME NamesAssumption == IsFiniteSet(Names)

ASSUME RobinAssumption ==
    /\ RobinCycle \in Nat \ {0}
    /\ \A k \in 1..Cardinality(Names) : RobinCycle % k = 0

VARIABLES
    sources,   \* source name -> connection
    labels,    \* label -> source names, in registration order
    robin      \* label -> round-robin index

routerVars == <<sources, labels, robin>>

\* The hard-coded number of consecutive failures that takes a source out.
FailureThreshold == 3

SourceConnection ==
    [label: Labels, operations: SUBSET Ops, healthy: BOOLEAN,
     failures: 0..FailureThreshold]

RouterInit ==
    /\ sources = EmptyMap
    /\ labels = EmptyMap
    /\ robin = EmptyMap

-----------------------------------------------------------------------------

Registered(name) == name \in DOMAIN sources

Healthy(name) == Registered(name) /\ sources[name].healthy

\* The names listed under a label; a missing key reads as the nil slice.
Listed(label) == IF label \in DOMAIN labels THEN labels[label] ELSE <<>>

\* RegisterSource, when the name is free; otherwise it only returns an error.
RegisterSource(name, label, ops) ==
    /\ ~Registered(name)
    /\ sources' = Put(sources, name,
                      [label |-> label, operations |-> ops,
                       healthy |-> TRUE, failures |-> 0])
    /\ labels' = Put(labels, label, Append(Listed(label), name))
    /\ robin' = IF label \in DOMAIN labels THEN robin ELSE Put(robin, label, 0)

\* The list of name's label once the first occurrence of name is cut out.
Remaining(name) == RemoveFirst(Listed(sources[name].label), name)

\* A slip: the source goes, its place in the label's list stays.
UnregisterLeavesLabel(name) ==
    /\ Registered(name)
    /\ sources' = Delete(sources, name)
    /\ UNCHANGED <<labels, robin>>

UnregisterPresent(name) ==
    LET label == sources[name].label IN
    /\ Registered(name)
    /\ sources' = Delete(sources, name)
    /\ IF Remaining(name) = <<>>
       THEN /\ labels' = Delete(labels, label)
            /\ robin' = Delete(robin, label)
       ELSE /\ labels' = Put(labels, label, Remaining(name))
            /\ UNCHANGED robin

UnregisterSource(name) ==
    \/ UnregisterPresent(name)
    \/ ~Registered(name) /\ UNCHANGED routerVars

\* The elements of a list that are in a set, in list order.
Among(list, set) ==
    LET upTo[i \in 0..Len(list)] ==
            IF i = 0 THEN <<>>
            ELSE IF list[i] \in set THEN Append(upTo[i - 1], list[i]) ELSE upTo[i - 1]
    IN  upTo[Len(list)]

\* The healthy sources of a label that support an operation, in list order.
HealthySources(label, op) ==
    Among(Listed(label),
          {n \in ToSet(Listed(label)) : sources[n].healthy /\ op \in sources[n].operations})

\* The source SelectSource returns when there is one.
Selected(label, op) ==
    LET healthy == HealthySources(label, op)
    IN  healthy[(robin[label] % Len(healthy)) + 1]

\* A slip: the index is not advanced.
SelectWithoutAdvance(label, op) ==
    HealthySources(label, op) # <<>> /\ UNCHANGED routerVars

\* SelectSource, when it finds a source; otherwise it only returns an error.
SelectSource(label, op) ==
    /\ HealthySources(label, op) # <<>>
    /\ robin' = [robin EXCEPT ![label] = (@ + 1) % RobinCycle]
    /\ UNCHANGED <<sources, labels>>

\* A slip: the failures counted so far are kept.
MarkHealthyKeepsFailures(name) ==
    /\ sources' = IF Registered(name)
                  THEN [sources EXCEPT ![name].healthy = TRUE] ELSE sources
    /\ UNCHANGED <<labels, robin>>

MarkHealthy(name) ==
    /\ sources' = IF Registered(name)
                  THEN [sources EXCEPT ![name].healthy = TRUE,
                                       ![name].failures = 0]
                  ELSE sources
    /\ UNCHANGED <<labels, robin>>

\* A slip: one failure more than the threshold is counted.
FailuresPastThreshold(name) == sources[name].failures + 1

Failures(name) == IF sources[name].failures = FailureThreshold
                  THEN FailureThreshold ELSE sources[name].failures + 1

MarkUnhealthy(name) ==
    /\ sources' = IF Registered(name)
                  THEN [sources EXCEPT
                          ![name].failures = Failures(name),
                          ![name].healthy =
                             IF Failures(name) >= FailureThreshold THEN FALSE ELSE @]
                  ELSE sources
    /\ UNCHANGED <<labels, robin>>

RouterNext ==
    \/ \E name \in Names, label \in Labels, ops \in SUBSET Ops :
          RegisterSource(name, label, ops)
    \/ \E name \in Names :
          UnregisterSource(name) \/ MarkHealthy(name) \/ MarkUnhealthy(name)
    \/ \E label \in Labels, op \in Ops : SelectSource(label, op)

RouterSpec == RouterInit /\ [][RouterNext]_routerVars

-----------------------------------------------------------------------------

\* The shape of the three maps.
RouterTypeOK ==
    /\ DOMAIN sources \subseteq Names
    /\ \A n \in DOMAIN sources : sources[n] \in SourceConnection
    /\ DOMAIN labels \subseteq Labels
    /\ \A l \in DOMAIN labels : labels[l] \in Seq(Names)
    /\ DOMAIN robin \subseteq Labels
    /\ \A l \in DOMAIN robin : robin[l] \in 0..(RobinCycle - 1)

\* The label index and the table of sources agree: a name is listed under a
\* label exactly when the source is registered with it, once, and a label has
\* a list and an index exactly while somebody is listed.  SelectSource
\* dereferences r.sources[name] for each listed name without looking whether
\* it is there, so a stale entry would bring the hub down.
LabelIndex ==
    /\ DOMAIN labels = DOMAIN robin
    /\ \A l \in DOMAIN labels : labels[l] # <<>> /\ IsInjective(labels[l])
    /\ \A l \in DOMAIN labels : \A i \in DOMAIN labels[l] :
          labels[l][i] \in DOMAIN sources /\ sources[labels[l][i]].label = l
    /\ \A n \in DOMAIN sources :
          sources[n].label \in DOMAIN labels
            /\ \E i \in DOMAIN labels[sources[n].label] :
                  labels[sources[n].label][i] = n

\* Healthy, which SelectSource reads, and FailureCount, which MarkHealthy and
\* MarkUnhealthy write with it, never disagree.  Part of the router's invariant:
\* it ties who can be selected to the failures counted.
HealthMatchesFailures ==
    \A n \in DOMAIN sources :
        sources[n].healthy <=> sources[n].failures < FailureThreshold

=============================================================================
