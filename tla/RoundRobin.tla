----------------------------- MODULE RoundRobin -----------------------------
(***************************************************************************)
(* The router with a history of what SelectSource chose, to say what its   *)
(* round robin promises: window counts how often each source was chosen    *)
(* since membership or health last changed, or the label or operation      *)
(* asked for last changed.  And with a record of what was reported of each *)
(* source since it registered, judged by the thresholds the configuration  *)
(* documents rather than by the fields of the code.                        *)
(***************************************************************************)
EXTENDS Router

CONSTANT MaxWindow   \* bound: selections recorded in one window

ASSUME WindowAssumption == MaxWindow \in Nat

VARIABLES
    window,   \* what was chosen since anything changed
    record    \* source name -> what was reported of it since it registered

roundRobinVars == <<sources, labels, robin, window, record>>

EmptyWindow == [for |-> {}, count |-> [n \in Names |-> 0], total |-> 0]

-----------------------------------------------------------------------------
(* unhealthy_threshold: 3 and recovery_threshold: 2 (spec.md,              *)
(* config/hub-config.yaml): out after three failures in a row, back in     *)
(* after two successes in a row.                                           *)

Standings == {"in", "out", "returning"}   \* returning: one success since it was out

Fresh == [streak |-> 0, standing |-> "in"]

\* A success ends the failures in a row and is one of the two that bring a source back.
AfterSuccess(r) ==
    [streak |-> 0, standing |-> IF r.standing = "out" THEN "returning" ELSE "in"]

\* The failures in a row are told apart up to the threshold.
LongerStreak(r) ==
    IF r.streak = FailureThreshold THEN FailureThreshold ELSE r.streak + 1

AfterFailure(r) ==
    [streak |-> LongerStreak(r),
     standing |-> IF LongerStreak(r) = FailureThreshold \/ r.standing # "in"
                  THEN "out" ELSE "in"]

Report(name, after) ==
    record' = IF Registered(name) THEN [record EXCEPT ![name] = after] ELSE record

-----------------------------------------------------------------------------

Init ==
    /\ RouterInit
    /\ window = EmptyWindow
    /\ record = [n \in Names |-> Fresh]

\* A change of membership or of health starts a new window.
Join ==
    /\ \E name \in Names, label \in Labels, ops \in (SUBSET Ops) \ {{}} :
          /\ RegisterSource(name, label, ops)
          /\ record' = [record EXCEPT ![name] = Fresh]
    /\ window' = EmptyWindow

Leave ==
    /\ \E name \in Names :
          /\ UnregisterSource(name)
          /\ record' = [record EXCEPT ![name] = Fresh]
    /\ window' = EmptyWindow

HealthChange ==
    /\ \E name \in Names :
          \/ MarkHealthy(name) /\ Report(name, AfterSuccess(record[name]))
          \/ MarkUnhealthy(name) /\ Report(name, AfterFailure(record[name]))
    /\ window' = EmptyWindow

Select(label, op) ==
    LET same == window.for = {<<label, op>>}
        before == IF same THEN window ELSE EmptyWindow
    IN  /\ before.total < MaxWindow
        /\ SelectSource(label, op)
        /\ window' = [for |-> {<<label, op>>},
                      count |-> [before.count EXCEPT ![Selected(label, op)] = @ + 1],
                      total |-> before.total + 1]
        /\ UNCHANGED record

Next ==
    \/ Join \/ Leave \/ HealthChange
    \/ \E label \in Labels, op \in Ops : Select(label, op)

Spec == Init /\ [][Next]_roundRobinVars

-----------------------------------------------------------------------------

\* The shape of the maps and of the history.
TypeOK ==
    /\ RouterTypeOK
    /\ window \in [for: SUBSET (Labels \X Ops), count: [Names -> 0..MaxWindow],
                  total: 0..MaxWindow]
    /\ record \in [Names -> [streak: 0..FailureThreshold, standing: Standings]]

\* Who can be selected, by what was reported of them: among the registered
\* sources of the label that support the operation, nobody whose last three
\* reports or more were failures is a candidate, everybody in good standing is,
\* and nobody twice; this over every order of registrations, departures, checks
\* and sends.  A source with its first success after an outage is in neither
\* class: recovery_threshold promises that it stays out until the second one,
\* but HealthMonitor keeps that value without reading it and MarkHealthy takes
\* the source back at once.
SelectableSources ==
    \A label \in Labels, op \in Ops :
        LET able == {n \in DOMAIN sources : sources[n].label = label
                                             /\ op \in sources[n].operations}
            candidates == ToSet(HealthySources(label, op))
        IN  /\ IsInjective(HealthySources(label, op))
            /\ candidates \subseteq {n \in able : record[n].streak < FailureThreshold}
            /\ {n \in able : record[n].standing = "in"} \subseteq candidates

\* Round robin is fair while nothing changes: as long as membership, health,
\* label and operation stay the same, two candidates have been chosen equally
\* often up to one, wherever the shared index of the label stood when the
\* window opened.
FairShare ==
    \A label \in Labels, op \in Ops :
        <<label, op>> \in window.for =>
            \A m, n \in ToSet(HealthySources(label, op)) :
                window.count[m] <= window.count[n] + 1

=============================================================================
