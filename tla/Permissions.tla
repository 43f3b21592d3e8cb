---------------------------- MODULE Permissions ----------------------------
(***************************************************************************)
(* The rules by which the hub lets an exposer run an operation             *)
(* (hub/internal/auth/auth.go).  They are read from the configuration at   *)
(* start and do not change.                                                *)
(***************************************************************************)
EXTENDS Sequences, Integers

CONSTANTS
    Labels,
    Ops,
    permissions   \* exposer -> its rules, in the order of the configuration

ASSUME PermissionsAssumption ==
    /\ "*" \notin Labels \union Ops
    /\ \A e \in DOMAIN permissions : \A k \in DOMAIN permissions[e] :
          /\ permissions[e][k].label \in Labels \union {"*"}
          /\ permissions[e][k].operations \subseteq Ops \union {"*"}

containsOrWildcard(operations, op) == operations \intersect {op, "*"} # {}

\* A slip: the label and the operation may match in different rules.
AuthorizeAcrossRules(exposer, label, op) ==
    /\ exposer \in DOMAIN permissions
    /\ LET rules == permissions[exposer] IN
       /\ \E k \in DOMAIN rules : rules[k].label \in {label, "*"}
       /\ \E k \in DOMAIN rules : containsOrWildcard(rules[k].operations, op)

\* The first rule that matches both the label and the operation decides.
AuthorizeOperation(exposer, label, op) ==
    /\ exposer \in DOMAIN permissions
    /\ \E k \in DOMAIN permissions[exposer] :
          LET rule == permissions[exposer][k] IN
          /\ rule.label \in {label, "*"}
          /\ containsOrWildcard(rule.operations, op)

\* What a rule stands for: every pair of a label and an operation it names, with
\* "*" for all of them.
All(named, universe) == IF "*" \in named THEN universe ELSE named
RuleGrants(rule) == All({rule.label}, Labels) \X All(rule.operations, Ops)

\* What an exposer may do is what its rules stand for together, and nothing when
\* it has no entry.
Granted(exposer) ==
    IF exposer \in DOMAIN permissions
    THEN UNION {RuleGrants(permissions[exposer][k]) : k \in DOMAIN permissions[exposer]}
    ELSE {}

=============================================================================
