---------------------------- MODULE QueryService ----------------------------
(***************************************************************************)
(* What the hub promises an exposer about a query, whatever happens to the *)
(* sources meanwhile.  A query is refused, answered or failed, once.  Its  *)
(* operation runs at a source at most once; it has run when the query is   *)
(* answered and never runs when the query is refused.  Of a failed query   *)
(* the caller knows nothing: it may have run, or still run later.          *)
(***************************************************************************)
EXTENDS Integers

CONSTANT Queries

VARIABLES
    status,   \* what the caller knows of each query
    runs      \* how often a source has run it

serviceVars == <<status, runs>>

ServiceInit ==
    /\ status = [q \in Queries |-> "new"]
    /\ runs = [q \in Queries |-> 0]

Conclude(q, from, to) ==
    /\ status[q] = from
    /\ status' = [status EXCEPT ![q] = to]
    /\ UNCHANGED runs

Accept(q) == Conclude(q, "new", "open")

Refuse(q) == (runs[q] = 0) /\ \E from \in {"new", "open"} : Conclude(q, from, "refused")

Answer(q) == runs[q] = 1 /\ Conclude(q, "open", "answered")

Fail(q) == Conclude(q, "open", "failed")

Run(q) ==
    /\ status[q] \in {"open", "failed"}
    /\ runs[q] = 0
    /\ runs' = [runs EXCEPT ![q] = 1]
    /\ UNCHANGED status

ServiceNext ==
    \E q \in Queries : Accept(q) \/ Refuse(q) \/ Answer(q) \/ Fail(q) \/ Run(q)

ServiceSpec == ServiceInit /\ [][ServiceNext]_serviceVars

=============================================================================
