------------------------------ MODULE Listing ------------------------------
(***************************************************************************)
(* A caller of the source's operation getUsersByFilter that lists users    *)
(* page by page, while others write to the table.                          *)
(*                                                                         *)
(* Each page is a call of its own, and GetUsersByFilter reads the page and *)
(* the total in two statements without a transaction.  The statements sort *)
(* by one column, which need not be unique, and by nothing else: users     *)
(* with the same key may come in any order, in another one each time.  The *)
(* caller is external: it goes on at offset plus the number of users       *)
(* received, as long as hasMore says so, and calls again when a call       *)
(* fails.  What becomes of an answer on its way to a client is in          *)
(* ExposerServer.                                                          *)
(*                                                                         *)
(* table gives each user that matches the filter its key, the value of the *)
(* sort column in the order asked for.  A write adds a user to the table,  *)
(* takes one away (a change of status may do either) or changes its key.   *)
(***************************************************************************)
EXTENDS Integers, Sequences, FiniteSets, Functions

CONSTANTS
    Users,          \* users that may match the filter
    Keys,           \* values of the sort column
    DefaultLimit,   \* 100 in the code
    MaxLimit,       \* maxLimit, 1000 in the code
    Limits,         \* the limits the caller may ask for
    MaxWrites,      \* bound: writes to the table during a listing
    MaxFailures     \* bound: calls that fail during a listing

ASSUME ListingAssumption ==
    /\ IsFiniteSet(Users)
    /\ Keys \subseteq Int
    /\ DefaultLimit \in Nat \ {0} /\ MaxLimit \in Nat \ {0}
    /\ DefaultLimit <= MaxLimit
    /\ Limits \subseteq Int
    /\ MaxWrites \in Nat /\ MaxFailures \in Nat

VARIABLES
    table,       \* the key of each user that matches the filter
    stage,       \* how far the call for a page has come
    limit,       \* of that call
    users,       \* the page it has read
    totalCount,  \* the count it has read
    list,        \* the users the caller has received, in their order
    present,     \* history: the users in the table when the listing began
    unsteady,    \* history: users that left, moved, or shared their key
    pushed,      \* history: a user came to stand among those already read
    pulled,      \* history: a user ceased to stand among those already read
    writes,
    failures

requestVars == <<stage, limit, users, totalCount>>
historyVars == <<present, unsteady, pushed, pulled>>
vars == <<table, requestVars, list, historyVars, writes, failures>>

Stages == {"idle", "sent", "selected", "counted", "over"}

Tables == UNION {[U -> Keys] : U \in SUBSET Users}

\* The number of users of T whose key is smaller than k.
Rank(T, k) == Cardinality({u \in DOMAIN T : T[u] < k})

\* The users of T that share their key with another.
Tied(T) == {u \in DOMAIN T : \E v \in DOMAIN T \ {u} : T[v] = T[u]}

\* Where the caller reads on.
offset == Len(list)

\* A slip: the cap is missing.
LimitUncapped(requested) == IF requested <= 0 THEN DefaultLimit ELSE requested

\* A slip: a limit of zero is taken as it is.
LimitZeroKept(requested) ==
    IF requested < 0 THEN DefaultLimit ELSE IF requested > MaxLimit THEN MaxLimit ELSE requested

\* A missing limit reads as zero.
Limit(requested) ==
    IF requested <= 0 THEN DefaultLimit ELSE IF requested > MaxLimit THEN MaxLimit ELSE requested

\* A slip: the users are not sorted.
AnyOrder(T) == Bijection(1..Cardinality(DOMAIN T), DOMAIN T)

\* ORDER BY key: the orders the users of T may come in.
Sorted(T) ==
    {s \in Bijection(1..Cardinality(DOMAIN T), DOMAIN T) :
        \A i, j \in DOMAIN s : i < j => T[s[i]] <= T[s[j]]}

Smaller(m, n) == IF m <= n THEN m ELSE n

\* A slip: the first user has offset one.
PageFromOne(s, from, size) ==
    IF from = 0 THEN SubSeq(s, 1, Smaller(size - 1, Len(s)))
                ELSE SubSeq(s, from, Smaller(from + size - 1, Len(s)))

\* LIMIT size OFFSET from
Page(s, from, size) == SubSeq(s, from + 1, Smaller(from + size, Len(s)))

\* A slip: the last user of the table counts as read.
HasMoreButOne == offset + Len(users) + 1 < totalCount

hasMore == offset + Len(users) < totalCount

Init ==
    /\ table \in Tables
    /\ stage = "idle"
    /\ limit = 0
    /\ users = <<>>
    /\ totalCount = 0
    /\ list = <<>>
    /\ present = DOMAIN table
    /\ unsteady = Tied(table)
    /\ pushed = FALSE
    /\ pulled = FALSE
    /\ writes = 0
    /\ failures = 0

Request ==
    /\ stage = "idle"
    /\ stage' = "sent"
    /\ \E l \in Limits : limit' = l
    /\ UNCHANGED <<table, users, totalCount, list, historyVars, writes, failures>>

SelectPage ==
    /\ stage = "sent"
    /\ stage' = "selected"
    /\ \E s \in Sorted(table) : users' = Page(s, offset, Limit(limit))
    /\ UNCHANGED <<table, limit, totalCount, list, historyVars, writes, failures>>

CountUsers ==
    /\ stage = "selected"
    /\ stage' = "counted"
    /\ totalCount' = Cardinality(DOMAIN table)
    /\ UNCHANGED <<table, limit, users, list, historyVars, writes, failures>>

\* The caller takes the answer and goes on, or is done.
Respond ==
    /\ stage = "counted"
    /\ stage' = IF hasMore THEN "idle" ELSE "over"
    /\ list' = list \o users
    /\ users' = <<>>
    /\ UNCHANGED <<table, limit, totalCount, historyVars, writes, failures>>

\* Each of the two statements, and the reading of the rows, may fail.
Fail ==
    /\ stage \in {"sent", "selected"}
    /\ failures < MaxFailures
    /\ failures' = failures + 1
    /\ stage' = "idle"
    /\ users' = <<>>
    /\ UNCHANGED <<table, limit, totalCount, list, historyVars, writes>>

\* What the caller has read, or is about to receive, ends here.
ReadUpTo == offset + Len(users)

Write ==
    /\ writes < MaxWrites
    /\ writes' = writes + 1
    /\ UNCHANGED <<requestVars, list, present, failures>>

AddUser(u, k) ==
    /\ Write
    /\ u \notin DOMAIN table
    /\ table' = [v \in DOMAIN table \union {u} |-> IF v = u THEN k ELSE table[v]]
    /\ unsteady' = unsteady \union Tied(table')
    /\ pushed' = (pushed \/ Rank(table, k) < ReadUpTo)
    /\ UNCHANGED pulled

RemoveUser(u) ==
    /\ Write
    /\ u \in DOMAIN table
    /\ table' = [v \in DOMAIN table \ {u} |-> table[v]]
    /\ unsteady' = unsteady \union {u}
    /\ pulled' = (pulled \/ Rank(table, table[u]) < ReadUpTo)
    /\ UNCHANGED pushed

\* A user that moves comes to stand where fewer than k are left.
MoveUser(u, k) ==
    /\ Write
    /\ u \in DOMAIN table /\ table[u] # k
    /\ table' = [table EXCEPT ![u] = k]
    /\ unsteady' = unsteady \union {u} \union Tied(table')
    /\ pushed' = (pushed \/ Rank(table', k) < ReadUpTo)
    /\ pulled' = (pulled \/ Rank(table, table[u]) < ReadUpTo)

Next ==
    \/ Request \/ SelectPage \/ CountUsers \/ Respond \/ Fail
    \/ \E u \in Users, k \in Keys : AddUser(u, k) \/ MoveUser(u, k)
    \/ \E u \in Users : RemoveUser(u)

Spec == Init /\ [][Next]_vars

\* The call goes on, the caller goes on; nobody has to write or to fail.
Fairness == WF_vars(Request \/ SelectPage \/ CountUsers \/ Respond)

FairSpec == Spec /\ Fairness

-----------------------------------------------------------------------------

Received == {list[i] : i \in DOMAIN list}
ReceivedTwice == {u \in Received : \E i, j \in DOMAIN list : i # j /\ list[i] = u /\ list[j] = u}

\* The shape of the state; no page is longer than MaxLimit, whatever is asked for.
ListingTypeOK ==
    /\ table \in Tables
    /\ stage \in Stages
    /\ limit \in Limits \union {0}
    /\ users \in Seq(Users)
    /\ Len(users) <= MaxLimit
    /\ totalCount \in Nat
    /\ list \in Seq(Users)
    /\ present \in SUBSET Users
    /\ unsteady \in SUBSET Users
    /\ pushed \in BOOLEAN
    /\ pulled \in BOOLEAN
    /\ writes \in 0..MaxWrites
    /\ failures \in 0..MaxFailures

\* A user that is in the table all along, stays in its place and has a sort key of
\* its own is missed only if a user at or before the end of what was read leaves
\* its place: new users anywhere, writes further on, calls that fail and a total
\* read later than the page do not make hasMore (postgres.go:245) end the listing
\* too early.
NothingMissed == stage = "over" /\ ~pulled => present \ unsteady \subseteq Received

\* A user that neither leaves nor moves nor shares its sort key is received twice
\* only if another comes to stand among those already read.  Users with equal keys
\* are not promised that much: the pages are cut from an order without a
\* tie-breaker (postgres.go:181).
NothingRepeated == ~pushed => ReceivedTwice \subseteq unsteady

\* What the missing tie-breaker costs in a table nobody writes to: whoever is
\* missed had its place taken by one with the same key that is received twice.
TiesTradePlaces ==
    stage = "over" /\ writes = 0 =>
        \A u \in DOMAIN table \ Received : \E v \in ReceivedTwice : table[v] = table[u]

\* The listing ends once the writes and the failures do, whatever limits the
\* caller asks for.
ListingEnds == <>(stage = "over")

=============================================================================
