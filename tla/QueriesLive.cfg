\* One query and the health checks of one source share a stream, and the hub may
\* be stopped at any point.
CONSTANTS
    n1 = n1
    s1 = s1
    q1 = q1
    i1 = i1
    Names = {n1}
    Labels = {"users"}
    Ops = {"get"}
    RobinCycle = 1
    Streams = {s1}
    Slots = {1}
    MaxInFlight = 1
    Exclusive = TRUE
    QueryIds = {i1}
    Queries = {q1}
SPECIFICATION FairSpec
INVARIANTS
    ExitDrained
PROPERTIES
    QueryEnds
    NameFreed
    StopReturns
CHECK_DEADLOCK FALSE
