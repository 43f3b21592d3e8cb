\* Two queries for one source that reconnects, on up to two streams at a time.
CONSTANTS
    n1 = n1
    s1 = s1
    s2 = s2
    q1 = q1
    q2 = q2
    i1 = i1
    i2 = i2
    Names = {n1}
    Labels = {"users"}
    Ops = {"get"}
    RobinCycle = 1
    Streams = {s1, s2}
    Slots = {}
    MaxInFlight = 2
    Exclusive = FALSE
    QueryIds = {i1, i2}
    Queries = {q1, q2}
SPECIFICATION Spec
INVARIANTS
    QueriesTypeOK
    PendingQueriesExact
    ResultFits
    OnSelectedSource
PROPERTIES
    ImplementsService
SYMMETRY Symmetry
CHECK_DEADLOCK FALSE
