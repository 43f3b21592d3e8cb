\* One source that reconnects: it never has two open streams.
CONSTANTS
    n1 = n1
    s1 = s1
    s2 = s2
    Names = {n1}
    Labels = {"users"}
    Ops = {"get"}
    RobinCycle = 1
    Streams = {s1, s2}
    Slots = {1}
    MaxInFlight = 1
    QueryIds = {}
    Exclusive = TRUE
SPECIFICATION SessionsSpec
INVARIANT AckFirst
CHECK_DEADLOCK FALSE
