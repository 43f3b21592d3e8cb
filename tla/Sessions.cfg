\* Three streams that may use the same name at the same time, under two labels.
CONSTANTS
    n1 = n1
    s1 = s1
    s2 = s2
    s3 = s3
    Names = {n1}
    Labels = {"users", "orders"}
    Ops = {"get"}
    RobinCycle = 1
    Streams = {s1, s2, s3}
    Slots = {1}
    MaxInFlight = 1
    QueryIds = {}
    Exclusive = FALSE
SPECIFICATION SessionsSpec
INVARIANTS
    SessionsTypeOK
    LabelIndex
    OneOwner
    ActiveStreamsLive
    ConnectedGauge
SYMMETRY Symmetry
CHECK_DEADLOCK FALSE
