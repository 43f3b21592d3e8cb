\* A hub that answers every attempt and keeps every stream.
CONSTANTS
    c1 = c1
    Conns = {c1}
    NoConn = NoConn
    MaxAttempts = 3
SPECIFICATION FairSpec
PROPERTY StopEnds
CHECK_DEADLOCK FALSE
