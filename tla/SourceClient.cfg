\* Three failed attempts end the loop; one name more than there are connections.
CONSTANTS
    c1 = c1
    c2 = c2
    Conns = {c1, c2}
    NoConn = NoConn
    MaxAttempts = 3
SPECIFICATION FairSpec
INVARIANTS ClientTypeOK OneConnection StoppedClean GivesUpOnlyWhenExhausted
PROPERTIES StopReturnsWithoutHub
CHECK_DEADLOCK FALSE
