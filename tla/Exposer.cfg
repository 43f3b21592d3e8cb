\* Three requests, one more than the histogram remembers, and one metrics page at
\* a time.
CONSTANTS
    r1 = r1
    r2 = r2
    r3 = r3
    Requests = {r1, r2, r3}
    Labels = {"users", "payments"}
    Ops = {"get", "list"}
    permissions <- MCPermissions
    Wants <- MCWants
    exposer = "api"
    MaxSize = 2
    Durations = {1, 2}
    Shares = {0, 50, 99, 100}
SYMMETRY Symmetry
SPECIFICATION Spec
INVARIANTS ExposerTypeOK RequestsAccounted PageConsistent OnlyGranted QuantileRank
PROPERTIES ImplementsService WindowExact
CHECK_DEADLOCK FALSE
