SPECIFICATION FairSpec
CONSTANTS
    Users = {ann, bob, eve}
    Keys = {1, 2, 3}
    DefaultLimit = 1
    MaxLimit = 2
    Limits = {0, 3}
    MaxWrites = 2
    MaxFailures = 1
INVARIANTS ListingTypeOK NothingMissed NothingRepeated TiesTradePlaces
PROPERTY ListingEnds
\* A listing comes to its end.
CHECK_DEADLOCK FALSE
