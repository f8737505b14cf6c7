SPECIFICATION FairSpec
CONSTANTS
    Items = {i1, i2}
    Users = {u1}
    Timeouts <- MCTimeouts
    MaxTime = 3
INVARIANTS
    PlacesAgree
PROPERTIES
    FiresInItsTurn
    PendingFires
CHECK_DEADLOCK FALSE
