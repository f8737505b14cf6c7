SPECIFICATION FairSpec
CONSTANTS
    MaxRequests = 3
    Timed = {1, 2}
    ConnectTimeout = TRUE
INVARIANTS
    OwnResponse
    TimersAgree
PROPERTIES
    ToldOnce
    UserIsTold
CHECK_DEADLOCK FALSE
