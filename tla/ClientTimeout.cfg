SPECIFICATION FairSpec
CONSTANTS
    MaxRequests = 2
    Timed = {1}
    ConnectTimeout = FALSE
PROPERTIES
    AsyncReturns
CHECK_DEADLOCK FALSE
