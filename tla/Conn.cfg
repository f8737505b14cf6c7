SPECIFICATION FairSpec
CONSTANTS
    MaxRequests = 4
    Units = 2
    SerialMod = 8
    Timers = {"keepalive", "idle"}
    Unencodable = {3}
    Duplicates = FALSE
    Destroys = TRUE
INVARIANTS
    TypeOK
    ResponsesInOrder
    EveryReplyHasItsPlace
    NoByteLost
    ConnectedHasSocket
    KeepAliveBetweenCalls
PROPERTIES
    StreamSpec
    ConnectionServes
CHECK_DEADLOCK FALSE
