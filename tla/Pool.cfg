SPECIFICATION FairSpec
CONSTANTS
    Workers = {w1, w2, w3}
    Tasks = {t1, t2, t3}
    None = None
INVARIANTS
    TypeOK
    RunsOnce
    StopDrains
    NoLostWakeup
PROPERTIES
    StopTerminates
    OwedIsDone
