SPECIFICATION NetFairSpec
CONSTANTS
    ThreadNum = 2
    Creators = {u1, u2}
    IndexMod = 4
    MaxConns = 3
INVARIANTS
    ThreadsAgree
    
PROPERTIES
    EveryLoopTurns
