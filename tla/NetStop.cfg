SPECIFICATION NetFairSpec
CONSTANTS
    ThreadNum = 2
    Creators = {}
    IndexMod = 2
    MaxConns = 1
PROPERTIES StopEnds
