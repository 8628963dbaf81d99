CONSTANTS
    Keys = {1, 2, 7}
    Threads = {t1, t2}
    Samples = {12}
    MaxPresses = 3
    MaxSessions = 2
SPECIFICATION FairSpec
INVARIANT TypeOK
INVARIANT ReadNeverBlocks
INVARIANT HandlerOfMode
PROPERTY KeyServed
PROPERTY LevelShown
CHECK_DEADLOCK FALSE
