CONSTANTS
    Keys = {1, 2, 7}
    Threads = {t1, t2}
    Samples = {12}
    MaxPresses = 3
    MaxSessions = 2
SPECIFICATION Spec
PROPERTY CleanDestroys
CHECK_DEADLOCK FALSE
