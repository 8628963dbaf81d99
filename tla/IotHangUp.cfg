CONSTANTS
    NRows = 2
    MAX_CLNT = 2
    CharSize = 4
    ClientIds = {0, 1, 2}
    MaxFd = 3
    MaxConn = 3
    MaxSay = 0
SPECIFICATION FairSpec
PROPERTY HungUpLoggedOut
CHECK_DEADLOCK FALSE
