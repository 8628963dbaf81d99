CONSTANTS
    NRows = 2
    MAX_CLNT = 2
    CharSize = 4
    ClientIds = {1, 2}
    MaxFd = 3
    MaxConn = 2
    MaxSay = 2
SPECIFICATION Spec
INVARIANT MailTrue
CHECK_DEADLOCK FALSE
