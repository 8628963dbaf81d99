CONSTANTS
    NRows = 2
    MAX_CLNT = 2
    CharSize = 4
    ClientIds = {1, 2}
    MaxFd = 3
    MaxConn = 3
    MaxSay = 1
SPECIFICATION Spec
INVARIANT TypeOK
INVARIANT CountsThreads
INVARIANT IInv
INVARIANT RowsDenoteTheirClients
PROPERTY MailAddressed
CHECK_DEADLOCK FALSE
