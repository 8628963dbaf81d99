CONSTANTS
    BufSize = 3
    MaxSensed = 3
    MaxTold = 2
SPECIFICATION FairSpec
INVARIANT TypeOK
INVARIANT EveryLineOnItsWay
PROPERTY EndsWithEither
CHECK_DEADLOCK FALSE
