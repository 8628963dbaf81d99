CONSTANTS
    Colour = {red}
    MaxRow = 2
    MaxInbox = 2
    MaxRestarts = 0
    MaxSensed = 3
    MaxFaults = 0
    MaxPrompts = 0
SPECIFICATION FairSpec
PROPERTY DetectedOrdered
CHECK_DEADLOCK FALSE
