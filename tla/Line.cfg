CONSTANTS
    Colour = {red}
    MaxRow = 2
    MaxInbox = 2
    MaxRestarts = 1
    MaxSensed = 3
    MaxFaults = 1
    MaxPrompts = 2
SPECIFICATION LineSpec
INVARIANT LineTypeOK
INVARIANT OrdersPaid
INVARIANT PlacedInOrder
INVARIANT IInv
PROPERTY DispatchRefined
CHECK_DEADLOCK FALSE
