CONSTANTS
    Place <- mcPlace
    Pos <- mcPos
    Home <- mcHome
    GripHome = 1
    GripEnd = 2
    MOTOR_MOVE = 1
    GRIP_MOVE = 3
    GripPlace = "grip"
    ColorPlace <- mcColorPlace
    NoColor = 0
    Cap = 5
    AtLimit = 4
    StrCells = 3
    MaxEvents = 2
SPECIFICATION FairSpec
INVARIANT TypeOK
INVARIANT CopyFindsMessage
PROPERTY JointsMoveGently
PROPERTY ArmRefined
PROPERTY ListensAgain
PROPERTY OfferedTaken
CHECK_DEADLOCK FALSE
