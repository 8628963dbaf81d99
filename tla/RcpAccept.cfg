CONSTANTS
    ConveyerIds = {scm_sql}
    RobotIds = {keg_robot}
    PlainIds = {pjw_and}
    StrangerIds = {stranger}
    TokenRow = pjw_and
    Answers = {"cut"}
    MaxFd = 4
    MqMaxMsg = 1
    Left = {0}
    MaxConn = 2
    MaxLines = 1
    MaxRestarts = 0
SPECIFICATION SteadySpec
PROPERTY ConnectionsAccepted
CHECK_DEADLOCK FALSE
