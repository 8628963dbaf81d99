CONSTANTS
    ConveyerIds = {scm_sql}
    RobotIds = {keg_robot}
    PlainIds = {pjw_and}
    StrangerIds = {stranger}
    TokenRow = pjw_and
    Answers = {"cut"}
    MaxFd = 4
    MqMaxMsg = 1
    Left = {0}
    MaxConn = 2
    MaxLines = 0
    MaxRestarts = 0
SPECIFICATION Spec
INVARIANT OneSessionPerDevice
CHECK_DEADLOCK FALSE
