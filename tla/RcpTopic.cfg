CONSTANTS
    ConveyerIds = {scm_sql}
    RobotIds = {keg_robot}
    PlainIds = {pjw_and}
    StrangerIds = {stranger}
    TokenRow = pjw_and
    Answers = {"READY", "cut"}
    MaxFd = 4
    MqMaxMsg = 2
    Left = {1}
    MaxConn = 2
    MaxLines = 3
    MaxRestarts = 1
SPECIFICATION Spec
INVARIANT TypeOK
INVARIANT OneCommandOutstanding
INVARIANT SlotsDenoteTheirWorkers
PROPERTY TopicRefined
CHECK_DEADLOCK FALSE
