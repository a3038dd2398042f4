CONSTANTS
    Fields = {lock, server}
    Server = server
    MaxIds = 3
    MaxNi = 1
    MaxFaces = 2
    MaxValue = 1
    MaxCalls = 4
SPECIFICATION ClientSpec
INVARIANTS AnswersFit SessionsAgree ControlAgrees
CHECK_DEADLOCK FALSE
