SPECIFICATION LinkSpec
CONSTANTS
    CommandIdModulus = 6
    TimeModulus = 4
    LinkTimeout = 1
    StopAckDeadline = 1
    HeartbeatPeriod = 1
    MaxLatency = 0
    WindowSize = 2
    Opcodes = {"MOVE", "HEARTBEAT"}
    StopIds = {6}
    MaxRetry = 1
    MaxCommands = 5
    MaxInFlight = 2
    FirstId = 3
    NoVerdict = NoVerdict
VIEW LinkView
INVARIANTS
    AnswersAgree
    RefusalIsJustified
PROPERTIES
    AtMostOnce
CHECK_DEADLOCK FALSE
