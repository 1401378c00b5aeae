SPECIFICATION LinkSpec
CONSTANTS
    CommandIdModulus = 6
    TimeModulus = 4
    LinkTimeout = 1
    StopAckDeadline = 1
    HeartbeatPeriod = 1
    MaxLatency = 0
    WindowSize = 4
    Opcodes = {"MOVE", "HEARTBEAT"}
    StopIds = {6}
    MaxRetry = 0
    MaxCommands = 8
    MaxInFlight = 1
    FirstId = 0
    NoVerdict = NoVerdict
VIEW LinkView
INVARIANTS
    DependenciesValid
    NoFalseConflict
CHECK_DEADLOCK FALSE
