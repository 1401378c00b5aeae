SPECIFICATION Spec
CONSTANTS
    CommandIdModulus = 4
    TimeModulus = 4
    LinkTimeout = 1
    StopAckDeadline = 1
    HeartbeatPeriod = 1
    MaxLatency = 0
    WindowSize = 1
    Opcodes = {"MOVE"}
    StopIds = {4}
    MaxRetry = 0
PROPERTIES
    StopIsSettled
    FaultStarvesHardware
