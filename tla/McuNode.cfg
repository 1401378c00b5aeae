SPECIFICATION Spec
CONSTANTS
    CommandIdModulus = 4
    TimeModulus = 8
    LinkTimeout = 3
    StopAckDeadline = 1
    HeartbeatPeriod = 2
    MaxLatency = 1
    WindowSize = 1
    Opcodes = {"MOVE", "HEARTBEAT"}
    StopIds = {4, 5}
    MaxRetry = 1
VIEW ClockView
INVARIANTS
    TypeOK
    DependenciesValid
    ExecutionIsWatched
    StopHolds
    AnswersAreTruthful
    BoundedSilence
PROPERTIES
    FaultIsLatched
    MotionNeedsNewCommand
    DeadlinesNotExtended
    StopIsFinal
