SPECIFICATION Spec
CONSTANTS
    CommandIds = {1, 2}
    StopIdCount = 3
    FirstRetries = {0}
    RetryMax = 1
    AckRetryBudget = 1
    StopRetryBudget = 0
    BackpressureBudget = 1
    QueueCapacity = 1
    CorrelationCapacity = 2
    Recoverers = {r1}
    None = None
INVARIANTS
    TypeOK
    StopInHand
    DownIsEmpty
    UnansweredIsRemembered
PROPERTIES
    StoppedStaysStopped
    ShutdownSilences
\* After shutdown the bus is silent for good.
CHECK_DEADLOCK FALSE
