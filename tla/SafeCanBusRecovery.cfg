SPECIFICATION Spec
CONSTANTS
    CommandIds = {1, 2}
    StopIdCount = 3
    FirstRetries = {0}
    RetryMax = 1
    AckRetryBudget = 0
    StopRetryBudget = 0
    BackpressureBudget = 0
    QueueCapacity = 1
    CorrelationCapacity = 2
    Recoverers = {r1}
    None = None
PROPERTIES
    RecoveryClearsCorrelation
\* After shutdown the bus is silent for good.
CHECK_DEADLOCK FALSE
