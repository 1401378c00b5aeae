SPECIFICATION Spec
CONSTANTS
    CommandIds = {1, 2}
    StopIdCount = 2
    FirstRetries = {0}
    RetryMax = 1
    AckRetryBudget = 1
    StopRetryBudget = 1
    BackpressureBudget = 1
    QueueCapacity = 1
    CorrelationCapacity = 1
    Recoverers = {r1}
    None = None
INVARIANTS
    InFlightIsSingle
PROPERTIES
    StopIsResolved
    CommandIsResolved
\* After shutdown the bus is silent for good.
CHECK_DEADLOCK FALSE
