SPECIFICATION FairSpec
CONSTANTS
    MaximumFresh = 5
    RatioNumerator = 1
    RatioDenominator = 2
    MaximumAttempts = 4
    InitialBackoff = 2
    MaximumBackoff = 7
    RetryAfters = {0, 3, 9}
    MaxCapturesPerCycle = 2
    MaximumDay = 2
INVARIANTS
    DatabaseCallsHavePools
    RetriesWait
PROPERTIES
    ProducerStopIsIsolated
    SignalEndsProcess
CHECK_DEADLOCK FALSE
