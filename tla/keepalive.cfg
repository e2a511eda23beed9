\* Answers take just less than the shortest period, the longest is KeepAliveMaxDelay.
CONSTANTS
    Second = 2
    KeepAliveMaxDelay = 4
    PeriodMin = 3
    PeriodMax = 4
    RoundTrip = 2
    SendsInit = {TRUE, FALSE}
    Start <- Accepted
    MaxTime <- End
SPECIFICATION Spec
INVARIANTS TypeOK PromptClientKept SilentDroppedInTime
CHECK_DEADLOCK FALSE
