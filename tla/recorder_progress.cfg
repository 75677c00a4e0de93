SPECIFICATION ProgressSpec
CONSTANTS
    None = None
    Calls <- FourCalls
    Workload <- ProgressWorkload
    LegacyRows = {}
    MaxAttempts = 2
INVARIANTS
    ContentionBound
PROPERTIES
    HangsOnlyUntimed
    EveryCallReturns
CHECK_DEADLOCK FALSE
