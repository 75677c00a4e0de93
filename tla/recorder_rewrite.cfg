SPECIFICATION Spec
CONSTANTS
    None = None
    Calls <- TwoCalls
    Workload <- PairWorkload
    LegacyRows = {}
    MaxAttempts = 2
INVARIANTS
    RepeatedWriteIsIdempotent
CHECK_DEADLOCK FALSE
