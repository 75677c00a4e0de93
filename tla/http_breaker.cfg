SPECIFICATION FairSpec
CONSTANTS
    Senders <- MCSenders
    max_retries = 1
    failure_threshold = 2
    MaxFailures = 4
INVARIANTS
    TypeOK
    StateMatchesCount
    OpenedByWholeRequests
PROPERTIES
    ClosesAfterRecovery
CHECK_DEADLOCK FALSE
