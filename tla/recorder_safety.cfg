SPECIFICATION Spec
CONSTANTS
    None = None
    Calls <- MCCalls
    Workload <- MCWorkload
    LegacyRows <- MCLegacyRows
    MaxAttempts = 2
INVARIANTS
    TypeOK
    ChainIntact
    VerifierAgrees
    AcceptedIsDurable
    FailureReportTruthful
    NoForeignKeyViolation
PROPERTIES
    ChainGrowsAtHead
    ImplementsActivityLog
CHECK_DEADLOCK FALSE
