SPECIFICATION AuditSpec
CONSTANTS
    None = None
    Requests <- MCRequests
    Jobs <- MCJobs
    Events <- MCEvents
    Owner <- MCOwner
    Projects <- MCProjects
    Calls <- MCCalls
    Workload = {}
    LegacyRows = {}
    MaxAttempts = 1
INVARIANTS
    AuditFailuresReported
CHECK_DEADLOCK FALSE
