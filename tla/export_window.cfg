SPECIFICATION ExportSpec
CONSTANTS
    None = None
    Calls <- TwoCalls
    Workload <- TwoWriters
    LegacyRows = {}
    MaxAttempts = 1
    Exports = {"e"}
    ExportRequests <- WindowRequests
    OccurredAt <- MCOccurredAt
    MaxPurges = 0
INVARIANTS
    EveryExportVerifies
CHECK_DEADLOCK FALSE
