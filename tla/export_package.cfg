SPECIFICATION ExportSpec
CONSTANTS
    None = None
    Calls <- TwoCalls
    Workload <- MCExportWorkload
    LegacyRows <- MCLegacyRows
    MaxAttempts = 1
    Exports = {"e"}
    ExportRequests <- MCExportRequests
    OccurredAt <- MCOccurredAt
    MaxPurges = 1
INVARIANTS
    ExportTypeOK
    WholeChainExportVerifies
    PackageCoherent
    CompleteAsOfStart
    SurvivorRevealsDeletion
CHECK_DEADLOCK FALSE
