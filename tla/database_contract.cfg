SPECIFICATION ContractSpec
CONSTANTS
    None = None
    Tables <- MCTables
    SchemaOf <- MCSchemaOf
    Contracts <- MCContracts
    Sessions = {a, b}
    Environments <- MCEnvironments
    MaxRuns = 3
INVARIANTS
    ContractTypeOK
    AppStaysDml
    VerifiedIsAlterable
PROPERTIES
    CompletedRunConforms
    RefusedOnlyAtRuntimeTables
SYMMETRY SessionSymmetry
CHECK_DEADLOCK FALSE
