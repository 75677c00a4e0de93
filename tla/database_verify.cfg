SPECIFICATION ContractSpec
CONSTANTS
    None = None
    Tables <- MCTables
    SchemaOf <- MCSchemaOf
    Contracts <- ServiceContracts
    Sessions = {a, b}
    Environments <- MCEnvironments
    MaxRuns = 3
INVARIANTS
    VerifyFailsClosed
SYMMETRY SessionSymmetry
CHECK_DEADLOCK FALSE
