SPECIFICATION LineageSpec
CONSTANTS
    None = None
    Outside = Outside
    Services = {"a", "b"}
    Secret <- MCSecret
    KnownTypes <- MCKnownTypes
    DefaultType <- MCDefaultType
    Ids <- MCIds
    Actors = {"user"}
    Projects = {"p"}
    RouteProjects = {"p", "q"}
    Ttls = {1, 2}
    MaxDelegatedTtl = 1
    MaxNow = 1
    MaxWire = 1
INVARIANTS
    LineageTypeOK
    ParentIsCaller
    OutsideValuesStayOutside
    VerifiedEdge
    DelegationBounded
CHECK_DEADLOCK FALSE
