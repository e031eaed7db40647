SPECIFICATION WorkSpec
CONSTANTS
    Vertices <- MCVertices
    Ids <- MCIds
    Dependency <- MCDependency
    Kinds <- MCKinds
    Graphs <- MCGraphs
    Queries <- MCQueries
    MaxInfix = 1
    MaxSet = 1
    Texts <- AllTexts
    AlsoNames <- NoNames
INVARIANTS
    CompleteIsExact
    PartialIsSound
    LimitsBite
    ScanIsSound
    NeverUndercounts
CHECK_DEADLOCK FALSE
